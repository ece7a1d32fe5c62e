------------------------------- MODULE Archive -------------------------------
(***************************************************************************)
(* Archives of files (util/archive.c, util/btar.c): btar_add writes the    *)
(* files a walk visits, btar_load reads them again and extracts or skips   *)
(* each.                                                                   *)
(*                                                                         *)
(* The archive is a sequence of items, counted where the code counts       *)
(* bytes: headers, data records compressed against the one before, ends.   *)
(* A name is its path; a directory has no records in an archive.           *)
(***************************************************************************)
EXTENDS Integers, SequencesExt, Functions

CONSTANTS
  Source,      \* what the walk visits, in order: name (each once), whether a directory, its records
  Existing,    \* what may be there already when the archive is extracted
  Reforms      \* what b2urec and u2brec may make of a record for the file it is added to

VARIABLES
  opt,         \* the options given: seekable, dironly, what to extract, fields, replace;
               \* what was there before, and what converting makes of a record
  file,        \* the archive
  done,        \* files archived
  lastpath,    \* the directory of the last file, and where its header is
  stops,       \* the read error in the middle of a file: which, after how many records
  cancel,      \* an interrupt has been seen
  at,          \* where the reader is, 0 while the archive is written
  prefix,      \* the directory of the files that follow
  target       \* the filesystem extracted to: per name whether a directory, and records

vars == <<opt, file, done, lastpath, stops, cancel, at, prefix, target>>

DirOf(name) == Front(name)
Header(magic, name) == [magic |-> magic, name |-> name, isdir |-> FALSE, next |-> 0]
Eof == [magic |-> "eof"]

-----------------------------------------------------------------------------
(* Writing.                                                                 *)

\* blkcmp: the bytes a record shares with the one before.
Common(a, b) ==
  CHOOSE n \in 0..Len(a) :
    /\ n <= Len(b) /\ SubSeq(a, 1, n) = SubSeq(b, 1, n)
    /\ n < Len(a) /\ n < Len(b) => a[n + 1] # b[n + 1]

\* putdata; nothing precedes the first record of a file.
Data(recs, i) ==
  LET dup == IF i = 1 THEN 0 ELSE Common(recs[i], recs[i - 1])
  IN  [magic |-> "data", dup |-> dup, data |-> SubSeq(recs[i], dup + 1, Len(recs[i]))]

\* Seeded fault: directories with names of one length are taken for the same.
MovedByLength(name) ==
  IF Len(DirOf(name)) = Len(lastpath.name) THEN file ELSE Append(file, Header("chdir", DirOf(name)))

\* A chdir header when the directory is another than that of the file before;
\* the one before it is linked to it.
Moved(name) ==
  IF DirOf(name) = lastpath.name THEN file
  ELSE Append(IF lastpath.pos > 0 /\ opt.seekable
              THEN [file EXCEPT ![lastpath.pos].next = Len(file) + 1] ELSE file,
              Header("chdir", DirOf(name)))

\* The header of a file, once its n records are written.
Written(out, s, n) ==
  [Header("file", s.name) EXCEPT !.isdir = s.isdir,
     !.next = IF opt.seekable THEN Len(out) + 1 + n + 2 ELSE 0]

(* arcone.  An error while the file is read ends its records there.         *)
Arcone ==
  /\ at = 0 /\ done < Len(Source) /\ ~cancel
  /\ LET s == Source[done + 1]
         out == Moved(s.name)
         n == IF s.isdir \/ opt.dironly THEN 0
              ELSE IF stops.file = done + 1 THEN stops.after ELSE Len(s.recs)
     IN  /\ file' = out \o <<Written(out, s, n)>> \o [i \in 1..n |-> Data(s.recs, i)] \o <<Eof>>
         /\ lastpath' = IF DirOf(s.name) = lastpath.name THEN lastpath
                        ELSE [name |-> DirOf(s.name), pos |-> Len(out)]
  /\ done' = done + 1
  /\ UNCHANGED <<opt, stops, cancel, at, prefix, target>>

(* btar_close.                                                              *)
CloseArchive ==
  /\ at = 0 /\ (done = Len(Source) \/ cancel)
  /\ file' = Append(file, Eof)
  /\ at' = 1 /\ cancel' = FALSE
  /\ UNCHANGED <<opt, done, lastpath, stops, prefix, target>>

-----------------------------------------------------------------------------
(* Reading.                                                                 *)

Reading(magic) == at > 0 /\ ~cancel /\ file[at].magic = magic
Ends(i) == CHOOSE e \in i..Len(file) : file[e].magic = "eof" /\ \A k \in i..(e - 1) : file[k].magic = "data"

ReadChdir ==
  /\ Reading("chdir")
  /\ prefix' = file[at].name /\ at' = at + 1
  /\ UNCHANGED <<opt, file, done, lastpath, stops, cancel, target>>

\* getdata: the first bytes are still in the buffer, which is that of the
\* record just added to the file.
Rebuilt(i, convert) ==
  LET f[k \in at..(Ends(at + 1) - 1)] ==
        IF k = at THEN [buf |-> <<>>, recs |-> <<>>]
        ELSE LET r == SubSeq(f[k - 1].buf, 1, file[k].dup) \o file[k].data
                 new == IF convert THEN opt.reform[r] ELSE r
             IN  [buf |-> new, recs |-> Append(f[k - 1].recs, new)]
  IN  f[i]

\* The records already there that a new one is a duplicate of: those with its
\* key, the first byte, or with all its bytes when the key is the record.
Dups(old, r) == {o \in old : IF opt.fields THEN o[1] = r[1] ELSE IsPrefix(r, o)}
Added(old, r) ==
  IF Dups(old, r) = {} \/ opt.replace THEN (old \ Dups(old, r)) \cup {r} ELSE old
Merged(old, recs) == FoldLeft(Added, old, recs)

\* btmkdirp: the directory, and those it is in.
WithDirectory(t, d) ==
  LET made == {SubSeq(d, 1, n) : n \in 1..Len(d)} \ DOMAIN t
  IN  [x \in made \cup DOMAIN t |-> IF x \in made THEN [isdir |-> TRUE, recs |-> {}] ELSE t[x]]

\* btar_extractx, as it changes the filesystem t.
Extracted(t, name, h) ==
  LET old    == WithDirectory(t, DirOf(name))
      there  == name \in DOMAIN old /\ ~(opt.replace /\ ~opt.fields /\ ~h.isdir /\ ~old[name].isdir)
      recs   == Rebuilt(Ends(at + 1) - 1, there /\ opt.fields).recs
      new    == IF ~there THEN [isdir |-> h.isdir, recs |-> Range(recs)]
                ELSE [old[name] EXCEPT !.recs = Merged(@, recs)]
  IN  [x \in DOMAIN old \cup {name} |-> IF x = name THEN new ELSE old[x]]

Wanted(name) == name \in opt.list

Extract ==
  /\ Reading("file") /\ Wanted(file[at].name)
  /\ target' = Extracted(target, Append(prefix, Last(file[at].name)), file[at])
  /\ at' = Ends(at + 1) + 1
  /\ UNCHANGED <<opt, file, done, lastpath, stops, cancel, prefix>>

(* btar_skip: to where the header says, or through the records.             *)
Skip ==
  /\ Reading("file") /\ ~Wanted(file[at].name)
  /\ at' = IF file[at].next > 0 THEN file[at].next ELSE Ends(at + 1) + 1
  /\ UNCHANGED <<opt, file, done, lastpath, stops, cancel, prefix, target>>

(* SIGINT: looked at before a file is archived and after one is read.       *)
Interrupt ==
  /\ ~cancel /\ cancel' = TRUE
  /\ UNCHANGED <<opt, file, done, lastpath, stops, at, prefix, target>>

-----------------------------------------------------------------------------
ArchiveInit ==
  /\ opt \in [seekable: BOOLEAN, dironly: BOOLEAN, fields: BOOLEAN, replace: BOOLEAN,
              list: SUBSET {Source[i].name : i \in DOMAIN Source}, before: Existing, reform: Reforms]
  /\ file = <<>> /\ done = 0
  /\ lastpath = [name |-> <<>>, pos |-> 0]
  /\ stops \in {[file |-> i, after |-> 1] : i \in 0..Len(Source)}
  /\ cancel = FALSE /\ at = 0 /\ prefix = <<>>
  /\ target = opt.before

ArchiveNext == Arcone \/ CloseArchive \/ ReadChdir \/ Extract \/ Skip \/ Interrupt

ArchiveSpec == ArchiveInit /\ [][ArchiveNext]_vars

-----------------------------------------------------------------------------
\* The records of a file that got into the archive.
Archived(i) ==
  IF opt.dironly \/ Source[i].isdir THEN <<>>
  ELSE IF stops.file = i THEN SubSeq(Source[i].recs, 1, Min({stops.after, Len(Source[i].recs)}))
  ELSE Source[i].recs

There(i) == Source[i].name \in DOMAIN opt.before
Before(i) == IF There(i) THEN opt.before[Source[i].name].recs ELSE {}
Converted(i) == There(i) /\ opt.fields

\* What file i is to hold: replaced when that was asked for, added to as it was.
Due(i) ==
  IF ~There(i) \/ (opt.replace /\ ~opt.fields) THEN Range(Archived(i))
  ELSE Merged(Before(i), IF opt.fields THEN [k \in DOMAIN Archived(i) |-> opt.reform[Archived(i)[k]]]
                         ELSE Archived(i))

\* Converting a record leaves the bytes that the next one has in common with it.
SharedKept(i) ==
  \A k \in 2..Len(Archived(i)) :
    LET r == Archived(i)[k - 1]
    IN  IsPrefix(SubSeq(r, 1, Common(Archived(i)[k], r)), opt.reform[r])

(* "read archive, extract files" (btar.c): wherever the archive was cut     *)
(* short and whatever was skipped by its length or record by record, a file *)
(* asked for holds, once the reader is past it, what was archived of it     *)
(* added to or in the place of what was there; no other file is changed,    *)
(* and the reader ends where the archive does.  The exception is a file     *)
(* whose records are converted in bytes that the next has in common with    *)
(* them: that one is rebuilt from the converted bytes.  Then only what was  *)
(* there before is kept, unless it was to be replaced.                      *)
Restored ==
  at > 0 =>
    /\ Reading("eof") => at = Len(file)
    /\ \A i \in 1..done :
         LET name == Source[i].name
             here == {k \in 1..Len(file) : file[k].magic = "file" /\ file[k].name = name}
         IN  IF name \in opt.list /\ here \subseteq 1..(at - 1)
             THEN /\ name \in DOMAIN target
                  /\ ~Source[i].isdir =>
                       IF Converted(i) => SharedKept(i) THEN target[name].recs = Due(i)
                       ELSE opt.replace \/ Before(i) \subseteq target[name].recs
             ELSE \/ name \notin DOMAIN target
                  \/ Source[i].isdir
                  \/ There(i) /\ target[name] = opt.before[name]
=============================================================================
