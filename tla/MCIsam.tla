------------------------------- MODULE MCIsam -------------------------------
(***************************************************************************)
(* Two clients of a C-ISAM file; each changes records of its own.  In the  *)
(* first part of the run they only change records, one of them may end in  *)
(* a call, and indexes come and go.  In the others the first client also   *)
(* reads: one record each and more calls, or two records it can swap.  In  *)
(* the last two a client uses the file through the server (Serve), and the *)
(* clients build, open, erase and rename C-ISAM files (IsamDir).           *)
(***************************************************************************)
EXTENDS Isam, TLC

VARIABLES records, isamfd, startsearch, p1, inp, out, sent, due,
          dir, lists, opens, script, doing, held, erasing, parted, part

MCOwn      == [c \in Client |-> IF c = "c1" THEN {1, 3} ELSE {2}]
MCOne      == [c \in Client |-> IF c = "c1" THEN {1} ELSE {2}]
MCMaxCalls == [c \in Client |-> IF c = "c1" THEN 2 ELSE 1]
MCTwo      == [c \in Client |-> 2]
MCChain    == <<"m", "d", "s", "n">>

Reads == INSTANCE Isam WITH
  Chain <- <<"m", "d">>, S <- {1}, D <- {1, 2}, Reading <- {"c1"}, ByNumber <- {},
  MaxNum <- 0, Dies <- FALSE, Admin <- FALSE, Own <- MCOne, MaxCalls <- MCTwo
Moves == INSTANCE Isam WITH
  Chain <- <<"m", "d">>, S <- {1}, D <- {1, 2}, Reading <- {"c1"}, ByNumber <- {},
  MaxNum <- 0, Dies <- FALSE, Admin <- FALSE

Ask(fxn, mode, len, p) == [fxn |-> fxn, fd |-> 0, mode |-> mode, len |-> len, recnum |-> 0,
                              p1 |-> p, p2 |-> <<>>]
MCRequests ==
  {Ask(fxn, "", 0, <<>>) : fxn \in {"ISOPEN", "ISCLOSE"}}
    \cup {Ask("ISSTART", mode, 0, <<2, 2>>) : mode \in {"GTEQ", "GREAT", "LAST"}}
    \cup {[Ask("ISSETRANGE", "", 0, <<1, 2, 0>>) EXCEPT !.p2 = <<2, 3, 0>>],
          [Ask("ISSETRANGE", "", 0, <<2, 1, 0>>) EXCEPT !.p2 = <<3, 1, 0>>],
          [Ask("ISSETRANGE", "", 0, <<>>) EXCEPT !.p2 = <<3, 1, 0>>],
          [Ask("ISREAD", "NEXT", 0, <<>>) EXCEPT !.fd = 1]}
    \cup {Ask("ISREAD", mode, 2, <<>>) : mode \in {"FIRST", "NEXT"}}
    \cup {Ask("ISREADREC", mode, 5, <<>>) : mode \in {"LAST", "PREV"}}
    \cup {Ask("ISREAD", mode, 0, <<2, 1>>) : mode \in {"EQUAL", "LTEQ"}}
    \cup {Ask("ISREADREC", mode, 2, <<2, 1, 0, 7>>) : mode \in {"LESS", "GREAT"}}
    \cup {Ask("ISWRITE", "", 0, rec) : rec \in {<<2, 2, 5>>, <<1, 3, 5>>}}
    \cup {Ask("ISREWRITE", "", 0, <<2, 1, 6>>), Ask("ISDELETE", "", 0, <<1, 3, 0>>)}
MCRecords == {{<<1, 2, 0, 1>>, <<1, 3, 0, 2>>, <<2, 1, 0, 3>>, <<2, 4, 0, 4>>, <<3, 1, 0, 5>>, <<3, 2, 0, 6>>}}
Serves == INSTANCE Serve WITH
  file <- records, Files <- MCRecords, Requests <- MCRequests, Fds <- 2, MaxRlen <- 6,
  Short <- FALSE, MaxReq <- 4, MaxAhead <- 4

serveVars == <<records, isamfd, startsearch, p1, inp, out, sent, due>>
NoServe == /\ records = {} /\ isamfd = <<>> /\ startsearch = 0 /\ p1 = <<>>
           /\ inp = <<>> /\ out = <<>> /\ sent = 0 /\ due = <<>>

(* Directories: one client builds and erases a file, without and with      *)
(* record numbers, or one that is a master alone, which may be put off and  *)
(* tried again, and another opens it; a file with its record numbers and a  *)
(* key file that is missing, erased while others open it; files renamed to  *)
(* and fro while another opens either name.                                 *)
OpensOf(b)  == {<<"open", b, "shared">>, <<"open", b, "excl">>, <<"close", b, "">>}
ErasesOf(b) == {<<"erase", b, "">>, <<"cleanup", b, "">>}
BuildsOf(b, kind) == {<<"build", b, kind>>, <<"erase", b, "">>, <<"open", b, "shared">>, <<"close", b, "">>}
Renames == {<<"rename", "a", "b">>, <<"rename", "b", "a">>}
MCBuilt == [dir |-> (<<"a", ".idx">> :> 1) @@ (<<"a", "">> :> 2) @@ (<<"a", ".num">> :> 3),
            lists |-> (1 :> {<<"a", "">>, <<"a", ".num">>, <<"a", ".key">>}) @@ (2 :> {}) @@ (3 :> {})]
Began(d, c1, c2) == [dir |-> d.dir, lists |-> d.lists, script |-> [c1 |-> c1, c2 |-> c2]]
Empty == [dir |-> <<>>, lists |-> <<>>]
MCStarts ==
  {Began(Empty, BuildsOf("a", "ctl") \cup OpensOf("a") \cup ErasesOf("a"), OpensOf("a")),
   Began(Empty, BuildsOf("a", "num") \cup ErasesOf("a"), OpensOf("a")),
   Began(Empty, BuildsOf("a", "bare") \cup OpensOf("a") \cup ErasesOf("a"), OpensOf("a")),
   Began(MCBuilt, OpensOf("a") \cup {<<"erase", "a", "">>}, OpensOf("a")),
   Began(MCBuilt, Renames, OpensOf("a") \cup OpensOf("b"))}
    \cup {Began(Empty, BuildsOf("a", kind) \cup BuildsOf("b", kind) \cup Renames, {<<"build", "c", "ctl">>})
             : kind \in {"num", "bare"}}
Dirs == INSTANCE IsamDir WITH Starts <- MCStarts, MaxFile <- 7, MaxCalls <- 4, call <- doing

dirVars == <<dir, lists, opens, script, doing, held, erasing, parted>>
NoDir == /\ dir = <<>> /\ lists = <<>> /\ opens = <<>> /\ script = <<>>
         /\ doing = <<>> /\ held = <<>> /\ erasing = <<>> /\ parted = {}

MCInit == \/ part = "changes" /\ Init /\ NoServe /\ NoDir
          \/ part = "reads" /\ Reads!Init /\ NoServe /\ NoDir
          \/ part = "moves" /\ Moves!Init /\ NoServe /\ NoDir
          \/ part = "serves" /\ Init /\ Serves!ServeInit /\ NoDir
          \/ part = "dirs" /\ Init /\ NoServe /\ Dirs!DirInit
MCNext == /\ \/ part = "changes" /\ Next /\ UNCHANGED <<serveVars, dirVars>>
             \/ part = "reads" /\ Reads!Next /\ UNCHANGED <<serveVars, dirVars>>
             \/ part = "moves" /\ Moves!Next /\ UNCHANGED <<serveVars, dirVars>>
             \/ part = "serves" /\ Serves!ServeNext /\ UNCHANGED <<vars, dirVars>>
             \/ part = "dirs" /\ Dirs!DirNext /\ UNCHANGED <<vars, serveVars>>
          /\ UNCHANGED part
MCSpec == MCInit /\ [][MCNext]_<<vars, serveVars, dirVars, part>>

(* FilesTogether of IsamDir.                                                *)
FilesTogether == part = "dirs" => Dirs!FilesTogether

(* ServedRight of Serve.                                                    *)
ServedRight == part = "serves" => Serves!ServedRight
=============================================================================
