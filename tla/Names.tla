-------------------------------- MODULE Names --------------------------------
(***************************************************************************)
(* How the client library finds files by name (lib/btopen.c, btchdir.c,    *)
(* btpathopt.c, pathopt.c, findfile.c, match.c): paths through symbolic    *)
(* links, the current directory and its path, names that match a pattern.  *)
(*                                                                         *)
(* The directories stand still.  A path is a sequence of names, with a     *)
(* flag for those from the root; names in paths are one byte long, so that *)
(* the pointer arithmetic of btopenf counts in names.  For the patterns    *)
(* names are sequences of bytes, in a record that goes on after the NUL.   *)
(***************************************************************************)
EXTENDS Integers, SequencesExt, Lex

CONSTANTS
  Tree,        \* of each directory the record of each name: root and, of a symbolic link, text
  Top,         \* the root directory
  Pathnames,   \* paths given by users
  Pattern,     \* patterns given by users, as sequences of tokens
  Entries,     \* names in the directory that is searched
  Beyond,      \* the bytes after the NUL of a name in its record, the last one 0
  MaxChange    \* bound: btchdirs of a process

VARIABLES
  cwd,         \* btasdir: the directory open as the current one
  text,        \* its path in BTASDIR
  changes,     \* btchdirs done
  ff           \* struct btff: the pattern, the name it is at, the names it has returned

vars == <<cwd, text, changes, ff>>

\* "a link to a 0 root is a symlink" (btfile.c)
IsSymlink(e) == e.root = 0
Up == ".."
Here == "."

-----------------------------------------------------------------------------
(* btopenf.  The server follows a path as far as the first symbolic link,   *)
(* and says how much of it is left; btopenf puts the text of the link       *)
(* before what is left and asks again.                                      *)

\* Seeded fault: a link is followed from where the path began.
AskFromStart(start, path) ==
  FoldLeft(LAMBDA a, x :
      IF a.end # "opened" THEN a
      ELSE IF a.at \notin DOMAIN Tree \/ x \notin DOMAIN Tree[a.at] THEN [a EXCEPT !.end = "error"]
      ELSE IF IsSymlink(Tree[a.at][x]) THEN [a EXCEPT !.end = "link", !.link = Tree[a.at][x], !.at = start]
      ELSE [a EXCEPT !.at = Tree[a.at][x].root, !.rest = @ - 1],
    [end |-> "opened", at |-> start, rest |-> Len(path), link |-> <<>>], path)

Ask(start, path) ==
  FoldLeft(LAMBDA a, x :
      IF a.end # "opened" THEN a
      ELSE IF a.at \notin DOMAIN Tree \/ x \notin DOMAIN Tree[a.at] THEN [a EXCEPT !.end = "error"]
      ELSE IF IsSymlink(Tree[a.at][x]) THEN [a EXCEPT !.end = "link", !.link = Tree[a.at][x]]
      ELSE [a EXCEPT !.at = Tree[a.at][x].root, !.rest = @ - 1],
    [end |-> "opened", at |-> start, rest |-> Len(path), link |-> <<>>], path)

LastOf(s, k) == SubSeq(s, Len(s) - k + 1, Len(s))

\* What is left of the name is found by its length from the end of the name.
\* That is the caller's until a link was the last of it.  Then name and dirname
\* are in one buffer, where strcpy copies one over the other, or name is before
\* what it points into: "undefined".
OneLink(path, o) ==
  LET a == Ask(o.at, o.dirname \o o.name)
      left == a.rest - 1
      from == IF a.link.text.abs THEN Top ELSE a.at
  IN  IF o.end # "link" THEN o
      ELSE IF a.end # "link" THEN [o EXCEPT !.end = a.end, !.at = a.at]
      ELSE IF left = 0 THEN [o EXCEPT !.at = from, !.dirname = <<>>, !.name = a.link.text.names,
                                      !.mine = FALSE]
      ELSE IF o.mine /\ left <= Len(path.names)
           THEN [o EXCEPT !.at = from, !.dirname = a.link.text.names, !.name = LastOf(path.names, left)]
      ELSE [o EXCEPT !.end = "undefined"]

\* The result: where the file is, or "link" after ten links.
Opened(start, path) ==
  FoldLeft(LAMBDA o, i : OneLink(path, o),
    [end |-> "link", at |-> IF path.abs THEN Top ELSE start,
     dirname |-> <<>>, name |-> path.names, mine |-> TRUE], [i \in 1..10 |-> i])

-----------------------------------------------------------------------------
(* btchdir.                                                                 *)

\* pathopt
Optimised(names) ==
  FoldLeft(LAMBDA out, x :
      CASE x = Up /\ out # <<>> /\ Last(out) # Up -> Front(out)
        [] x = Here -> out
        [] OTHER -> Append(out, x), <<>>, names)

\* btpathopt: the shorter path is taken when it opens the same file.
ShortPath(at, names) ==
  LET o == Opened(Top, [abs |-> TRUE, names |-> Optimised(names)])
  IN  IF o.end = "opened" /\ o.at = at THEN Optimised(names) ELSE names

ChangeDirectory(path) ==
  /\ changes < MaxChange
  /\ changes' = changes + 1
  /\ LET o == Opened(cwd, path)
     IN  /\ o.end # "undefined"
         /\ IF path.abs /\ path.names = <<>> THEN cwd' = Top /\ text' = <<>>
            ELSE IF o.end = "opened" /\ o.at \in DOMAIN Tree
            THEN /\ cwd' = o.at
                 /\ text' = ShortPath(o.at, (IF path.abs THEN <<>> ELSE text) \o path.names)
            ELSE UNCHANGED <<cwd, text>>
  /\ UNCHANGED ff

-----------------------------------------------------------------------------
(* match: the bytes of a pattern, and what they are matched with.           *)
Bang == 1
Query == 2
Star == 3
Dash == 4
OpenBracket == 5
CloseBracket == 6

\* The record a name is in, as far as a match may look.
Record(name) == name \o <<0>> \o Beyond
At(s, i) == IF i <= Len(s) THEN s[i] ELSE 0

\* A class of characters, from the byte of the pattern at j: whether c is in
\* it, and where the pattern goes on.  "in" is the variable inverse.
Class(c, t, from, inverse) ==
  LET class[j \in Nat, in \in BOOLEAN] ==
        LET range == At(t, j + 1) = Dash
            low   == range /\ At(t, j) <= c
            last  == IF low THEN j + 2 ELSE IF range THEN j + 1 ELSE j
            hit   == (low /\ c <= At(t, last)) \/ c = At(t, last)
            now   == in \/ hit
        IN  IF At(t, j) = 0 THEN [in |-> in, next |-> j]
            ELSE IF hit /\ in THEN [in |-> FALSE, next |-> j]
            ELSE IF At(t, last) = 0 THEN [in |-> now, next |-> last]
            ELSE IF At(t, last + 1) = CloseBracket THEN [in |-> now, next |-> last + 2]
            ELSE class[last + 1, now]
  IN  class[from, inverse]

\* Record s against pattern t.
Match(s, t) ==
  LET match[i \in Nat, j \in Nat] ==
        LET ends == {k \in i..Len(s) : \A l \in i..(k - 1) : s[l] # 0}   \* as far as the NUL
            not  == At(t, j + 1) = Bang /\ At(t, j + 2) # CloseBracket
            class == Class(s[i], t, IF not THEN j + 2 ELSE j + 1, not)
        IN  CASE At(t, j) = 0 -> s[i] = 0
              [] At(t, j) = Query -> match[i + 1, j + 1]
              [] At(t, j) = Star ->
                   \/ At(t, j + 1) = 0
                   \/ \E k \in ends :
                        /\ At(t, j + 1) \in {Star, Query, OpenBracket} \/ s[k] = At(t, j + 1)
                        /\ match[k, j + 1]
              [] At(t, j) = OpenBracket -> class.in /\ match[i + 1, class.next]
              [] OTHER -> s[i] = At(t, j) /\ match[i + 1, j + 1]
  IN  match[1, 1]

\* findfirst and findnext: the names from the first that can match, in order,
\* as long as they begin with what the pattern has before its first wildcard.
Prefix(t) ==
  LET wild == {i \in 1..Len(t) : t[i] \in {Star, Query, OpenBracket}}
  IN  IF wild = {} THEN t ELSE SubSeq(t, 1, Min(wild) - 1)

Later(t) ==
  {x \in Entries : IF ff.at = "begin" THEN ~Before(x, Prefix(t)) ELSE Before(ff.name, x)}

Find ==
  /\ ff.at # "done"
  /\ LET t == ff.pattern
         x == First(Later(t))
     IN  ff' = IF Later(t) = {} \/ (ff.at = "next" /\ ~IsPrefix(Prefix(t), x))
               THEN [ff EXCEPT !.at = "done"]
               ELSE [ff EXCEPT !.at = "next", !.name = x,
                               !.found = IF Match(Record(x), t) THEN Append(@, x) ELSE @]
  /\ UNCHANGED <<cwd, text, changes>>

-----------------------------------------------------------------------------
Quiet == [at |-> "done", pattern |-> <<>>, tokens |-> <<>>, name |-> <<>>, found |-> <<>>]

\* The bytes of a pattern.  A token is <<what, the characters>>.
Bytes(token) ==
  CASE token[1] = "is"    -> token[2]
    [] token[1] = "any"   -> <<Query>>
    [] token[1] = "many"  -> <<Star>>
    [] token[1] = "of"    -> <<OpenBracket>> \o token[2] \o <<CloseBracket>>
    [] token[1] = "not"   -> <<OpenBracket, Bang>> \o token[2] \o <<CloseBracket>>
    [] token[1] = "range" -> <<OpenBracket, token[2][1], Dash, token[2][2], CloseBracket>>

NamesInit ==
  /\ cwd = Top /\ text = <<>>
  /\ \/ ff = Quiet /\ changes = 0
     \/ /\ changes = MaxChange
        /\ \E p \in Pattern :
             ff = [Quiet EXCEPT !.at = "begin", !.tokens = p,
                                !.pattern = FlattenSeq([i \in DOMAIN p |-> Bytes(p[i])])]

NamesNext == Find \/ \E path \in Pathnames : ChangeDirectory(path)

NamesSpec == NamesInit /\ [][NamesNext]_vars

-----------------------------------------------------------------------------
(* What a path leads to, -1 if to nothing: a symbolic link stands for its   *)
(* text, in the directory it is in.  It is plain when behind every link on  *)
(* the way only names of the path itself are left, own of them, none of the *)
(* text of a link before.                                                   *)
LeadsTo(from, path) ==
  LET to[n \in Int, names \in Seq(STRING), own \in Nat, links \in Nat] ==
        IF names = <<>> THEN [at |-> n, plain |-> TRUE]
        ELSE IF n \notin DOMAIN Tree \/ Head(names) \notin DOMAIN Tree[n] \/ links > 9
        THEN [at |-> -1, plain |-> TRUE]
        ELSE LET e == Tree[n][Head(names)]
                 rest == Tail(names)
                 kept == Min({own, Len(rest)})
             IN  IF IsSymlink(e)
                 THEN LET on == to[IF e.text.abs THEN Top ELSE n, e.text.names \o rest, kept, links + 1]
                      IN  [on EXCEPT !.plain = @ /\ kept = Len(rest)]
                 ELSE to[e.root, rest, kept, links]
  IN  to[from, path, Len(path), 0]

(* "open file following symbolic links" (btopen.c): every plain path opens  *)
(* what it leads to, from whatever directory is current, also where links   *)
(* lead to links and some of the names left are of a buffer that has moved. *)
(* A path that is not plain, with a link among the names of another's text, *)
(* is the exception: btopenf takes the rest from the path it was given.     *)
OpensRight ==
  \A path \in Pathnames :
    LET o == Opened(cwd, path)
        to == LeadsTo(IF path.abs THEN Top ELSE cwd, path.names)
    IN  to.plain => /\ o.end # "undefined"
                    /\ IF to.at = -1 THEN o.end # "opened" ELSE o.end = "opened" /\ o.at = to.at

(* The path handed to other programs as the current directory leads to it,  *)
(* however it was shortened ("we check our work", btpathopt.c), if it is    *)
(* plain.                                                                   *)
PathTrue == LET to == LeadsTo(Top, text) IN to.plain => to.at = cwd

(* What a pattern means for the characters s; the code has "-" in a range  *)
(* that begins above it ("[b-d]").                                          *)
Glob(s, tokens) ==
  LET from[i \in Nat, j \in Nat] ==     \* s from i, tokens from j
        IF j > Len(tokens) THEN i > Len(s)
        ELSE LET t == tokens[j]
                 c == {t[2][k] : k \in DOMAIN t[2]}
             IN  IF t[1] = "many"
                 THEN \E k \in i..(Len(s) + 1) : 0 \notin ToSet(SubSeq(s, i, k - 1)) /\ from[k, j + 1]
                 ELSE /\ i <= Len(s)
                      /\ CASE t[1] = "any" -> TRUE
                           [] t[1] = "not" -> s[i] \notin c
                           [] t[1] = "range" -> s[i] \in t[2][1]..t[2][2] \/ (s[i] = Dash /\ Dash < t[2][1])
                           [] OTHER -> s[i] \in c
                      /\ from[i + 1, j + 1]
  IN  from[1, 1]

(* A search with wildcards returns exactly the names that match, each once  *)
(* and in order; and those that do when "?" or "[!" takes the NUL that ends *)
(* the name, where the record goes on with a NUL after what was taken.      *)
FindsAll ==
  ff.at = "done" /\ ff.pattern # <<>> =>
    ff.found = Ascending({x \in Entries : \E n \in Len(x)..(Len(Record(x)) - 1) :
                            Record(x)[n + 1] = 0 /\ Glob(SubSeq(Record(x), 1, n), ff.tokens)})
=============================================================================
