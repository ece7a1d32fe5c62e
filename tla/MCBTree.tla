------------------------------- MODULE MCBTree -------------------------------
(* Keys of three by three digits; the data of some is longer, of one both. *)
EXTENDS BTree

MCRecs == {<<<<i, j>>, IF j = 1 THEN 0 ELSE 1>> : i \in 1..3, j \in 0..2}
            \cup {<<<<2, 1>>, 1>>}

MCHalfNode == {<<<<i, 0>>, 2>> : i \in 1..3}

(* The tree with its blocks named in the order they are met from the root: two  *)
(* states that differ in which free block btnew took are the same.              *)
RECURSIVE Met(_, _)
Met(b, n) ==
  IF n = 0 \/ b = Nil THEN <<>>
  ELSE <<b>> \o IF ~node[b].stem THEN <<>>
                ELSE FoldLeft(LAMBDA bs, r : bs \o Met(r.ptr, n - 1), Met(node[b].son, n - 1), node[b].recs)

Shape ==
  LET met == Met(Root, MaxLev)
      order == met \o SetToSortSeq({b \in Block : node[b].used} \ ToSet(met), <)
      name(b) == IF b \in ToSet(order) THEN Min({i \in DOMAIN order : order[i] = b}) ELSE Nil
      record(r) == [r EXCEPT !.ptr = name(@)]
      renamed(n) == [n EXCEPT !.son = name(@), !.lbro = name(@),
                              !.recs = [i \in DOMAIN n.recs |-> record(n.recs[i])]]
  IN  <<[i \in DOMAIN order |-> renamed(node[order[i]])],
        [l \in DOMAIN stack |-> [stack[l] EXCEPT !.node = name(@)]],
        [i \in DOMAIN frames |-> [frames[i] EXCEPT !.ap = name(@), !.np = name(@)]],
        record(urec), sp, pc, op, stat, newcnt, room, file>>
===============================================================================
