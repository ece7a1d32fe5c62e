-------------------------------- MODULE Pool --------------------------------
(***************************************************************************)
(* The buffer pool: BufferPool of hash.c and the reads of BlockCache in    *)
(* btbuf.c.  A block is found by open addressing, probing downwards; an    *)
(* entry is deleted by moving later entries of its cluster up.  Buffers    *)
(* not in use form a chain from the least to the most recently used.  The  *)
(* contents of blocks and what sync writes are in FailSafe; here is which  *)
(* buffer is which block's, and which buffers the flush knows of.          *)
(***************************************************************************)
EXTENDS Integers, Sequences, FiniteSets, SequencesExt

CONSTANTS
  Buf,       \* buffers of the pool
  Nil,       \* no buffer
  Blk, Mid,  \* block numbers (above 0) and mount ids
  Size,      \* slots of the hash table (hmask + 1)
  Hash,      \* Hash[v]: the slot of block plus mount id v
  MaxBuf,    \* MAXBUF: buffers reserved or modified by one request
  MaxTouch,  \* maxtouch: length of the touched array
  Limit,     \* Limit[m]: what sync may write of m: MAXBUF, or max() if failsafe
  Failing    \* a block can fail to be read

ASSUME PoolAssumption ==
  /\ Nil \notin Buf /\ IsFiniteSet(Buf)
  /\ Size \in Nat /\ Size > Cardinality(Buf) + 1   \* at least half as many again
  /\ Blk \subseteq Nat \ {0} /\ Mid \subseteq Nat /\ 0 \in Mid
  /\ \A k \in {0} \union Blk, m \in Mid : Hash[k + m] \in 0..(Size - 1)
  /\ MaxBuf \in Nat /\ MaxTouch \in Nat /\ Limit \in [Mid -> Nat]
  /\ MaxBuf < Cardinality(Buf)    \* maxtouch is no more than a third of the buffers
  /\ MaxTouch > MaxBuf            \* the assertion of the constructor

VARIABLES
  table,    \* hashtbl
  key,      \* key[b]: <<blk, mid>> of the buffer; blk 0 matches nothing
  flags,    \* flags[b]: those of BLK_MOD, BLK_CHK and BLK_LOW that are set
  chain,    \* the buffers not in use, from the least recently used to mru
  inuse,    \* inuse[0..lastcnt-1]
  touched,  \* touched[0..numtouch-1]
  changed   \* history: buffers modified since the request began

vars == <<table, key, flags, chain, inuse, touched, changed>>

-----------------------------------------------------------------------------
(* The hash table.                                                         *)

Slots   == 0..(Size - 1)
Slot(h, k) == (h - k) % Size
HashOf(k)  == Hash[k[1] + k[2]]

\* The number of probes from slot h to one of goal or an empty one, or Size.
Probes(t, h, goal) ==
  LET K == {k \in 0..(Size - 1) : t[Slot(h, k)] = Nil \/ Slot(h, k) \in goal}
  IN IF K = {} THEN Size ELSE CHOOSE k \in K : \A j \in K : k <= j

\* Seeded fault: the entry is deleted and the others of its cluster stay.
DeleteOnly(t, keys, bp, h, keep) ==
  LET k == Probes(t, h, {s \in Slots : t[s] = bp} \ {keep})
  IN IF k = Size \/ t[Slot(h, k)] = Nil THEN t ELSE [t EXCEPT ![Slot(h, k)] = Nil]

\* The loop of rehash behind the entry deleted, which was in slot first: an
\* entry that probing would no longer reach moves up into the hole.
Within(v, at, hole) == IF at > hole THEN hole <= v /\ v < at ELSE v < at \/ v >= hole
MovedUp(st, keys, at) ==
  LET np == st.t[at]
  IN  IF st.end \/ np = Nil THEN [st EXCEPT !.end = TRUE]
      ELSE IF Within(HashOf(keys[np]), at, st.hole)
           THEN [t |-> [st.t EXCEPT ![st.hole] = np, ![at] = Nil], hole |-> at, end |-> FALSE]
           ELSE st
Closing(t, keys, first) ==
  LET st[j \in 0..(Size - 1)] ==
        IF j = 0 THEN [t |-> [t EXCEPT ![first] = Nil], hole |-> first, end |-> FALSE]
                 ELSE MovedUp(st[j - 1], keys, Slot(first, j))
  IN  st[Size - 1].t

\* rehash: the entry of bp on the way from h, other than keep, is deleted.
Rehash(t, keys, bp, h, keep) ==
  LET k == Probes(t, h, {s \in Slots : t[s] = bp} \ {keep})
      first == Slot(h, k)
  IN  IF k = Size \/ t[first] = Nil THEN t ELSE Closing(t, keys, first)

\* indexOf: where the search for a buffer, by its own key, ends.
IndexOf(b) ==
  LET h == HashOf(key[b])
  IN Slot(h, Probes(table, h, {s \in Slots : table[s] = b}))

-----------------------------------------------------------------------------
(* get: the buffers in use go back to the chain, and modified ones into the *)
(* touched array.                                                          *)

Touch(t, b) == IF "MOD" \in flags[b] /\ ~Contains(t, b) THEN Append(t, b) ELSE t

\* A block of low priority goes behind the two used last.
Release(c, b) ==
  LET n == Len(c)
  IN IF "LOW" \in flags[b] /\ n > 1 THEN SubSeq(c, 1, n - 2) \o <<b>> \o SubSeq(c, n - 1, n)
     ELSE Append(c, b)

\* The last buffer taken is the first released.
ReleaseAll(c, s) ==
  LET n == Len(s)
      to[i \in 0..n] == IF i = 0 THEN c ELSE Release(to[i - 1], s[n + 1 - i])
  IN  to[n]
TouchAll(t, s) ==
  LET n == Len(s)
      to[i \in 0..n] == IF i = 0 THEN t ELSE Touch(to[i - 1], s[n + 1 - i])
  IN  to[n]
Released ==
  chain' = ReleaseAll(chain, inuse) /\ touched' = TouchAll(touched, inuse) /\ inuse' = <<>>

Get ==
  /\ inuse # <<>> /\ Released
  /\ flags' = [b \in Buf |-> IF Contains(inuse, b) THEN flags[b] \ {"LOW"} ELSE flags[b]]
  /\ UNCHANGED <<table, key, changed>>

-----------------------------------------------------------------------------
(* find, btread and btnew.                                                 *)

Holding(k) == {s \in Slots : table[s] # Nil /\ key[table[s]] = k}
Lookup(k) == LET h == HashOf(k)
             IN Slot(h, Probes(table, h, Holding(k)))
Ends(k) == Probes(table, HashOf(k), Holding(k)) < Size

Encumbered(b) == flags[b] \intersect {"MOD", "CHK"} # {}

Hit(k) ==
  /\ Len(inuse) < MaxBuf /\ Ends(k)
  /\ LET b == table[Lookup(k)]
     IN /\ b # Nil
        /\ IF Contains(inuse, b) THEN UNCHANGED <<chain, inuse>>
           ELSE /\ chain' = RemoveAt(chain, SelectInSeq(chain, LAMBDA c : c = b))
                /\ inuse' = Append(inuse, b)
  /\ UNCHANGED <<table, key, flags, touched, changed>>

\* The chain turns so that it begins behind the buffer taken: the first without
\* changes, or the least recently used after it is written.
Miss(k, fails, new) ==
  /\ Len(inuse) < MaxBuf /\ Ends(k) /\ table[Lookup(k)] = Nil
  /\ LET clean == SelectInSeq(chain, LAMBDA b : ~Encumbered(b))
         i == IF clean = 0 THEN 1 ELSE clean
         b == chain[i]
         s == Lookup(k)
         keys == [key EXCEPT ![b] = k]
     IN /\ chain # <<>>
        /\ chain' = SubSeq(chain, i + 1, Len(chain)) \o SubSeq(chain, 1, i - 1)
        /\ inuse' = Append(inuse, b)
        /\ table' = Rehash([table EXCEPT ![s] = b], keys, b, HashOf(key[b]), s)
        /\ key' = [key EXCEPT ![b] = IF fails THEN <<0, k[2]>> ELSE k]
        /\ flags' = [flags EXCEPT ![b] = IF new THEN {"MOD"} ELSE IF ~fails THEN {}
                       ELSE IF "MOD" \in @ THEN {"CHK"} ELSE @]
        /\ changed' = IF new THEN changed \union {b} ELSE changed
        /\ new => b \in changed \/ Cardinality(changed) < MaxBuf
  /\ UNCHANGED touched

-----------------------------------------------------------------------------
(* What a request does with the buffers it has.                            *)

Modify(b, low) ==
  /\ Contains(inuse, b) /\ key[b][1] # 0
  /\ b \in changed \/ Cardinality(changed) < MaxBuf
  /\ flags' = [flags EXCEPT ![b] = @ \union {"MOD"} \union (IF low THEN {"LOW"} ELSE {})]
  /\ changed' = changed \union {b}
  /\ UNCHANGED <<table, key, chain, inuse, touched>>

\* Seeded fault: the hash entries stay where they are.
SwapKeys(np, bp) ==
  /\ Contains(inuse, np) /\ Contains(inuse, bp) /\ np # bp
  /\ key[np][2] = key[bp][2] /\ {np, bp} \subseteq changed
  /\ key' = [key EXCEPT ![np] = key[bp], ![bp] = key[np]]
  /\ UNCHANGED <<table, flags, chain, inuse, touched, changed>>

\* swap: two modified blocks of a filesystem change places.
Swap(np, bp) ==
  /\ Contains(inuse, np) /\ Contains(inuse, bp) /\ np # bp
  /\ key[np][2] = key[bp][2] /\ {np, bp} \subseteq changed
  /\ table' = [table EXCEPT ![IndexOf(np)] = bp, ![IndexOf(bp)] = np]
  /\ key' = [key EXCEPT ![np] = key[bp], ![bp] = key[np]]
  /\ UNCHANGED <<flags, chain, inuse, touched, changed>>

\* The elements of t that are in S, in order.
Kept(t, S) ==
  LET k[i \in 0..Len(t)] == IF i = 0 THEN <<>>
                            ELSE IF t[i] \in S THEN Append(k[i - 1], t[i]) ELSE k[i - 1]
  IN  k[Len(t)]

\* wait: what a finished checkpoint of the filesystem held is given up.
Waited(m, t, f) ==
  [t |-> Kept(t, {b \in Buf : key[b][2] # m \/ "MOD" \in f[b]}),
   f |-> [b \in Buf |-> IF Contains(t, b) /\ key[b][2] = m THEN f[b] \ {"CHK"} ELSE f[b]]]

\* sync: of the modified blocks of the filesystem no more than lim + 1 are written.
Written(m, t, f, lim) ==
  LET mod == {i \in 1..Len(t) : key[t[i]][2] = m /\ "MOD" \in f[t[i]]}
      now == {t[i] : i \in {i \in mod : Cardinality({j \in mod : j < i}) <= lim}}
  IN  [b \in Buf |-> IF b \in now THEN (f[b] \ {"MOD"}) \union {"CHK"} ELSE f[b]]
Synced(m, t, f, lim) ==
  LET w == Waited(m, t, f) IN [t |-> w.t, f |-> Written(m, w.t, w.f, lim)]

\* get(0) at the end of a request, and before an unmount and a flush: filesystems
\* are flushed, that of the first touched block first, while the array has no
\* room for another request.  A round gives up what the one before has written.
Round(st) ==
  IF Len(st.t) < MaxTouch - MaxBuf THEN st
  ELSE LET m == key[st.t[1]][2] IN Synced(m, st.t, st.f, Limit[m])
Rounds(st) ==
  LET to[i \in 0..(2 * MaxTouch)] == IF i = 0 THEN st ELSE Round(to[i - 1])
  IN  to[2 * MaxTouch]
Finish ==
  /\ inuse = <<>> /\ changed # {}
  /\ LET all == Rounds([t |-> touched, f |-> flags])
     IN touched' = all.t /\ flags' = all.f
  /\ changed' = {}
  /\ UNCHANGED <<table, key, chain, inuse>>

\* clear: the entry of a buffer is deleted, and its block number.
Clear(st, b) ==
  [t |-> Rehash(st.t, st.k, b, HashOf(st.k[b]), 0-1), k |-> [st.k EXCEPT ![b] = <<0, @[2]>>]]
ClearAll(st, s) ==
  LET to[i \in 0..Len(s)] == IF i = 0 THEN st ELSE Clear(to[i - 1], s[i])
  IN  to[Len(s)]

\* unmount: the blocks of the filesystem are written, given up and cleared.
Unmount(m) ==
  /\ inuse = <<>> /\ changed = {} /\ \E b \in Buf : key[b] # <<0, m>> /\ key[b][2] = m
  /\ LET one == Synced(m, touched, flags, Len(touched))
         two == Synced(m, one.t, one.f, Len(one.t))
         end == ClearAll([t |-> table, k |-> key], SetToSeq({b \in Buf : key[b][2] = m}))
     IN /\ touched' = two.t /\ flags' = two.f
        /\ table' = end.t /\ key' = end.k
  /\ UNCHANGED <<chain, inuse, changed>>

-----------------------------------------------------------------------------
Init ==
  /\ table = [s \in Slots |-> Nil]
  /\ key = [b \in Buf |-> <<0, 0>>] /\ flags = [b \in Buf |-> {}]
  /\ chain = SetToSeq(Buf) /\ inuse = <<>> /\ touched = <<>> /\ changed = {}

Next ==
  \/ Get \/ Finish
  \/ \E k \in Blk \X Mid : Hit(k) \/ Miss(k, FALSE, FALSE) \/ Miss(k, FALSE, TRUE)
  \/ \E k \in Blk \X Mid : Failing /\ Miss(k, TRUE, FALSE)
  \/ \E b \in Buf, low \in BOOLEAN : Modify(b, low)
  \/ \E np, bp \in Buf : Swap(np, bp)
  \/ \E m \in Mid : Unmount(m)

Spec == Init /\ [][Next]_vars

-----------------------------------------------------------------------------
TypeOK ==
  /\ table \in [Slots -> Buf \union {Nil}]
  /\ key \in [Buf -> ({0} \union Blk) \X Mid]
  /\ flags \in [Buf -> SUBSET {"MOD", "CHK", "LOW"}]
  /\ \A s \in {chain, inuse, touched} : s \in Seq(Buf)
  /\ changed \subseteq Buf

\* A block in the pool is found there, in the one buffer that has it, after any
\* sequence of reuse, deletion of hash entries (rehash), swaps and failed reads:
\* otherwise a request would read an older copy from the disk.
BlocksFound ==
  /\ \A b \in Buf : key[b][1] # 0 => Ends(key[b]) /\ table[Lookup(key[b])] = b
  /\ \E s \in Slots : table[s] = Nil

\* Every modified block not in use is in the touched array, the only place where
\* the flush looks for it, once, and there is room for what a request can add.
ModifiedTouched ==
  /\ \A b \in Buf : "MOD" \in flags[b] => Contains(inuse, b) \/ Contains(touched, b)
  /\ Len(touched) <= MaxTouch /\ IsInjective(touched)

\* Every buffer is once either in the chain or in use, and the chain is never
\* empty: what get and find take for granted ("assume chain is never empty").
ChainWhole ==
  /\ IsInjective(chain) /\ IsInjective(inuse) /\ chain # <<>>
  /\ \A b \in Buf : Contains(chain, b) <=> ~Contains(inuse, b)
=============================================================================
