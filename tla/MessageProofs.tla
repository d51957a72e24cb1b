---------------------------- MODULE MessageProofs ----------------------------
(***************************************************************************)
(* Safety of messages and of their cow_buffers, for any sizes, capacities, *)
(* messages and buffers, up to the first copy that does not fit into the   *)
(* buffer that reserve provides.  A buffer's content stays what its        *)
(* holders wrote because only a sole holder writes, and because a buffer   *)
(* is given back exactly when nobody holds it; the two are inductive with  *)
(* the room there is behind what has been written.  Behind such a copy the *)
(* types hold, for they do not depend on any of it.  The objects in a      *)
(* message's list are those whose index is unread; this is inductive       *)
(* because the unread indices grow, so that the last object is the last    *)
(* one taken.                                                              *)
(***************************************************************************)
EXTENDS Message, SequenceTheorems, FiniteSetTheorems, TLAPS

(* What a cell may hold: what a put writes, or junk. *)
Val == Handles \cup Int \cup {Junk}

Types == /\ small \in [Handles -> Seq(Val)]
         /\ isSmall \in [Handles -> BOOLEAN]
         /\ large \in [Handles -> Buffers \cup {Null}]
         /\ wsize \in [Handles -> 0 .. MaxSize]
         /\ size \in [Buffers -> Nat]
         /\ mem \in [Buffers -> Seq(Val)]
         /\ home \in [Buffers -> Capacities \cup {Heap, Unmade}]
         /\ pooled \subseteq Buffers
         /\ log \in [Handles -> Seq(Val)]

(* Allocations are large enough for what they are used for. *)
Room == /\ \A h \in Handles : Len(small[h]) = Small
        /\ \A h \in Handles : wsize[h] <= Len(Cells(h))
        /\ \A b \in Buffers : size[b] <= Len(mem[b])

(* What h has written, in memory that is its own. *)
Content(h) == SubSeq(Cells(h), 1, wsize[h])

SmallOrLarge == \A h \in Handles : isSmall[h] <=> large[h] = Null
PooledMade   == \A b \in pooled : home[b] \in Capacities
Held         == \A b \in Buffers : Holders(b) = {} <=> b \in pooled \/ home[b] = Unmade
Kept         == \A h \in Handles : Content(h) = log[h]

IInv == Types /\ Room /\ SmallOrLarge /\ PooledMade /\ Held /\ Kept

-----------------------------------------------------------------------------
(* Memory *)

(* Overwrite puts s behind the first k cells and nowhere else. *)
LEMMA OverwriteSeq ==
  ASSUME NEW V, NEW m \in Seq(V), NEW s \in Seq(V), NEW k \in Nat, k + Len(s) <= Len(m)
  PROVE  /\ Overwrite(m, k, s) \in Seq(V)
         /\ Len(Overwrite(m, k, s)) = Len(m)
         /\ SubSeq(Overwrite(m, k, s), 1, k + Len(s)) = SubSeq(m, 1, k) \o s
<1> DEFINE o == Overwrite(m, k, s)
<1>1. o \in [1 .. Len(m) -> V]
  BY DEF Overwrite
<1>2. o \in Seq(V) /\ Len(o) = Len(m)
  BY <1>1
<1>3. \A i \in 1 .. Len(m) : o[i] = IF i > k /\ i <= k + Len(s) THEN s[i - k] ELSE m[i]
  BY DEF Overwrite
<1> HIDE DEF o
<1>4. SubSeq(o, 1, k + Len(s)) = SubSeq(m, 1, k) \o s
  <2>1. /\ SubSeq(o, 1, k + Len(s)) \in Seq(V) /\ Len(SubSeq(o, 1, k + Len(s))) = k + Len(s)
        /\ SubSeq(m, 1, k) \o s \in Seq(V) /\ Len(SubSeq(m, 1, k) \o s) = k + Len(s)
    BY <1>2
  <2>2. \A i \in 1 .. k + Len(s) : SubSeq(o, 1, k + Len(s))[i] = (SubSeq(m, 1, k) \o s)[i]
    BY <1>2, <1>3
  <2> QED
    BY <2>1, <2>2, SeqEqual
<1> QED
  BY <1>2, <1>4 DEF o

(* Realloc keeps what fits. *)
LEMMA ReallocSeq ==
  ASSUME NEW V, Junk \in V, NEW m \in Seq(V), NEW n \in Nat, NEW k \in 0 .. n, k <= Len(m)
  PROVE  /\ Realloc(m, n) \in Seq(V)
         /\ Len(Realloc(m, n)) = n
         /\ SubSeq(Realloc(m, n), 1, k) = SubSeq(m, 1, k)
<1> DEFINE o == Realloc(m, n)
<1>1. o \in [1 .. n -> V]
  BY DEF Realloc
<1>2. o \in Seq(V) /\ Len(o) = n
  BY <1>1
<1>3. \A i \in 1 .. n : i <= Len(m) => o[i] = m[i]
  BY DEF Realloc
<1> HIDE DEF o
<1>4. SubSeq(o, 1, k) = SubSeq(m, 1, k)
  BY <1>2, <1>3
<1> QED
  BY <1>2, <1>4 DEF o

(* A set of numbers has a least one. *)
LEMMA LeastExists ==
  ASSUME NEW S \in SUBSET Nat, S # {}
  PROVE  \E n \in S : \A m \in S : n <= m
<1> DEFINE Below == {0 .. i : i \in S}
<1>1. \A i \in S : 0 .. i \in FiniteSubsetsOf(Nat)
  BY FS_Interval DEF FiniteSubsetsOf
<1>2. PICK least \in Below :
            \A b \in Below : ~ (<<b, least>> \in StrictSubsetOrdering(Nat))
  <2>1. Below \subseteq FiniteSubsetsOf(Nat) /\ Below # {}
    BY <1>1
  <2> HIDE DEF Below
  <2> QED
    BY <2>1, WFMin, FS_StrictSubsetOrderingWellFounded
<1>3. PICK n \in S : least = 0 .. n
  OBVIOUS
<1>4. ASSUME NEW j \in S, j < n PROVE FALSE
  <2>1. 0 .. j \subseteq 0 .. n /\ n \in 0 .. n /\ n \notin 0 .. j
    BY <1>4
  <2>2. 0 .. j \in SUBSET Nat /\ 0 .. n \in SUBSET Nat
    OBVIOUS
  <2>3. <<0 .. j, least>> \in StrictSubsetOrdering(Nat)
    BY <1>3, <2>1, <2>2 DEF StrictSubsetOrdering
  <2> QED
    BY <1>2, <2>3
<1>5. \A m \in S : n <= m
  <2> TAKE m \in S
  <2>1. n \in Nat /\ m \in Nat
    OBVIOUS
  <2> HIDE DEF Below
  <2> QED
    BY <1>4, <2>1
<1> QED
  BY <1>5

(* The pools have a capacity for everything that is not too large for them. *)
LEMMA CapacityForIn ==
  ASSUME NEW n \in Nat, n <= MaxCached
  PROVE  CapacityFor(n) \in Capacities
<1> DEFINE S == {c \in Capacities : n <= c}
<1>1. S \in SUBSET Nat /\ S # {}
  <2>1. PICK c \in Capacities : c >= MaxCached
    BY SizeAssumption
  <2>2. c \in Nat /\ MaxCached \in Nat
    BY SizeAssumption
  <2>3. c \in S
    BY <2>1, <2>2
  <2> QED
    BY <2>3, SizeAssumption
<1>2. PICK c \in S : \A d \in S : c <= d
  BY <1>1, LeastExists
<1>3. c \in Capacities /\ n <= c /\ \A d \in Capacities : n <= d => c <= d
  BY <1>2
<1> QED
  BY <1>3 DEF CapacityFor

-----------------------------------------------------------------------------
(* Who holds a buffer *)

(* Shared asks whether somebody else holds h's buffer. *)
LEMMA SharedMeans ==
  ASSUME NEW h \in Handles, ~ isSmall[h]
  PROVE  Shared(h) <=> Holders(large[h]) # {h}
<1> DEFINE H == Holders(large[h])
<1>1. IsFiniteSet(H) /\ h \in H
  BY FiniteAssumption, FS_Subset DEF Holders
<1>2. Cardinality({h}) = 1
  BY FS_Singleton
<1>3. ASSUME H # {h} PROVE Cardinality(H) > 1
  <2> HIDE DEF H
  <2>1. PICK k \in H : k # h
    BY <1>1, <1>3
  <2>2. Cardinality(H \ {h}) = Cardinality(H) - 1 /\ IsFiniteSet(H \ {h})
    BY <1>1, FS_RemoveElement
  <2>3. Cardinality(H \ {h}) # 0 /\ Cardinality(H \ {h}) \in Nat /\ Cardinality(H) \in Nat
    BY <1>1, <2>1, <2>2, FS_EmptySet, FS_CardinalityType
  <2> QED
    BY <2>2, <2>3
<1> QED
  BY <1>2, <1>3 DEF Shared

(* Dropping h's reference leaves the buffers of the others as they are, and *)
(* those that only h held without a holder.                                 *)
LEMMA DropFacts ==
  ASSUME IInv, NEW h \in Handles, DropLarge(h)
  PROVE  /\ mem' \in [Buffers -> Seq(Val)]
         /\ \A b \in Buffers : Len(mem'[b]) = Len(mem[b])
         /\ home' \in [Buffers -> Capacities \cup {Heap, Unmade}]
         /\ pooled' \subseteq Buffers
         /\ \A b \in pooled' : home'[b] \in Capacities
         /\ \A b \in Buffers, k \in Handles \ {h} : k \in Holders(b) => mem'[b] = mem[b]
         /\ \A b \in Buffers : Holders(b) \ {h} = {} <=> b \in pooled' \/ home'[b] = Unmade
<1>1. CASE large[h] # Null /\ Holders(large[h]) = {h}
  <2> DEFINE c == large[h]
  <2>1. c \in Buffers /\ Release(c)
    BY <1>1 DEF DropLarge, IInv, Types
  <2>2. home[c] # Unmade /\ c \notin pooled
    BY <1>1, <2>1 DEF IInv, Held
  <2>3. /\ Blank(Len(mem[c])) \in Seq(Val) /\ Len(Blank(Len(mem[c]))) = Len(mem[c])
    <3>1. Len(mem[c]) \in Nat
      BY <2>1 DEF IInv, Types
    <3> QED
      BY <3>1 DEF Blank, Val
  <2>4. mem' = [mem EXCEPT ![c] = Blank(Len(mem[c]))]
    BY <2>1 DEF Release
  <2>5. /\ mem' \in [Buffers -> Seq(Val)]
        /\ \A b \in Buffers : Len(mem'[b]) = Len(mem[b])
    BY <2>1, <2>3, <2>4 DEF IInv, Types
  <2>6. \A b \in Buffers, k \in Handles \ {h} : k \in Holders(b) => mem'[b] = mem[b]
    BY <1>1, <2>1, <2>4 DEF IInv, Types
  <2>7. /\ home' \in [Buffers -> Capacities \cup {Heap, Unmade}]
        /\ pooled' \subseteq Buffers
        /\ \A b \in pooled' : home'[b] \in Capacities
    <3>1. CASE home[c] = Heap
      <4>1. home' = [home EXCEPT ![c] = Unmade] /\ pooled' = pooled
        BY <2>1, <3>1 DEF Release
      <4> QED
        BY <2>1, <2>2, <4>1 DEF IInv, Types, PooledMade
    <3>2. CASE home[c] # Heap
      <4>1. home' = home /\ pooled' = pooled \cup {c}
        BY <2>1, <3>2 DEF Release
      <4> QED
        BY <2>1, <2>2, <3>2, <4>1 DEF IInv, Types, PooledMade
    <3> QED
      BY <3>1, <3>2
  <2>8. \A b \in Buffers : b # c => /\ b \in pooled' <=> b \in pooled
                                    /\ home'[b] = home[b]
    BY <2>1 DEF Release, IInv, Types
  <2>9. c \in pooled' \/ home'[c] = Unmade
    BY <2>1 DEF Release, IInv, Types
  <2>10. \A b \in Buffers : b # c => h \notin Holders(b)
    BY DEF Holders
  <2>11. \A b \in Buffers : Holders(b) = {} <=> b \in pooled \/ home[b] = Unmade
    BY DEF IInv, Held
  <2>12. \A b \in Buffers : Holders(b) \ {h} = {} <=> b \in pooled' \/ home'[b] = Unmade
    <3> TAKE b \in Buffers
    <3>1. CASE b = c
      BY <1>1, <2>9, <3>1
    <3>2. CASE b # c
      <4>1. Holders(b) \ {h} = Holders(b)
        BY <2>10, <3>2
      <4> QED
        BY <4>1, <2>8, <2>11, <3>2
    <3> QED
      BY <3>1, <3>2
  <2> QED
    BY <2>5, <2>6, <2>7, <2>12
<1>2. CASE ~ (large[h] # Null /\ Holders(large[h]) = {h})
  <2>1. UNCHANGED <<mem, pooled, home>>
    BY <1>2 DEF DropLarge
  <2>2. \A b \in Buffers : Holders(b) = {} <=> b \in pooled \/ home[b] = Unmade
    BY DEF IInv, Held
  <2>3. \A b \in Buffers : Holders(b) \ {h} = {} <=> Holders(b) = {}
    <3> TAKE b \in Buffers
    <3>1. h \in Holders(b) => large[h] = b /\ large[h] # Null
      BY NameAssumption DEF Holders
    <3> QED
      BY <1>2, <3>1
  <2> QED
    BY <2>1, <2>2, <2>3 DEF IInv, Types, PooledMade
<1> QED
  BY <1>1, <1>2

-----------------------------------------------------------------------------
(* The steps of a cow_buffer *)

LEMMA PutSmallStep ==
  ASSUME IInv, NEW h \in Handles, NEW s \in Seq(Val), wsize[h] + Len(s) <= MaxSize,
         PutSmall(h, s)
  PROVE  IInv'
<1> USE DEF PutSmall, bufferVars
<1> DEFINE o == Overwrite(small[h], wsize[h], s)
<1>1. /\ small[h] \in Seq(Val) /\ Len(small[h]) = Small /\ wsize[h] \in Nat
      /\ wsize[h] + Len(s) <= Len(small[h])
  BY DEF IInv, Types, Room
<1>2. /\ o \in Seq(Val) /\ Len(o) = Small
      /\ SubSeq(o, 1, wsize[h] + Len(s)) = SubSeq(small[h], 1, wsize[h]) \o s
  BY <1>1, OverwriteSeq
<1> HIDE DEF o
<1>3. small' = [small EXCEPT ![h] = o]
  BY DEF o
<1>4. log[h] \o s \in Seq(Val) /\ wsize[h] + Len(s) \in 0 .. MaxSize
  BY <1>1, SizeAssumption DEF IInv, Types
<1>5. Types'
  BY <1>2, <1>3, <1>4 DEF IInv, Types
<1>6. Room'
  BY <1>1, <1>2, <1>3 DEF IInv, Types, Room, Cells
<1>7. SmallOrLarge' /\ PooledMade' /\ Held'
  BY DEF IInv, SmallOrLarge, PooledMade, Held, Holders
<1>8. Kept'
  <2> SUFFICES ASSUME NEW k \in Handles PROVE Content(k)' = log'[k]
    BY DEF Kept
  <2>1. CASE k = h
    BY <1>2, <1>3, <2>1 DEF IInv, Types, Kept, Content, Cells
  <2>2. CASE k # h
    BY <1>3, <2>2 DEF IInv, Types, Kept, Content, Cells
  <2> QED
    BY <2>1, <2>2
<1> QED
  BY <1>5, <1>6, <1>7, <1>8 DEF IInv

(* What reserve provides: a buffer that nobody else holds and that begins   *)
(* with what h has written, while the buffer that h leaves has a holder.    *)
Provided(h, g) ==
    /\ g \in [buf : Buffers, size : Nat, mem : Seq(Val), home : Capacities \cup {Heap}]
    /\ g.size <= Len(g.mem) /\ wsize[h] <= Len(g.mem)
    /\ SubSeq(g.mem, 1, wsize[h]) = Content(h)
    /\ Holders(g.buf) \subseteq {h}
    /\ large[h] # Null /\ large[h] # g.buf => Holders(large[h]) # {h}

LEMMA PutLargeStep ==
  ASSUME IInv, NEW h \in Handles, NEW s \in Seq(Val), wsize[h] + Len(s) <= MaxSize,
         NEW g, Provided(h, g), PutLarge(h, s, g, mem)
  PROVE  IInv'
<1> DEFINE fits == wsize[h] + Len(s) <= g.size
           m    == IF fits THEN Overwrite(g.mem, wsize[h], s) ELSE g.mem
           w    == IF fits THEN wsize[h] + Len(s) ELSE wsize[h]
           l    == IF fits THEN log[h] \o s ELSE log[h]
           c    == g.buf
<1>1. /\ wsize[h] \in 0 .. MaxSize /\ log[h] \in Seq(Val) /\ Content(h) = log[h]
      /\ g.size \in Nat /\ g.mem \in Seq(Val) /\ c \in Buffers
      /\ g.home \in Capacities \cup {Heap} /\ Len(s) \in Nat
  BY DEF IInv, Types, Kept, Provided
<1>2. /\ m \in Seq(Val) /\ Len(m) = Len(g.mem)
      /\ w \in 0 .. MaxSize /\ w <= Len(m)
      /\ l \in Seq(Val)
      /\ SubSeq(m, 1, w) = l
  <2>1. CASE fits
    <3>1. wsize[h] \in Nat /\ wsize[h] + Len(s) <= Len(g.mem)
      BY <1>1, <2>1 DEF Provided
    <3>2. /\ Overwrite(g.mem, wsize[h], s) \in Seq(Val)
          /\ Len(Overwrite(g.mem, wsize[h], s)) = Len(g.mem)
          /\ SubSeq(Overwrite(g.mem, wsize[h], s), 1, wsize[h] + Len(s))
                 = SubSeq(g.mem, 1, wsize[h]) \o s
      BY <1>1, <3>1, OverwriteSeq
    <3>3. SubSeq(g.mem, 1, wsize[h]) = log[h]
      BY <1>1 DEF Provided
    <3>4. wsize[h] + Len(s) \in 0 .. MaxSize /\ log[h] \o s \in Seq(Val)
      BY <1>1, SizeAssumption
    <3> QED
      BY <2>1, <3>1, <3>2, <3>3, <3>4
  <2>2. CASE ~ fits
    BY <1>1, <2>2 DEF Provided
  <2> QED
    BY <2>1, <2>2
<1>3. /\ isSmall' = [isSmall EXCEPT ![h] = FALSE]
      /\ large' = [large EXCEPT ![h] = c]
      /\ home' = [home EXCEPT ![c] = g.home]
      /\ pooled' = pooled \ {c}
      /\ size' = [size EXCEPT ![c] = g.size]
      /\ mem' = [mem EXCEPT ![c] = m]
      /\ wsize' = [wsize EXCEPT ![h] = w]
      /\ log' = [log EXCEPT ![h] = l]
      /\ small' = [small EXCEPT ![h] = Blank(Small)]
  BY DEF PutLarge
<1> HIDE DEF m, w, l, c
<1>4. Blank(Small) \in Seq(Val) /\ Len(Blank(Small)) = Small
  BY SizeAssumption DEF Blank, Val
<1>5. Types'
  BY <1>1, <1>2, <1>3, <1>4 DEF IInv, Types
<1>6. \A k \in Handles \ {h} : ~ isSmall[k] => large[k] \in Buffers /\ large[k] # c
  BY DEF Provided, Holders, IInv, SmallOrLarge, Types, c
<1>7. Room'
  <2>1. \A k \in Handles : Len(small'[k]) = Small
    BY <1>3, <1>4 DEF IInv, Types, Room
  <2>2. \A b \in Buffers : size'[b] <= Len(mem'[b])
    BY <1>1, <1>2, <1>3 DEF IInv, Types, Room, Provided
  <2>3. ASSUME NEW k \in Handles PROVE wsize'[k] <= Len(Cells(k)')
    <3>1. CASE k = h
      BY <1>1, <1>2, <1>3, <3>1 DEF IInv, Types, Cells
    <3>2. CASE k # h
      BY <1>1, <1>3, <1>6, <3>2 DEF IInv, Types, Room, Cells
    <3> QED
      BY <3>1, <3>2
  <2> QED
    BY <2>1, <2>2, <2>3 DEF Room
<1>8. SmallOrLarge'
  BY <1>1, <1>3, NameAssumption DEF IInv, Types, SmallOrLarge
<1>9. PooledMade'
  BY <1>3 DEF IInv, Types, PooledMade
<1>10. Held'
  <2> SUFFICES ASSUME NEW b \in Buffers
               PROVE  Holders(b)' = {} <=> b \in pooled' \/ home'[b] = Unmade
    BY DEF Held
  <2>1. CASE b = c
    <3>1. h \in Holders(b)'
      BY <1>3, <2>1 DEF IInv, Types, Holders
    <3>2. b \notin pooled' /\ home'[b] # Unmade
      BY <1>1, <1>3, <2>1, SizeAssumption DEF IInv, Types, Heap, Unmade
    <3> QED
      BY <3>1, <3>2
  <2>2. CASE b # c
    <3>1. Holders(b)' = Holders(b) \ {h}
      BY <1>3, <2>2 DEF IInv, Types, Holders
    <3>2. Holders(b) # {h}
      BY <2>2, NameAssumption DEF Provided, Holders, c
    <3>3. Holders(b) \ {h} = {} <=> Holders(b) = {}
      BY <3>2
    <3>4. Holders(b) = {} <=> b \in pooled \/ home[b] = Unmade
      BY DEF IInv, Held
    <3>5. /\ b \in pooled' <=> b \in pooled
          /\ home'[b] = home[b]
      BY <1>3, <2>2 DEF IInv, Types
    <3> QED
      BY <3>1, <3>3, <3>4, <3>5
  <2> QED
    BY <2>1, <2>2
<1>11. Kept'
  <2> SUFFICES ASSUME NEW k \in Handles PROVE Content(k)' = log'[k]
    BY DEF Kept
  <2>1. CASE k = h
    BY <1>1, <1>2, <1>3, <2>1 DEF IInv, Types, Content, Cells
  <2>2. CASE k # h
    BY <1>1, <1>3, <1>6, <2>2 DEF IInv, Types, Kept, Content, Cells
  <2> QED
    BY <2>1, <2>2
<1> QED
  BY <1>5, <1>7, <1>8, <1>9, <1>10, <1>11 DEF IInv

(* While allocations are large enough, reading them is reading no further.  *)
LEMMA WrittenIs ==
  ASSUME IInv, NEW h \in Handles
  PROVE  Written(h) = Content(h)
<1>1. Cells(h) \in Seq(Val)
  BY NameAssumption DEF IInv, Types, SmallOrLarge, Cells
<1>2. wsize[h] \in Nat /\ wsize[h] <= Len(Cells(h))
  BY DEF IInv, Types, Room
<1>3. /\ Written(h) \in Seq(Val) /\ Len(Written(h)) = wsize[h]
      /\ SubSeq(Written(h), 1, wsize[h]) = Content(h)
  <2>1. Junk \in Val /\ wsize[h] \in 0 .. wsize[h]
    BY <1>2 DEF Val
  <2> QED
    BY <1>1, <1>2, <2>1, ReallocSeq DEF Written, Content
<1>4. SubSeq(Written(h), 1, Len(Written(h))) = Written(h)
  BY <1>3
<1> QED
  BY <1>3, <1>4

(* What get may return: a buffer of at least its size, held by nobody.      *)
LEMMA GettableFacts ==
  ASSUME IInv, NEW n \in Nat, NEW g \in Gettable(n)
  PROVE  /\ g \in [buf : Buffers, size : Nat, mem : Seq(Val), home : Capacities \cup {Heap}]
         /\ g.size <= Len(g.mem)
         /\ Holders(g.buf) = {}
<1> DEFINE c   == CapacityFor(n)
           new == {d \in Buffers : home[d] = Unmade}
<1>1. \A b \in new : Holders(b) = {}
  BY DEF IInv, Held
<1>2. \A k \in Nat : Blank(k) \in Seq(Val) /\ Len(Blank(k)) = k
  BY DEF Blank, Val
<1>3. CASE n > MaxCached
  <2>1. PICK b \in new : g = [buf |-> b, size |-> n, mem |-> Blank(n), home |-> Heap]
    BY <1>3 DEF Gettable
  <2> QED
    BY <1>1, <1>2, <2>1
<1>4. CASE ~ n > MaxCached
  <2>1. c \in Capacities /\ c \in Nat
    <3>1. n <= MaxCached /\ MaxCached \in Nat
      BY <1>4, SizeAssumption
    <3>2. c \in Capacities
      BY <3>1, CapacityForIn
    <3> QED
      BY <3>2, SizeAssumption
  <2> HIDE DEF c
  <2>2. CASE g \in {[buf |-> b, size |-> c, mem |-> Blank(c), home |-> c] : b \in new}
    <3>1. PICK b \in new : g = [buf |-> b, size |-> c, mem |-> Blank(c), home |-> c]
      BY <2>2
    <3> QED
      BY <1>1, <1>2, <2>1, <3>1
  <2>3. CASE g \in {[buf |-> b, size |-> size[b], mem |-> mem[b], home |-> c] : b \in pooled}
    <3>1. PICK b \in pooled : g = [buf |-> b, size |-> size[b], mem |-> mem[b], home |-> c]
      BY <2>3
    <3>2. b \in Buffers /\ Holders(b) = {}
      BY DEF IInv, Types, Held
    <3> QED
      BY <2>1, <3>1, <3>2 DEF IInv, Types, Room
  <2> QED
    BY <1>4, <2>2, <2>3 DEF Gettable, c
<1> QED
  BY <1>3, <1>4

(* A buffer from the pool, with what has been written copied into it, is    *)
(* provided, if that did not overrun it.                                    *)
LEMMA CopyProvided ==
  ASSUME IInv, NEW h \in Handles, isSmall[h] \/ Shared(h),
         NEW n \in Nat, NEW g \in Gettable(n), wsize[h] <= Len(g.mem)
  PROVE  Provided(h, [g EXCEPT !.mem = Overwrite(g.mem, 0, Written(h))])
<1>0. Written(h) = Content(h)
  BY WrittenIs
<1>1. /\ g \in [buf : Buffers, size : Nat, mem : Seq(Val), home : Capacities \cup {Heap}]
      /\ g.size <= Len(g.mem)
      /\ Holders(g.buf) = {}
  BY GettableFacts
<1>2. Content(h) \in Seq(Val) /\ Len(Content(h)) = wsize[h] /\ wsize[h] \in Nat
  <2>1. Cells(h) \in Seq(Val)
    BY NameAssumption DEF IInv, Types, SmallOrLarge, Cells
  <2>2. wsize[h] \in Nat /\ wsize[h] <= Len(Cells(h))
    BY DEF IInv, Types, Room
  <2> QED
    BY <2>1, <2>2 DEF Content
<1> DEFINE m == Overwrite(g.mem, 0, Content(h))
<1>3. /\ m \in Seq(Val) /\ Len(m) = Len(g.mem)
      /\ SubSeq(m, 1, 0 + wsize[h]) = SubSeq(g.mem, 1, 0) \o Content(h)
  BY <1>1, <1>2, OverwriteSeq, 0 \in Nat, 0 + Len(Content(h)) <= Len(g.mem)
<1> HIDE DEF m
<1>4. SubSeq(m, 1, wsize[h]) = Content(h)
  <2>1. SubSeq(g.mem, 1, 0) = <<>>
    BY <1>1
  <2>2. <<>> \o Content(h) = Content(h)
    BY <1>2
  <2> QED
    BY <1>2, <1>3, <2>1, <2>2
<1>5. large[h] # Null => Holders(large[h]) # {h}
  BY SharedMeans DEF IInv, SmallOrLarge, Shared
<1>6. [g EXCEPT !.mem = m] \in [buf : Buffers, size : Nat, mem : Seq(Val), home : Capacities \cup {Heap}]
  BY <1>1, <1>3
<1>7. /\ [g EXCEPT !.mem = m].buf = g.buf
      /\ [g EXCEPT !.mem = m].size = g.size
      /\ [g EXCEPT !.mem = m].mem = m
  BY <1>1
<1> QED
  BY <1>0, <1>1, <1>3, <1>4, <1>5, <1>6, <1>7 DEF Provided, m

(* So is the buffer that only h holds, resized. *)
LEMMA ResizeProvided ==
  ASSUME IInv, NEW h \in Handles, ~ isSmall[h], ~ Shared(h), NEW n \in Nat, wsize[h] <= n
  PROVE  LET b == large[h]
         IN Provided(h, [buf |-> b, size |-> n, home |-> home[b],
                         mem |-> IF n > size[b] THEN Realloc(mem[b], n) ELSE mem[b]])
<1> DEFINE b == large[h]
           m == IF n > size[b] THEN Realloc(mem[b], n) ELSE mem[b]
<1>1. /\ b \in Buffers /\ Holders(b) = {h}
      /\ size[b] \in Nat /\ mem[b] \in Seq(Val) /\ size[b] <= Len(mem[b])
      /\ wsize[h] \in Nat /\ wsize[h] <= Len(mem[b])
  BY SharedMeans DEF IInv, Types, Room, SmallOrLarge, Cells
<1>2. home[b] \in Capacities \cup {Heap}
  BY <1>1 DEF IInv, Types, Held
<1>3. Content(h) = SubSeq(mem[b], 1, wsize[h])
  BY DEF Content, Cells
<1>4. m \in Seq(Val) /\ n <= Len(m) /\ SubSeq(m, 1, wsize[h]) = SubSeq(mem[b], 1, wsize[h])
  <2>1. CASE n > size[b]
    <3>1. /\ Realloc(mem[b], n) \in Seq(Val)
          /\ Len(Realloc(mem[b], n)) = n
          /\ SubSeq(Realloc(mem[b], n), 1, wsize[h]) = SubSeq(mem[b], 1, wsize[h])
      BY <1>1, ReallocSeq, Junk \in Val, wsize[h] \in 0 .. n DEF Val
    <3>2. m = Realloc(mem[b], n)
      BY <2>1
    <3>3. n <= Len(Realloc(mem[b], n))
      BY <3>1
    <3> HIDE DEF m
    <3> QED
      BY <3>1, <3>2, <3>3, Zenon
  <2>2. CASE ~ n > size[b]
    BY <1>1, <2>2
  <2> QED
    BY <2>1, <2>2
<1> HIDE DEF m
<1>5. wsize[h] <= Len(m)
  BY <1>1, <1>4
<1> QED
  BY <1>1, <1>2, <1>3, <1>4, <1>5 DEF Provided, m

LEMMA PutStep ==
  ASSUME IInv, NEW h \in Handles, NEW s \in Seq(Val), Put(h, s), ~ overrun'
  PROVE  IInv'
<1>1. wsize[h] + Len(s) <= MaxSize
  BY DEF Put
<1>2. Len(s) \in Nat /\ wsize[h] \in Nat
  BY DEF IInv, Types
<1>3. GrowSize(Len(s)) + wsize[h] \in Nat /\ wsize[h] <= GrowSize(Len(s)) + wsize[h]
  BY <1>2, SizeAssumption DEF GrowSize, Max2
<1>4. CASE PutSmall(h, s)
  BY <1>1, <1>4, PutSmallStep
<1>5. ASSUME PutCopied(h, s), isSmall[h] \/ Shared(h) PROVE IInv'
  <2>1. PICK g \in Gettable(GrowSize(Len(s)) + wsize[h]) :
            /\ wsize[h] <= Len(g.mem)
            /\ PutLarge(h, s, [g EXCEPT !.mem = Overwrite(g.mem, 0, Written(h))], mem)
    BY <1>5 DEF PutCopied
  <2>2. Provided(h, [g EXCEPT !.mem = Overwrite(g.mem, 0, Written(h))])
    BY <1>3, <1>5, <2>1, CopyProvided
  <2> QED
    BY <1>1, <2>1, <2>2, PutLargeStep
<1>6. ASSUME PutResized(h, s), ~ isSmall[h], ~ Shared(h) PROVE IInv'
  BY <1>1, <1>3, <1>6, ResizeProvided, PutLargeStep DEF PutResized
<1> QED
  BY <1>4, <1>5, <1>6 DEF Put

(* h takes over what another one is, or becomes empty. *)
LEMMA AssignStep ==
  ASSUME IInv, NEW h \in Handles, NEW other \in Handles, Assign(h, other)
  PROVE  IInv'
<1>1. /\ h # other /\ DropLarge(h)
      /\ isSmall' = [isSmall EXCEPT ![h] = isSmall[other]]
      /\ wsize' = [wsize EXCEPT ![h] = wsize[other]]
      /\ small' = [small EXCEPT ![h] = small[other]]
      /\ large' = [large EXCEPT ![h] = large[other]]
      /\ log' = [log EXCEPT ![h] = log[other]]
      /\ size' = size
  BY DEF Assign, Become
<1>2. Types'
  BY <1>1, DropFacts DEF IInv, Types
<1>3. \A k \in Handles \ {h} : ~ isSmall[k] => large[k] \in Buffers /\ mem'[large[k]] = mem[large[k]]
  BY <1>1, DropFacts DEF IInv, Types, SmallOrLarge, Holders
<1>4. /\ \A k \in Handles \ {h} : Cells(k)' = Cells(k)
      /\ Cells(h)' = Cells(other)
  BY <1>1, <1>3 DEF IInv, Types, Cells
<1>5. Room'
  <2>1. \A k \in Handles : Len(small'[k]) = Small
    BY <1>1 DEF IInv, Types, Room
  <2>2. \A b \in Buffers : size'[b] <= Len(mem'[b])
    BY <1>1, DropFacts DEF IInv, Types, Room
  <2>3. \A k \in Handles : wsize'[k] <= Len(Cells(k)')
    BY <1>1, <1>4 DEF IInv, Types, Room
  <2> QED
    BY <2>1, <2>2, <2>3 DEF Room
<1>6. SmallOrLarge' /\ PooledMade'
  BY <1>1, DropFacts DEF IInv, Types, SmallOrLarge, PooledMade
<1>7. Held'
  <2> SUFFICES ASSUME NEW b \in Buffers
               PROVE  Holders(b)' = {} <=> b \in pooled' \/ home'[b] = Unmade
    BY DEF Held
  <2>1. Holders(b)' = {} <=> Holders(b) \ {h} = {}
    <3>1. Holders(b)' \subseteq (Holders(b) \ {h}) \cup {h}
      BY <1>1 DEF IInv, Types, Holders
    <3>2. Holders(b) \ {h} \subseteq Holders(b)'
      BY <1>1 DEF IInv, Types, Holders
    <3>3. h \in Holders(b)' => other \in Holders(b) \ {h}
      BY <1>1 DEF IInv, Types, Holders
    <3> QED
      BY <3>1, <3>2, <3>3
  <2>2. Holders(b) \ {h} = {} <=> b \in pooled' \/ home'[b] = Unmade
    BY <1>1, DropFacts
  <2> QED
    BY <2>1, <2>2
<1>8. Kept'
  <2> SUFFICES ASSUME NEW k \in Handles PROVE Content(k)' = log'[k]
    BY DEF Kept
  <2>1. CASE k = h
    BY <1>1, <1>4, <2>1 DEF IInv, Types, Kept, Content
  <2>2. CASE k # h
    BY <1>1, <1>4, <2>2 DEF IInv, Types, Kept, Content
  <2> QED
    BY <2>1, <2>2
<1> QED
  BY <1>2, <1>5, <1>6, <1>7, <1>8 DEF IInv

LEMMA ClearStep ==
  ASSUME IInv, NEW h \in Handles, Clear(h)
  PROVE  IInv'
<1>1. /\ DropLarge(h)
      /\ isSmall' = [isSmall EXCEPT ![h] = TRUE]
      /\ wsize' = [wsize EXCEPT ![h] = 0]
      /\ small' = [small EXCEPT ![h] = Blank(Small)]
      /\ large' = [large EXCEPT ![h] = Null]
      /\ log' = [log EXCEPT ![h] = <<>>]
      /\ size' = size
  BY DEF Clear
<1>2. Blank(Small) \in Seq(Val) /\ Len(Blank(Small)) = Small
  BY SizeAssumption DEF Blank, Val
<1>3. Types'
  BY <1>1, <1>2, DropFacts, SizeAssumption DEF IInv, Types
<1>4. \A k \in Handles \ {h} : ~ isSmall[k] => large[k] \in Buffers /\ mem'[large[k]] = mem[large[k]]
  BY <1>1, DropFacts DEF IInv, Types, SmallOrLarge, Holders
<1>5. /\ \A k \in Handles \ {h} : Cells(k)' = Cells(k)
      /\ Cells(h)' = Blank(Small)
  BY <1>1, <1>4 DEF IInv, Types, Cells
<1>6. Room'
  <2>1. \A k \in Handles : Len(small'[k]) = Small
    BY <1>1, <1>2 DEF IInv, Types, Room
  <2>2. \A b \in Buffers : size'[b] <= Len(mem'[b])
    BY <1>1, DropFacts DEF IInv, Types, Room
  <2>3. \A k \in Handles : wsize'[k] <= Len(Cells(k)')
    BY <1>1, <1>2, <1>5, SizeAssumption DEF IInv, Types, Room
  <2> QED
    BY <2>1, <2>2, <2>3 DEF Room
<1>7. SmallOrLarge' /\ PooledMade'
  BY <1>1, DropFacts DEF IInv, Types, SmallOrLarge, PooledMade
<1>8. Held'
  <2> SUFFICES ASSUME NEW b \in Buffers
               PROVE  Holders(b)' = {} <=> b \in pooled' \/ home'[b] = Unmade
    BY DEF Held
  <2>1. Holders(b)' = Holders(b) \ {h}
    BY <1>1 DEF IInv, Types, Holders
  <2> QED
    BY <1>1, <2>1, DropFacts
<1>9. Kept'
  <2> SUFFICES ASSUME NEW k \in Handles PROVE Content(k)' = log'[k]
    BY DEF Kept
  <2>1. CASE k = h
    <3>1. SubSeq(Blank(Small), 1, 0) = <<>>
      BY <1>2
    <3> QED
      BY <1>1, <1>5, <2>1, <3>1 DEF IInv, Types, Content
  <2>2. CASE k # h
    BY <1>1, <1>5, <2>2 DEF IInv, Types, Kept, Content
  <2> QED
    BY <2>1, <2>2
<1> QED
  BY <1>3, <1>6, <1>7, <1>8, <1>9 DEF IInv

(* Moving updates two messages at once. *)
LEMMA TwoUpdates ==
  ASSUME NEW S, NEW T, NEW f \in [S -> T], NEW a \in S, NEW b \in S, NEW x \in T, NEW y \in T
  PROVE  [f EXCEPT ![a] = x, ![b] = y] \in [S -> T]
  OBVIOUS

LEMMA MoveStep ==
  ASSUME IInv, NEW h \in Handles, NEW other \in Handles, Move(h, other)
  PROVE  IInv'
<1>1. /\ h # other /\ DropLarge(h)
      /\ isSmall' = [isSmall EXCEPT ![h] = isSmall[other], ![other] = TRUE]
      /\ wsize' = [wsize EXCEPT ![h] = wsize[other], ![other] = 0]
      /\ small' = [small EXCEPT ![h] = small[other], ![other] = Blank(Small)]
      /\ large' = [large EXCEPT ![h] = large[other], ![other] = Null]
      /\ log' = [log EXCEPT ![h] = log[other], ![other] = <<>>]
      /\ size' = size
  BY DEF Move
<1>2. Blank(Small) \in Seq(Val) /\ Len(Blank(Small)) = Small
  BY SizeAssumption DEF Blank, Val
<1>3. Types'
  <2>1. /\ mem' \in [Buffers -> Seq(Val)]
        /\ home' \in [Buffers -> Capacities \cup {Heap, Unmade}]
        /\ pooled' \subseteq Buffers
    BY <1>1, DropFacts
  <2>2. small' \in [Handles -> Seq(Val)]
    BY <1>1, <1>2, TwoUpdates DEF IInv, Types
  <2>3. log' \in [Handles -> Seq(Val)]
    BY <1>1, TwoUpdates, <<>> \in Seq(Val) DEF IInv, Types
  <2>4. isSmall' \in [Handles -> BOOLEAN]
    <3>1. isSmall \in [Handles -> BOOLEAN] /\ isSmall[other] \in BOOLEAN
      BY DEF IInv, Types
    <3>2. isSmall' = [isSmall EXCEPT ![h] = isSmall[other], ![other] = TRUE]
      BY <1>1
    <3> QED
      BY <3>1, <3>2, TwoUpdates, Zenon
  <2>5. large' \in [Handles -> Buffers \cup {Null}]
    BY <1>1, TwoUpdates DEF IInv, Types
  <2>6. wsize' \in [Handles -> 0 .. MaxSize]
    <3>1. 0 \in 0 .. MaxSize /\ wsize[other] \in 0 .. MaxSize
      BY SizeAssumption DEF IInv, Types
    <3> QED
      BY <1>1, <3>1, TwoUpdates DEF IInv, Types
  <2>7. size' \in [Buffers -> Nat]
    BY <1>1 DEF IInv, Types
  <2> QED
    BY <2>1, <2>2, <2>3, <2>4, <2>5, <2>6, <2>7 DEF Types
<1>4. \A k \in Handles \ {h} : ~ isSmall[k] => large[k] \in Buffers /\ mem'[large[k]] = mem[large[k]]
  BY <1>1, DropFacts DEF IInv, Types, SmallOrLarge, Holders
<1>5. /\ \A k \in Handles \ {h, other} : Cells(k)' = Cells(k)
      /\ Cells(h)' = Cells(other)
      /\ Cells(other)' = Blank(Small)
  BY <1>1, <1>4 DEF IInv, Types, Cells
<1>6. Room'
  <2>1. \A k \in Handles : Len(small'[k]) = Small
    BY <1>1, <1>2 DEF IInv, Types, Room
  <2>2. \A b \in Buffers : size'[b] <= Len(mem'[b])
    BY <1>1, DropFacts DEF IInv, Types, Room
  <2>3. \A k \in Handles : wsize'[k] <= Len(Cells(k)')
    BY <1>1, <1>2, <1>5, SizeAssumption DEF IInv, Types, Room
  <2> QED
    BY <2>1, <2>2, <2>3 DEF Room
<1>7. SmallOrLarge' /\ PooledMade'
  BY <1>1, DropFacts DEF IInv, Types, SmallOrLarge, PooledMade
<1>8. Held'
  <2> SUFFICES ASSUME NEW b \in Buffers
               PROVE  Holders(b)' = {} <=> b \in pooled' \/ home'[b] = Unmade
    BY DEF Held
  <2>1. Holders(b)' = {} <=> Holders(b) \ {h} = {}
    <3>1. Holders(b)' \subseteq (Holders(b) \ {h}) \cup {h}
      BY <1>1 DEF IInv, Types, Holders
    <3>2. Holders(b) \ {h, other} \subseteq Holders(b)'
      BY <1>1 DEF IInv, Types, Holders
    <3>3. h \in Holders(b)' <=> other \in Holders(b) \ {h}
      BY <1>1 DEF IInv, Types, Holders
    <3> QED
      BY <3>1, <3>2, <3>3
  <2>2. Holders(b) \ {h} = {} <=> b \in pooled' \/ home'[b] = Unmade
    BY <1>1, DropFacts
  <2> QED
    BY <2>1, <2>2
<1>9. Kept'
  <2> SUFFICES ASSUME NEW k \in Handles PROVE Content(k)' = log'[k]
    BY DEF Kept
  <2>1. CASE k = h
    BY <1>1, <1>5, <2>1 DEF IInv, Types, Kept, Content
  <2>2. CASE k = other
    <3>1. SubSeq(Blank(Small), 1, 0) = <<>>
      BY <1>2
    <3> QED
      BY <1>1, <1>5, <2>2, <3>1 DEF IInv, Types, Content
  <2>3. CASE k # h /\ k # other
    BY <1>1, <1>5, <2>3 DEF IInv, Types, Kept, Content
  <2> QED
    BY <2>1, <2>2, <2>3
<1> QED
  BY <1>3, <1>6, <1>7, <1>8, <1>9 DEF IInv

-----------------------------------------------------------------------------
(* The messages *)

Objects == (Handles \X Nat) \cup {Null}

MInv == /\ IInv
        /\ list \in [Handles -> Seq(Objects)]

LEMMA InitHolds == MInit => MInv
<1> SUFFICES ASSUME MInit PROVE MInv
  OBVIOUS
<1> USE DEF MInit, Init
<1>1. Blank(Small) \in Seq(Val) /\ Len(Blank(Small)) = Small /\ SubSeq(Blank(Small), 1, 0) = <<>>
  <2>1. Blank(Small) \in Seq(Val) /\ Len(Blank(Small)) = Small
    BY SizeAssumption DEF Blank, Val
  <2> QED
    BY <2>1
<1>2. Types
  BY <1>1, SizeAssumption DEF Types
<1>3. Room /\ SmallOrLarge /\ PooledMade
  BY <1>1, SizeAssumption DEF Room, SmallOrLarge, PooledMade, Cells
<1>4. Held
  BY DEF Held, Holders
<1>5. Kept
  BY <1>1 DEF Kept, Content, Cells
<1>6. list \in [Handles -> Seq(Objects)]
  BY <<>> \in Seq(Objects)
<1> QED
  BY <1>2, <1>3, <1>4, <1>5, <1>6 DEF MInv, IInv

(* An int8_t is below its limit, and counts right up to it. *)
LEMMA Int8Facts ==
  ASSUME NEW k \in Nat
  PROVE  Int8(k) \in Int /\ Int8(k) < IndexLimit /\ (k < IndexLimit => Int8(k) = k)
<1>1. 2 * IndexLimit \in Nat \ {0}
  BY IndexAssumption
<1>2. k % (2 * IndexLimit) \in 0 .. 2 * IndexLimit - 1
  BY <1>1
<1>3. k < IndexLimit => k % (2 * IndexLimit) = k
  BY <1>1, IndexAssumption
<1> QED
  BY <1>2, <1>3, IndexAssumption DEF Int8

(* The objects in a message's list, whatever byte is taken for an index.    *)
LEMMA GetRawList ==
  ASSUME list \in [Handles -> Seq(Objects)], NEW h \in Handles, GetRaw(h)
  PROVE  list' \in [Handles -> Seq(Objects)]
<1>1. PICK k \in NextIndex(h) :
          list' = [list EXCEPT ![h] = IF k \in 0 .. Len(list[h]) - 1 THEN Taken(h, k) ELSE list[h]]
  BY DEF GetRaw
<1>2. ASSUME k \in 0 .. Len(list[h]) - 1 PROVE Taken(h, k) \in Seq(Objects)
  BY <1>2 DEF Taken, Objects
<1> QED
  BY <1>1, <1>2

LEMMA StepHolds == MInv /\ [MNext]_<<vars, messageVars>> => (overrun \/ MInv)'
<1> SUFFICES ASSUME MInv, [MNext]_<<vars, messageVars>>, ~ overrun' PROVE MInv'
  OBVIOUS
<1>1. UNCHANGED vars => IInv'
  BY DEF MInv, IInv, Types, Room, SmallOrLarge, PooledMade, Held, Kept,
         Holders, Content, Cells, vars, handleVars, bufferVars
<1>2. ASSUME NEW h \in Handles, NEW n \in PutSizes, PutValue(h, n) PROVE MInv'
  <2>1. Text(h, n) \in Seq(Val)
    BY SizeAssumption DEF Text, Val
  <2>2. Put(h, Text(h, n)) /\ list' = list
    BY <1>2 DEF PutValue
  <2> QED
    BY <2>1, <2>2, PutStep DEF MInv
<1>3. ASSUME NEW h \in Handles, PutShared(h) PROVE MInv'
  <2>1. <<Int8(Len(list[h]))>> \in Seq(Val)
    BY Int8Facts DEF MInv, Val
  <2>2. Put(h, <<Int8(Len(list[h]))>>)
    BY <1>3 DEF PutShared
  <2>3. Append(list[h], Object(h)) \in Seq(Objects) /\ list[h] \in Seq(Objects)
    BY DEF MInv, Object, Objects
  <2>4. list' \in [Handles -> Seq(Objects)]
    BY <1>3, <2>3 DEF PutShared, MInv
  <2> QED
    BY <2>1, <2>2, <2>4, PutStep DEF MInv
<1>4. ASSUME NEW h \in Handles, NEW n \in PutSizes, Get(h, n) PROVE MInv'
  BY <1>1, <1>4 DEF Get, MInv
<1>5. ASSUME NEW h \in Handles, GetRaw(h) PROVE MInv'
  <2>1. list' \in [Handles -> Seq(Objects)]
    BY <1>5, GetRawList DEF MInv
  <2> QED
    BY <1>1, <1>5, <2>1 DEF GetRaw, MInv
<1>6. ASSUME NEW h \in Handles, NEW other \in Handles, Copy(h, other) PROVE MInv'
  <2>1. Assign(h, other) /\ list' = [list EXCEPT ![h] = list[other]]
    BY <1>6 DEF Copy
  <2> QED
    BY <2>1, AssignStep DEF MInv
<1>7. ASSUME NEW h \in Handles, NEW other \in Handles, MoveTo(h, other) PROVE MInv'
  <2>1. Move(h, other) /\ list' = [list EXCEPT ![h] = list[other], ![other] = <<>>]
    BY <1>7 DEF MoveTo
  <2>2. IInv'
    BY <2>1, MoveStep DEF MInv
  <2>3. list' \in [Handles -> Seq(Objects)]
    BY <2>1, TwoUpdates, <<>> \in Seq(Objects) DEF MInv
  <2> QED
    BY <2>2, <2>3 DEF MInv
<1>8. ASSUME NEW h \in Handles, ClearAll(h) PROVE MInv'
  <2>1. Clear(h) /\ list' = [list EXCEPT ![h] = <<>>]
    BY <1>8 DEF ClearAll
  <2>2. IInv'
    BY <2>1, ClearStep DEF MInv
  <2>3. list' \in [Handles -> Seq(Objects)]
    BY <2>1, <<>> \in Seq(Objects) DEF MInv
  <2> QED
    BY <2>2, <2>3 DEF MInv
<1>9. CASE UNCHANGED <<vars, messageVars>>
  BY <1>1, <1>9 DEF MInv, messageVars
<1> QED
  BY <1>2, <1>3, <1>4, <1>5, <1>6, <1>7, <1>8, <1>9 DEF MNext

(* Once a copy went past the end of an allocation, it did for good.         *)
LEMMA OverrunStays == overrun /\ [MNext]_<<vars, messageVars>> => overrun'
<1> SUFFICES ASSUME overrun, [MNext]_<<vars, messageVars>> PROVE overrun'
  OBVIOUS
<1>1. ASSUME NEW h, NEW s, Put(h, s) PROVE overrun'
  BY <1>1 DEF Put, PutSmall, PutCopied, PutResized
<1>2. UNCHANGED vars => overrun'
  BY DEF vars
<1>3. ASSUME NEW h \in Handles, NEW n \in PutSizes, PutValue(h, n) \/ Get(h, n) PROVE overrun'
  BY <1>1, <1>2, <1>3 DEF PutValue, Get
<1>4. ASSUME NEW h \in Handles, PutShared(h) \/ GetRaw(h) PROVE overrun'
  BY <1>1, <1>2, <1>4 DEF PutShared, GetRaw
<1>5. ASSUME NEW h \in Handles, NEW other \in Handles, Copy(h, other) \/ MoveTo(h, other) PROVE overrun'
  BY <1>5 DEF Copy, MoveTo, Assign, Move
<1>6. ASSUME NEW h \in Handles, ClearAll(h) PROVE overrun'
  BY <1>6 DEF ClearAll, Clear
<1> QED
  BY <1>2, <1>3, <1>4, <1>5, <1>6 DEF MNext

(* MInv holds until a copy goes past the end of an allocation.              *)
THEOREM Invariant == MSpec => [](overrun \/ MInv)
<1>1. (overrun \/ MInv) /\ [MNext]_<<vars, messageVars>> => (overrun \/ MInv)'
  BY StepHolds, OverrunStays
<1> QED
  BY <1>1, InitHolds, PTL DEF MSpec

(* A message holds what was put into it or into those it is a copy of, for  *)
(* any messages, sizes and capacities (copy on write, and recycling), up to *)
(* the first copy that does not fit into the buffer reserve provides.       *)
THEOREM HoldsWhatWasPutHolds == MSpec => []HoldsWhatWasPut
<1>1. overrun \/ MInv => HoldsWhatWasPut
  BY WrittenIs DEF MInv, IInv, Kept, HoldsWhatWasPut, CopiesFit
<1> QED
  BY <1>1, Invariant, PTL

(* Up to then a buffer is in its pool or deleted exactly when nobody refers *)
(* to it.                                                                   *)
THEOREM HeldOrPooledHolds == MSpec => []HeldOrPooled
<1>1. overrun \/ MInv => HeldOrPooled
  BY DEF MInv, IInv, Held, HeldOrPooled, CopiesFit
<1> QED
  BY <1>1, Invariant, PTL

-----------------------------------------------------------------------------
(* Types: these hold behind a copy that did not fit, too, since nothing of  *)
(* them depends on what is in the buffers.                                  *)

TInv == TypeOK /\ small \in [Handles -> Seq(Val)]

TypesInv == TInv /\ list \in [Handles -> Seq(Objects)]

(* The message h refers to buffer g.buf, whatever memory has become.        *)
LEMMA PutLargeTypes ==
  ASSUME TInv, NEW h \in Handles, NEW s \in Seq(Val), wsize[h] + Len(s) <= MaxSize,
         NEW g, g.buf \in Buffers, g.size \in Nat, g.home \in Capacities \cup {Heap, Unmade},
         NEW m, PutLarge(h, s, g, m), overrun' \in BOOLEAN
  PROVE  TInv'
<1> DEFINE c == g.buf
           w == IF wsize[h] + Len(s) <= g.size THEN wsize[h] + Len(s) ELSE wsize[h]
<1>1. w \in 0 .. MaxSize
  <2>1. wsize[h] \in 0 .. MaxSize /\ Len(s) \in Nat
    BY DEF TInv, TypeOK
  <2> QED
    BY <2>1, SizeAssumption
<1>2. /\ isSmall' = [isSmall EXCEPT ![h] = FALSE]
      /\ large' = [large EXCEPT ![h] = c]
      /\ home' = [home EXCEPT ![c] = g.home]
      /\ pooled' = pooled \ {c}
      /\ size' = [size EXCEPT ![c] = g.size]
      /\ wsize' = [wsize EXCEPT ![h] = w]
      /\ small' = [small EXCEPT ![h] = Blank(Small)]
  BY DEF PutLarge
<1> HIDE DEF c, w
<1>3. Blank(Small) \in Seq(Val) /\ DOMAIN Blank(Small) = 1 .. Small
  BY SizeAssumption DEF Blank, Val
<1>4. /\ isSmall' \in [Handles -> BOOLEAN]
      /\ large' \in [Handles -> Buffers \cup {Null}]
      /\ \A k \in Handles : isSmall'[k] <=> large'[k] = Null
  BY <1>2, NameAssumption DEF TInv, TypeOK, c
<1>5. /\ small' \in [Handles -> Seq(Val)]
      /\ \A k \in Handles : DOMAIN small'[k] = 1 .. Small
  BY <1>2, <1>3 DEF TInv, TypeOK
<1>6. /\ wsize' \in [Handles -> 0 .. MaxSize]
      /\ size' \in [Buffers -> Nat]
      /\ home' \in [Buffers -> Capacities \cup {Heap, Unmade}]
      /\ pooled' \subseteq Buffers
  BY <1>1, <1>2 DEF TInv, TypeOK
<1> QED
  BY <1>4, <1>5, <1>6 DEF TInv, TypeOK

LEMMA GettableTypes ==
  ASSUME TInv, NEW n \in Nat, NEW g \in Gettable(n)
  PROVE  g.buf \in Buffers /\ g.size \in Nat /\ g.home \in Capacities \cup {Heap, Unmade}
<1> DEFINE c   == CapacityFor(n)
           new == {d \in Buffers : home[d] = Unmade}
<1>1. CASE n > MaxCached
  <2>1. PICK b \in new : g = [buf |-> b, size |-> n, mem |-> Blank(n), home |-> Heap]
    BY <1>1 DEF Gettable
  <2> QED
    BY <2>1
<1>2. CASE ~ n > MaxCached
  <2>1. c \in Capacities /\ c \in Nat
    <3>1. n <= MaxCached /\ MaxCached \in Nat
      BY <1>2, SizeAssumption
    <3>2. c \in Capacities
      BY <3>1, CapacityForIn
    <3> QED
      BY <3>2, SizeAssumption
  <2> HIDE DEF c
  <2>2. CASE g \in {[buf |-> b, size |-> c, mem |-> Blank(c), home |-> c] : b \in new}
    BY <2>1, <2>2
  <2>3. CASE g \in {[buf |-> b, size |-> size[b], mem |-> mem[b], home |-> c] : b \in pooled}
    BY <2>1, <2>3 DEF TInv, TypeOK
  <2> QED
    BY <1>2, <2>2, <2>3 DEF Gettable, c
<1> QED
  BY <1>1, <1>2

LEMMA DropTypes ==
  ASSUME TInv, NEW h \in Handles, DropLarge(h)
  PROVE  /\ home' \in [Buffers -> Capacities \cup {Heap, Unmade}]
         /\ pooled' \subseteq Buffers
<1>1. CASE large[h] # Null /\ Holders(large[h]) = {h}
  <2>1. large[h] \in Buffers /\ Release(large[h])
    BY <1>1 DEF DropLarge, TInv, TypeOK
  <2> QED
    BY <2>1 DEF Release, TInv, TypeOK
<1>2. CASE ~ (large[h] # Null /\ Holders(large[h]) = {h})
  BY <1>2 DEF DropLarge, TInv, TypeOK
<1> QED
  BY <1>1, <1>2

LEMMA PutTypes ==
  ASSUME TInv, NEW h \in Handles, NEW s \in Seq(Val), Put(h, s)
  PROVE  TInv'
<1>1. wsize[h] + Len(s) <= MaxSize
  BY DEF Put
<1>2. wsize[h] \in 0 .. MaxSize /\ Len(s) \in Nat /\ GrowSize(Len(s)) + wsize[h] \in Nat
  BY SizeAssumption DEF TInv, TypeOK, GrowSize, Max2
<1>3. CASE PutSmall(h, s)
  <2>1. /\ small[h] \in Seq(Val) /\ Len(small[h]) = Small
        /\ wsize[h] \in Nat /\ wsize[h] + Len(s) <= Len(small[h])
    BY <1>2, <1>3, SizeAssumption DEF PutSmall, TInv, TypeOK
  <2> DEFINE o == Overwrite(small[h], wsize[h], s)
  <2>2. o \in Seq(Val) /\ DOMAIN o = 1 .. Small
    BY <2>1, OverwriteSeq
  <2>3. wsize[h] + Len(s) \in 0 .. MaxSize
    BY <1>1, <1>2, SizeAssumption
  <2> HIDE DEF o
  <2>4. /\ small' = [small EXCEPT ![h] = o]
        /\ wsize' = [wsize EXCEPT ![h] = wsize[h] + Len(s)]
        /\ UNCHANGED <<isSmall, large, size, home, pooled, overrun>>
    BY <1>3 DEF PutSmall, bufferVars, o
  <2> QED
    BY <2>2, <2>3, <2>4 DEF TInv, TypeOK
<1>4. CASE PutCopied(h, s)
  <2>0. PICK g \in Gettable(GrowSize(Len(s)) + wsize[h]) :
            /\ \E m : PutLarge(h, s, [g EXCEPT !.mem = Overwrite(g.mem, 0, Written(h))], m)
            /\ overrun' = overrun \/ overrun' = TRUE
    BY <1>4 DEF PutCopied
  <2>1. PICK m : PutLarge(h, s, [g EXCEPT !.mem = Overwrite(g.mem, 0, Written(h))], m)
    BY <2>0
  <2> DEFINE k == [g EXCEPT !.mem = Overwrite(g.mem, 0, Written(h))]
  <2>2. k.buf = g.buf /\ k.size = g.size /\ k.home = g.home
    OBVIOUS
  <2>3. overrun' \in BOOLEAN
    BY <2>0 DEF TInv, TypeOK
  <2> HIDE DEF k
  <2> QED
    BY <1>1, <1>2, <2>1, <2>2, <2>3, GettableTypes, PutLargeTypes DEF k
<1>5. CASE ~ isSmall[h] /\ PutResized(h, s)
  <2> DEFINE b   == large[h]
             new == GrowSize(Len(s)) + wsize[h]
             g   == [buf |-> b, size |-> new, home |-> home[b],
                     mem |-> IF new > size[b] THEN Realloc(mem[b], new) ELSE mem[b]]
  <2>1. b \in Buffers /\ home[b] \in Capacities \cup {Heap, Unmade}
    BY <1>5 DEF TInv, TypeOK
  <2>2. g.buf = b /\ g.size = new /\ g.home = home[b]
    OBVIOUS
  <2>3. PutLarge(h, s, g, mem) /\ overrun' \in BOOLEAN
    BY <1>5 DEF PutResized, TInv, TypeOK
  <2> HIDE DEF g
  <2> QED
    BY <1>1, <1>2, <2>1, <2>2, <2>3, PutLargeTypes
<1> QED
  BY <1>3, <1>4, <1>5 DEF Put

LEMMA BlankTypes == Blank(Small) \in Seq(Val) /\ DOMAIN Blank(Small) = 1 .. Small
  BY SizeAssumption DEF Blank, Val

LEMMA AssignTypes ==
  ASSUME TInv, NEW h \in Handles, NEW other \in Handles, Assign(h, other)
  PROVE  TInv'
<1>1. /\ isSmall' = [isSmall EXCEPT ![h] = isSmall[other]]
      /\ wsize' = [wsize EXCEPT ![h] = wsize[other]]
      /\ small' = [small EXCEPT ![h] = small[other]]
      /\ large' = [large EXCEPT ![h] = large[other]]
      /\ UNCHANGED <<size, overrun>>
      /\ DropLarge(h)
  BY DEF Assign, Become
<1> QED
  BY <1>1, DropTypes DEF TInv, TypeOK

LEMMA ClearTypes ==
  ASSUME TInv, NEW h \in Handles, Clear(h)
  PROVE  TInv'
<1>1. /\ isSmall' = [isSmall EXCEPT ![h] = TRUE]
      /\ wsize' = [wsize EXCEPT ![h] = 0]
      /\ small' = [small EXCEPT ![h] = Blank(Small)]
      /\ large' = [large EXCEPT ![h] = Null]
      /\ UNCHANGED <<size, overrun>>
      /\ DropLarge(h)
  BY DEF Clear
<1> QED
  BY <1>1, BlankTypes, DropTypes, SizeAssumption DEF TInv, TypeOK

LEMMA MoveTypes ==
  ASSUME TInv, NEW h \in Handles, NEW other \in Handles, Move(h, other)
  PROVE  TInv'
<1>1. /\ h # other /\ DropLarge(h)
      /\ isSmall' = [isSmall EXCEPT ![h] = isSmall[other], ![other] = TRUE]
      /\ wsize' = [wsize EXCEPT ![h] = wsize[other], ![other] = 0]
      /\ small' = [small EXCEPT ![h] = small[other], ![other] = Blank(Small)]
      /\ large' = [large EXCEPT ![h] = large[other], ![other] = Null]
      /\ UNCHANGED <<size, overrun>>
  BY DEF Move
<1>2. /\ small' \in [Handles -> Seq(Val)]
      /\ \A k \in Handles : DOMAIN small'[k] = 1 .. Small
  <2>1. small' \in [Handles -> Seq(Val)]
    BY <1>1, BlankTypes, TwoUpdates DEF TInv
  <2> QED
    BY <1>1, <2>1, BlankTypes DEF TInv, TypeOK
<1>3. isSmall' \in [Handles -> BOOLEAN]
  <2>1. isSmall \in [Handles -> BOOLEAN] /\ isSmall[other] \in BOOLEAN
    BY DEF TInv, TypeOK
  <2>2. isSmall' = [isSmall EXCEPT ![h] = isSmall[other], ![other] = TRUE]
    BY <1>1
  <2> QED
    BY <2>1, <2>2, TwoUpdates, Zenon
<1>4. large' \in [Handles -> Buffers \cup {Null}]
  BY <1>1, TwoUpdates DEF TInv, TypeOK
<1>5. \A k \in Handles : isSmall'[k] <=> large'[k] = Null
  BY <1>1 DEF TInv, TypeOK
<1>6. wsize' \in [Handles -> 0 .. MaxSize]
  <2>1. 0 \in 0 .. MaxSize /\ wsize[other] \in 0 .. MaxSize
    BY SizeAssumption DEF TInv, TypeOK
  <2> QED
    BY <1>1, <2>1, TwoUpdates DEF TInv, TypeOK
<1> QED
  BY <1>1, <1>2, <1>3, <1>4, <1>5, <1>6, DropTypes DEF TInv, TypeOK

LEMMA TypesStep == TypesInv /\ [MNext]_<<vars, messageVars>> => TypesInv'
<1> DEFINE Lists == list \in [Handles -> Seq(Objects)]
<1> SUFFICES ASSUME TInv, Lists, [MNext]_<<vars, messageVars>> PROVE TInv' /\ Lists'
  BY DEF TypesInv
<1>1. UNCHANGED vars => TInv'
  BY DEF TInv, TypeOK, vars, handleVars, bufferVars
<1>2. ASSUME NEW h \in Handles, NEW n \in PutSizes, PutValue(h, n) PROVE TInv' /\ Lists'
  <2>1. Text(h, n) \in Seq(Val)
    BY SizeAssumption DEF Text, Val
  <2> QED
    BY <1>2, <2>1, PutTypes DEF PutValue
<1>3. ASSUME NEW h \in Handles, PutShared(h) PROVE TInv' /\ Lists'
  <2>1. <<Int8(Len(list[h]))>> \in Seq(Val)
    BY Int8Facts DEF Val
  <2>2. Append(list[h], Object(h)) \in Seq(Objects) /\ list[h] \in Seq(Objects)
    BY DEF Object, Objects
  <2>3. Lists'
    BY <1>3, <2>2 DEF PutShared
  <2> QED
    BY <1>3, <2>1, <2>3, PutTypes DEF PutShared
<1>4. ASSUME NEW h \in Handles, NEW n \in PutSizes, Get(h, n) PROVE TInv' /\ Lists'
  BY <1>1, <1>4 DEF Get
<1>5. ASSUME NEW h \in Handles, GetRaw(h) PROVE TInv' /\ Lists'
  BY <1>1, <1>5, GetRawList DEF GetRaw
<1>6. ASSUME NEW h \in Handles, NEW other \in Handles, Copy(h, other) PROVE TInv' /\ Lists'
  BY <1>6, AssignTypes DEF Copy
<1>7. ASSUME NEW h \in Handles, NEW other \in Handles, MoveTo(h, other) PROVE TInv' /\ Lists'
  <2>1. TInv'
    BY <1>7, MoveTypes DEF MoveTo
  <2>2. Lists'
    BY <1>7, TwoUpdates, <<>> \in Seq(Objects) DEF MoveTo
  <2> QED
    BY <2>1, <2>2
<1>8. ASSUME NEW h \in Handles, ClearAll(h) PROVE TInv' /\ Lists'
  <2>1. TInv'
    BY <1>8, ClearTypes DEF ClearAll
  <2>2. Lists'
    BY <1>8, <<>> \in Seq(Objects) DEF ClearAll
  <2> QED
    BY <2>1, <2>2
<1>9. CASE UNCHANGED <<vars, messageVars>>
  BY <1>1, <1>9 DEF messageVars
<1> QED
  BY <1>2, <1>3, <1>4, <1>5, <1>6, <1>7, <1>8, <1>9 DEF MNext

(* Each variable has its type, and a message is small or has a buffer, not  *)
(* both (cow_buffer's is_small_ and large_), whatever the copies overrun.   *)
THEOREM TypeOKHolds == MSpec => []TypeOK
<1>1. MInit => TypesInv
  <2> SUFFICES ASSUME MInit PROVE TypesInv
    OBVIOUS
  <2>1. \A h \in Handles : /\ DOMAIN small[h] = 1 .. Small
                           /\ isSmall[h] <=> large[h] = Null
    BY BlankTypes DEF MInit, Init
  <2>2. /\ isSmall \in [Handles -> BOOLEAN] /\ large \in [Handles -> Buffers \cup {Null}]
        /\ wsize \in [Handles -> 0 .. MaxSize] /\ size \in [Buffers -> Nat]
        /\ home \in [Buffers -> Capacities \cup {Heap, Unmade}]
        /\ pooled \subseteq Buffers
    BY SizeAssumption DEF MInit, Init
  <2>3. overrun \in BOOLEAN
    BY Zenon DEF MInit, Init
  <2>4. small \in [Handles -> Seq(Val)] /\ list \in [Handles -> Seq(Objects)]
    BY BlankTypes, <<>> \in Seq(Objects) DEF MInit, Init
  <2>5. TypeOK
    BY <2>1, <2>2, <2>3 DEF TypeOK
  <2> QED
    BY <2>4, <2>5 DEF TypesInv, TInv
<1>2. TypesInv => TypeOK
  BY DEF TypesInv, TInv
<1> QED
  BY <1>1, <1>2, TypesStep, PTL DEF MSpec

-----------------------------------------------------------------------------
(* Shared objects: the list l, the bytes c, the objects o put with them and *)
(* the number r of bytes that have been read, of one message.               *)

Formed(c, o, r) == /\ c \in Seq(Val) /\ o \in Seq(Objects) /\ Len(c) = Len(o)
                   /\ r \in 0 .. Len(o)
                   /\ \A i \in 1 .. Len(o) : o[i] # Null => c[i] \in Int /\ c[i] < IndexLimit

UnreadOf(o, r) == {i \in r + 1 .. Len(o) : o[i] # Null}
HeldIn(l)      == {k \in 1 .. Len(l) : l[k] # Null}

(* The unread objects are those held, each where its index says, and their  *)
(* indices grow.                                                            *)
Agree(l, c, o, r) ==
    Len(l) <= IndexLimit =>
        /\ \A i \in UnreadOf(o, r) : c[i] + 1 \in HeldIn(l) /\ l[c[i] + 1] = o[i]
        /\ \A k \in HeldIn(l) : \E i \in UnreadOf(o, r) : k = c[i] + 1
        /\ \A i, j \in UnreadOf(o, r) : i < j => c[i] < c[j]

(* A value that is no object is put behind the rest. *)
LEMMA AgreePut ==
  ASSUME NEW l \in Seq(Objects), NEW c, NEW o, NEW r, Formed(c, o, r), Agree(l, c, o, r),
         NEW s \in Seq(Val), NEW n \in Seq(Objects), Len(n) = Len(s),
         \A i \in 1 .. Len(n) : n[i] = Null
  PROVE  Formed(c \o s, o \o n, r) /\ Agree(l, c \o s, o \o n, r)
<1>1. /\ c \o s \in Seq(Val) /\ o \o n \in Seq(Objects)
      /\ Len(c \o s) = Len(c) + Len(s) /\ Len(o \o n) = Len(o) + Len(n)
      /\ \A i \in 1 .. Len(o) : (c \o s)[i] = c[i] /\ (o \o n)[i] = o[i]
      /\ \A i \in Len(o) + 1 .. Len(o \o n) : (o \o n)[i] = Null
  <2>1. c \in Seq(Val) /\ o \in Seq(Objects) /\ Len(c) = Len(o)
    BY DEF Formed
  <2>2. ASSUME NEW i \in Len(o) + 1 .. Len(o \o n) PROVE (o \o n)[i] = Null
    <3>1. (o \o n)[i] = n[i - Len(o)] /\ i - Len(o) \in 1 .. Len(n)
      BY <2>1
    <3> QED
      BY <3>1
  <2>3. /\ c \o s \in Seq(Val) /\ o \o n \in Seq(Objects)
        /\ Len(c \o s) = Len(c) + Len(s) /\ Len(o \o n) = Len(o) + Len(n)
    BY <2>1, ConcatProperties
  <2>4. \A i \in 1 .. Len(o) : (c \o s)[i] = c[i] /\ (o \o n)[i] = o[i]
    BY <2>1
  <2> QED
    BY <2>2, <2>3, <2>4
<1>2. Formed(c \o s, o \o n, r)
  BY <1>1 DEF Formed
<1>3. UnreadOf(o \o n, r) = UnreadOf(o, r) /\ UnreadOf(o, r) \subseteq 1 .. Len(o)
  BY <1>1 DEF UnreadOf, Formed
<1>4. Agree(l, c \o s, o \o n, r)
  BY <1>1, <1>3 DEF Agree
<1> QED
  BY <1>2, <1>4

(* The next object is put, its index an int8_t. *)
LEMMA AgreeShared ==
  ASSUME NEW l \in Seq(Objects), NEW c, NEW o, NEW r, Formed(c, o, r), Agree(l, c, o, r),
         NEW x \in Objects, x # Null
  PROVE  /\ Formed(c \o <<Int8(Len(l))>>, o \o <<x>>, r)
         /\ Agree(Append(l, x), c \o <<Int8(Len(l))>>, o \o <<x>>, r)
<1> DEFINE d == Int8(Len(l))
           n == Len(o) + 1
           C == c \o <<d>>
           O == o \o <<x>>
           L == Append(l, x)
<1>1. d \in Int /\ d < IndexLimit /\ (Len(l) < IndexLimit => d = Len(l))
  BY Int8Facts
<1>2. <<d>> \in Seq(Val)
  BY <1>1 DEF Val
<1> HIDE DEF d
<1>3. /\ C \in Seq(Val) /\ O \in Seq(Objects) /\ Len(C) = n /\ Len(O) = n
      /\ \A i \in 1 .. Len(o) : C[i] = c[i] /\ O[i] = o[i]
      /\ C[n] = d /\ O[n] = x
  BY <1>2 DEF Formed
<1>4. L \in Seq(Objects) /\ Len(L) = Len(l) + 1 /\ L[Len(l) + 1] = x
      /\ \A k \in 1 .. Len(l) : L[k] = l[k]
  OBVIOUS
<1>5. Len(o) \in Nat /\ Len(l) \in Nat /\ r \in 0 .. Len(o)
  BY DEF Formed
<1> HIDE DEF C, O, L
<1>6. Formed(C, O, r)
  BY <1>1, <1>3, <1>5 DEF Formed
<1>7. Agree(L, C, O, r)
  <2> SUFFICES ASSUME Len(L) <= IndexLimit
               PROVE  /\ \A i \in UnreadOf(O, r) : C[i] + 1 \in HeldIn(L) /\ L[C[i] + 1] = O[i]
                      /\ \A k \in HeldIn(L) : \E i \in UnreadOf(O, r) : k = C[i] + 1
                      /\ \A i, j \in UnreadOf(O, r) : i < j => C[i] < C[j]
    BY DEF Agree
  <2>1. Len(l) < IndexLimit /\ d = Len(l)
    BY <1>1, <1>4, <1>5, IndexAssumption
  <2>2. /\ \A i \in UnreadOf(o, r) : c[i] + 1 \in HeldIn(l) /\ l[c[i] + 1] = o[i]
        /\ \A k \in HeldIn(l) : \E i \in UnreadOf(o, r) : k = c[i] + 1
        /\ \A i, j \in UnreadOf(o, r) : i < j => c[i] < c[j]
    BY <1>5, <2>1, IndexAssumption DEF Agree
  <2>3. UnreadOf(O, r) = UnreadOf(o, r) \cup {n}
    BY <1>3, <1>5 DEF UnreadOf
  <2>4. HeldIn(L) = HeldIn(l) \cup {Len(l) + 1}
    BY <1>4, <1>5 DEF HeldIn
  <2>5. \A i \in UnreadOf(o, r) : /\ i \in 1 .. Len(o) /\ C[i] = c[i] /\ O[i] = o[i]
                                  /\ c[i] \in Int
    BY <1>3, <1>5 DEF UnreadOf, Formed
  <2>6. \A k \in HeldIn(l) : k \in 1 .. Len(l) /\ L[k] = l[k]
    BY <1>4 DEF HeldIn
  <2>7. C[n] + 1 = Len(l) + 1 /\ L[C[n] + 1] = O[n]
    BY <1>3, <1>4, <2>1
  <2>8. \A i \in UnreadOf(o, r) : C[i] < C[n]
    BY <1>3, <1>5, <2>1, <2>2, <2>5, <2>6
  <2>9. \A i \in UnreadOf(O, r) : C[i] + 1 \in HeldIn(L) /\ L[C[i] + 1] = O[i]
    BY <2>2, <2>3, <2>4, <2>5, <2>6, <2>7
  <2>10. \A k \in HeldIn(L) : \E i \in UnreadOf(O, r) : k = C[i] + 1
    BY <2>2, <2>3, <2>4, <2>5, <2>7
  <2>11. \A i, j \in UnreadOf(O, r) : i < j => C[i] < C[j]
    BY <1>5, <2>2, <2>3, <2>5, <2>8
  <2> QED
    BY <2>9, <2>10, <2>11
<1> QED
  BY <1>6, <1>7 DEF C, O, L, d

(* Bytes that belong to no object are read. *)
LEMMA AgreeGet ==
  ASSUME NEW l \in Seq(Objects), NEW c, NEW o, NEW r, Formed(c, o, r), Agree(l, c, o, r),
         NEW n \in Nat, r + n <= Len(o), \A i \in r + 1 .. r + n : o[i] = Null
  PROVE  Formed(c, o, r + n) /\ Agree(l, c, o, r + n)
<1>1. Formed(c, o, r + n)
  BY DEF Formed
<1>2. UnreadOf(o, r + n) = UnreadOf(o, r)
  BY DEF UnreadOf, Formed
<1> QED
  BY <1>1, <1>2 DEF Agree

(* A message that has given no object agrees with its list from the front. *)
LEMMA AgreeRestart ==
  ASSUME NEW l \in Seq(Objects), NEW c, NEW o, NEW r, Formed(c, o, r), Agree(l, c, o, r),
         \A i \in 1 .. r : o[i] = Null
  PROVE  Formed(c, o, 0) /\ Agree(l, c, o, 0)
<1>1. Formed(c, o, 0)
  BY DEF Formed
<1>2. UnreadOf(o, 0) = UnreadOf(o, r)
  BY DEF UnreadOf, Formed
<1> QED
  BY <1>1, <1>2 DEF Agree

(* The object whose index is read next is taken. *)
LEMMA AgreeTake ==
  ASSUME NEW h, NEW c, NEW o, NEW r, list[h] \in Seq(Objects),
         Formed(c, o, r), Agree(list[h], c, o, r),
         r < Len(o), o[r + 1] # Null
  PROVE  LET k == c[r + 1]
             l == IF k \in 0 .. Len(list[h]) - 1 THEN Taken(h, k) ELSE list[h]
         IN Formed(c, o, r + 1) /\ Agree(l, c, o, r + 1)
<1> DEFINE m == list[h]
           k == c[r + 1]
           l == IF k \in 0 .. Len(m) - 1 THEN Taken(h, k) ELSE m
           U == UnreadOf(o, r)
           V == UnreadOf(o, r + 1)
<1>1. Formed(c, o, r + 1)
  BY DEF Formed
<1>2. /\ r + 1 \in U /\ V = U \ {r + 1} /\ \A i \in V : r + 1 < i
      /\ k \in Int /\ k < IndexLimit /\ Len(m) \in Nat /\ IndexLimit \in Nat
      /\ \A i \in U : c[i] \in Int /\ i \in Int
  BY IndexAssumption DEF Formed, UnreadOf
<1>3. CASE Len(m) > IndexLimit
  <2>1. Len(l) = Len(m)
    BY <1>2, <1>3 DEF Taken
  <2> QED
    BY <1>1, <1>2, <1>3, <2>1 DEF Agree
<1>4. CASE Len(m) <= IndexLimit
  <2>1. /\ \A i \in U : c[i] + 1 \in HeldIn(m) /\ m[c[i] + 1] = o[i]
        /\ \A x \in HeldIn(m) : \E i \in U : x = c[i] + 1
        /\ \A i, j \in U : i < j => c[i] < c[j]
    BY <1>4 DEF Agree
  <2>2. k \in 0 .. Len(m) - 1
    BY <1>2, <2>1 DEF HeldIn
  <2>3. l = Taken(h, k)
    BY <2>2
  <2>4. \A i \in V : k < c[i]
    BY <1>2, <2>1
  <2> HIDE DEF U, V, k, l
  <2>5. CASE k + 1 = Len(m)
    <3>1. l = <<>>
      BY <2>3, <2>5 DEF Taken
    <3>2. V = {}
      BY <1>2, <2>1, <2>4, <2>5 DEF HeldIn
    <3>3. HeldIn(l) = {}
      BY <3>1 DEF HeldIn
    <3> QED
      BY <1>1, <3>2, <3>3 DEF Agree, V, k, l
  <2>6. CASE k + 1 # Len(m)
    <3>1. l = [m EXCEPT ![k + 1] = Null]
      BY <2>3, <2>6 DEF Taken
    <3>2. /\ Len(l) = Len(m) /\ l[k + 1] = Null
          /\ \A x \in 1 .. Len(m) : x # k + 1 => l[x] = m[x]
      BY <1>2, <2>2, <3>1
    <3>3. HeldIn(l) = HeldIn(m) \ {k + 1}
      BY <1>2, <3>2 DEF HeldIn
    <3>4. \A i \in V : /\ c[i] + 1 \in HeldIn(l)
                       /\ c[i] + 1 \in 1 .. Len(m) /\ c[i] + 1 # k + 1
      <4> TAKE i \in V
      <4>1. i \in U /\ c[i] \in Int /\ k \in Int /\ k < c[i]
        BY <1>2, <2>4
      <4>2. c[i] + 1 # k + 1
        BY ONLY <4>1
      <4>3. c[i] + 1 \in HeldIn(m)
        BY <2>1, <4>1
      <4>4. c[i] + 1 \in 1 .. Len(m)
        BY <4>3 DEF HeldIn
      <4> QED
        BY <3>3, <4>2, <4>3, <4>4
    <3>5. \A i \in V : l[c[i] + 1] = o[i]
      BY <1>2, <2>1, <3>2, <3>4
    <3>6. \A x \in HeldIn(l) : \E i \in V : x = c[i] + 1
      <4> TAKE x \in HeldIn(l)
      <4>1. PICK i \in U : x = c[i] + 1
        BY <2>1, <3>3
      <4>2. i # r + 1
        BY <3>3, <4>1 DEF k
      <4> QED
        BY <1>2, <4>1, <4>2
    <3>7. \A i, j \in V : i < j => c[i] < c[j]
      BY <1>2, <2>1
    <3> QED
      BY <1>1, <3>4, <3>5, <3>6, <3>7 DEF Agree, V, k, l
  <2> QED
    BY <2>5, <2>6
<1> QED
  BY <1>2, <1>3, <1>4

ObjInv == /\ rsize \in [Handles -> Nat]
          /\ objs \in [Handles -> Seq(Objects)]
          /\ torn \subseteq Handles
          /\ \A h \in Handles : wsize[h] = Len(objs[h]) /\ Formed(log[h], objs[h], rsize[h])
          /\ \A h \in Handles \ torn : Agree(list[h], log[h], objs[h], rsize[h])

(* A put appends to what has been written, or fails and appends nothing.    *)
LEMMA PutEffect ==
  ASSUME IInv, NEW h \in Handles, NEW s \in Seq(Val), Put(h, s)
  PROVE  \/ wsize' = wsize /\ log' = log
         \/ /\ wsize' = [wsize EXCEPT ![h] = wsize[h] + Len(s)]
            /\ log' = [log EXCEPT ![h] = log[h] \o s]
<1> DEFINE Effect == \/ wsize' = wsize /\ log' = log
                     \/ /\ wsize' = [wsize EXCEPT ![h] = wsize[h] + Len(s)]
                        /\ log' = [log EXCEPT ![h] = log[h] \o s]
<1>1. CASE PutSmall(h, s)
  BY <1>1 DEF PutSmall
<1>2. ASSUME NEW g, NEW m, PutLarge(h, s, g, m) PROVE Effect
  BY <1>2 DEF PutLarge, IInv, Types
<1> HIDE DEF Effect
<1>3. ASSUME PutCopied(h, s) PROVE Effect
  BY <1>2, <1>3 DEF PutCopied
<1>4. ASSUME PutResized(h, s) PROVE Effect
  BY <1>2, <1>4 DEF PutResized
<1> QED
  BY <1>1, <1>3, <1>4 DEF Put, Effect

LEMMA ObjInit == MInit => ObjInv
<1> SUFFICES ASSUME MInit PROVE ObjInv
  OBVIOUS
<1> USE DEF MInit, Init
<1>1. <<>> \in Seq(Objects) /\ <<>> \in Seq(Val)
  OBVIOUS
<1>2. Formed(<<>>, <<>>, 0)
  BY <1>1 DEF Formed
<1>3. Agree(<<>>, <<>>, <<>>, 0)
  BY DEF Agree, HeldIn, UnreadOf
<1> QED
  BY <1>1, <1>2, <1>3 DEF ObjInv

(* Messages that a step does not touch. *)
LEMMA ObjOthers ==
  ASSUME MInv, ObjInv, NEW T \in SUBSET Handles,
         \A k \in Handles \ T : /\ wsize'[k] = wsize[k] /\ log'[k] = log[k]
                                /\ rsize'[k] = rsize[k] /\ objs'[k] = objs[k]
                                /\ list'[k] = list[k],
         torn' \subseteq torn \cup T,
         torn \subseteq torn' \cup T,
         rsize' \in [Handles -> Nat], objs' \in [Handles -> Seq(Objects)],
         \A k \in T : /\ wsize'[k] = Len(objs'[k])
                      /\ Formed(log'[k], objs'[k], rsize'[k])
                      /\ k \notin torn' => Agree(list'[k], log'[k], objs'[k], rsize'[k])
  PROVE  ObjInv'
<1>1. torn' \subseteq Handles
  BY DEF ObjInv
<1>2. ASSUME NEW k \in Handles
      PROVE  wsize'[k] = Len(objs'[k]) /\ Formed(log'[k], objs'[k], rsize'[k])
  BY DEF ObjInv
<1>3. ASSUME NEW k \in Handles \ torn'
      PROVE  Agree(list'[k], log'[k], objs'[k], rsize'[k])
  BY DEF ObjInv
<1> QED
  BY <1>1, <1>2, <1>3 DEF ObjInv, Formed, Agree

(* One message changes, and agrees. *)
LEMMA ObjOne ==
  ASSUME MInv, ObjInv, NEW h \in Handles,
         \A k \in Handles \ {h} : /\ wsize'[k] = wsize[k] /\ log'[k] = log[k]
                                  /\ rsize'[k] = rsize[k] /\ objs'[k] = objs[k]
                                  /\ list'[k] = list[k],
         rsize' \in [Handles -> Nat] /\ objs' \in [Handles -> Seq(Objects)],
         torn' \subseteq torn \cup {h} /\ torn \subseteq torn' \cup {h},
         wsize'[h] = Len(objs'[h]),
         Formed(log'[h], objs'[h], rsize'[h]),
         h \notin torn' => Agree(list'[h], log'[h], objs'[h], rsize'[h])
  PROVE  ObjInv'
<1>1. \A k \in {h} : /\ wsize'[k] = Len(objs'[k])
                     /\ Formed(log'[k], objs'[k], rsize'[k])
                     /\ k \notin torn' => Agree(list'[k], log'[k], objs'[k], rsize'[k])
  OBVIOUS
<1> QED
  BY <1>1, ObjOthers, {h} \in SUBSET Handles

(* None becomes anything else. *)
LEMMA ObjNone ==
  ASSUME MInv, ObjInv, UNCHANGED <<wsize, log, rsize, objs, list, torn>>
  PROVE  ObjInv'
<1>1. {} \in SUBSET Handles
  OBVIOUS
<1>2. rsize' \in [Handles -> Nat] /\ objs' \in [Handles -> Seq(Objects)]
  BY DEF ObjInv
<1> QED
  BY <1>1, <1>2, ObjOthers

LEMMA ObjStep == MInv /\ ObjInv /\ [MNext]_<<vars, messageVars>> => ObjInv'
<1> SUFFICES ASSUME MInv, ObjInv, [MNext]_<<vars, messageVars>> PROVE ObjInv'
  OBVIOUS
<1>1. ASSUME NEW h \in Handles \ torn, NEW n \in PutSizes, PutValue(h, n) PROVE ObjInv'
  <2> DEFINE s == Text(h, n)
             z == [i \in 1 .. n |-> Null]
  <2>1. /\ s \in Seq(Val) /\ Len(s) = n /\ n \in Nat \ {0}
        /\ z \in Seq(Objects) /\ Len(z) = n /\ \A i \in 1 .. Len(z) : z[i] = Null
    BY SizeAssumption DEF Text, Val, Objects
  <2>2. /\ Put(h, s) /\ Note(h, z)
        /\ rsize' = rsize /\ list' = list /\ torn' = torn
    BY <1>1 DEF PutValue
  <2> HIDE DEF s, z
  <2>3. CASE wsize' = wsize /\ log' = log
    <3>1. objs' = objs
      BY <2>2, <2>3 DEF Note, ObjInv
    <3> QED
      BY <2>2, <2>3, <3>1, ObjNone
  <2>4. CASE /\ wsize' = [wsize EXCEPT ![h] = wsize[h] + Len(s)]
             /\ log' = [log EXCEPT ![h] = log[h] \o s]
    <3>1. wsize'[h] = wsize[h] + n /\ wsize'[h] # wsize[h] /\ log'[h] = log[h] \o s
      BY <2>1, <2>4 DEF MInv, IInv, Types
    <3>2. objs' = [objs EXCEPT ![h] = objs[h] \o z] /\ objs'[h] = objs[h] \o z
      BY <2>2, <3>1 DEF Note, ObjInv
    <3>3. objs[h] \o z \in Seq(Objects) /\ Len(objs[h] \o z) = Len(objs[h]) + n
      <4>1. objs[h] \in Seq(Objects)
        BY DEF ObjInv
      <4>2. z \in Seq(Objects) /\ Len(z) = n
        BY <2>1
      <4>3. objs[h] \o z \in Seq(Objects) /\ Len(objs[h] \o z) = Len(objs[h]) + Len(z)
        BY <4>1, <4>2, ConcatProperties, Zenon
      <4> QED
        BY <4>2, <4>3
    <3>4. /\ Formed(log[h] \o s, objs[h] \o z, rsize[h])
          /\ Agree(list[h], log[h] \o s, objs[h] \o z, rsize[h])
      BY <2>1, AgreePut DEF ObjInv, MInv
    <3>5. \A k \in Handles \ {h} : /\ wsize'[k] = wsize[k] /\ log'[k] = log[k]
                                   /\ rsize'[k] = rsize[k] /\ objs'[k] = objs[k]
                                   /\ list'[k] = list[k]
      BY <2>2, <2>4, <3>2 DEF ObjInv, MInv, IInv, Types
    <3>6. rsize' \in [Handles -> Nat] /\ objs' \in [Handles -> Seq(Objects)]
      BY <2>2, <3>2, <3>3 DEF ObjInv
    <3>7. wsize'[h] = Len(objs'[h])
      BY <3>1, <3>2, <3>3 DEF ObjInv
    <3>8. /\ Formed(log'[h], objs'[h], rsize'[h])
          /\ Agree(list'[h], log'[h], objs'[h], rsize'[h])
      BY <2>2, <3>1, <3>2, <3>4
    <3> QED
      BY <2>2, <3>5, <3>6, <3>7, <3>8, ObjOne
  <2> QED
    BY <2>1, <2>2, <2>3, <2>4, PutEffect DEF MInv
<1>2. ASSUME NEW h \in Handles \ torn, PutShared(h) PROVE ObjInv'
  <2> DEFINE s == <<Int8(Len(list[h]))>>
             x == Object(h)
  <2>1. /\ s \in Seq(Val) /\ Len(s) = 1 /\ list[h] \in Seq(Objects)
    BY Int8Facts DEF MInv, Val
  <2>2. x \in Objects /\ x # Null
    BY <2>1, IndexAssumption DEF Object, Objects
  <2>3. /\ Put(h, s) /\ Note(h, <<x>>)
        /\ list' = [list EXCEPT ![h] = IF wsize'[h] = wsize[h] THEN list[h]
                                       ELSE Append(list[h], x)]
        /\ rsize' = rsize /\ torn' = torn
    BY <1>2 DEF PutShared
  <2>4. Formed(log[h] \o s, objs[h] \o <<x>>, rsize[h])
        /\ Agree(Append(list[h], x), log[h] \o s, objs[h] \o <<x>>, rsize[h])
    BY <2>1, <2>2, AgreeShared DEF ObjInv, MInv
  <2>5. objs[h] \o <<x>> \in Seq(Objects) /\ Len(objs[h] \o <<x>>) = Len(objs[h]) + 1
    BY <2>2, ConcatProperties, <<x>> \in Seq(Objects) DEF ObjInv
  <2> HIDE DEF s, x
  <2>6. CASE wsize' = wsize /\ log' = log
    <3>1. objs' = objs /\ list' = list
      BY <2>3, <2>6 DEF Note, ObjInv, MInv
    <3> QED
      BY <2>3, <2>6, <3>1, ObjNone
  <2>7. CASE /\ wsize' = [wsize EXCEPT ![h] = wsize[h] + Len(s)]
             /\ log' = [log EXCEPT ![h] = log[h] \o s]
    <3>1. wsize'[h] = wsize[h] + 1 /\ wsize'[h] # wsize[h] /\ log'[h] = log[h] \o s
      BY <2>1, <2>7 DEF MInv, IInv, Types
    <3>2. objs' = [objs EXCEPT ![h] = objs[h] \o <<x>>] /\ objs'[h] = objs[h] \o <<x>>
      BY <2>3, <3>1 DEF Note, ObjInv
    <3>3. list' = [list EXCEPT ![h] = Append(list[h], x)] /\ list'[h] = Append(list[h], x)
      BY <2>3, <3>1 DEF MInv
    <3>4. \A k \in Handles \ {h} : /\ wsize'[k] = wsize[k] /\ log'[k] = log[k]
                                   /\ rsize'[k] = rsize[k] /\ objs'[k] = objs[k]
                                   /\ list'[k] = list[k]
      BY <2>3, <2>7, <3>2, <3>3 DEF ObjInv, MInv, IInv, Types
    <3>5. rsize' \in [Handles -> Nat] /\ objs' \in [Handles -> Seq(Objects)]
      BY <2>3, <2>5, <3>2 DEF ObjInv
    <3>6. wsize'[h] = Len(objs'[h])
      BY <2>5, <3>1, <3>2 DEF ObjInv
    <3>7. /\ Formed(log'[h], objs'[h], rsize'[h])
          /\ Agree(list'[h], log'[h], objs'[h], rsize'[h])
      BY <2>3, <2>4, <3>1, <3>2, <3>3
    <3> QED
      BY <2>3, <3>4, <3>5, <3>6, <3>7, ObjOne
  <2> QED
    BY <2>1, <2>3, <2>6, <2>7, PutEffect DEF MInv
<1>3. ASSUME NEW h \in Handles, NEW n \in PutSizes, Get(h, n) PROVE ObjInv'
  <2>1. /\ UNCHANGED <<wsize, log, list, objs, torn>>
        /\ rsize' = [rsize EXCEPT ![h] = rsize[h] + n]
        /\ rsize[h] + n <= Len(objs[h])
        /\ \A i \in rsize[h] + 1 .. rsize[h] + n : objs[h][i] = Null
        /\ n \in Nat
    BY <1>3, SizeAssumption DEF Get, ObjInv, vars, handleVars
  <2>2. /\ Formed(log[h], objs[h], rsize[h] + n)
        /\ h \notin torn => Agree(list[h], log[h], objs[h], rsize[h] + n)
    <3>1. CASE h \in torn
      BY <2>1, <3>1 DEF ObjInv, Formed
    <3>2. CASE h \notin torn
      BY <2>1, <3>2, AgreeGet DEF ObjInv, MInv
    <3> QED
      BY <3>1, <3>2
  <2>3. \A k \in Handles \ {h} : /\ wsize'[k] = wsize[k] /\ log'[k] = log[k]
                                 /\ rsize'[k] = rsize[k] /\ objs'[k] = objs[k]
                                 /\ list'[k] = list[k]
    BY <2>1 DEF ObjInv
  <2>4. /\ rsize' \in [Handles -> Nat] /\ objs' \in [Handles -> Seq(Objects)]
        /\ rsize'[h] = rsize[h] + n /\ wsize'[h] = Len(objs'[h])
    BY <2>1 DEF ObjInv
  <2>5. /\ Formed(log'[h], objs'[h], rsize'[h])
        /\ h \notin torn' => Agree(list'[h], log'[h], objs'[h], rsize'[h])
    BY <2>1, <2>2, <2>4
  <2> QED
    BY <2>1, <2>3, <2>4, <2>5, ObjOne
<1>4. ASSUME NEW h \in Handles, GetRaw(h) PROVE ObjInv'
  <2> DEFINE k == log[h][rsize[h] + 1]
             l == IF k \in 0 .. Len(list[h]) - 1 THEN Taken(h, k) ELSE list[h]
  <2>1. /\ UNCHANGED <<wsize, log, objs, torn>>
        /\ rsize' = [rsize EXCEPT ![h] = rsize[h] + 1]
        /\ rsize[h] < Len(objs[h]) /\ objs[h][rsize[h] + 1] # Null
        /\ rsize[h] \in Nat
    BY <1>4 DEF GetRaw, ObjInv, vars, handleVars
  <2>3. list' = [list EXCEPT ![h] = l] /\ list'[h] = l
    <3>1. Written(h)[rsize[h] + 1] = k /\ k \in Int
      <4>1. Written(h) = log[h]
        BY WrittenIs DEF MInv, IInv, Kept
      <4> QED
        BY <2>1, <4>1 DEF ObjInv, Formed
    <3>2. NextIndex(h) = {k}
      BY <3>1 DEF NextIndex
    <3> QED
      BY <1>4, <3>2 DEF GetRaw, MInv
  <2>4. /\ Formed(log[h], objs[h], rsize[h] + 1)
        /\ h \notin torn => Agree(l, log[h], objs[h], rsize[h] + 1)
    <3>1. CASE h \in torn
      BY <2>1, <3>1 DEF ObjInv, Formed
    <3>2. CASE h \notin torn
      BY <2>1, <3>2, AgreeTake DEF ObjInv, MInv
    <3> QED
      BY <3>1, <3>2
  <2> HIDE DEF k, l
  <2>5. \A x \in Handles \ {h} : /\ wsize'[x] = wsize[x] /\ log'[x] = log[x]
                                 /\ rsize'[x] = rsize[x] /\ objs'[x] = objs[x]
                                 /\ list'[x] = list[x]
    BY <2>1, <2>3 DEF ObjInv, MInv
  <2>6. /\ rsize' \in [Handles -> Nat] /\ objs' \in [Handles -> Seq(Objects)]
        /\ rsize'[h] = rsize[h] + 1 /\ wsize'[h] = Len(objs'[h])
    BY <2>1 DEF ObjInv
  <2>7. /\ Formed(log'[h], objs'[h], rsize'[h])
        /\ h \notin torn' => Agree(list'[h], log'[h], objs'[h], rsize'[h])
    BY <2>1, <2>3, <2>4, <2>6
  <2> QED
    BY <2>1, <2>5, <2>6, <2>7, ObjOne
<1>5. \A other \in Handles \ torn :
          /\ Formed(log[other], objs[other], 0)
          /\ ~ HasGiven(other) => Agree(list[other], log[other], objs[other], 0)
  <2> SUFFICES ASSUME NEW other \in Handles \ torn
               PROVE  /\ Formed(log[other], objs[other], 0)
                      /\ ~ HasGiven(other) => Agree(list[other], log[other], objs[other], 0)
    OBVIOUS
  <2>1. Formed(log[other], objs[other], 0)
    BY DEF ObjInv, Formed
  <2>2. CASE ~ HasGiven(other)
    BY <2>2, AgreeRestart DEF ObjInv, MInv, HasGiven
  <2> QED
    BY <2>1, <2>2
<1>6. Formed(<<>>, <<>>, 0) /\ Agree(<<>>, <<>>, <<>>, 0) /\ <<>> \in Seq(Objects)
  <2>1. <<>> \in Seq(Objects) /\ <<>> \in Seq(Val)
    OBVIOUS
  <2> QED
    BY <2>1 DEF Formed, Agree, HeldIn, UnreadOf
<1>7. ASSUME NEW h \in Handles, NEW other \in Handles \ torn, Copy(h, other) PROVE ObjInv'
  <2>1. /\ wsize' = [wsize EXCEPT ![h] = wsize[other]]
        /\ log' = [log EXCEPT ![h] = log[other]]
        /\ rsize' = [rsize EXCEPT ![h] = 0]
        /\ list' = [list EXCEPT ![h] = list[other]]
        /\ objs' = [objs EXCEPT ![h] = objs[other]]
        /\ torn' = IF HasGiven(other) THEN torn \cup {h} ELSE torn \ {h}
    BY <1>7 DEF Copy, Restart, Assign, Become
  <2>2. /\ wsize'[h] = wsize[other] /\ log'[h] = log[other] /\ rsize'[h] = 0
        /\ list'[h] = list[other] /\ objs'[h] = objs[other]
    BY <2>1 DEF ObjInv, MInv, IInv, Types
  <2>3. \A k \in Handles \ {h} : /\ wsize'[k] = wsize[k] /\ log'[k] = log[k]
                                 /\ rsize'[k] = rsize[k] /\ objs'[k] = objs[k]
                                 /\ list'[k] = list[k]
    BY <2>1 DEF ObjInv, MInv, IInv, Types
  <2>4. /\ rsize' \in [Handles -> Nat] /\ objs' \in [Handles -> Seq(Objects)]
        /\ wsize'[h] = Len(objs'[h])
    BY <2>1, <2>2 DEF ObjInv
  <2>5. torn' \subseteq torn \cup {h} /\ torn \subseteq torn' \cup {h}
    BY <2>1
  <2>6. /\ Formed(log'[h], objs'[h], rsize'[h])
        /\ h \notin torn' => Agree(list'[h], log'[h], objs'[h], rsize'[h])
    BY <1>5, <2>1, <2>2
  <2> QED
    BY <2>3, <2>4, <2>5, <2>6, ObjOne
<1>8. ASSUME NEW h \in Handles, NEW other \in Handles \ torn, MoveTo(h, other) PROVE ObjInv'
  <2>1. /\ wsize' = [wsize EXCEPT ![h] = wsize[other], ![other] = 0]
        /\ log' = [log EXCEPT ![h] = log[other], ![other] = <<>>]
        /\ rsize' = [rsize EXCEPT ![h] = 0, ![other] = 0]
        /\ list' = [list EXCEPT ![h] = list[other], ![other] = <<>>]
        /\ objs' = [objs EXCEPT ![h] = objs[other], ![other] = <<>>]
        /\ torn' = IF HasGiven(other) THEN torn \cup {h} ELSE torn \ {h}
        /\ h # other
    BY <1>8 DEF MoveTo, Restart, Move
  <2>2. /\ wsize'[h] = wsize[other] /\ log'[h] = log[other] /\ rsize'[h] = 0
        /\ list'[h] = list[other] /\ objs'[h] = objs[other]
        /\ wsize'[other] = 0 /\ log'[other] = <<>> /\ rsize'[other] = 0
        /\ list'[other] = <<>> /\ objs'[other] = <<>>
    BY <2>1 DEF ObjInv, MInv, IInv, Types
  <2>3. \A k \in Handles \ {h, other} : /\ wsize'[k] = wsize[k] /\ log'[k] = log[k]
                                        /\ rsize'[k] = rsize[k] /\ objs'[k] = objs[k]
                                        /\ list'[k] = list[k]
    BY <2>1 DEF ObjInv, MInv, IInv, Types
  <2>4. rsize' \in [Handles -> Nat]
    BY <2>1, TwoUpdates, 0 \in Nat DEF ObjInv
  <2>5. objs' \in [Handles -> Seq(Objects)]
    BY <1>6, <2>1, TwoUpdates DEF ObjInv
  <2>6. torn' \subseteq torn \cup {h, other} /\ torn \subseteq torn' \cup {h, other}
    BY <2>1
  <2>7. wsize'[h] = Len(objs'[h]) /\ wsize'[other] = Len(objs'[other])
    BY <2>2 DEF ObjInv
  <2>8. /\ Formed(log'[h], objs'[h], rsize'[h])
        /\ h \notin torn' => Agree(list'[h], log'[h], objs'[h], rsize'[h])
    BY <1>5, <2>1, <2>2
  <2>9. /\ Formed(log'[other], objs'[other], rsize'[other])
        /\ Agree(list'[other], log'[other], objs'[other], rsize'[other])
    BY <1>6, <2>2
  <2>10. \A k \in {h, other} :
             /\ wsize'[k] = Len(objs'[k])
             /\ Formed(log'[k], objs'[k], rsize'[k])
             /\ k \notin torn' => Agree(list'[k], log'[k], objs'[k], rsize'[k])
    BY <2>7, <2>8, <2>9
  <2> QED
    BY <2>3, <2>4, <2>5, <2>6, <2>10, ObjOthers, {h, other} \in SUBSET Handles
<1>9. ASSUME NEW h \in Handles, ClearAll(h) PROVE ObjInv'
  <2>1. /\ wsize' = [wsize EXCEPT ![h] = 0]
        /\ log' = [log EXCEPT ![h] = <<>>]
        /\ rsize' = [rsize EXCEPT ![h] = 0]
        /\ list' = [list EXCEPT ![h] = <<>>]
        /\ objs' = [objs EXCEPT ![h] = <<>>]
        /\ torn' = torn \ {h}
    BY <1>9 DEF ClearAll, Clear
  <2>2. /\ wsize'[h] = 0 /\ log'[h] = <<>> /\ rsize'[h] = 0
        /\ list'[h] = <<>> /\ objs'[h] = <<>>
    BY <2>1 DEF ObjInv, MInv, IInv, Types
  <2>3. \A k \in Handles \ {h} : /\ wsize'[k] = wsize[k] /\ log'[k] = log[k]
                                 /\ rsize'[k] = rsize[k] /\ objs'[k] = objs[k]
                                 /\ list'[k] = list[k]
    BY <2>1 DEF ObjInv, MInv, IInv, Types
  <2>4. /\ rsize' \in [Handles -> Nat] /\ objs' \in [Handles -> Seq(Objects)]
        /\ wsize'[h] = Len(objs'[h])
    BY <1>6, <2>1, <2>2 DEF ObjInv
  <2>5. torn' \subseteq torn \cup {h} /\ torn \subseteq torn' \cup {h}
    BY <2>1
  <2>6. /\ Formed(log'[h], objs'[h], rsize'[h])
        /\ Agree(list'[h], log'[h], objs'[h], rsize'[h])
    BY <1>6, <2>2
  <2> QED
    BY <2>3, <2>4, <2>5, <2>6, ObjOne
<1>10. CASE UNCHANGED <<vars, messageVars>>
  BY <1>10, ObjNone DEF vars, handleVars, messageVars
<1> QED
  BY <1>1, <1>2, <1>3, <1>4, <1>7, <1>8, <1>9, <1>10 DEF MNext

(* get_raw finds the object that was put where its index says, and lets go  *)
(* of it: for any messages, and any number of objects up to the limit of    *)
(* the index, up to the first copy of bytes that does not fit.              *)
THEOREM SharedInStepHolds == MSpec => []SharedInStep
<1>1. overrun \/ (MInv /\ ObjInv) => SharedInStep
  <2> SUFFICES ASSUME MInv, ObjInv, NEW h \in Handles \ torn, Len(list[h]) <= IndexLimit
               PROVE  LET unread == {i \in rsize[h] + 1 .. wsize[h] : objs[h][i] # Null}
                          held   == {k \in DOMAIN list[h] : list[h][k] # Null}
                      IN /\ \A i \in unread : /\ Cells(h)[i] + 1 \in held
                                              /\ list[h][Cells(h)[i] + 1] = objs[h][i]
                         /\ held = {Cells(h)[i] + 1 : i \in unread}
    BY DEF SharedInStep, CopiesFit
  <2> DEFINE U == UnreadOf(objs[h], rsize[h])
             H == HeldIn(list[h])
  <2>1. U = {i \in rsize[h] + 1 .. wsize[h] : objs[h][i] # Null}
    BY DEF ObjInv, UnreadOf
  <2>2. H = {k \in DOMAIN list[h] : list[h][k] # Null}
    BY DEF MInv, HeldIn
  <2>3. \A i \in U : Cells(h)[i] = log[h][i]
    <3> TAKE i \in U
    <3>1. Cells(h) \in Seq(Val) /\ wsize[h] \in Nat /\ wsize[h] <= Len(Cells(h))
      BY NameAssumption DEF MInv, IInv, Types, Room, SmallOrLarge, Cells
    <3>2. i \in 1 .. wsize[h]
      BY DEF ObjInv, UnreadOf
    <3>3. SubSeq(Cells(h), 1, wsize[h])[i] = Cells(h)[i]
      BY <3>1, <3>2
    <3> QED
      BY <3>3 DEF MInv, IInv, Kept, Content
  <2>4. /\ \A i \in U : log[h][i] + 1 \in H /\ list[h][log[h][i] + 1] = objs[h][i]
        /\ \A k \in H : \E i \in U : k = log[h][i] + 1
    BY DEF ObjInv, Agree
  <2> HIDE DEF U, H
  <2>5. /\ \A i \in U : Cells(h)[i] + 1 \in H /\ list[h][Cells(h)[i] + 1] = objs[h][i]
        /\ H = {Cells(h)[i] + 1 : i \in U}
    BY <2>3, <2>4
  <2> QED
    BY <2>1, <2>2, <2>5
<1>2. /\ overrun \/ (MInv /\ ObjInv)
      /\ [MNext]_<<vars, messageVars>>
      => (overrun \/ (MInv /\ ObjInv))'
  BY StepHolds, OverrunStays, ObjStep
<1> QED
  BY <1>1, <1>2, InitHolds, ObjInit, PTL DEF MSpec
=============================================================================
