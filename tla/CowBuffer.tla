------------------------------ MODULE CowBuffer ------------------------------
(***************************************************************************)
(* detail::cow_buffer with detail::buffer and detail::buffer_pool          *)
(* (actorx/detail): a message's bytes, in a small array inside it or in a  *)
(* reference-counted buffer that copies of the message share until one of  *)
(* them writes.  Buffers come from pools, one for each capacity, and go    *)
(* back to them when the last reference is dropped.                        *)
(*                                                                         *)
(* The cow_buffers of one thread, each call one step.  A cell of memory    *)
(* holds the name of the cow_buffer whose put wrote it.  Reading moves     *)
(* only read_size_ and comes with Message.  Memory let go of is junk.       *)
(***************************************************************************)
EXTENDS Naturals, Sequences, FiniteSets

CONSTANTS
    Handles,     \* cow_buffers
    Buffers,     \* the buffer objects there may be
    Null,        \* nullptr
    Junk,        \* memory nobody has written
    Small,       \* ACTX_SMALL_BUFFER_SIZE (64)
    Capacities,  \* capacities of the pools, cap_arr_ (128, 256, ...)
    MaxCached,   \* max_cached_buffer_size_ (2^20)
    PutSizes,    \* sizes of what is put
    MaxSize      \* bound: bytes in one cow_buffer

Unmade == 0         \* home of a buffer not made yet, or deleted
Heap == 1           \* home of a buffer too large for the pools

ASSUME SizeAssumption ==
    /\ Small \in Nat \ {0} /\ MaxCached \in Nat /\ MaxSize \in Nat
    /\ PutSizes \subseteq Nat \ {0}
    /\ Capacities \subseteq Nat \ {Unmade, Heap}
    /\ \E c \in Capacities : c >= MaxCached
ASSUME NameAssumption == Null \notin Buffers /\ Junk \notin Handles
ASSUME FiniteAssumption == IsFiniteSet(Handles)

VARIABLES
    small,    \* cow_buffer -> small_, its cells
    isSmall,  \* cow_buffer -> is_small_
    large,    \* cow_buffer -> large_
    wsize,    \* cow_buffer -> write_size_
    size,     \* buffer -> size_
    mem,      \* buffer -> the cells allocated at data_
    home,     \* buffer -> capacity of the pool it comes from, Heap or Unmade
    pooled,   \* buffers in their pools
    log,      \* history: cow_buffer -> the cells put into it
    overrun   \* history: whether a copy went past the end of an allocation

handleVars == <<small, isSmall, large, wsize>>
bufferVars == <<size, mem, home, pooled>>
vars == <<handleVars, bufferVars, log, overrun>>

Blank(n) == [i \in 1 .. n |-> Junk]

Init == /\ small = [h \in Handles |-> Blank(Small)]
        /\ isSmall = [h \in Handles |-> TRUE]
        /\ large = [h \in Handles |-> Null]
        /\ wsize = [h \in Handles |-> 0]
        /\ size = [b \in Buffers |-> 0]
        /\ mem = [b \in Buffers |-> <<>>]
        /\ home = [b \in Buffers |-> Unmade]
        /\ pooled = {}
        /\ log = [h \in Handles |-> <<>>]
        /\ overrun = FALSE

(* s written over the cells of m behind the first k. *)
Overwrite(m, k, s) ==
    [i \in 1 .. Len(m) |-> IF i > k /\ i <= k + Len(s) THEN s[i - k] ELSE m[i]]

(* What realloc makes of m, and what n cells read from m on are.            *)
Realloc(m, n) == [i \in 1 .. n |-> IF i <= Len(m) THEN m[i] ELSE Junk]

Cells(h)   == IF isSmall[h] THEN small[h] ELSE mem[large[h]]
Written(h) == Realloc(Cells(h), wsize[h])
Holders(b) == {h \in Handles : ~ isSmall[h] /\ large[h] = b}
Max2(a, b) == IF a > b THEN a ELSE b

-----------------------------------------------------------------------------
(* buffer_pool::get and buffer::decr_ref *)

CapacityFor(n) == CHOOSE c \in Capacities :
                      n <= c /\ \A d \in Capacities : n <= d => c <= d

(* The buffers a get of n bytes may return, and what they are like.  One    *)
(* from a pool has the size its last user left it with.                     *)
Gettable(n) ==
    LET c    == CapacityFor(n)
        idle == {b \in pooled : home[b] = c}
        new(k, h) == {[buf |-> b, size |-> k, mem |-> Blank(k), home |-> h] :
                          b \in {d \in Buffers : home[d] = Unmade}}
    IN IF n > MaxCached THEN new(n, Heap)
       ELSE IF idle = {} THEN new(c, c)
       ELSE {[buf |-> b, size |-> size[b], mem |-> mem[b], home |-> c] : b \in idle}

(* To its pool, or deleted if it comes from none. *)
Release(b) == /\ mem' = [mem EXCEPT ![b] = Blank(Len(@))]
              /\ IF home[b] = Heap
                   THEN home' = [home EXCEPT ![b] = Unmade] /\ UNCHANGED pooled
                   ELSE pooled' = pooled \cup {b} /\ UNCHANGED home

(* Mutant: releases the buffer whoever else holds it. *)
DropLarge_Always(h) == IF large[h] = Null THEN UNCHANGED <<mem, pooled, home>>
                       ELSE Release(large[h])

(* The reference to h's buffer is dropped; the last one releases it. *)
DropLarge(h) == IF large[h] # Null /\ Holders(large[h]) = {h}
                  THEN Release(large[h]) ELSE UNCHANGED <<mem, pooled, home>>

-----------------------------------------------------------------------------
(* message::put of a value whose bytes are s: reserve(n), get_write() and   *)
(* write(n), for n == Len(s).                                               *)

(* A small message stays small as long as it fits. *)
PutSmall(h, s) ==
    /\ isSmall[h]
    /\ wsize[h] + Len(s) <= Small
    /\ small' = [small EXCEPT ![h] = Overwrite(@, wsize[h], s)]
    /\ wsize' = [wsize EXCEPT ![h] = @ + Len(s)]
    /\ log' = [log EXCEPT ![h] = @ \o s]
    /\ UNCHANGED <<isSmall, large, bufferVars, overrun>>

(* reserve has provided buffer g.buf of g.size bytes with the old content,  *)
(* the memory of the others being m.  If s does not fit behind the old      *)
(* content, put throws before it counts it.                                 *)
PutLarge(h, s, g, m) ==
    LET fits == wsize[h] + Len(s) <= g.size
    IN /\ isSmall' = [isSmall EXCEPT ![h] = FALSE]
       /\ large' = [large EXCEPT ![h] = g.buf]
       /\ home' = [home EXCEPT ![g.buf] = g.home]
       /\ pooled' = pooled \ {g.buf}
       /\ size' = [size EXCEPT ![g.buf] = g.size]
       /\ mem' = [m EXCEPT ![g.buf] = IF fits THEN Overwrite(g.mem, wsize[h], s) ELSE g.mem]
       /\ wsize' = [wsize EXCEPT ![h] = IF fits THEN @ + Len(s) ELSE @]
       /\ log' = [log EXCEPT ![h] = IF fits THEN @ \o s ELSE @]
       /\ small' = [small EXCEPT ![h] = Blank(Small)]

GrowSize(n) == Max2(n, Small)

(* What memory may be once s was written behind the end of an allocation:   *)
(* the last cells of s may be the first ones of a buffer that lies there.   *)
Damaged(s) == {[mem EXCEPT ![b] = Overwrite(@, 0, SubSeq(s, i, Len(s)))] :
                   b \in Buffers, i \in 1 .. Len(s) + 1}

(* Becomes large, or copies before it writes: a buffer from the pool, into  *)
(* which what has been written is copied, whether it has the room or not.   *)
PutCopied(h, s) ==
    \E g \in Gettable(GrowSize(Len(s)) + wsize[h]) :
        LET copied == [g EXCEPT !.mem = Overwrite(@, 0, Written(h))]
            behind == SubSeq(Written(h), Len(g.mem) + 1, wsize[h])
        IN \/ wsize[h] <= Len(g.mem) /\ PutLarge(h, s, copied, mem) /\ UNCHANGED overrun
           \/ /\ wsize[h] > Len(g.mem)
              /\ \E m \in Damaged(behind) : PutLarge(h, s, copied, m)
              /\ overrun' = TRUE

(* Alone with its buffer: resize, which reallocates whenever size_ grows,   *)
(* be it to less than is allocated.                                         *)
PutResized(h, s) ==
    LET b   == large[h]
        new == GrowSize(Len(s)) + wsize[h]
        g   == [buf |-> b, size |-> new, home |-> home[b],
                mem |-> IF new > size[b] THEN Realloc(mem[b], new) ELSE mem[b]]
    IN PutLarge(h, s, g, mem) /\ UNCHANGED overrun

(* Mutant: asks whether others besides another one hold the buffer. *)
Shared_ByTwoMore(h) == ~ isSmall[h] /\ Cardinality(Holders(large[h])) > 2

Shared(h) == ~ isSmall[h] /\ Cardinality(Holders(large[h])) > 1

Put(h, s) == /\ wsize[h] + Len(s) <= MaxSize
             /\ \/ PutSmall(h, s)
                \/ isSmall[h] /\ wsize[h] + Len(s) > Small /\ PutCopied(h, s)
                \/ Shared(h) /\ PutCopied(h, s)
                \/ ~ isSmall[h] /\ ~ Shared(h) /\ PutResized(h, s)

(* A value of n bytes that h puts. *)
Text(h, n) == [i \in 1 .. n |-> h]

-----------------------------------------------------------------------------
(* Assignment of other to h, and clear *)

(* What h becomes of other: a copy of its small array, or a second          *)
(* reference to its buffer.                                                 *)
Become(h, other) ==
    /\ DropLarge(h)
    /\ isSmall' = [isSmall EXCEPT ![h] = isSmall[other]]
    /\ wsize' = [wsize EXCEPT ![h] = wsize[other]]
    /\ small' = [small EXCEPT ![h] = small[other]]
    /\ large' = [large EXCEPT ![h] = large[other]]
    /\ log' = [log EXCEPT ![h] = log[other]]

Assign(h, other) == /\ h # other
                    /\ Become(h, other)
                    /\ UNCHANGED <<size, overrun>>

(* Mutant: forgets to let go of the buffer. *)
Clear_KeepLarge(h) == /\ isSmall' = [isSmall EXCEPT ![h] = TRUE]
                      /\ small' = [small EXCEPT ![h] = Blank(Small)]
                      /\ wsize' = [wsize EXCEPT ![h] = 0]
                      /\ log' = [log EXCEPT ![h] = <<>>]
                      /\ UNCHANGED <<large, bufferVars, overrun>>

Clear(h) == /\ DropLarge(h)
            /\ isSmall' = [isSmall EXCEPT ![h] = TRUE]
            /\ small' = [small EXCEPT ![h] = Blank(Small)]
            /\ large' = [large EXCEPT ![h] = Null]
            /\ wsize' = [wsize EXCEPT ![h] = 0]
            /\ log' = [log EXCEPT ![h] = <<>>]
            /\ UNCHANGED <<size, overrun>>

(* Assignment from an rvalue: other's buffer moves to h, and other is left  *)
(* empty.                                                                   *)
Move(h, other) ==
    /\ h # other
    /\ DropLarge(h)
    /\ isSmall' = [isSmall EXCEPT ![h] = isSmall[other], ![other] = TRUE]
    /\ small' = [small EXCEPT ![h] = small[other], ![other] = Blank(Small)]
    /\ large' = [large EXCEPT ![h] = large[other], ![other] = Null]
    /\ wsize' = [wsize EXCEPT ![h] = wsize[other], ![other] = 0]
    /\ log' = [log EXCEPT ![h] = log[other], ![other] = <<>>]
    /\ UNCHANGED <<size, overrun>>

Next == \E h \in Handles :
            \/ \E n \in PutSizes : Put(h, Text(h, n))
            \/ \E other \in Handles : Assign(h, other) \/ Move(h, other)
            \/ Clear(h)

Spec == Init /\ [][Next]_vars

-----------------------------------------------------------------------------
(* Correctness *)

TypeOK == /\ \A h \in Handles : /\ DOMAIN small[h] = 1 .. Small
                                /\ isSmall[h] <=> large[h] = Null
          /\ isSmall \in [Handles -> BOOLEAN]
          /\ large \in [Handles -> Buffers \cup {Null}]
          /\ wsize \in [Handles -> 0 .. MaxSize]
          /\ size \in [Buffers -> Nat]
          /\ home \in [Buffers -> Capacities \cup {Heap, Unmade}]
          /\ pooled \subseteq Buffers
          /\ overrun \in BOOLEAN

(***************************************************************************)
(* A copy fits into the buffer that reserve provides for it: what reserve  *)
(* returns is the "actually grow size, if 0 and size != 0 means err".      *)
(* It does not, see the README.  Behind such a copy the program's memory   *)
(* may be anything, so the properties below, of the copies and recycled    *)
(* buffers before it, claim nothing from there on.                         *)
(***************************************************************************)
CopiesFit == ~ overrun

(***************************************************************************)
(* A cow_buffer holds what was put into it or into the one it is a copy    *)
(* of, in that order, whatever is put into its copies and into buffers     *)
(* recycled in the meantime, as long as all copies fit.                    *)
(***************************************************************************)
HoldsWhatWasPut == CopiesFit => \A h \in Handles : Written(h) = log[h]

(***************************************************************************)
(* A buffer in a pool, or deleted, is held by nobody; any other is held,   *)
(* as long as all copies fit.                                              *)
(***************************************************************************)
HeldOrPooled == CopiesFit => \A b \in Buffers :
                                 Holders(b) = {} <=> b \in pooled \/ home[b] = Unmade
=============================================================================
