---------------------------- MODULE NodeListProofs ----------------------------
(***************************************************************************)
(* Facts about chains of nodes, for the proofs about mpsc_queue and        *)
(* mpsc_pool: there is one chain from a node at most, so that Chain is it, *)
(* and what linking, pushing, popping and reversing make of a chain.       *)
(***************************************************************************)
EXTENDS NodeLists, FiniteSetTheorems, SequenceTheorems, TLAPS

(* A set of naturals has a least: the interval up to it has no strict      *)
(* subset among the intervals up to the others.                            *)
LEMMA Least ==
  ASSUME NEW S, S \subseteq Nat, S # {}
  PROVE  \E n \in S : \A m \in S : n <= m
<1> DEFINE T == {1 .. n : n \in S}
<1>1. T \subseteq FiniteSubsetsOf(Nat) /\ T # {}
  <2>1. ASSUME NEW n \in S PROVE 1 .. n \in SUBSET Nat /\ IsFiniteSet(1 .. n)
    BY FS_Interval
  <2> QED
    BY <2>1 DEF FiniteSubsetsOf
<1>2. PICK x \in T : \A y \in T : <<y, x>> \notin StrictSubsetOrdering(Nat)
  BY <1>1, FS_StrictSubsetOrderingWellFounded, WFMin
<1>3. PICK n \in S : x = 1 .. n
  BY <1>2
<1>4. ASSUME NEW m \in S, m < n PROVE FALSE
  <2>1. 1 .. m \in T /\ 1 .. m \in SUBSET Nat /\ 1 .. n \in SUBSET Nat
    OBVIOUS
  <2>2. 1 .. m \subseteq 1 .. n
    BY <1>4
  <2>3. n \in 1 .. n /\ n \notin 1 .. m
    BY <1>4
  <2>4. 1 .. m # 1 .. n
    BY <2>3
  <2>5. <<1 .. m, 1 .. n>> \in StrictSubsetOrdering(Nat)
    BY <2>1, <2>2, <2>4 DEF StrictSubsetOrdering
  <2> QED
    BY <1>2, <1>3, <2>1, <2>5
<1> QED
  BY <1>4

(* A chain goes where another one from the same node goes ... *)
LEMMA ChainFollows ==
  ASSUME NEW f, NEW h, NEW s \in Seq(Nodes), NEW r \in Seq(Nodes),
         IsChain(f, s, h), IsChain(f, r, h)
  PROVE  \A i \in 1 .. Len(s) : i \in 1 .. Len(r) /\ r[i] = s[i]
<1> DEFINE Bad == {i \in 1 .. Len(s) : ~ (i \in 1 .. Len(r) /\ r[i] = s[i])}
<1>0. /\ Len(s) \in Nat /\ Len(r) \in Nat
      /\ \A i \in 1 .. Len(s) : s[i] \in Nodes
      /\ \A i \in 1 .. Len(r) : r[i] \in Nodes
      /\ Null \notin Nodes
  BY NodesAssumption
<1>1. /\ h = (IF s = <<>> THEN Null ELSE s[1]) /\ h = (IF r = <<>> THEN Null ELSE r[1])
      /\ \A i \in 1 .. Len(s) : f[s[i]] = IF i = Len(s) THEN Null ELSE s[i + 1]
      /\ \A i \in 1 .. Len(r) : f[r[i]] = IF i = Len(r) THEN Null ELSE r[i + 1]
  BY DEF IsChain
<1>2. SUFFICES ASSUME Bad # {} PROVE FALSE
  OBVIOUS
<1>3. Bad \subseteq Nat
  BY <1>0
<1>4. PICK i \in Bad : \A j \in Bad : i <= j
  BY <1>2, <1>3, Least
<1>5. i \in 1 .. Len(s) /\ i \in Nat /\ s[i] \in Nodes
  BY <1>0
<1>6. CASE i = 1
  <2>1. Len(s) # 0 /\ s # <<>>
    BY <1>0, <1>5
  <2>2. h = s[1] /\ h # Null
    BY <1>0, <1>1, <1>5, <1>6, <2>1
  <2>3. r # <<>> /\ r[1] = s[1]
    BY <1>1, <2>2
  <2>4. 1 \in 1 .. Len(r)
    BY <1>0, <2>3
  <2> QED
    BY <1>6, <2>3, <2>4
<1>7. CASE i # 1
  <2>1. i - 1 \in 1 .. Len(s) /\ i - 1 \notin Bad /\ (i - 1) + 1 = i /\ i - 1 # Len(s)
    BY <1>0, <1>4, <1>5, <1>7
  <2>2. i - 1 \in 1 .. Len(r) /\ r[i - 1] = s[i - 1]
    BY <2>1
  <2>3. f[r[i - 1]] = s[i]
    BY <1>1, <2>1, <2>2
  <2>4. i - 1 # Len(r) /\ r[i] = s[i]
    BY <1>0, <1>1, <1>5, <2>1, <2>2, <2>3
  <2>5. i \in 1 .. Len(r)
    BY <1>0, <2>1, <2>2, <2>4
  <2> QED
    BY <2>4, <2>5
<1> QED
  BY <1>6, <1>7

(* ... so there is one chain from a node at most. *)
LEMMA OneChain ==
  ASSUME NEW f, NEW h, NEW s \in Seq(Nodes), NEW r \in Seq(Nodes),
         IsChain(f, s, h), IsChain(f, r, h)
  PROVE  s = r
<1>1. \A i \in 1 .. Len(s) : i \in 1 .. Len(r) /\ r[i] = s[i]
  BY ChainFollows
<1>2. \A i \in 1 .. Len(r) : i \in 1 .. Len(s)
  BY ChainFollows
<1>3. Len(s) \in Nat /\ Len(r) \in Nat
  OBVIOUS
<1>4. Len(s) = Len(r)
  <2>1. Len(s) # 0 => Len(s) <= Len(r)
    <3>1. Len(s) # 0 => Len(s) \in 1 .. Len(s)
      BY <1>3
    <3> QED
      BY <1>1, <1>3, <3>1
  <2>2. Len(r) # 0 => Len(r) <= Len(s)
    <3>1. Len(r) # 0 => Len(r) \in 1 .. Len(r)
      BY <1>3
    <3> QED
      BY <1>2, <1>3, <3>1
  <2> QED
    BY <1>3, <2>1, <2>2
<1> QED
  BY <1>1, <1>4, SeqEqual

LEMMA NodeSeqsAre ==
  \A s : s \in NodeSeqs <=> s \in Seq(Nodes) /\ Len(s) <= Cardinality(Nodes)
<1>0. Cardinality(Nodes) \in Nat
  BY NodesAssumption, FS_CardinalityType
<1>1. ASSUME NEW s \in NodeSeqs PROVE s \in Seq(Nodes) /\ Len(s) <= Cardinality(Nodes)
  <2>1. PICK k \in 0 .. Cardinality(Nodes) : s \in [1 .. k -> Nodes]
    BY DEF NodeSeqs
  <2>2. k \in Nat
    BY <1>0
  <2>3. s \in Seq(Nodes)
    BY <2>1, <2>2, SeqDef
  <2>4. DOMAIN s = 1 .. k /\ DOMAIN s = 1 .. Len(s) /\ Len(s) \in Nat
    BY <2>1, <2>3, LenProperties
  <2>5. Len(s) = k
    <3>1. \A m \in Nat : 1 .. m = 1 .. k => m = k
      <4> SUFFICES ASSUME NEW m \in Nat, 1 .. m = 1 .. k PROVE m = k
        OBVIOUS
      <4>1. (m # 0 => m \in 1 .. m) /\ (k # 0 => k \in 1 .. k)
        BY <2>2
      <4> QED
        BY <2>2, <4>1
    <3> QED
      BY <2>4, <3>1
  <2> QED
    BY <1>0, <2>3, <2>5
<1>2. ASSUME NEW s \in Seq(Nodes), Len(s) <= Cardinality(Nodes) PROVE s \in NodeSeqs
  <2>1. Len(s) \in 0 .. Cardinality(Nodes) /\ s \in [1 .. Len(s) -> Nodes]
    BY <1>0, <1>2, LenProperties
  <2> QED
    BY <2>1 DEF NodeSeqs
<1> QED
  BY <1>1, <1>2

LEMMA DistinctFits ==
  ASSUME NEW s \in Seq(Nodes), Distinct(s)
  PROVE  s \in NodeSeqs
<1>1. Len(s) \in Nat /\ s \in [1 .. Len(s) -> Nodes] /\ DOMAIN s = 1 .. Len(s)
  BY LenProperties
<1>2. s \in Injection(1 .. Len(s), Nodes)
  BY <1>1 DEF Distinct, Injection, IsInjective
<1>3. Cardinality(1 .. Len(s)) <= Cardinality(Nodes)
  BY <1>2, NodesAssumption, FS_Injection
<1>4. Cardinality(1 .. Len(s)) = Len(s)
  BY <1>1, FS_Interval
<1> QED
  BY <1>3, <1>4, NodeSeqsAre

LEMMA ChainIs ==
  ASSUME NEW f, NEW h, NEW s \in Seq(Nodes), Distinct(s), IsChain(f, s, h)
  PROVE  Chain(f, h) = s
<1>1. s \in NodeSeqs
  BY DistinctFits
<1>2. Chain(f, h) \in NodeSeqs /\ IsChain(f, Chain(f, h), h)
  BY <1>1 DEF Chain
<1> QED
  BY <1>2, NodeSeqsAre, OneChain

-----------------------------------------------------------------------------
(* What linking, pushing and popping make of a chain. *)

LEMMA ChainKept ==
  ASSUME NEW f \in [Nodes -> Links], NEW h, NEW s \in Seq(Nodes), IsChain(f, s, h),
         NEW n \in Nodes, n \notin NodesOf(s), NEW m
  PROVE  IsChain([f EXCEPT ![n] = m], s, h)
<1>1. \A i \in 1 .. Len(s) : s[i] \in Nodes /\ s[i] # n
  BY DEF NodesOf
<1>2. \A i \in 1 .. Len(s) : [f EXCEPT ![n] = m][s[i]] = f[s[i]]
  BY <1>1
<1> QED
  BY <1>2 DEF IsChain

LEMMA ChainHead ==
  ASSUME NEW f, NEW h \in Nodes, NEW s \in Seq(Nodes), IsChain(f, s, h), Distinct(s)
  PROVE  /\ Tail(s) \in Seq(Nodes)
         /\ IsChain(f, Tail(s), f[h]) /\ Distinct(Tail(s))
         /\ NodesOf(Tail(s)) = NodesOf(s) \ {h} /\ h \in NodesOf(s)
<1>0. s # <<>> /\ h = s[1]
  BY NodesAssumption DEF IsChain
<1> DEFINE r == Tail(s)
<1>1. /\ Len(s) \in Nat /\ Len(s) # 0 /\ r \in Seq(Nodes)
      /\ Len(r) = Len(s) - 1 /\ \A i \in 1 .. Len(r) : r[i] = s[i + 1]
  BY <1>0
<1>2. r = <<>> <=> Len(r) = 0
  BY <1>1, EmptySeq
<1> HIDE DEF r
<1>3. \A i \in 1 .. Len(r) : i + 1 \in 1 .. Len(s)
  BY <1>1
<1>4. IsChain(f, r, f[h])
  <2>1. f[h] = IF r = <<>> THEN Null ELSE r[1]
    <3>1. 1 \in 1 .. Len(s) /\ f[s[1]] = IF 1 = Len(s) THEN Null ELSE s[1 + 1]
      <4>1. 1 \in 1 .. Len(s)
        BY <1>1
      <4> QED
        BY <4>1 DEF IsChain
    <3>2. CASE Len(s) = 1
      <4>1. r = <<>>
        BY <1>1, <1>2, <3>2
      <4> QED
        BY <1>0, <3>1, <3>2, <4>1
    <3>3. CASE Len(s) # 1
      <4>1. 1 \in 1 .. Len(r) /\ r # <<>>
        BY <1>1, <1>2, <3>3
      <4> QED
        BY <1>0, <1>1, <3>1, <3>3, <4>1
    <3> QED
      BY <3>2, <3>3
  <2>2. ASSUME NEW i \in 1 .. Len(r)
        PROVE  f[r[i]] = IF i = Len(r) THEN Null ELSE r[i + 1]
    <3>1. i + 1 \in 1 .. Len(s) /\ r[i] = s[i + 1] /\ i \in Nat
      BY <1>1, <1>3
    <3>2. f[s[i + 1]] = IF i + 1 = Len(s) THEN Null ELSE s[(i + 1) + 1]
      BY <3>1 DEF IsChain
    <3>3. i + 1 = Len(s) <=> i = Len(r)
      BY <1>1, <3>1
    <3>4. i # Len(r) => r[i + 1] = s[(i + 1) + 1]
      <4>1. i # Len(r) => i + 1 \in 1 .. Len(r)
        BY <1>1, <3>1
      <4> QED
        BY <1>1, <4>1
    <3> QED
      BY <3>1, <3>2, <3>3, <3>4
  <2> QED
    BY <2>1, <2>2 DEF IsChain
<1>5. Distinct(r)
  <2> SUFFICES ASSUME NEW i \in 1 .. Len(r), NEW j \in 1 .. Len(r),
                      r[i] = r[j]
               PROVE  i = j
    BY DEF Distinct
  <2>1. s[i + 1] = s[j + 1] /\ i + 1 \in 1 .. Len(s) /\ j + 1 \in 1 .. Len(s)
    BY <1>1, <1>3
  <2>2. i + 1 = j + 1
    BY <2>1 DEF Distinct
  <2> QED
    BY <1>1, <2>2
<1>6. h \in NodesOf(s)
  BY <1>0, <1>1 DEF NodesOf
<1>7. ASSUME NEW n, n \in NodesOf(r) PROVE n \in NodesOf(s) \ {h}
  <2>1. PICK i \in 1 .. Len(r) : r[i] = n
    BY <1>7 DEF NodesOf
  <2>2. i + 1 \in 1 .. Len(s) /\ s[i + 1] = n /\ i + 1 # 1 /\ 1 \in 1 .. Len(s)
    BY <1>1, <1>3, <2>1
  <2>3. n # h
    BY <1>0, <2>2 DEF Distinct
  <2> QED
    BY <2>2, <2>3 DEF NodesOf
<1>8. ASSUME NEW n, n \in NodesOf(s) \ {h} PROVE n \in NodesOf(r)
  <2>1. PICK i \in 1 .. Len(s) : s[i] = n
    BY <1>8 DEF NodesOf
  <2>2. i # 1
    BY <1>0, <1>8, <2>1
  <2>3. i - 1 \in 1 .. Len(r) /\ (i - 1) + 1 = i
    BY <1>1, <2>2
  <2>4. r[i - 1] = n
    BY <1>1, <2>1, <2>3
  <2> QED
    BY <2>3, <2>4 DEF NodesOf
<1> QED
  BY <1>1, <1>4, <1>5, <1>6, <1>7, <1>8 DEF r

LEMMA ChainPush ==
  ASSUME NEW f, NEW h, NEW s \in Seq(Nodes), IsChain(f, s, h), Distinct(s),
         NEW n \in Nodes, f[n] = h, n \notin NodesOf(s)
  PROVE  \E r \in Seq(Nodes) : /\ r = <<n>> \o s
                               /\ IsChain(f, r, n) /\ Distinct(r)
                               /\ NodesOf(r) = NodesOf(s) \cup {n}
<1> DEFINE r == <<n>> \o s
<1>1. /\ Len(s) \in Nat /\ r \in Seq(Nodes) /\ Len(r) = Len(s) + 1 /\ r[1] = n /\ r # <<>>
      /\ \A i \in 1 .. Len(s) : r[i + 1] = s[i]
  OBVIOUS
<1> HIDE DEF r
<1>2. \A i \in 1 .. Len(r) : i # 1 => i - 1 \in 1 .. Len(s) /\ (i - 1) + 1 = i /\ r[i] = s[i - 1]
  <2> SUFFICES ASSUME NEW i \in 1 .. Len(r), i # 1
               PROVE  i - 1 \in 1 .. Len(s) /\ (i - 1) + 1 = i /\ r[i] = s[i - 1]
    OBVIOUS
  <2>1. i - 1 \in 1 .. Len(s) /\ (i - 1) + 1 = i
    BY <1>1
  <2> QED
    BY <1>1, <2>1
<1>3. IsChain(f, r, n)
  <2> SUFFICES ASSUME NEW i \in 1 .. Len(r)
               PROVE  f[r[i]] = IF i = Len(r) THEN Null ELSE r[i + 1]
    BY <1>1 DEF IsChain
  <2>1. CASE i = 1
    <3>1. CASE s = <<>>
      BY <1>1, <2>1, <3>1 DEF IsChain
    <3>2. CASE s # <<>>
      <4>1. Len(s) # 0 /\ 1 \in 1 .. Len(s)
        BY <1>1, <3>2
      <4>2. r[1 + 1] = s[1] /\ i # Len(r)
        BY <1>1, <2>1, <4>1
      <4>3. h = s[1]
        BY <3>2 DEF IsChain
      <4> QED
        BY <1>1, <2>1, <4>2, <4>3
    <3> QED
      BY <3>1, <3>2
  <2>2. CASE i # 1
    <3>1. i - 1 \in 1 .. Len(s) /\ (i - 1) + 1 = i /\ r[i] = s[i - 1]
      BY <1>2, <2>2
    <3>2. f[s[i - 1]] = IF i - 1 = Len(s) THEN Null ELSE s[(i - 1) + 1]
      BY <3>1 DEF IsChain
    <3>3. i - 1 = Len(s) <=> i = Len(r)
      BY <1>1, <3>1
    <3>4. i # Len(r) => r[i + 1] = s[i]
      BY <1>1, <3>1
    <3> QED
      BY <3>1, <3>2, <3>3, <3>4
  <2> QED
    BY <2>1, <2>2
<1>4. \A i \in 1 .. Len(r) : i # 1 => r[i] \in NodesOf(s)
  BY <1>2 DEF NodesOf
<1>5. Distinct(r)
  <2> SUFFICES ASSUME NEW i \in 1 .. Len(r), NEW j \in 1 .. Len(r), r[i] = r[j]
               PROVE  i = j
    BY DEF Distinct
  <2>1. i = 1 <=> j = 1
    BY <1>1, <1>4
  <2>2. CASE i # 1 /\ j # 1
    <3>1. i - 1 = j - 1
      BY <1>2, <2>2 DEF Distinct
    <3> QED
      BY <1>1, <3>1
  <2> QED
    BY <2>1, <2>2
<1>6. NodesOf(r) = NodesOf(s) \cup {n}
  <2>1. ASSUME NEW m, m \in NodesOf(r) PROVE m \in NodesOf(s) \cup {n}
    <3>1. PICK i \in 1 .. Len(r) : r[i] = m
      BY <2>1 DEF NodesOf
    <3> QED
      BY <1>1, <1>4, <3>1
  <2>2. n \in NodesOf(r)
    <3>1. 1 \in 1 .. Len(r)
      BY <1>1
    <3> QED
      BY <1>1, <3>1 DEF NodesOf
  <2>3. ASSUME NEW m, m \in NodesOf(s) PROVE m \in NodesOf(r)
    <3>1. PICK i \in 1 .. Len(s) : s[i] = m
      BY <2>3 DEF NodesOf
    <3>2. i + 1 \in 1 .. Len(r)
      BY <1>1
    <3> QED
      BY <1>1, <3>1, <3>2 DEF NodesOf
  <2> QED
    BY <2>1, <2>2, <2>3
<1> QED
  BY <1>1, <1>3, <1>5, <1>6 DEF r

LEMMA ChainSame ==
  ASSUME NEW f, NEW g, NEW h, NEW s \in Seq(Nodes), IsChain(f, s, h),
         \A n \in NodesOf(s) : g[n] = f[n]
  PROVE  IsChain(g, s, h)
<1>1. \A i \in 1 .. Len(s) : g[s[i]] = f[s[i]]
  BY DEF NodesOf
<1> QED
  BY <1>1 DEF IsChain

LEMMA ChainAppend ==
  ASSUME NEW f, NEW g, NEW h, NEW s \in Seq(Nodes), IsChain(f, s, h), Distinct(s),
         NEW n \in Nodes, n \notin NodesOf(s), g[n] = Null,
         \A i \in 1 .. Len(s) : g[s[i]] = IF i = Len(s) THEN n ELSE f[s[i]]
  PROVE  /\ IsChain(g, Append(s, n), IF s = <<>> THEN n ELSE h)
         /\ Distinct(Append(s, n)) /\ NodesOf(Append(s, n)) = NodesOf(s) \cup {n}
<1> DEFINE r == Append(s, n)
<1>1. /\ Len(s) \in Nat /\ r # <<>> /\ Len(r) = Len(s) + 1
      /\ r[Len(s) + 1] = n /\ \A i \in 1 .. Len(s) : r[i] = s[i]
  BY AppendProperties
<1>2. s = <<>> <=> Len(s) = 0
  BY EmptySeq
<1> HIDE DEF r
<1>3. ASSUME NEW i \in 1 .. Len(r)
      PROVE  \/ i = Len(r) /\ r[i] = n
             \/ i # Len(r) /\ i \in 1 .. Len(s) /\ r[i] = s[i] /\ r[i] \in NodesOf(s)
  BY <1>1 DEF NodesOf
<1>4. IsChain(g, r, IF s = <<>> THEN n ELSE h)
  <2>1. (IF s = <<>> THEN n ELSE h) = r[1]
    <3>1. CASE s = <<>>
      BY <1>1, <1>2, <3>1
    <3>2. CASE s # <<>>
      <4>1. 1 \in 1 .. Len(s) /\ h = s[1]
        BY <1>1, <1>2, <3>2 DEF IsChain
      <4> QED
        BY <1>1, <3>2, <4>1
    <3> QED
      BY <3>1, <3>2
  <2>2. ASSUME NEW i \in 1 .. Len(r) PROVE g[r[i]] = IF i = Len(r) THEN Null ELSE r[i + 1]
    <3>1. CASE i = Len(r)
      BY <1>3, <3>1
    <3>2. CASE i # Len(r)
      <4>1. i \in 1 .. Len(s) /\ r[i] = s[i]
        BY <1>3, <3>2
      <4>2. CASE i = Len(s)
        BY <1>1, <3>2, <4>1, <4>2
      <4>3. CASE i # Len(s)
        <5>1. g[s[i]] = s[i + 1]
          BY <4>1, <4>3 DEF IsChain
        <5>2. i + 1 \in 1 .. Len(s)
          BY <1>1, <4>1, <4>3
        <5> QED
          BY <1>1, <3>2, <4>1, <5>1, <5>2
      <4> QED
        BY <4>2, <4>3
    <3> QED
      BY <3>1, <3>2
  <2> QED
    BY <1>1, <2>1, <2>2 DEF IsChain
<1>5. Distinct(r)
  <2> SUFFICES ASSUME NEW i \in 1 .. Len(r), NEW j \in 1 .. Len(r), r[i] = r[j]
               PROVE  i = j
    BY DEF Distinct
  <2> QED
    BY <1>3 DEF Distinct
<1>6. NodesOf(r) = NodesOf(s) \cup {n}
  <2>1. NodesOf(r) \subseteq NodesOf(s) \cup {n}
    BY <1>3 DEF NodesOf
  <2>2. \A i \in 1 .. Len(s) : i \in 1 .. Len(r) /\ r[i] = s[i]
    BY <1>1
  <2>3. Len(r) \in 1 .. Len(r) /\ r[Len(r)] = n
    BY <1>1
  <2>4. NodesOf(s) \subseteq NodesOf(r) /\ n \in NodesOf(r)
    BY <2>2, <2>3 DEF NodesOf
  <2> QED
    BY <2>1, <2>4
<1> QED
  BY <1>4, <1>5, <1>6 DEF r

LEMMA EmptyIsChain ==
  \A f : IsChain(f, <<>>, Null) /\ <<>> \in Seq(Nodes) /\ NodesOf(<<>>) = {} /\ Distinct(<<>>)
BY EmptySeq DEF IsChain, NodesOf, Distinct

LEMMA EmptyChain ==
  ASSUME NEW f, NEW s \in Seq(Nodes), IsChain(f, s, Null)
  PROVE  s = <<>> /\ NodesOf(s) = {}
<1>1. s = <<>>
  <2>1. s # <<>> => s[1] \in Nodes
    OBVIOUS
  <2> QED
    BY <2>1, NodesAssumption DEF IsChain
<1> QED
  BY <1>1, EmptyIsChain

LEMMA Concatenated ==
  ASSUME NEW s \in Seq(Nodes), NEW l \in Seq(Nodes), Distinct(s), Distinct(l),
         NodesOf(s) \cap NodesOf(l) = {}
  PROVE  Distinct(s \o l) /\ NodesOf(s \o l) = NodesOf(s) \cup NodesOf(l)
<1> DEFINE r == s \o l
<1>1. /\ Len(s) \in Nat /\ Len(l) \in Nat /\ Len(r) = Len(s) + Len(l)
      /\ \A i \in 1 .. Len(r) : r[i] = IF i <= Len(s) THEN s[i] ELSE l[i - Len(s)]
  BY ConcatProperties
<1> HIDE DEF r
<1>2. ASSUME NEW i \in 1 .. Len(r)
      PROVE  \/ i \in 1 .. Len(s) /\ r[i] = s[i] /\ r[i] \in NodesOf(s)
             \/ /\ i - Len(s) \in 1 .. Len(l) /\ r[i] = l[i - Len(s)]
                /\ r[i] \in NodesOf(l)
  <2>1. CASE i <= Len(s)
    BY <1>1, <2>1 DEF NodesOf
  <2>2. CASE ~ (i <= Len(s))
    <3>1. i - Len(s) \in 1 .. Len(l) /\ r[i] = l[i - Len(s)]
      BY <1>1, <2>2
    <3> QED
      BY <3>1 DEF NodesOf
  <2> QED
    BY <2>1, <2>2
<1>3. Distinct(r)
  <2> SUFFICES ASSUME NEW i \in 1 .. Len(r), NEW j \in 1 .. Len(r), r[i] = r[j]
               PROVE  i = j
    BY DEF Distinct
  <2>1. CASE r[i] \in NodesOf(s)
    BY <1>2, <2>1 DEF Distinct
  <2>2. CASE r[i] \in NodesOf(l)
    <3>1. i - Len(s) = j - Len(s)
      BY <1>2, <2>2 DEF Distinct
    <3> QED
      BY <1>1, <3>1
  <2> QED
    BY <1>2, <2>1, <2>2
<1>4. ASSUME NEW i \in 1 .. Len(s) PROVE i \in 1 .. Len(r) /\ r[i] = s[i]
  BY <1>1
<1>5. ASSUME NEW j \in 1 .. Len(l) PROVE j + Len(s) \in 1 .. Len(r) /\ r[j + Len(s)] = l[j]
  <2>1. j + Len(s) \in 1 .. Len(r) /\ ~ (j + Len(s) <= Len(s)) /\ (j + Len(s)) - Len(s) = j
    BY <1>1
  <2> QED
    BY <1>1, <2>1
<1>6. NodesOf(r) = NodesOf(s) \cup NodesOf(l)
  <2>1. NodesOf(r) \subseteq NodesOf(s) \cup NodesOf(l)
    BY <1>2 DEF NodesOf
  <2>2. NodesOf(s) \subseteq NodesOf(r)
    BY <1>4 DEF NodesOf
  <2>3. NodesOf(l) \subseteq NodesOf(r)
    BY <1>5 DEF NodesOf
  <2> QED
    BY <2>1, <2>2, <2>3
<1> QED
  BY <1>3, <1>6 DEF r
-----------------------------------------------------------------------------
(* Reversing *)

LEMMA ReversedIs ==
  ASSUME NEW s \in Seq(Nodes)
  PROVE  /\ Reversed(s) \in Seq(Nodes) /\ Len(Reversed(s)) = Len(s)
         /\ \A i \in 1 .. Len(s) : Reversed(s)[i] = s[Len(s) + 1 - i]
<1>1. Len(s) \in Nat
  OBVIOUS
<1>2. \A i \in 1 .. Len(s) : Len(s) + 1 - i \in 1 .. Len(s)
  BY <1>1
<1>3. Reversed(s) \in [1 .. Len(s) -> Nodes]
  BY <1>2, ElementOfSeq DEF Reversed
<1>4. Reversed(s) \in Seq(Nodes)
  BY <1>1, <1>3, SeqDef
<1>5. Len(Reversed(s)) = Len(s)
  BY <1>1, <1>3, <1>4
<1> QED
  BY <1>4, <1>5 DEF Reversed

LEMMA ReversedEmpty == Reversed(<<>>) = <<>>
<1>1. <<>> \in Seq(Nodes) /\ Len(<<>>) = 0
  BY EmptySeq
<1> QED
  BY <1>1, ReversedIs, EmptySeq

(* What is pushed last comes out last. *)
LEMMA ReversedPush ==
  ASSUME NEW s \in Seq(Nodes), NEW n \in Nodes
  PROVE  Reversed(<<n>> \o s) = Append(Reversed(s), n)
<1> DEFINE r == <<n>> \o s
           b == Append(Reversed(s), n)
<1>1. /\ Len(s) \in Nat /\ r \in Seq(Nodes) /\ Len(r) = Len(s) + 1 /\ r[1] = n
      /\ \A i \in 1 .. Len(s) : r[i + 1] = s[i]
  OBVIOUS
<1>2. /\ Reversed(s) \in Seq(Nodes) /\ Len(Reversed(s)) = Len(s)
      /\ \A i \in 1 .. Len(s) : Reversed(s)[i] = s[Len(s) + 1 - i]
  BY ReversedIs
<1>3. /\ b \in Seq(Nodes) /\ Len(b) = Len(s) + 1 /\ b[Len(s) + 1] = n
      /\ \A i \in 1 .. Len(s) : b[i] = s[Len(s) + 1 - i]
  BY <1>2, AppendProperties
<1> HIDE DEF r, b
<1>4. /\ Reversed(r) \in Seq(Nodes) /\ Len(Reversed(r)) = Len(r)
      /\ \A i \in 1 .. Len(r) : Reversed(r)[i] = r[Len(r) + 1 - i]
  BY <1>1, ReversedIs
<1>5. ASSUME NEW i \in 1 .. Len(r) PROVE Reversed(r)[i] = b[i]
  <2>1. i \in Nat /\ Reversed(r)[i] = r[Len(r) + 1 - i]
    BY <1>1, <1>4
  <2>2. CASE i = Len(s) + 1
    <3>1. Len(r) + 1 - i = 1
      BY <1>1, <2>2
    <3> QED
      BY <1>1, <1>3, <2>1, <2>2, <3>1
  <2>3. CASE i # Len(s) + 1
    <3>1. i \in 1 .. Len(s) /\ Len(s) + 1 - i \in 1 .. Len(s)
      BY <1>1, <2>3
    <3>2. Len(r) + 1 - i = (Len(s) + 1 - i) + 1
      BY <1>1, <2>1
    <3> QED
      BY <1>1, <1>3, <2>1, <3>1, <3>2
  <2> QED
    BY <2>2, <2>3
<1>6. Len(Reversed(r)) = Len(b)
  BY <1>1, <1>3, <1>4
<1>7. \A i \in 1 .. Len(Reversed(r)) : Reversed(r)[i] = b[i]
  BY <1>4, <1>5
<1>8. Reversed(r) = b
  BY <1>3, <1>4, <1>6, <1>7, SeqEqual
<1> QED
  BY <1>8 DEF r, b

(* The links of a chain led back, and its last node taken off it: the rest *)
(* is a chain from the last but one.                                       *)
LEMMA ChainBack ==
  ASSUME NEW f \in [Nodes -> Links], NEW s \in Seq(Nodes), Distinct(s), s # <<>>,
         NEW g, g = [LinkBack(f, s) EXCEPT ![s[Len(s)]] = Null],
         NEW c, c = IF Len(s) = 1 THEN Null ELSE s[Len(s) - 1]
  PROVE  \E r \in Seq(Nodes) : /\ Reversed(s) = <<s[Len(s)]>> \o r
                               /\ IsChain(g, r, c) /\ Distinct(r)
                               /\ NodesOf(r) = NodesOf(s) \ {s[Len(s)]}
<1> DEFINE k == Len(s)
           r == [i \in 1 .. k - 1 |-> s[k - i]]
<1>1. k \in Nat /\ k # 0 /\ k - 1 \in Nat /\ k \in 1 .. k
  BY EmptySeq
<1>2. \A i \in 1 .. k : s[i] \in Nodes
  BY ElementOfSeq
<1>3. \A i, j \in 1 .. k : s[i] = s[j] => i = j
  BY DEF Distinct
<1>4. c = IF k = 1 THEN Null ELSE s[k - 1]
  OBVIOUS
<1>5. g = [LinkBack(f, s) EXCEPT ![s[k]] = Null]
  OBVIOUS
<1>6. ASSUME NEW i \in 1 .. k, i # k PROVE g[s[i]] = IF i = 1 THEN Null ELSE s[i - 1]
  <2>1. {j \in 1 .. Len(s) : s[j] = s[i]} = {i}
    BY <1>3
  <2>2. LinkBack(f, s)[s[i]] = IF i = 1 THEN Null ELSE s[i - 1]
    <3>1. (CHOOSE j \in {i} : TRUE) = i
      OBVIOUS
    <3> HIDE DEF k
    <3> QED
      BY <1>2, <2>1, <3>1 DEF LinkBack
  <2>3. s[i] # s[k]
    BY <1>1, <1>3, <1>6
  <2>4. LinkBack(f, s) = [n \in Nodes |-> LinkBack(f, s)[n]]
    BY DEF LinkBack
  <2> QED
    BY <1>2, <1>5, <2>2, <2>3, <2>4
<1>7. NodesOf(s) = {s[i] : i \in 1 .. k}
  BY DEF NodesOf
<1>8. Reversed(s) \in Seq(Nodes) /\ Len(Reversed(s)) = k
      /\ \A i \in 1 .. k : Reversed(s)[i] = s[k + 1 - i]
  BY ReversedIs
<1> SUFFICES \E q \in Seq(Nodes) : /\ Reversed(s) = <<s[k]>> \o q
                                   /\ IsChain(g, q, c) /\ Distinct(q)
                                   /\ NodesOf(q) = NodesOf(s) \ {s[k]}
  OBVIOUS
<1> HIDE DEF k
<1>9. \A i \in 1 .. k - 1 : i \in Nat /\ k - i \in 1 .. k /\ k - i # k
  BY <1>1
<1>10. r \in Seq(Nodes) /\ Len(r) = k - 1 /\ \A i \in 1 .. Len(r) : r[i] = s[k - i]
  <2>1. r \in [1 .. k - 1 -> Nodes]
    BY <1>2, <1>9
  <2>2. r \in Seq(Nodes)
    BY <1>1, <2>1, SeqDef
  <2>3. Len(r) = k - 1
    BY <1>1, <2>1, <2>2
  <2> QED
    BY <2>2, <2>3
<1> HIDE DEF r
<1>11. r = <<>> <=> k = 1
  BY <1>1, <1>10, EmptySeq
<1>12. IsChain(g, r, c)
  <2>1. c = IF r = <<>> THEN Null ELSE r[1]
    <3>1. k # 1 => 1 \in 1 .. Len(r)
      BY <1>1, <1>10
    <3> QED
      BY <1>4, <1>10, <1>11, <3>1
  <2>2. ASSUME NEW i \in 1 .. Len(r) PROVE g[r[i]] = IF i = Len(r) THEN Null ELSE r[i + 1]
    <3>1. i \in Nat /\ r[i] = s[k - i] /\ k - i \in 1 .. k /\ k - i # k
      BY <1>9, <1>10
    <3>2. g[r[i]] = IF k - i = 1 THEN Null ELSE s[(k - i) - 1]
      BY <1>6, <3>1
    <3>3. k - i = 1 <=> i = Len(r)
      BY <1>1, <1>10, <3>1
    <3>4. i # Len(r) => i + 1 \in 1 .. Len(r) /\ k - (i + 1) = (k - i) - 1
      BY <1>1, <1>10, <3>1
    <3> QED
      BY <1>10, <3>2, <3>3, <3>4
  <2> QED
    BY <2>1, <2>2 DEF IsChain
<1>13. Distinct(r)
  <2> SUFFICES ASSUME NEW i \in 1 .. Len(r), NEW j \in 1 .. Len(r), r[i] = r[j]
               PROVE  i = j
    BY DEF Distinct
  <2>1. k - i = k - j
    BY <1>3, <1>9, <1>10
  <2> QED
    BY <1>1, <1>9, <1>10, <2>1
<1>14. NodesOf(r) = NodesOf(s) \ {s[k]}
  <2>1. ASSUME NEW n, n \in NodesOf(r) PROVE n \in NodesOf(s) \ {s[k]}
    <3>1. PICK i \in 1 .. Len(r) : r[i] = n
      BY <2>1 DEF NodesOf
    <3>2. n = s[k - i] /\ k - i \in 1 .. k /\ k - i # k
      BY <1>9, <1>10, <3>1
    <3> QED
      BY <1>1, <1>3, <1>7, <3>2
  <2>2. ASSUME NEW n, n \in NodesOf(s) \ {s[k]} PROVE n \in NodesOf(r)
    <3>1. PICK i \in 1 .. k : s[i] = n
      BY <1>7, <2>2
    <3>2. i # k
      BY <2>2, <3>1
    <3>3. k - i \in 1 .. Len(r) /\ k - (k - i) = i
      BY <1>1, <1>10, <3>2
    <3>4. r[k - i] = n
      BY <1>10, <3>1, <3>3
    <3> QED
      BY <3>3, <3>4 DEF NodesOf
  <2> QED
    BY <2>1, <2>2
<1>15. Reversed(s) = <<s[k]>> \o r
  <2> DEFINE b == <<s[k]>> \o r
  <2>1. s[k] \in Nodes
    BY <1>1, <1>2
  <2>2. /\ b \in Seq(Nodes) /\ Len(b) = Len(r) + 1 /\ b[1] = s[k]
        /\ \A i \in 1 .. Len(r) : b[i + 1] = r[i]
    BY <1>10, <2>1
  <2> HIDE DEF b
  <2>3. ASSUME NEW i \in 1 .. Len(Reversed(s)) PROVE Reversed(s)[i] = b[i]
    <3>1. i \in 1 .. k /\ i \in Nat /\ Reversed(s)[i] = s[k + 1 - i]
      BY <1>8
    <3>2. CASE i = 1
      <4>1. k + 1 - i = k
        BY <1>1, <3>2
      <4> QED
        BY <2>2, <3>1, <3>2, <4>1
    <3>3. CASE i # 1
      <4>1. i - 1 \in 1 .. Len(r) /\ (i - 1) + 1 = i /\ k + 1 - i = k - (i - 1)
        BY <1>1, <1>10, <3>1, <3>3
      <4>2. b[i] = r[i - 1] /\ r[i - 1] = s[k - (i - 1)]
        BY <1>10, <2>2, <4>1
      <4> QED
        BY <3>1, <4>1, <4>2
    <3> QED
      BY <3>2, <3>3
  <2>4. Len(Reversed(s)) = Len(b)
    BY <1>1, <1>8, <1>10, <2>2
  <2>5. Reversed(s) = b
    BY <1>8, <2>2, <2>3, <2>4, SeqEqual
  <2> QED
    BY <2>5 DEF b
<1> QED
  BY <1>10, <1>12, <1>13, <1>14, <1>15

(* The first of two sequences, one after the other. *)
LEMMA ConcatHead ==
  ASSUME NEW s \in Seq(Nodes), NEW u \in Seq(Nodes), s # <<>>
  PROVE  /\ s \o u # <<>> /\ Head(s \o u) = s[1] /\ Tail(s \o u) = Tail(s) \o u
<1> DEFINE b == s \o u
           t == Tail(s)
           v == t \o u
<1>1. /\ Len(s) \in Nat /\ Len(s) # 0 /\ Len(u) \in Nat
      /\ b \in Seq(Nodes) /\ Len(b) = Len(s) + Len(u)
      /\ \A i \in 1 .. Len(b) : b[i] = IF i <= Len(s) THEN s[i] ELSE u[i - Len(s)]
  BY ConcatProperties, EmptySeq
<1>2. /\ t \in Seq(Nodes) /\ Len(t) = Len(s) - 1 /\ \A i \in 1 .. Len(t) : t[i] = s[i + 1]
  BY HeadTailProperties
<1>3. /\ v \in Seq(Nodes) /\ Len(v) = Len(t) + Len(u)
      /\ \A i \in 1 .. Len(v) : v[i] = IF i <= Len(t) THEN t[i] ELSE u[i - Len(t)]
  BY <1>2, ConcatProperties
<1> HIDE DEF b, t, v
<1>4. b # <<>> /\ 1 \in 1 .. Len(b)
  BY <1>1, EmptySeq
<1>5. Head(b) = s[1]
  BY <1>1, <1>4
<1>6. /\ Tail(b) \in Seq(Nodes) /\ Len(Tail(b)) = Len(b) - 1
      /\ \A i \in 1 .. Len(Tail(b)) : Tail(b)[i] = b[i + 1]
  BY <1>1, <1>4, HeadTailProperties
<1>7. Len(Tail(b)) = Len(v)
  BY <1>1, <1>2, <1>3, <1>6
<1>8. ASSUME NEW i \in 1 .. Len(Tail(b)) PROVE Tail(b)[i] = v[i]
  <2>1. i \in Nat /\ i \in 1 .. Len(v) /\ i + 1 \in 1 .. Len(b) /\ Tail(b)[i] = b[i + 1]
    BY <1>1, <1>6, <1>7
  <2>2. CASE i <= Len(t)
    <3>1. i \in 1 .. Len(t) /\ i + 1 <= Len(s)
      BY <1>1, <1>2, <2>1, <2>2
    <3> QED
      BY <1>1, <1>2, <1>3, <2>1, <2>2, <3>1
  <2>3. CASE ~ (i <= Len(t))
    <3>1. ~ (i + 1 <= Len(s)) /\ (i + 1) - Len(s) = i - Len(t)
      BY <1>1, <1>2, <2>1, <2>3
    <3> QED
      BY <1>1, <1>3, <2>1, <2>3, <3>1
  <2> QED
    BY <2>2, <2>3
<1>9. Tail(b) = v
  BY <1>3, <1>6, <1>7, <1>8, SeqEqual
<1> QED
  BY <1>4, <1>5, <1>9 DEF b, t, v

LEMMA SingleFirst ==
  ASSUME NEW n \in Nodes, NEW r \in Seq(Nodes)
  PROVE  /\ <<n>> \o r \in Seq(Nodes) /\ <<n>> \o r # <<>>
         /\ Head(<<n>> \o r) = n /\ Tail(<<n>> \o r) = r
<1>1. <<n>> \in Seq(Nodes) /\ <<n>> # <<>> /\ <<n>>[1] = n /\ Tail(<<n>>) = <<>>
  OBVIOUS
<1>2. <<>> \o r = r
  BY ConcatEmptySeq
<1> QED
  BY <1>1, <1>2, ConcatHead, ConcatProperties
===============================================================================
