--------------------------- MODULE UserdataProofs ---------------------------
(***************************************************************************)
(* Proofs about UserdataImage, for filesystems and groups of any size.      *)
(***************************************************************************)
EXTENDS UserdataImage, FiniteSetTheorems, SequenceTheorems, TLAPS

-----------------------------------------------------------------------------
(* Finite sets of numbers *)

\* Ranks tell the elements of a set apart and grow with them.
LEMMA RankIsInjection ==
  ASSUME NEW T \in SUBSET Nat, IsFiniteSet(T)
  PROVE  /\ [b \in T |-> Rank(T, b)] \in Injection(T, 1 .. Cardinality(T))
         /\ \A b, c \in T : b < c => Rank(T, b) < Rank(T, c)
<1> DEFINE Below(b) == {c \in T : c <= b}
<1>1. \A b \in T : IsFiniteSet(Below(b)) /\ Cardinality(Below(b)) \in Nat
                   /\ Cardinality(Below(b)) <= Cardinality(T)
  BY FS_Subset, FS_CardinalityType
<1>2. \A b \in T : Cardinality(Below(b)) # 0
  BY <1>1, FS_EmptySet
<1>3. \A b, c \in T : b < c => Cardinality(Below(b)) < Cardinality(Below(c))
  <2> SUFFICES ASSUME NEW b \in T, NEW c \in T, b < c
               PROVE  Cardinality(Below(b)) < Cardinality(Below(c))
    OBVIOUS
  <2>0. \A x \in T : x \in Nat
    OBVIOUS
  <2>1. (\A x \in T : x <= b => x <= c) /\ c <= c /\ ~(c <= b)
    BY <2>0
  <2>2. Below(b) \subseteq Below(c) /\ c \in Below(c) /\ c \notin Below(b)
    BY <2>1, Zenon
  <2>3. /\ Cardinality(Below(b)) <= Cardinality(Below(c))
        /\ Cardinality(Below(b)) # Cardinality(Below(c))
    BY <1>1, <2>2, FS_Subset
  <2> QED
    BY <1>1, <2>3
<1>4. Cardinality(T) \in Nat
  BY FS_CardinalityType
<1> HIDE DEF Below
<1>5. \A b \in T : Cardinality(Below(b)) \in 1 .. Cardinality(T)
  BY <1>1, <1>2, <1>4
<1>6. \A b, c \in T : Cardinality(Below(b)) = Cardinality(Below(c)) => b = c
  BY <1>1, <1>3
<1>7. \A b : Rank(T, b) = Cardinality(Below(b))
  BY DEF Rank, Below
<1> QED
  BY <1>3, <1>5, <1>6, <1>7 DEF Injection, IsInjective

\* The ranks of a finite set of numbers are 1, 2, ... up to its size.
LEMMA EveryRank ==
  ASSUME NEW T \in SUBSET Nat, IsFiniteSet(T), NEW n \in 1 .. Cardinality(T)
  PROVE  \E b \in T : Rank(T, b) = n
<1> DEFINE f == [b \in T |-> Rank(T, b)]
<1>1. f \in Injection(T, 1 .. Cardinality(T)) /\ Cardinality(T) \in Nat
  BY RankIsInjection, FS_CardinalityType
<1>2. IsFiniteSet(1 .. Cardinality(T)) /\ Cardinality(1 .. Cardinality(T)) = Cardinality(T)
  BY <1>1, FS_Interval
<1> HIDE DEF f
<1>3. f \in Surjection(T, 1 .. Cardinality(T))
  BY <1>1, <1>2, FS_Injection
<1> QED
  BY <1>3 DEF Surjection, f

\* Every non-empty set of numbers has a least element. The induction principle of all
\* proofs below that need one.
LEMMA Least ==
  ASSUME NEW T \in SUBSET Nat, T # {}
  PROVE  \E m \in T : \A x \in T : m <= x
<1>1. PICK x \in T : TRUE
  OBVIOUS
<1> DEFINE S == {c \in T : c <= x}
<1>2. IsFiniteSet(S) /\ S \in SUBSET Nat /\ x \in S
  <2>1. x \in Nat
    OBVIOUS
  <2>2. x <= x /\ \A c \in T : c \in Nat
    BY <2>1
  <2>3. S \subseteq Nat /\ x \in S /\ \A c \in S : c <= x
    BY <2>2, Zenon
  <2> HIDE DEF S
  <2> QED
    BY <2>1, <2>3, FS_BoundedSetOfNaturals, SMTT(30)
<1>3. Cardinality(S) \in Nat \ {0}
  <2> HIDE DEF S
  <2>1. S # {} /\ Cardinality(S) \in Nat
    BY <1>2, FS_CardinalityType
  <2>2. Cardinality(S) # 0
    BY <1>2, <2>1, FS_EmptySet
  <2> QED
    BY <2>1, <2>2
<1>4. PICK m \in S : Rank(S, m) = 1
  BY <1>2, <1>3, EveryRank, SMTT(30)
<1>5. \A c \in S : c < m => Rank(S, c) < 1
  BY <1>2, <1>4, RankIsInjection
<1>6. \A c \in S : Rank(S, c) \in 1 .. Cardinality(S)
  <2>1. [b \in S |-> Rank(S, b)] \in [S -> 1 .. Cardinality(S)]
    BY <1>2, RankIsInjection DEF Injection
  <2> QED
    BY <2>1
<1>7. \A c \in S : m <= c
  BY <1>5, <1>6, <1>2, <1>4
<1> QED
  BY <1>7

-----------------------------------------------------------------------------
(* The runs of a set of blocks *)

LEMMA BlockNat == Block \subseteq Nat /\ IsFiniteSet(Block) /\ Cardinality(Block) = Blocks
BY UserdataConstantsOK, FS_Interval DEF Block

LEMMA NthOK ==
  ASSUME NEW T \in SUBSET Nat, IsFiniteSet(T), NEW n \in 1 .. Cardinality(T)
  PROVE  Nth(T, n) \in T /\ Rank(T, Nth(T, n)) = n
BY EveryRank DEF Nth

\* Where a run that begins at b ends.
LEMMA RunFromOK ==
  ASSUME NEW S \in SUBSET Block, NEW b \in S, NEW r, r = RunFrom(S, b)
  PROVE  r \in Block \X Block /\ r[1] = b /\ r[2] \in S /\ b <= r[2]
         /\ b .. r[2] \subseteq S /\ r[2] + 1 \notin S
<1> DEFINE D == {e \in Nat : b <= e /\ e + 1 \notin S}
<1>1. b \in Nat /\ b < Blocks /\ Blocks \in Nat \ {0} /\ Blocks \notin S
  BY UserdataConstantsOK DEF Block
<1>2. Blocks - 1 \in D
  BY <1>1
<1>3. PICK m \in D : \A e \in D : m <= e
  BY <1>2, Least
<1>4. m \in Nat /\ b <= m /\ m + 1 \notin S
  OBVIOUS
<1>5. \A x \in b .. m : x \in S
  <2> SUFFICES ASSUME NEW x \in b .. m, x # b, x \notin S PROVE FALSE
    OBVIOUS
  <2>1. x - 1 \in Nat /\ b <= x - 1 /\ (x - 1) + 1 = x /\ x - 1 < m
    BY <1>1, <1>4
  <2>2. x - 1 \in D
    BY <2>1
  <2> QED
    BY <1>3, <2>1, <2>2
<1>6. \E e \in S : b <= e /\ b .. e \subseteq S /\ e + 1 \notin S
  BY <1>1, <1>4, <1>5
<1> QED
  BY <1>6 DEF RunFrom

LEMMA FirstsOK ==
  ASSUME NEW S \in SUBSET Block
  PROVE  /\ Firsts(S) \in SUBSET Nat /\ Firsts(S) \subseteq S /\ IsFiniteSet(Firsts(S))
         /\ Cardinality(Firsts(S)) \in Nat
BY BlockNat, FS_Subset, FS_CardinalityType DEF Firsts

\* What a run of the listing is.
LEMMA RunsOK ==
  ASSUME NEW S \in SUBSET Block, NEW list, list = RunsOf(S)
  PROVE  /\ list \in Seq(Block \X Block) /\ Len(list) = Cardinality(Firsts(S))
         /\ \A n \in 1 .. Len(list) :
              /\ list[n][1] \in Firsts(S) /\ Rank(Firsts(S), list[n][1]) = n
              /\ list[n] = RunFrom(S, list[n][1])
<1> DEFINE F == Firsts(S)
           N == Cardinality(F)
<1>1. F \in SUBSET Nat /\ F \subseteq S /\ IsFiniteSet(F) /\ N \in Nat
  BY FirstsOK
<1>2. \A n \in 1 .. N : Nth(F, n) \in F /\ Rank(F, Nth(F, n)) = n
  BY <1>1, NthOK
<1>3. \A n \in 1 .. N : RunFrom(S, Nth(F, n)) \in Block \X Block
                        /\ RunFrom(S, Nth(F, n))[1] = Nth(F, n)
  BY <1>1, <1>2, RunFromOK, ZenonT(60)
<1>4. list = [n \in 1 .. N |-> RunFrom(S, Nth(F, n))]
  BY DEF RunsOf
<1> HIDE DEF F, N
<1>5. list \in [1 .. N -> Block \X Block]
  BY <1>3, <1>4
<1>6. list \in Seq(Block \X Block) /\ Len(list) = N
  BY <1>1, <1>5
<1> QED
  BY <1>2, <1>3, <1>4, <1>6, ZenonT(60) DEF F, N

\* The runs of a set cover the set.
LEMMA RunsCover ==
  ASSUME NEW S \in SUBSET Block
  PROVE  Covered(RunsOf(S)) = S
<1> DEFINE list == RunsOf(S)
<1>1. Len(list) = Cardinality(Firsts(S)) /\ \A n \in 1 .. Len(list) :
        /\ list[n][1] \in Firsts(S) /\ Rank(Firsts(S), list[n][1]) = n
        /\ list[n] = RunFrom(S, list[n][1])
  BY RunsOK
<1>2. \A n \in 1 .. Len(list) : list[n][1] .. list[n][2] \subseteq S
  BY <1>1, RunFromOK, FirstsOK
<1>3. ASSUME NEW b \in S
      PROVE  \E n \in 1 .. Len(list) : b \in list[n][1] .. list[n][2]
  <2> DEFINE D == {f \in Nat : f <= b /\ f .. b \subseteq S}
  <2>1. b \in Nat /\ b .. b = {b}
    BY BlockNat
  <2>2. b \in D
    BY <2>1
  <2>3. PICK f \in D : \A g \in D : f <= g
    BY <2>2, Least
  <2>4. f \in Nat /\ f <= b /\ f .. b \subseteq S /\ f \in S
    BY <2>1
  <2>5. f - 1 \notin S
    <3> SUFFICES ASSUME f - 1 \in S PROVE FALSE
      OBVIOUS
    <3>1. f - 1 \in Nat /\ f - 1 <= b /\ f - 1 < f
      BY <2>1, <2>4, BlockNat
    <3>2. (f - 1) .. b \subseteq S
      BY <2>1, <2>4, <3>1
    <3> QED
      BY <2>3, <3>1, <3>2
  <2>6. f \in Firsts(S)
    BY <2>4, <2>5 DEF Firsts
  <2> DEFINE n == Rank(Firsts(S), f)
  <2>7. n \in 1 .. Len(list)
    BY <1>1, <2>6, FirstsOK, RankIsInjection DEF Injection
  <2>8. list[n][1] = f
    BY <1>1, <2>6, <2>7, FirstsOK, RankIsInjection DEF Injection, IsInjective
  <2>9. list[n][2] \in S /\ f <= list[n][2] /\ list[n][2] + 1 \notin S
    BY <1>1, <2>4, <2>7, <2>8, RunFromOK
  <2>10. b <= list[n][2]
    <3>1. list[n][2] \in Nat
      BY <2>9, BlockNat
    <3>2. list[n][2] < b => list[n][2] + 1 \in f .. b
      BY <2>1, <2>4, <2>9, <3>1
    <3> QED
      BY <2>1, <2>4, <2>9, <3>1, <3>2
  <2> QED
    BY <2>1, <2>4, <2>7, <2>8, <2>9, <2>10, BlockNat
<1> HIDE DEF list
<1>4. Covered(list) = S
  BY <1>2, <1>3 DEF Covered
<1> QED
  BY <1>4 DEF list

\* The runs of a set ascend, with a block between two of them that is not in the set.
LEMMA RunsAscend ==
  ASSUME NEW S \in SUBSET Block, NEW list, list = RunsOf(S), NEW n \in 2 .. Len(list)
  PROVE  list[n - 1][2] < list[n][1]
<1>1. Len(list) \in Nat /\ n \in Nat /\ n - 1 \in 1 .. Len(list) /\ n \in 1 .. Len(list)
      /\ n - 1 < n
  BY RunsOK
<1> DEFINE p == list[n - 1]
           q == list[n]
<1>2. p[1] \in Firsts(S) /\ q[1] \in Firsts(S)
      /\ Rank(Firsts(S), p[1]) = n - 1 /\ Rank(Firsts(S), q[1]) = n /\ p = RunFrom(S, p[1])
  BY <1>1, RunsOK
<1>3. p[1] \in Nat /\ q[1] \in Nat /\ p[1] \in S /\ q[1] \in S /\ q[1] - 1 \notin S
  BY <1>2, FirstsOK DEF Firsts
<1>4. p[2] \in S /\ p[2] \in Nat /\ p[1] <= p[2] /\ p[1] .. p[2] \subseteq S
  <2>1. p[2] \in S /\ p[1] <= p[2] /\ p[1] .. p[2] \subseteq S
    BY <1>2, <1>3, RunFromOK
  <2> QED
    BY <2>1, BlockNat
<1> HIDE DEF p, q
<1>5. p[1] < q[1]
  <2>1. \A b, c \in Firsts(S) : b < c => Rank(Firsts(S), b) < Rank(Firsts(S), c)
    BY FirstsOK, RankIsInjection
  <2>2. ~ (q[1] < p[1]) /\ q[1] # p[1]
    BY <1>1, <1>2, <2>1
  <2> QED
    BY <1>3, <2>2
<1> SUFFICES ASSUME q[1] <= p[2] PROVE FALSE
  BY <1>3, <1>4 DEF p, q
<1>6. q[1] - 1 \in p[1] .. p[2]
  BY <1>3, <1>4, <1>5
<1> QED
  BY <1>3, <1>4, <1>6

-----------------------------------------------------------------------------
(* What a sequence of chunks amounts to *)

Kind == {"RAW", "DONT_CARE"}
ChunkSet == [type : Kind, blocks : Nat, data : Seq(Block)]
Counts(chunk, types) == IF chunk.type \in types THEN chunk.blocks ELSE 0
\* u[n] is what the first n chunks amount to.
Tally(u, chunks, types) ==
  u = [n \in 0 .. Len(chunks) |-> IF n = 0 THEN 0 ELSE u[n - 1] + Counts(chunks[n], types)]

LEMMA CountsNat ==
  ASSUME NEW chunk \in ChunkSet, NEW types
  PROVE  Counts(chunk, types) \in Nat
BY DEF Counts, ChunkSet

\* Every sequence of chunks has a tally, and only one. So the recursive BlocksOf is its end.
LEMMA TallyExists ==
  ASSUME NEW chunks \in Seq(ChunkSet), NEW types
  PROVE  \E u \in [0 .. Len(chunks) -> Nat] : Tally(u, chunks, types)
<1> DEFINE L == Len(chunks)
           Upto(m, u) == u[0] = 0 /\ \A n \in 1 .. m : u[n] = u[n - 1] + Counts(chunks[n], types)
           D == {m \in 0 .. L : ~ \E u \in [0 .. m -> Nat] : Upto(m, u)}
<1>1. L \in Nat /\ \A n \in 1 .. L : Counts(chunks[n], types) \in Nat
  BY CountsNat
<1>2. D = {}
  <2> SUFFICES ASSUME D # {} PROVE FALSE
    OBVIOUS
  <2>1. D \in SUBSET Nat
    BY <1>1
  <2>2. PICK m \in D : \A x \in D : m <= x
    BY <2>1, Least
  <2>3. m \in 0 .. L /\ ~ \E u \in [0 .. m -> Nat] : Upto(m, u)
    OBVIOUS
  <2>4. m # 0
    <3>1. [x \in 0 .. 0 |-> 0] \in [0 .. 0 -> Nat] /\ Upto(0, [x \in 0 .. 0 |-> 0])
      OBVIOUS
    <3> QED
      BY <2>3, <3>1
  <2>5. m - 1 \in 0 .. L /\ m - 1 < m /\ m \in 1 .. L
    BY <1>1, <2>3, <2>4
  <2>6. m - 1 \notin D
    <3>1. ~ (m <= m - 1)
      BY <2>5
    <3> QED
      BY <2>2, <3>1, Zenon
  <2>7. PICK u \in [0 .. m - 1 -> Nat] : Upto(m - 1, u)
    BY <2>5, <2>6
  <2> DEFINE v == [n \in 0 .. m |-> IF n = m THEN u[m - 1] + Counts(chunks[m], types) ELSE u[n]]
  <2>8. u[m - 1] \in Nat /\ Counts(chunks[m], types) \in Nat
    BY <1>1, <2>5
  <2>9. v \in [0 .. m -> Nat]
    BY <2>5, <2>8
  <2>10. Upto(m, v)
    <3>1. v[0] = 0
      BY <2>5, <2>7
    <3>2. ASSUME NEW n \in 1 .. m PROVE v[n] = v[n - 1] + Counts(chunks[n], types)
      <4>1. CASE n = m
        BY <2>5, <4>1
      <4>2. CASE n # m
        BY <2>5, <2>7, <4>2
      <4> QED
        BY <4>1, <4>2
    <3> QED
      BY <3>1, <3>2
  <2> QED
    BY <2>3, <2>9, <2>10
<1>3. PICK u \in [0 .. L -> Nat] : Upto(L, u)
  BY <1>1, <1>2, SMTT(30)
<1>4. u = [n \in 0 .. L |-> IF n = 0 THEN 0 ELSE u[n - 1] + Counts(chunks[n], types)]
  <2>1. \A n \in 0 .. L : u[n] = IF n = 0 THEN 0 ELSE u[n - 1] + Counts(chunks[n], types)
    BY <1>1, <1>3
  <2> QED
    BY <2>1
<1> QED
  BY <1>4 DEF Tally

LEMMA TallyUnique ==
  ASSUME NEW chunks \in Seq(ChunkSet), NEW types, NEW u, NEW v,
         Tally(u, chunks, types), Tally(v, chunks, types)
  PROVE  u = v
<1> DEFINE L == Len(chunks)
           D == {m \in 0 .. L : u[m] # v[m]}
<1>1. L \in Nat /\ D \in SUBSET Nat
  OBVIOUS
<1>2. /\ \A n \in 0 .. L : u[n] = IF n = 0 THEN 0 ELSE u[n - 1] + Counts(chunks[n], types)
      /\ \A n \in 0 .. L : v[n] = IF n = 0 THEN 0 ELSE v[n - 1] + Counts(chunks[n], types)
      /\ u = [n \in 0 .. L |-> u[n]] /\ v = [n \in 0 .. L |-> v[n]]
  BY DEF Tally
<1>3. D = {}
  <2> SUFFICES ASSUME D # {} PROVE FALSE
    OBVIOUS
  <2>1. PICK m \in D : \A x \in D : m <= x
    BY <1>1, Least
  <2>2. m \in 0 .. L /\ u[m] # v[m] /\ m # 0
    BY <1>1, <1>2
  <2>3. m - 1 \in 0 .. L /\ m - 1 < m
    BY <1>1, <2>2
  <2>4. u[m - 1] = v[m - 1]
    BY <2>1, <2>2, <2>3
  <2> QED
    BY <1>2, <2>2, <2>4
<1>4. \A n \in 0 .. L : u[n] = v[n]
  BY <1>3
<1> QED
  BY <1>2, <1>4

LEMMA BlocksOfIs ==
  ASSUME NEW chunks \in Seq(ChunkSet), NEW types, NEW u, Tally(u, chunks, types)
  PROVE  BlocksOf(chunks, types) = u[Len(chunks)]
<1> DEFINE f == CHOOSE f : f = [n \in 0 .. Len(chunks) |->
                      IF n = 0 THEN 0
                      ELSE f[n - 1] + (IF chunks[n].type \in types THEN chunks[n].blocks ELSE 0)]
<1>1. BlocksOf(chunks, types) = f[Len(chunks)]
  BY DEF BlocksOf
<1>2. u = [n \in 0 .. Len(chunks) |->
                      IF n = 0 THEN 0
                      ELSE u[n - 1] + (IF chunks[n].type \in types THEN chunks[n].blocks ELSE 0)]
  BY DEF Tally, Counts
<1>3. f = [n \in 0 .. Len(chunks) |->
                      IF n = 0 THEN 0
                      ELSE f[n - 1] + (IF chunks[n].type \in types THEN chunks[n].blocks ELSE 0)]
  BY <1>2, Zenon
<1> HIDE DEF f
<1>4. Tally(f, chunks, types)
  BY <1>3 DEF Tally, Counts
<1> QED
  BY <1>1, <1>4, TallyUnique


LEMMA EmptyBlocks ==
  ASSUME NEW types
  PROVE  BlocksOf(<<>>, types) = 0
<1>1. <<>> \in Seq(ChunkSet) /\ Len(<<>>) = 0
  OBVIOUS
<1>2. PICK u \in [0 .. 0 -> Nat] : Tally(u, <<>>, types)
  BY <1>1, TallyExists
<1>3. u[0] = 0
  BY <1>1, <1>2 DEF Tally
<1> QED
  BY <1>1, <1>2, <1>3, BlocksOfIs

LEMMA AppendBlocks ==
  ASSUME NEW chunks \in Seq(ChunkSet), NEW types, NEW c \in ChunkSet
  PROVE  BlocksOf(Append(chunks, c), types) = BlocksOf(chunks, types) + Counts(c, types)
<1> DEFINE L == Len(chunks)
           more == Append(chunks, c)
<1>1. L \in Nat /\ more \in Seq(ChunkSet) /\ Len(more) = L + 1 /\ more[L + 1] = c
      /\ \A n \in 1 .. L : more[n] = chunks[n]
  OBVIOUS
<1>2. PICK u \in [0 .. L -> Nat] : Tally(u, chunks, types)
  BY TallyExists
<1> DEFINE v == [n \in 0 .. L + 1 |-> IF n = L + 1 THEN u[L] + Counts(c, types) ELSE u[n]]
<1>3. \A n \in 0 .. L : u[n] = IF n = 0 THEN 0 ELSE u[n - 1] + Counts(chunks[n], types)
  BY <1>2 DEF Tally
<1> HIDE DEF more, L
<1>4. ASSUME NEW n \in 0 .. L + 1
      PROVE  v[n] = IF n = 0 THEN 0 ELSE v[n - 1] + Counts(more[n], types)
  <2>1. CASE n = L + 1
    BY <1>1, <2>1
  <2>2. CASE n # L + 1
    BY <1>1, <1>3, <2>2
  <2> QED
    BY <2>1, <2>2
<1>5. v = [n \in 0 .. L + 1 |-> IF n = 0 THEN 0 ELSE v[n - 1] + Counts(more[n], types)]
  BY <1>4
<1>6. Tally(v, more, types)
  BY <1>1, <1>5, Zenon DEF Tally
<1>7. v[L + 1] = u[L] + Counts(c, types)
  BY <1>1
<1>8. BlocksOf(more, types) = v[L + 1] /\ BlocksOf(chunks, types) = u[L]
  BY <1>1, <1>2, <1>6, BlocksOfIs DEF L
<1> QED
  BY <1>7, <1>8 DEF more

LEMMA TailBlocks ==
  ASSUME NEW chunks \in Seq(ChunkSet), NEW types, chunks # <<>>
  PROVE  BlocksOf(Tail(chunks), types) = BlocksOf(chunks, types) - Counts(Head(chunks), types)
<1> DEFINE L == Len(chunks)
           less == Tail(chunks)
           h == Counts(Head(chunks), types)
<1>1. L \in Nat \ {0} /\ less \in Seq(ChunkSet) /\ Len(less) = L - 1 /\ Head(chunks) = chunks[1]
      /\ \A n \in 1 .. L - 1 : less[n] = chunks[n + 1]
  OBVIOUS
<1>2. PICK u \in [0 .. L -> Nat] : Tally(u, chunks, types)
  BY TallyExists
<1> DEFINE v == [n \in 0 .. L - 1 |-> u[n + 1] - h]
<1>3. \A n \in 0 .. L : u[n] = IF n = 0 THEN 0 ELSE u[n - 1] + Counts(chunks[n], types)
  BY <1>2 DEF Tally
<1>4. \A n \in 1 .. L : Counts(chunks[n], types) \in Nat
  BY CountsNat
<1>5. h \in Nat /\ h = Counts(chunks[1], types)
  BY <1>1, <1>4
<1> HIDE DEF less, L, h
<1>6. ASSUME NEW n \in 0 .. L - 1
      PROVE  v[n] = IF n = 0 THEN 0 ELSE v[n - 1] + Counts(less[n], types)
  <2>1. CASE n = 0
    <3>1. u[1] = u[0] + h /\ u[0] = 0
      BY <1>1, <1>3, <1>5
    <3> QED
      BY <1>1, <1>5, <2>1, <3>1
  <2>2. CASE n # 0
    <3>1. u[n + 1] = u[n] + Counts(chunks[n + 1], types) /\ u[n] \in Nat /\ less[n] = chunks[n + 1]
          /\ Counts(chunks[n + 1], types) \in Nat
      <4>1. n \in 1 .. L - 1 /\ n + 1 \in 1 .. L /\ n + 1 \in 0 .. L /\ n \in 0 .. L
            /\ n + 1 # 0 /\ (n + 1) - 1 = n
        BY <1>1, <2>2
      <4>2. u[n + 1] = u[(n + 1) - 1] + Counts(chunks[n + 1], types)
        BY <1>3, <4>1
      <4> QED
        BY <1>1, <1>2, <1>4, <4>1, <4>2
    <3>2. v[n] = u[n + 1] - h /\ v[n - 1] = u[n] - h
      BY <1>1, <2>2
    <3> QED
      BY <1>5, <2>2, <3>1, <3>2
  <2> QED
    BY <2>1, <2>2
<1>7. v = [n \in 0 .. L - 1 |-> IF n = 0 THEN 0 ELSE v[n - 1] + Counts(less[n], types)]
  BY <1>6
<1>8. Tally(v, less, types)
  BY <1>1, <1>7, Zenon DEF Tally
<1>9. v[L - 1] = u[L] - h
  BY <1>1
<1>10. BlocksOf(less, types) = v[L - 1] /\ BlocksOf(chunks, types) = u[L]
  BY <1>1, <1>2, <1>8, BlocksOfIs DEF L
<1> QED
  BY <1>9, <1>10 DEF less, h

-----------------------------------------------------------------------------
(* What a report can hold *)

\* The lines dumpe2fs prints of a filesystem with these unused blocks.
Lines(unused) ==
  {Header("Block count", Blocks), Header("Free blocks", Cardinality(unused))}
    \cup UNION {{GroupLines(g, unused)[k] : k \in 1 .. 3} : g \in 0 .. Groups - 1}

LEMMA GroupsNat == Groups \in Nat
BY UserdataConstantsOK DEF Groups

LEMMA SizeOK ==
  ASSUME NEW S \in SUBSET Block
  PROVE  IsFiniteSet(S) /\ Cardinality(S) \in 0 .. Blocks
<1>1. IsFiniteSet(S) /\ Cardinality(S) <= Blocks /\ Cardinality(S) \in Nat
  BY BlockNat, FS_Subset, FS_CardinalityType
<1> QED
  BY <1>1, UserdataConstantsOK

LEMMA ListingLines ==
  ASSUME NEW unused
  PROVE  Listing(unused) \in Seq(Lines(unused))
<1> DEFINE L == Lines(unused)
           heads == <<Header("Block count", Blocks), Header("Free blocks", Cardinality(unused))>>
           body == [n \in 1 .. 3 * Groups |-> GroupLines((n - 1) \div 3, unused)[((n - 1) % 3) + 1]]
<1>1. heads \in Seq(L)
  BY DEF Lines
<1>2. \A n \in 1 .. 3 * Groups : (n - 1) \div 3 \in 0 .. Groups - 1 /\ ((n - 1) % 3) + 1 \in 1 .. 3
  BY GroupsNat
<1>3. \A n \in 1 .. 3 * Groups : body[n] \in L
  <2>1. \A g \in 0 .. Groups - 1, k \in 1 .. 3 : GroupLines(g, unused)[k] \in L
    <3> SUFFICES ASSUME NEW g \in 0 .. Groups - 1, NEW k \in 1 .. 3
                 PROVE  GroupLines(g, unused)[k] \in L
      OBVIOUS
    <3>1. GroupLines(g, unused)[k] \in {GroupLines(g, unused)[j] : j \in 1 .. 3}
      OBVIOUS
    <3>2. {GroupLines(g, unused)[j] : j \in 1 .. 3}
            \in {{GroupLines(h, unused)[j] : j \in 1 .. 3} : h \in 0 .. Groups - 1}
      BY Zenon
    <3> QED
      BY <3>1, <3>2, Zenon DEF Lines
  <2> QED
    BY <1>2, <2>1, Zenon
<1>4. body \in [1 .. 3 * Groups -> L]
  BY <1>3
<1>5. body \in Seq(L)
  BY <1>4, GroupsNat
<1> HIDE DEF heads, body, L
<1>6. heads \o body \in Seq(L)
  BY <1>1, <1>5
<1> QED
  BY <1>6 DEF Listing, heads, body, L

\* Losing, repeating and moving lines invents none.
LEMMA PartsOK ==
  ASSUME NEW S, NEW text \in Seq(S), NEW n \in 1 .. Len(text)
  PROVE  RemoveAt(text, n) \in Seq(S) /\ SubSeq(text, 1, n) \in Seq(S) /\ text[n] \in S
<1>1. SubSeq(text, 1, n - 1) \in Seq(S) /\ SubSeq(text, n + 1, Len(text)) \in Seq(S)
      /\ SubSeq(text, 1, n) \in Seq(S)
  OBVIOUS
<1> QED
  BY <1>1 DEF RemoveAt

LEMMA InsertOK ==
  ASSUME NEW S, NEW text \in Seq(S), NEW n \in 1 .. Len(text) + 1, NEW e \in S
  PROVE  InsertAt(text, n, e) \in Seq(S)
<1>1. SubSeq(text, 1, n - 1) \in Seq(S) /\ SubSeq(text, n, Len(text)) \in Seq(S) /\ <<e>> \in Seq(S)
  OBVIOUS
<1>2. SubSeq(text, 1, n - 1) \o <<e>> \in Seq(S)
  BY <1>1
<1> QED
  BY <1>1, <1>2 DEF InsertAt

LEMMA RemovedLen ==
  ASSUME NEW S, NEW text \in Seq(S), NEW n \in 1 .. Len(text)
  PROVE  Len(RemoveAt(text, n)) = Len(text) - 1
<1>1. SubSeq(text, 1, n - 1) \in Seq(S) /\ SubSeq(text, n + 1, Len(text)) \in Seq(S)
      /\ Len(SubSeq(text, 1, n - 1)) = n - 1 /\ Len(SubSeq(text, n + 1, Len(text))) = Len(text) - n
  OBVIOUS
<1>2. Len(SubSeq(text, 1, n - 1) \o SubSeq(text, n + 1, Len(text))) = (n - 1) + (Len(text) - n)
  <2> DEFINE s == SubSeq(text, 1, n - 1)
             t == SubSeq(text, n + 1, Len(text))
  <2> HIDE DEF s, t
  <2>1. s \in Seq(S) /\ t \in Seq(S)
    BY <1>1 DEF s, t
  <2>2. Len(s \o t) = Len(s) + Len(t)
    BY <2>1
  <2> QED
    BY <1>1, <2>2 DEF s, t
<1>3. (n - 1) + (Len(text) - n) = Len(text) - 1
  OBVIOUS
<1> QED
  BY <1>2, <1>3, Zenon DEF RemoveAt

LEMMA GarbledOK ==
  ASSUME NEW S, NEW text \in Seq(S), NEW garbled \in Garbled(text)
  PROVE  garbled \in Seq(S)
<1> DEFINE Twice == UNION {LostFrom(t) : t \in LostFrom(text)}
           Cut == {SubSeq(text, 1, n) : n \in 1 .. Len(text)}
           Repeated(n) == {InsertAt(text, m, text[n]) : m \in 1 .. Len(text) + 1}
           Moved(n) == {InsertAt(RemoveAt(text, n), m, text[n]) : m \in 1 .. Len(text)}
<1>1. \A t \in Seq(S) : LostFrom(t) \subseteq Seq(S)
  BY PartsOK DEF LostFrom
<1>2. CASE garbled \in Twice
  <2>1. PICK t \in LostFrom(text) : garbled \in LostFrom(t)
    BY <1>2
  <2> QED
    BY <1>1, <2>1
<1>3. CASE garbled \in Cut
  BY <1>3, PartsOK
<1>4. ASSUME NEW n \in 1 .. Len(text), garbled \in Repeated(n) PROVE garbled \in Seq(S)
  BY <1>4, PartsOK, InsertOK
<1>5. ASSUME NEW n \in 1 .. Len(text), garbled \in Moved(n) PROVE garbled \in Seq(S)
  <2>1. PICK m \in 1 .. Len(text) : garbled = InsertAt(RemoveAt(text, n), m, text[n])
    BY <1>5
  <2>2. RemoveAt(text, n) \in Seq(S) /\ text[n] \in S /\ m \in 1 .. Len(RemoveAt(text, n)) + 1
    BY PartsOK, RemovedLen
  <2> QED
    BY <2>1, <2>2, InsertOK
<1>6. CASE garbled = text \/ garbled \in LostFrom(text)
  BY <1>1, <1>6
<1>7. Garbled(text) = {text} \cup LostFrom(text) \cup Twice \cup Cut
        \cup (UNION {Repeated(n) : n \in 1 .. Len(text)})
        \cup (UNION {Moved(n) : n \in 1 .. Len(text)})
  BY DEF Garbled
<1> HIDE DEF Twice, Cut, Repeated, Moved
<1>8. \/ garbled = text \/ garbled \in LostFrom(text) \/ garbled \in Twice \/ garbled \in Cut
      \/ \E n \in 1 .. Len(text) : garbled \in Repeated(n) \/ garbled \in Moved(n)
  BY <1>7
<1> QED
  BY <1>2, <1>3, <1>4, <1>5, <1>6, <1>8

\* What the lines of a listing say.
LEMMA LineFacts ==
  ASSUME NEW unused \in SUBSET Block, NEW line \in Lines(unused)
  PROVE  /\ line.kind = "header" /\ line.name = "Free blocks" => line.n = Cardinality(unused)
         /\ line.kind = "ranges" => \E ours \in SUBSET unused : line.list = RunsOf(ours)
<1>1. CASE line \in {Header("Block count", Blocks), Header("Free blocks", Cardinality(unused))}
  <2>1. line = Header("Block count", Blocks) \/ line = Header("Free blocks", Cardinality(unused))
    BY <1>1
  <2>2. line.kind = "header" /\ (line.name = "Block count" \/ line.n = Cardinality(unused))
    <3>1. CASE line = Header("Block count", Blocks)
      BY <3>1, Zenon DEF Header
    <3>2. CASE line = Header("Free blocks", Cardinality(unused))
      BY <3>2, Zenon DEF Header
    <3> QED
      BY <2>1, <3>1, <3>2
  <2> QED
    BY <2>2
<1>2. CASE \E g \in 0 .. Groups - 1, k \in 1 .. 3 : line = GroupLines(g, unused)[k]
  <2>1. PICK g \in 0 .. Groups - 1, k \in 1 .. 3 : line = GroupLines(g, unused)[k]
    BY <1>2
  <2> DEFINE first == g * GroupSize
             last == Smaller(first + GroupSize, Blocks) - 1
             ours == unused \cap first .. last
  <2>2. GroupLines(g, unused) =
          <<GroupLine(g, first, last), CountLine(Cardinality(ours)), RangesLine(RunsOf(ours))>>
    BY DEF GroupLines
  <2> HIDE DEF first, last
  <2>3. \/ line = GroupLine(g, first, last)
        \/ line = CountLine(Cardinality(ours))
        \/ line = RangesLine(RunsOf(ours))
    BY <2>1, <2>2
  <2>4. line.kind # "header" /\ (line.kind = "ranges" => line.list = RunsOf(ours))
    BY <2>3 DEF GroupLine, CountLine, RangesLine
  <2>5. ours \in SUBSET unused
    OBVIOUS
  <2> HIDE DEF ours
  <2> QED
    BY <2>4, <2>5
<1>3. \/ line \in {Header("Block count", Blocks), Header("Free blocks", Cardinality(unused))}
      \/ \E g \in 0 .. Groups - 1, k \in 1 .. 3 : line = GroupLines(g, unused)[k]
  BY DEF Lines
<1> QED
  BY <1>1, <1>2, <1>3, Zenon

-----------------------------------------------------------------------------
(* The invariant *)

Running == {"runs", "copy", "flash", "flashed"}
RunSet == [start : Block, end : 1 .. Blocks, unused : BOOLEAN]
EndOf(n) == IF n = 0 THEN 0 ELSE runs[n].end

\* Only what the listing says of some group is ever taken for free.
Reading ==
  /\ used \in SUBSET Block /\ free \in SUBSET (Block \ used)
  /\ report \in Seq(Lines(Block \ used)) /\ rest \in Seq(Lines(Block \ used))
  /\ phase = "lines" => HeadersOK
  /\ phase \in Running => free = Block \ used /\ free # {} /\ Blocks - Cardinality(free) <= Budget
\* The runs follow each other without a gap, and each is free or live as a whole.
Splitting ==
  /\ runs \in Seq(RunSet) /\ (phase \in {"headers", "lines"} => runs = <<>>)
  /\ \A n \in 1 .. Len(runs) :
       /\ runs[n].start = EndOf(n - 1) /\ runs[n].start < runs[n].end
       /\ \A b \in runs[n].start .. runs[n].end - 1 : b \in free <=> runs[n].unused
  /\ phase \in {"copy", "flash", "flashed"} => Covers(runs) = Blocks
\* The chunks written so far are those of the first runs.
Copying ==
  /\ image \in Seq(ChunkSet) /\ (phase \in {"headers", "lines", "runs"} => image = <<>>)
  /\ phase = "copy" =>
       /\ Len(image) <= Len(runs)
       /\ \A n \in 1 .. Len(image) : image[n] = Chunk(runs[n])
       /\ Total(image) = EndOf(Len(image))
       /\ Programmed(image) = Cardinality((0 .. EndOf(Len(image)) - 1) \ free)
\* The chunks left are those of the last runs, and the live blocks before them are written.
Flashing ==
  phase \in {"flash", "flashed"} =>
    LET k == Len(runs) - Len(image)
    IN  /\ Len(image) <= Len(runs) /\ (phase = "flashed" => image = <<>>)
        /\ \A n \in 1 .. Len(image) : image[n] = Chunk(runs[k + n])
        /\ Total(image) = Blocks - EndOf(k)
        /\ \A b \in 0 .. EndOf(k) - 1 : b \notin free => target[b] = Raw(b)
ImageInv == Reading /\ Splitting /\ Copying /\ Flashing /\ OwnImageValid /\ phase \in Phases

\* Before there are runs, what is kept of them is empty.
LEMMA NothingYet ==
  ASSUME ImageInv, phase \in {"headers", "lines"}, UNCHANGED <<runs, image>>,
         phase' \in {"lines", "runs", "refused"}
  PROVE  Splitting' /\ Copying' /\ Flashing' /\ OwnImageValid' /\ phase' \in Phases
<1>1. runs' = <<>> /\ image' = <<>>
  BY DEF ImageInv, Splitting, Copying
<1> QED
  BY <1>1 DEF Splitting, Copying, Flashing, OwnImageValid, Phases

LEMMA SameHeaders ==
  ASSUME UNCHANGED report, HeadersOK
  PROVE  HeadersOK'
BY DEF HeadersOK, Says, Value

LEMMA RefuseInv ==
  ASSUME ImageInv, Refuse
  PROVE  ImageInv'
<1> USE DEF ImageInv, Refuse, reading
<1>1. Reading'
  BY DEF Reading, Running
<1>2. Splitting'
  BY DEF Splitting, EndOf
<1>3. Copying' /\ Flashing' /\ OwnImageValid' /\ phase' \in Phases
  BY DEF Copying, Flashing, OwnImageValid, Phases
<1> QED
  BY <1>1, <1>2, <1>3

LEMMA ReadHeadersInv ==
  ASSUME ImageInv, ReadHeaders
  PROVE  ImageInv'
<1>1. CASE /\ HeadersOK /\ phase' = "lines"
           /\ UNCHANGED <<used, report, rest, reading, runs, image, target>>
  <2>1. Reading'
    BY <1>1, SameHeaders DEF ImageInv, Reading, Running, reading
  <2> QED
    BY <1>1, <2>1, NothingYet DEF ImageInv, ReadHeaders
<1> QED
  BY <1>1, RefuseInv DEF ReadHeaders

LEMMA ReadLineInv ==
  ASSUME ImageInv, ReadLine
  PROVE  ImageInv'
<1>1. SUFFICES ASSUME ~ Refuse PROVE ImageInv'
  BY RefuseInv
<1>2. phase = "lines" /\ rest # <<>> /\ Read
  BY <1>1 DEF ReadLine, StartGroup, SkipLine, CountFree, ListFree, At
<1>3. rest' \in Seq(Lines(Block \ used))
  BY <1>2 DEF ImageInv, Reading, Read
<1>4. UNCHANGED <<used, report, phase, runs, image, target>>
  BY <1>2 DEF Read
<1>5. free' \in SUBSET (Block \ used)
  <2>1. CASE UNCHANGED free
    BY <2>1 DEF ImageInv, Reading
  <2>2. CASE At("ranges") /\ free' = free \cup Covered(Line.list)
    <3>1. Line \in Lines(Block \ used) /\ Line.kind = "ranges"
      BY <1>2, <2>2 DEF ImageInv, Reading, Line, At
    <3>2. PICK ours \in SUBSET (Block \ used) : Line.list = RunsOf(ours)
      BY <3>1, LineFacts
    <3>3. Covered(Line.list) = ours
      BY <3>2, RunsCover
    <3> QED
      BY <2>2, <3>3 DEF ImageInv, Reading
  <2> QED
    BY <1>1, <2>1, <2>2 DEF ReadLine, StartGroup, SkipLine, CountFree, ListFree, reading
<1>6. Reading'
  BY <1>2, <1>3, <1>4, <1>5, SameHeaders DEF ImageInv, Reading, Running
<1> QED
  BY <1>2, <1>4, <1>6, NothingYet DEF ImageInv

\* What the header says of the whole filesystem.
LEMMA ValueOK ==
  ASSUME Reading, HeadersOK
  PROVE  Value("Free blocks") = Cardinality(Block \ used)
<1> DEFINE says == Says("Free blocks")
           n == CHOOSE n \in says : TRUE
<1>1. says # {}
  <2>1. Cardinality(says) = 1 /\ Cardinality({}) = 0
    BY FS_EmptySet DEF HeadersOK
  <2>2. 1 # 0
    OBVIOUS
  <2> HIDE DEF says
  <2> QED
    BY <2>1, <2>2, Zenon
<1>2. n \in says
  BY <1>1
<1>3. n \in 1 .. Len(report) /\ report[n].kind = "header" /\ report[n].name = "Free blocks"
  BY <1>2 DEF Says
<1> HIDE DEF n
<1>4. report[n] \in Lines(Block \ used)
  BY <1>3, ElementOfSeq DEF Reading
<1> QED
  BY <1>3, <1>4, LineFacts DEF Value, n

LEMMA EndOfReportInv ==
  ASSUME ImageInv, EndOfReport
  PROVE  ImageInv'
<1>1. SUFFICES ASSUME ~ Refuse PROVE ImageInv'
  BY RefuseInv
<1>2. phase = "lines" /\ MapOK /\ Blocks - Cardinality(free) <= Budget /\ phase' = "runs"
      /\ UNCHANGED <<used, report, rest, reading, runs, image, target>>
  BY <1>1 DEF EndOfReport
<1>3. HeadersOK /\ Reading
  BY <1>2 DEF ImageInv, Reading
<1>4. Cardinality(free) = Cardinality(Block \ used) /\ free \subseteq Block \ used
      /\ 0 < Cardinality(free)
  BY <1>2, <1>3, ValueOK DEF MapOK, HeadersOK, Reading
<1>5. IsFiniteSet(Block \ used) /\ Cardinality({}) = 0
  BY SizeOK, FS_EmptySet
<1>6. free = Block \ used /\ free # {}
  <2>1. free \in SUBSET (Block \ used) /\ free # {}
    BY <1>4, <1>5
  <2> QED
    BY <1>4, <1>5, <2>1, FS_Subset
<1>7. Reading'
  BY <1>2, <1>3, <1>6, SameHeaders DEF Reading, reading
<1> QED
  BY <1>2, <1>7, NothingYet DEF ImageInv, reading

\* Once the map is accepted, it stays as it is.
LEMMA MapStays ==
  ASSUME Reading, phase \in Running, phase' # "lines", UNCHANGED <<used, report, rest, free>>
  PROVE  Reading'
BY SameHeaders DEF Reading, Running

\* From the start of a run, the first block of the other kind ends it.
LEMMA RunEndExists ==
  ASSUME NEW start \in Block
  PROVE  \E e \in start + 1 .. Blocks :
           (\A b \in start .. e - 1 : Same(b, start)) /\ (e = Blocks \/ ~ Same(e, start))
<1> DEFINE D == {e \in start + 1 .. Blocks : e = Blocks \/ ~ Same(e, start)}
<1>1. start \in Nat /\ Blocks \in Nat /\ start < Blocks
  BY UserdataConstantsOK DEF Block
<1>2. D \in SUBSET Nat /\ Blocks \in D
  BY <1>1
<1>3. PICK e \in D : \A x \in D : e <= x
  BY <1>2, Least
<1>4. ASSUME NEW b \in start .. e - 1, ~ Same(b, start) PROVE FALSE
  <2>1. e \in Nat /\ e <= Blocks
    BY <1>1
  <2>2. b # start
    BY <1>4 DEF Same
  <2>3. b \in start + 1 .. Blocks /\ b < e
    BY <1>1, <2>1, <2>2
  <2>4. b \in D
    BY <1>4, <2>3
  <2> QED
    BY <1>3, <2>1, <2>3, <2>4
<1> QED
  BY <1>3, <1>4

LEMMA CoversOK ==
  ASSUME Splitting
  PROVE  Covers(runs) = EndOf(Len(runs)) /\ Covers(runs) \in 0 .. Blocks
<1>1. CASE runs = <<>>
  BY <1>1, UserdataConstantsOK DEF Covers, EndOf
<1>2. CASE runs # <<>>
  <2>1. Len(runs) \in Nat \ {0} /\ runs[Len(runs)] \in RunSet
    BY <1>2 DEF Splitting
  <2>2. Covers(runs) = runs[Len(runs)].end
    BY <1>2 DEF Covers, Last
  <2> QED
    BY <2>1, <2>2, UserdataConstantsOK DEF EndOf, RunSet
<1> QED
  BY <1>1, <1>2

LEMMA NextRunInv ==
  ASSUME ImageInv, NextRun
  PROVE  ImageInv'
<1> DEFINE start == Covers(runs)
           ends == {e \in start + 1 .. Blocks :
                      /\ \A b \in start .. e - 1 : Same(b, start)
                      /\ e = Blocks \/ ~ Same(e, start)}
           e == CHOOSE x \in ends : TRUE
           r == [end |-> e, start |-> start, unused |-> start \in free]
           L == Len(runs)
<1>1. phase = "runs" /\ start < Blocks /\ runs' = Append(runs, r)
      /\ UNCHANGED <<used, report, rest, reading, phase, image, target>>
  BY DEF NextRun
<1>2. Splitting /\ Reading /\ start = EndOf(L) /\ start \in Block
  <2>1. start = EndOf(L) /\ start \in 0 .. Blocks
    BY CoversOK DEF ImageInv
  <2> QED
    BY <1>1, <2>1, UserdataConstantsOK DEF ImageInv, Block
<1>3. e \in ends
  BY <1>2, RunEndExists
<1>4. e \in start + 1 .. Blocks /\ \A b \in start .. e - 1 : Same(b, start)
  BY <1>3
<1>5. start \in Nat /\ e \in 1 .. Blocks /\ start < e
  BY <1>2, <1>4, UserdataConstantsOK DEF Block
<1> HIDE DEF start, e
<1>6. r \in RunSet /\ r.start = start /\ r.end = e /\ r.unused = (start \in free)
  BY <1>2, <1>5 DEF RunSet
<1> HIDE DEF r
<1>7. /\ runs \in Seq(RunSet) /\ L \in Nat /\ runs' \in Seq(RunSet) /\ Len(runs') = L + 1
      /\ runs'[L + 1] = r /\ \A n \in 1 .. L : runs'[n] = runs[n]
  BY <1>1, <1>2, <1>6 DEF Splitting
<1>8. \A n \in 0 .. L : EndOf(n)' = EndOf(n)
  BY <1>7 DEF EndOf
<1>9. UNCHANGED free /\ phase' = "runs"
  BY <1>1 DEF reading
<1>10. ASSUME NEW n \in 1 .. Len(runs')
       PROVE  /\ runs'[n].start = EndOf(n - 1)' /\ runs'[n].start < runs'[n].end
              /\ \A b \in runs'[n].start .. runs'[n].end - 1 : b \in free <=> runs'[n].unused
  <2>1. CASE n \in 1 .. L
    <3>1. n - 1 \in 0 .. L
      BY <1>7, <2>1
    <3> QED
      BY <1>2, <1>7, <1>8, <2>1, <3>1 DEF Splitting
  <2>2. CASE n = L + 1
    <3>1. n - 1 = L /\ L \in 0 .. L
      BY <1>7, <2>2
    <3>2. EndOf(n - 1)' = start
      BY <1>2, <1>8, <3>1
    <3> QED
      BY <1>4, <1>5, <1>6, <1>7, <2>2, <3>2 DEF Same
  <2> QED
    BY <1>7, <2>1, <2>2
<1>11. Splitting'
  BY <1>7, <1>9, <1>10 DEF Splitting
<1>12. Reading'
  BY <1>1, <1>2, <1>9, MapStays DEF Running, reading
<1>13. Copying' /\ Flashing'
  BY <1>1, <1>9 DEF ImageInv, Copying, Flashing
<1> QED
  BY <1>9, <1>11, <1>12, <1>13 DEF ImageInv, OwnImageValid, Phases

LEMMA RunsDoneInv ==
  ASSUME ImageInv, RunsDone
  PROVE  ImageInv'
<1>1. phase = "runs" /\ Covers(runs) = Blocks /\ phase' = "copy" /\ image = <<>>
      /\ UNCHANGED <<used, report, rest, free, runs, image, target>>
  BY DEF ImageInv, Copying, RunsDone, reading
<1>2. Reading'
  BY <1>1, MapStays DEF ImageInv, Running
<1>3. Splitting'
  BY <1>1 DEF ImageInv, Splitting, EndOf
<1>4. Copying'
  <2>1. Total(image) = 0 /\ Programmed(image) = 0
    BY <1>1, EmptyBlocks DEF Total, Programmed
  <2>2. EndOf(0) = 0 /\ Len(image) = 0 /\ Len(image) <= Len(runs)
    BY <1>1 DEF EndOf, ImageInv, Splitting
  <2>3. (0 .. 0 - 1) \ free = {} /\ Cardinality({}) = 0
    BY FS_EmptySet
  <2>4. Total(image') = 0 /\ Programmed(image') = 0
    BY <1>1, <2>1
  <2> QED
    BY <1>1, <2>2, <2>3, <2>4 DEF ImageInv, Copying, EndOf
<1> QED
  BY <1>1, <1>2, <1>3, <1>4 DEF ImageInv, Flashing, OwnImageValid, Phases

\* A live run becomes the blocks of the raw image at its own place, a free one is skipped.
LEMMA ChunkOK ==
  ASSUME NEW r \in RunSet, r.start < r.end, NEW c, c = Chunk(r)
  PROVE  /\ c \in ChunkSet /\ c.blocks = r.end - r.start
         /\ r.unused => c.type = "DONT_CARE" /\ c.data = <<>>
         /\ ~ r.unused => /\ c.type = "RAW" /\ Len(c.data) = c.blocks
                          /\ \A n \in 1 .. c.blocks : c.data[n] = Raw(r.start + n - 1)
<1> DEFINE k == r.end - r.start
           data == [n \in 1 .. k |-> Raw(r.start + n - 1)]
<1>1. r.start \in Nat /\ r.end \in Nat /\ r.end <= Blocks /\ k \in Nat
  BY UserdataConstantsOK DEF RunSet, Block
<1>2. \A n \in 1 .. k : Raw(r.start + n - 1) \in Block
  <2> SUFFICES ASSUME NEW n \in 1 .. k PROVE r.start + n - 1 \in 0 .. Blocks - 1
    BY DEF Raw, Block
  <2> DEFINE s == r.start
             e == r.end
  <2> HIDE DEF s, e
  <2>1. s \in Nat /\ e \in Nat /\ e <= Blocks /\ n \in 1 .. e - s /\ Blocks \in Nat
    BY <1>1, UserdataConstantsOK DEF s, e
  <2>2. s + n - 1 \in 0 .. Blocks - 1
    BY <2>1
  <2> QED
    BY <2>2 DEF s
<1>3. data \in [1 .. k -> Block]
  BY <1>2
<1>4. data \in Seq(Block) /\ Len(data) = k
  <2>1. k \in Nat
    BY <1>1
  <2> HIDE DEF data, k
  <2> QED
    BY <1>3, <2>1
<1>5. CASE r.unused
  <2>1. c = [type |-> "DONT_CARE", blocks |-> k, data |-> <<>>]
    BY <1>5 DEF Chunk, DontCare
  <2>2. <<>> \in Seq(Block)
    OBVIOUS
  <2> HIDE DEF k
  <2> QED
    BY <1>1, <1>5, <2>1, <2>2 DEF ChunkSet, Kind, k
<1>6. CASE ~ r.unused
  <2>1. c = RawChunk(data)
    BY <1>6 DEF Chunk
  <2>2. \A n \in 1 .. k : data[n] = Raw(r.start + n - 1)
    OBVIOUS
  <2> HIDE DEF k, data
  <2>3. c = [type |-> "RAW", blocks |-> k, data |-> data]
    BY <1>4, <2>1 DEF RawChunk
  <2> QED
    BY <1>1, <1>4, <1>6, <2>2, <2>3 DEF ChunkSet, Kind, k
<1> QED
  BY <1>5, <1>6

\* One more run adds its live blocks to those before it.
LEMMA LiveBefore ==
  ASSUME NEW S, NEW a \in Nat, NEW b \in Nat, a < b
  PROVE  /\ Cardinality((0 .. a - 1) \ S) \in Nat
         /\ (\A x \in a .. b - 1 : x \in S)
              => Cardinality((0 .. b - 1) \ S) = Cardinality((0 .. a - 1) \ S)
         /\ (\A x \in a .. b - 1 : x \notin S)
              => Cardinality((0 .. b - 1) \ S) = Cardinality((0 .. a - 1) \ S) + (b - a)
<1> DEFINE A == (0 .. a - 1) \ S
           B == a .. b - 1
<1>1. IsFiniteSet(0 .. a - 1) /\ IsFiniteSet(B) /\ Cardinality(B) = b - a
  BY FS_Interval
<1>2. IsFiniteSet(A) /\ Cardinality(A) \in Nat
  BY <1>1, FS_Difference, FS_CardinalityType
<1>3. ASSUME \A x \in a .. b - 1 : x \in S
      PROVE  Cardinality((0 .. b - 1) \ S) = Cardinality(A)
  <2>1. (0 .. b - 1) \ S = A
    BY <1>3
  <2> QED
    BY <2>1
<1>4. ASSUME \A x \in a .. b - 1 : x \notin S
      PROVE  Cardinality((0 .. b - 1) \ S) = Cardinality(A) + (b - a)
  <2>1. (0 .. b - 1) \ S = A \cup B /\ A \cap B = {}
    BY <1>4
  <2>2. Cardinality(A \cup B) = Cardinality(A) + Cardinality(B) - Cardinality(A \cap B)
    BY <1>1, <1>2, FS_Union
  <2>3. Cardinality({}) = 0
    BY FS_EmptySet
  <2> HIDE DEF A, B
  <2>4. Cardinality(A \cup B) = Cardinality(A) + (b - a)
    <3>1. Cardinality(A \cap B) = 0
      BY <2>1, <2>3, Zenon
    <3> QED
      BY <1>1, <1>2, <2>2, <3>1
  <2> QED
    BY <2>1, <2>4, Zenon
<1> QED
  BY <1>2, <1>3, <1>4

\* What the n-th run is.
LEMMA RunOK ==
  ASSUME Splitting, NEW n \in 1 .. Len(runs)
  PROVE  /\ runs[n] \in RunSet /\ runs[n].start = EndOf(n - 1) /\ runs[n].end = EndOf(n)
         /\ EndOf(n - 1) \in Nat /\ EndOf(n) \in Nat
         /\ EndOf(n - 1) < EndOf(n) /\ EndOf(n) <= Blocks
         /\ \A b \in EndOf(n - 1) .. EndOf(n) - 1 : b \in free <=> runs[n].unused
<1>1. runs[n] \in RunSet /\ runs[n].start = EndOf(n - 1) /\ runs[n].start < runs[n].end
      /\ \A b \in runs[n].start .. runs[n].end - 1 : b \in free <=> runs[n].unused
  BY DEF Splitting
<1>2. runs[n].end = EndOf(n)
  BY DEF EndOf
<1>3. runs[n].start \in Nat /\ runs[n].end \in Nat /\ runs[n].end <= Blocks
  BY <1>1, UserdataConstantsOK DEF RunSet, Block
<1> QED
  BY <1>1, <1>2, <1>3

LEMMA WriteChunkInv ==
  ASSUME ImageInv, WriteChunk
  PROVE  ImageInv'
<1> DEFINE L == Len(image)
           r == runs[L + 1]
           c == Chunk(r)
<1>1. SUFFICES ASSUME ~ Refuse PROVE ImageInv'
  BY RefuseInv
<1>2. phase = "copy" /\ L < Len(runs) /\ image' = Append(image, c) /\ phase' = "copy"
      /\ UNCHANGED <<used, report, rest, reading, runs, target>>
  BY <1>1 DEF WriteChunk
<1>3. Reading /\ Splitting /\ image \in Seq(ChunkSet) /\ runs \in Seq(RunSet) /\ L \in Nat
      /\ L + 1 \in 1 .. Len(runs) /\ (L + 1) - 1 = L
  BY <1>2 DEF ImageInv, Copying, Splitting
<1>4. /\ \A n \in 1 .. L : image[n] = Chunk(runs[n])
      /\ Total(image) = EndOf(L)
      /\ Programmed(image) = Cardinality((0 .. EndOf(L) - 1) \ free)
  BY <1>2 DEF ImageInv, Copying
<1>5. r \in RunSet /\ r.start = EndOf(L) /\ r.end = EndOf(L + 1) /\ EndOf(L) \in Nat
      /\ EndOf(L + 1) \in Nat /\ EndOf(L) < EndOf(L + 1)
      /\ \A b \in EndOf(L) .. EndOf(L + 1) - 1 : b \in free <=> r.unused
  BY <1>3, RunOK
<1>6. c \in ChunkSet /\ c.blocks = EndOf(L + 1) - EndOf(L)
      /\ (r.unused => c.type = "DONT_CARE") /\ (~ r.unused => c.type = "RAW")
  BY <1>5, ChunkOK
<1> HIDE DEF c
<1>7. image' \in Seq(ChunkSet) /\ Len(image') = L + 1
      /\ \A n \in 1 .. L + 1 : image'[n] = Chunk(runs[n])
  BY <1>2, <1>3, <1>4, <1>6 DEF c
<1>8. Total(image') = EndOf(L + 1)
  <2>1. Total(image') = Total(image) + Counts(c, {"RAW", "DONT_CARE"})
    BY <1>2, <1>3, <1>6, AppendBlocks DEF Total
  <2>2. Counts(c, {"RAW", "DONT_CARE"}) = c.blocks
    BY <1>6 DEF Counts
  <2> QED
    BY <1>4, <1>5, <1>6, <2>1, <2>2
<1>9. Programmed(image') = Cardinality((0 .. EndOf(L + 1) - 1) \ free)
  <2>1. Programmed(image') = Programmed(image) + Counts(c, {"RAW"})
    BY <1>2, <1>3, <1>6, AppendBlocks DEF Programmed
  <2>2. Counts(c, {"RAW"}) = IF r.unused THEN 0 ELSE EndOf(L + 1) - EndOf(L)
    BY <1>6 DEF Counts
  <2>3. Cardinality((0 .. EndOf(L + 1) - 1) \ free)
          = Cardinality((0 .. EndOf(L) - 1) \ free)
            + (IF r.unused THEN 0 ELSE EndOf(L + 1) - EndOf(L))
    <3> DEFINE before == Cardinality((0 .. EndOf(L) - 1) \ free)
               upto == Cardinality((0 .. EndOf(L + 1) - 1) \ free)
    <3> HIDE DEF before, upto
    <3>1. before \in Nat
      BY <1>5, LiveBefore DEF before
    <3>2. CASE r.unused
      <4>1. upto = before
        BY <1>5, <3>2, LiveBefore DEF before, upto
      <4> QED
        BY <3>2, <3>1, <4>1 DEF before, upto
    <3>3. CASE ~ r.unused
      <4>1. upto = before + (EndOf(L + 1) - EndOf(L))
        BY <1>5, <3>3, LiveBefore DEF before, upto
      <4> QED
        BY <3>3, <4>1 DEF before, upto
    <3> QED
      BY <3>2, <3>3
  <2> QED
    BY <1>4, <2>1, <2>2, <2>3
<1>10. UNCHANGED <<runs, free>> /\ \A n : EndOf(n)' = EndOf(n)
  BY <1>2 DEF reading, EndOf
<1>11. Copying'
  <2>1. /\ Total(image)' = EndOf(L + 1)
        /\ Programmed(image)' = Cardinality((0 .. EndOf(L + 1) - 1) \ free)
    BY <1>8, <1>9
  <2>2. Len(image)' = L + 1 /\ L + 1 <= Len(runs)
    BY <1>3, <1>7
  <2> QED
    BY <1>2, <1>7, <1>10, <2>1, <2>2 DEF Copying
<1>12. Reading' /\ Splitting'
  BY <1>2, <1>3, <1>10, MapStays DEF Splitting, Running, reading
<1> QED
  BY <1>2, <1>11, <1>12 DEF ImageInv, Flashing, OwnImageValid, Phases

\* Every block is in a run.
LEMMA InSomeRun ==
  ASSUME Splitting, Covers(runs) = Blocks, NEW b \in Block
  PROVE  \E n \in 1 .. Len(runs) : b \in EndOf(n - 1) .. EndOf(n) - 1
<1> DEFINE L == Len(runs)
           D == {n \in 1 .. L : b < EndOf(n)}
<1>1. b \in Nat /\ b < Blocks /\ EndOf(L) = Blocks /\ L \in Nat /\ EndOf(0) = 0
  BY CoversOK, UserdataConstantsOK DEF Block, EndOf, Splitting
<1>2. L # 0
  BY <1>1
<1>3. L \in D /\ D \in SUBSET Nat
  BY <1>1, <1>2
<1>4. PICK n \in D : \A m \in D : n <= m
  BY <1>3, Least
<1>5. n \in 1 .. L /\ n \in Nat /\ b < EndOf(n)
  BY <1>1
<1>6. EndOf(n) \in Nat /\ EndOf(n - 1) \in Nat
  BY <1>5, RunOK
<1>7. EndOf(n - 1) <= b
  <2>1. CASE n = 1
    BY <1>1, <2>1
  <2>2. CASE n # 1
    <3>1. n - 1 \in 1 .. L /\ ~ (n <= n - 1)
      BY <1>1, <1>5, <2>2
    <3>2. n - 1 \notin D
      BY <1>4, <3>1, Zenon
    <3> QED
      BY <1>1, <1>6, <3>1, <3>2
  <2> QED
    BY <2>1, <2>2
<1> QED
  BY <1>1, <1>5, <1>6, <1>7

LEMMA ValidateInv ==
  ASSUME ImageInv, Validate
  PROVE  ImageInv'
<1> DEFINE L == Len(runs)
<1>1. /\ phase = "copy" /\ Len(image) = L
      /\ phase' = IF Valid(image) /\ Programmed(image) = Blocks - Cardinality(free)
                  THEN "flash" ELSE "disowned"
      /\ UNCHANGED <<used, report, rest, free, runs, image, target>>
  BY DEF Validate, reading
<1>2. /\ Reading /\ Splitting /\ Copying /\ Covers(runs) = Blocks /\ EndOf(L) = Blocks
      /\ \A n \in 1 .. L : image[n] = Chunk(runs[n])
      /\ Total(image) = Blocks
      /\ Programmed(image) = Cardinality((0 .. Blocks - 1) \ free)
  BY <1>1, CoversOK DEF ImageInv, Copying, Splitting
<1>3. free \in SUBSET Block /\ free # {} /\ Blocks - Cardinality(free) <= Budget
  BY <1>1, <1>2 DEF Reading, Running
<1>4. Programmed(image) = Blocks - Cardinality(free)
  <2>1. Block \cap free = free
    BY <1>3
  <2>2. Cardinality(Block \ free) = Cardinality(Block) - Cardinality(Block \cap free)
    BY BlockNat, FS_Difference
  <2>3. Cardinality(Block \ free) = Blocks - Cardinality(free)
    BY <2>1, <2>2, BlockNat, Zenon
  <2> QED
    BY <1>2, <2>3, Zenon DEF Block
<1>5. \A n \in 1 .. L : image[n] \in ChunkSet
        /\ (runs[n].unused => image[n].type = "DONT_CARE" /\ image[n].data = <<>>)
        /\ (~ runs[n].unused => image[n].type = "RAW" /\ Len(image[n].data) = image[n].blocks)
  <2> SUFFICES ASSUME NEW n \in 1 .. L
               PROVE  image[n] \in ChunkSet
                      /\ (runs[n].unused => image[n].type = "DONT_CARE" /\ image[n].data = <<>>)
                      /\ (~ runs[n].unused => image[n].type = "RAW"
                                              /\ Len(image[n].data) = image[n].blocks)
    OBVIOUS
  <2>1. runs[n] \in RunSet /\ runs[n].start < runs[n].end
    BY <1>2, RunOK
  <2> QED
    BY <1>2, <2>1, ChunkOK
<1>6. \E n \in 1 .. L : image[n].type = "DONT_CARE"
  <2>1. PICK b \in free : b \in Block
    BY <1>3
  <2>2. PICK n \in 1 .. L : b \in EndOf(n - 1) .. EndOf(n) - 1
    BY <1>2, <2>1, InSomeRun
  <2>3. runs[n].unused
    BY <1>2, <2>1, <2>2, RunOK
  <2> QED
    BY <1>5, <2>3
<1>7. Valid(image)
  BY <1>1, <1>2, <1>3, <1>4, <1>5, <1>6 DEF Valid
<1>8. phase' = "flash"
  BY <1>1, <1>4, <1>7
<1>9. Reading' /\ Splitting'
  BY <1>1, <1>2, <1>8, MapStays DEF Splitting, EndOf, Running
<1>10. Copying'
  BY <1>1, <1>2, <1>8 DEF Copying
<1>11. Flashing'
  <2>1. EndOf(0) = 0 /\ L - L = 0 /\ L <= L /\ L \in Nat /\ Blocks - 0 = Blocks
    BY <1>2, UserdataConstantsOK DEF EndOf, Splitting
  <2>2. 0 .. EndOf(0) - 1 = {}
    BY <2>1
  <2>3. Total(image') = Blocks - EndOf(0)
    BY <1>1, <1>2, <2>1
  <2>4. \A n : EndOf(n)' = EndOf(n)
    BY <1>1 DEF EndOf
  <2>5. \A n \in 1 .. L : 0 + n = n
    BY <2>1
  <2>6. \A n \in 1 .. L : image'[n] = Chunk(runs'[0 + n])
    BY <1>1, <1>2, <2>5
  <2> QED
    BY <1>1, <1>8, <2>1, <2>2, <2>3, <2>4, <2>6 DEF Flashing
<1> QED
  BY <1>8, <1>9, <1>10, <1>11 DEF ImageInv, OwnImageValid, Phases

\* The next chunk is that of the run it covers, and is programmed there.
LEMMA NextChunk ==
  ASSUME ImageInv, phase = "flash", image # <<>>, NEW k, k = Len(runs) - Len(image),
         NEW chunk, chunk = Head(image)
  PROVE  /\ k \in Nat /\ k + 1 \in 1 .. Len(runs) /\ chunk \in ChunkSet
         /\ EndOf(k) \in Nat /\ EndOf(k + 1) \in Nat
         /\ EndOf(k) < EndOf(k + 1) /\ EndOf(k + 1) <= Blocks
         /\ Blocks - Total(image) = EndOf(k) /\ EndOf(k) + chunk.blocks = EndOf(k + 1)
         /\ \/ /\ chunk.type = "DONT_CARE"
               /\ \A b \in EndOf(k) .. EndOf(k + 1) - 1 : b \in free
            \/ /\ chunk.type = "RAW"
               /\ \A b \in EndOf(k) .. EndOf(k + 1) - 1 :
                    b \notin free /\ chunk.data[b - EndOf(k) + 1] = Raw(b)
<1> DEFINE L == Len(runs)
           r == runs[k + 1]
<1>1. /\ Splitting /\ image \in Seq(ChunkSet) /\ L \in Nat /\ Len(image) \in Nat /\ Len(image) <= L
      /\ Total(image) = Blocks - EndOf(k)
      /\ \A n \in 1 .. Len(image) : image[n] = Chunk(runs[k + n])
  BY DEF ImageInv, Splitting, Copying, Flashing
<1>2. Len(image) \in Nat \ {0} /\ chunk = image[1]
  BY <1>1
<1>3. k \in Nat /\ k + 1 \in 1 .. L /\ (k + 1) - 1 = k
  BY <1>1, <1>2
<1>4. /\ r \in RunSet /\ r.start = EndOf(k) /\ r.end = EndOf(k + 1) /\ EndOf(k) \in Nat
      /\ EndOf(k + 1) \in Nat /\ EndOf(k) < EndOf(k + 1) /\ EndOf(k + 1) <= Blocks
      /\ \A b \in EndOf(k) .. EndOf(k + 1) - 1 : b \in free <=> r.unused
  BY <1>1, <1>3, RunOK
<1>5. chunk = Chunk(r)
  BY <1>1, <1>2
<1>6. chunk \in ChunkSet /\ chunk.blocks = EndOf(k + 1) - EndOf(k)
      /\ (r.unused => chunk.type = "DONT_CARE")
      /\ (~ r.unused => chunk.type = "RAW"
            /\ \A n \in 1 .. chunk.blocks : chunk.data[n] = Raw(EndOf(k) + n - 1))
  BY <1>4, <1>5, ChunkOK, SMTT(30)
<1>7. Blocks - Total(image) = EndOf(k) /\ EndOf(k) + chunk.blocks = EndOf(k + 1)
  <2>1. \A e \in Nat : Blocks - (Blocks - e) = e
    BY UserdataConstantsOK
  <2>2. \A e, f \in Nat : e + (f - e) = f
    OBVIOUS
  <2>3. Blocks - Total(image) = EndOf(k)
    BY <1>1, <1>4, <2>1, Zenon
  <2>4. EndOf(k) \in Nat /\ EndOf(k + 1) \in Nat /\ chunk.blocks = EndOf(k + 1) - EndOf(k)
    BY <1>4, <1>6, Zenon
  <2>5. EndOf(k) + chunk.blocks = EndOf(k + 1)
    BY <2>2, <2>4, Zenon
  <2> QED
    BY <2>3, <2>5
<1>8. CASE r.unused
  BY <1>3, <1>4, <1>6, <1>7, <1>8
<1>9. CASE ~ r.unused
  <2>1. ASSUME NEW b \in EndOf(k) .. EndOf(k + 1) - 1
        PROVE  b \notin free /\ chunk.data[b - EndOf(k) + 1] = Raw(b)
    <3>1. b - EndOf(k) + 1 \in 1 .. chunk.blocks /\ EndOf(k) + (b - EndOf(k) + 1) - 1 = b
      <4>1. \A e, f \in Nat : \A c \in e .. f - 1 :
               c - e + 1 \in 1 .. f - e /\ e + (c - e + 1) - 1 = c
        OBVIOUS
      <4>2. EndOf(k) \in Nat /\ EndOf(k + 1) \in Nat /\ chunk.blocks = EndOf(k + 1) - EndOf(k)
        BY <1>4, <1>6, Zenon
      <4> QED
        BY <2>1, <4>1, <4>2, Zenon
    <3>2. chunk.data[b - EndOf(k) + 1] = Raw(EndOf(k) + (b - EndOf(k) + 1) - 1)
      BY <1>6, <1>9, <3>1
    <3>3. b \notin free
      BY <1>4, <1>9, <2>1
    <3> QED
      BY <3>1, <3>2, <3>3
  <2>2. chunk.type = "RAW"
    BY <1>6, <1>9
  <2> QED
    BY <1>3, <1>4, <1>6, <1>7, <2>1, <2>2
<1> QED
  BY <1>8, <1>9

LEMMA FlashInv ==
  ASSUME ImageInv, Flash
  PROVE  ImageInv'
<1> DEFINE L == Len(runs)
           k == L - Len(image)
           start == Blocks - Total(image)
           chunk == Head(image)
<1>1. phase = "flash" /\ UNCHANGED <<used, report, rest, free>>
  BY DEF Flash, reading
<1>2. /\ Reading /\ Splitting /\ Covers(runs) = Blocks /\ image \in Seq(ChunkSet) /\ L \in Nat
      /\ Len(image) \in Nat /\ Len(image) <= L /\ Total(image) = Blocks - EndOf(k)
      /\ \A n \in 1 .. Len(image) : image[n] = Chunk(runs[k + n])
      /\ \A b \in 0 .. EndOf(k) - 1 : b \notin free => target[b] = Raw(b)
  BY <1>1 DEF ImageInv, Splitting, Copying, Flashing
<1>3. CASE UNCHANGED <<runs, image, target>> /\ phase' \in {"flashed", "refused"}
           /\ (phase' = "flashed" => image = <<>>)
  <2>1. Reading' /\ Splitting' /\ Copying'
    BY <1>1, <1>2, <1>3, MapStays DEF Splitting, EndOf, Running, Copying
  <2>2. Flashing'
    BY <1>1, <1>2, <1>3 DEF Flashing, EndOf
  <2> QED
    BY <1>3, <2>1, <2>2 DEF ImageInv, OwnImageValid, Phases
<1>4. CASE /\ image # <<>> /\ image' = Tail(image) /\ UNCHANGED <<phase, runs>>
           /\ target' = [b \in Block |->
                           IF chunk.type = "RAW" /\ b \in start .. start + chunk.blocks - 1
                           THEN chunk.data[b - start + 1] ELSE target[b]]
  <2>1. /\ image' \in Seq(ChunkSet) /\ Len(image') = Len(image) - 1 /\ chunk = image[1]
        /\ \A n \in 1 .. Len(image) - 1 : image'[n] = image[n + 1]
        /\ Len(image) \in Nat \ {0}
    BY <1>2, <1>4
  <2>2. k \in Nat /\ k + 1 \in 1 .. L /\ (k + 1) - 1 = k /\ L - (Len(image) - 1) = k + 1
    BY <1>2, <2>1
  <2>3. /\ chunk \in ChunkSet /\ EndOf(k) \in Nat /\ EndOf(k + 1) \in Nat
        /\ EndOf(k) < EndOf(k + 1) /\ EndOf(k + 1) <= Blocks
        /\ start = EndOf(k) /\ EndOf(k) + chunk.blocks = EndOf(k + 1)
        /\ \/ /\ chunk.type = "DONT_CARE"
              /\ \A b \in EndOf(k) .. EndOf(k + 1) - 1 : b \in free
           \/ /\ chunk.type = "RAW"
              /\ \A b \in EndOf(k) .. EndOf(k + 1) - 1 :
                   b \notin free /\ chunk.data[b - EndOf(k) + 1] = Raw(b)
    BY <1>1, <1>4, NextChunk
  <2>4. Total(image') = Blocks - EndOf(k + 1)
    <3>1. Total(image') = Total(image) - Counts(chunk, {"RAW", "DONT_CARE"})
      BY <1>2, <1>4, TailBlocks DEF Total
    <3>2. Counts(chunk, {"RAW", "DONT_CARE"}) = chunk.blocks /\ chunk.blocks \in Nat
      BY <2>3 DEF Counts, ChunkSet, Kind
    <3> HIDE DEF chunk, k
    <3> QED
      BY <1>2, <2>3, <3>1, <3>2, UserdataConstantsOK
  <2> HIDE DEF k, chunk, L, start
  <2>5. start = EndOf(k) /\ start + chunk.blocks = EndOf(k + 1)
    BY <2>3, Zenon
  <2>6. ASSUME NEW b \in 0 .. EndOf(k + 1) - 1, b \notin free
        PROVE  target'[b] = Raw(b)
    <3>1. b \in Block
      BY <2>3, UserdataConstantsOK DEF Block
    <3>2. CASE b < EndOf(k)
      <4>1. b \in 0 .. EndOf(k) - 1 /\ b \notin start .. start + chunk.blocks - 1
        BY <2>3, <2>5, <3>2
      <4> QED
        BY <1>2, <1>4, <2>6, <3>1, <4>1
    <3>3. CASE ~ (b < EndOf(k))
      <4>1. b \in EndOf(k) .. EndOf(k + 1) - 1
        BY <2>3, <3>3
      <4>2. chunk.type = "RAW" /\ chunk.data[b - EndOf(k) + 1] = Raw(b)
        BY <2>3, <2>6, <4>1
      <4>3. target'[b] = IF chunk.type = "RAW" /\ b \in start .. start + chunk.blocks - 1
                         THEN chunk.data[b - start + 1] ELSE target[b]
        BY <1>4, <3>1
      <4>4. b \in start .. start + chunk.blocks - 1
        <5>1. chunk.blocks \in Nat /\ start \in Nat /\ EndOf(k + 1) \in Nat /\ b \in Nat
          BY <2>3, <2>5, <4>1 DEF ChunkSet
        <5> QED
          BY <2>5, <4>1, <5>1
      <4>5. target'[b] = chunk.data[b - start + 1]
        BY <4>2, <4>3, <4>4, Zenon
      <4> QED
        BY <2>5, <4>2, <4>5, Zenon
    <3> QED
      BY <3>2, <3>3
  <2>7. \A n : EndOf(n)' = EndOf(n)
    BY <1>4 DEF EndOf
  <2>8. ASSUME NEW n \in 1 .. Len(image')
         PROVE  image'[n] = Chunk(runs[(k + 1) + n])
    <3>1. n + 1 \in 1 .. Len(image) /\ k + (n + 1) = (k + 1) + n /\ n \in 1 .. Len(image) - 1
      BY <2>1, <2>2
    <3>2. image'[n] = image[n + 1] /\ image[n + 1] = Chunk(runs[k + (n + 1)])
      BY <1>2, <2>1, <3>1
    <3> QED
      BY <3>1, <3>2
  <2>9. Len(runs') - Len(image') = k + 1 /\ Len(image') <= Len(runs')
    BY <1>2, <1>4, <2>1, <2>2 DEF L, k
  <2>10. UNCHANGED <<runs, free>> /\ phase' = "flash"
    BY <1>1, <1>4
  <2>11. Flashing'
    BY <2>4, <2>6, <2>7, <2>8, <2>9, <2>10 DEF Flashing
  <2>12. Reading' /\ Splitting' /\ Copying'
    BY <1>1, <1>2, <2>1, <2>7, <2>10, MapStays DEF Splitting, Running, Copying
  <2> QED
    BY <2>10, <2>11, <2>12 DEF ImageInv, OwnImageValid, Phases
<1> QED
  BY <1>3, <1>4 DEF Flash

-----------------------------------------------------------------------------
(* The theorems *)

\* Any lines of the listing, in any order and any number of times.
Scrambled ==
  /\ used \in SUBSET Block
  /\ report \in Seq(Lines(Block \ used)) /\ rest = report
  /\ free = {} /\ phase = "headers" /\ runs = <<>> /\ image = <<>>
ScrambledSpec == Scrambled /\ [][Next]_vars

LEMMA ScrambledInv == Scrambled => ImageInv
BY DEF Scrambled, ImageInv, Reading, Splitting, Copying, Flashing, OwnImageValid, Phases, Running

LEMMA InitScrambled == Init => Scrambled
<1> SUFFICES ASSUME Init PROVE Scrambled
  OBVIOUS
<1>1. report \in Garbled(Listing(Block \ used))
  BY DEF Init
<1>2. report \in Seq(Lines(Block \ used))
  BY <1>1, ListingLines, GarbledOK
<1> QED
  BY <1>2 DEF Init, Scrambled

LEMMA SameInv ==
  ASSUME ImageInv, UNCHANGED vars
  PROVE  ImageInv'
<1> USE DEF ImageInv, vars, reading
<1>1. Reading'
  BY SameHeaders DEF Reading, Running
<1>2. Splitting' /\ Copying' /\ Flashing' /\ OwnImageValid' /\ phase' \in Phases
  BY DEF Splitting, EndOf, Copying, Flashing, OwnImageValid
<1> QED
  BY <1>1, <1>2

LEMMA ImageStep == ImageInv /\ [Next]_vars => ImageInv'
<1> SUFFICES ASSUME ImageInv, [Next]_vars PROVE ImageInv'
  OBVIOUS
<1>1. CASE ReadHeaders
  BY <1>1, ReadHeadersInv
<1>2. CASE ReadLine
  BY <1>2, ReadLineInv
<1>3. CASE EndOfReport
  BY <1>3, EndOfReportInv
<1>4. CASE NextRun
  BY <1>4, NextRunInv
<1>5. CASE RunsDone
  BY <1>5, RunsDoneInv
<1>6. CASE WriteChunk
  BY <1>6, WriteChunkInv
<1>7. CASE Validate
  BY <1>7, ValidateInv
<1>8. CASE Flash
  BY <1>8, FlashInv
<1>9. CASE Done \/ UNCHANGED vars
  BY <1>9, SameInv DEF Done
<1> QED
  BY <1>1, <1>2, <1>3, <1>4, <1>5, <1>6, <1>7, <1>8, <1>9 DEF Next

LEMMA ImagePromises == ImageInv => LiveBlocksWritten /\ MapIsAllocation /\ OwnImageValid
<1> SUFFICES ASSUME ImageInv PROVE LiveBlocksWritten /\ MapIsAllocation
  BY DEF ImageInv
<1>1. MapIsAllocation
  BY DEF ImageInv, Reading, Running, MapIsAllocation
<1>2. ASSUME phase = "flashed", NEW b \in used PROVE target[b] = Raw(b)
  <2>1. Splitting /\ Covers(runs) = Blocks /\ image = <<>> /\ free = Block \ used
        /\ used \in SUBSET Block
    BY <1>2 DEF ImageInv, Splitting, Flashing, Reading, Running
  <2>2. Len(runs) \in Nat /\ Len(runs) - Len(image) = Len(runs)
    BY <2>1 DEF Splitting
  <2>3. EndOf(Len(runs) - Len(image)) = Blocks
    BY <2>1, <2>2, CoversOK
  <2>4. b \in 0 .. EndOf(Len(runs) - Len(image)) - 1 /\ b \notin free
    BY <2>1, <2>3 DEF Block
  <2> QED
    BY <1>2, <2>4 DEF ImageInv, Flashing
<1> QED
  BY <1>1, <1>2 DEF LiveBlocksWritten

\* Whatever becomes of the lines of the listing, lost, repeated and moved in any number and
\* way: an accepted map is the allocation, the installer never disowns its image, and
\* a flashed target holds every live block.
THEOREM ScrambledSafe == ScrambledSpec => [](LiveBlocksWritten /\ MapIsAllocation /\ OwnImageValid)
<1>1. ScrambledSpec => []ImageInv
  BY ScrambledInv, ImageStep, PTL DEF ScrambledSpec
<1> QED
  BY <1>1, ImagePromises, PTL

LEMMA SpecScrambled == Spec => ScrambledSpec
BY InitScrambled, PTL DEF Spec, ScrambledSpec

\* No live block of a flashed filesystem is left with what was there before or with
\* another block's contents.
THEOREM LiveWritten == Spec => []LiveBlocksWritten
BY SpecScrambled, ScrambledSafe, PTL

\* A map that the parser accepts is the filesystem's allocation.
THEOREM MapIsRight == Spec => []MapIsAllocation
BY SpecScrambled, ScrambledSafe, PTL

\* The image written for an accepted map passes the installer's own validation.
THEOREM OwnImagePasses == Spec => []OwnImageValid
BY SpecScrambled, ScrambledSafe, PTL

-----------------------------------------------------------------------------
(* The listing of a filesystem that fits is read to its end *)

FirstOf(g) == g * GroupSize
LastOf(g) == Smaller(FirstOf(g) + GroupSize, Blocks) - 1
\* Where the lines read so far end: before the first group, or in group g, of which the
\* count (k = 1) and the list (k = 2) have been read.
BeforeGroups ==
  /\ Len(rest) \in 3 * Groups .. 3 * Groups + 2
  /\ free = {} /\ group = None /\ nextGroup = 0 /\ nextBlock = 0
InGroup(g, k) ==
  LET unused == Block \ used
  IN  /\ Len(rest) = 3 * (Groups - g) - 1 - k
      /\ group = <<FirstOf(g), LastOf(g)>> /\ nextGroup = g + 1 /\ nextBlock = LastOf(g) + 1
      /\ k = 0 => groupFree = None
      /\ k # 0 => groupFree = Cardinality(unused \cap FirstOf(g) .. LastOf(g))
      /\ k # 2 => listSeen = FALSE /\ free = unused \cap 0 .. FirstOf(g) - 1
      /\ k = 2 => listSeen = TRUE /\ free = unused \cap 0 .. LastOf(g)
\* The lines left are the last ones of the report.
LastLines ==
  /\ rest \in Seq(Lines(Block \ used)) /\ Len(rest) <= Len(report) /\ Len(report) \in Nat
  /\ \A m \in 1 .. Len(rest) : rest[m] = report[Len(report) - Len(rest) + m]
IntactInv ==
  Intact /\ phase \in {"headers", "lines"} =>
    /\ 0 \in used /\ used \in SUBSET Block /\ LastLines
    /\ phase = "lines" => HeadersOK
    /\ BeforeGroups \/ \E g \in 0 .. Groups - 1, k \in 0 .. 2 : InGroup(g, k)

LEMMA GroupArith ==
  /\ Groups \in Nat \ {0} /\ (Groups - 1) * GroupSize < Blocks /\ Blocks <= Groups * GroupSize
<1> DEFINE n == Groups
           a == Blocks + GroupSize - 1
<1>1. a \in Nat /\ Blocks \in Nat \ {0} /\ GroupSize \in Nat \ {0} /\ n = a \div GroupSize
  BY UserdataConstantsOK DEF Groups
<1> HIDE DEF n
<1>2. n \in Nat /\ n * GroupSize <= a /\ a < n * GroupSize + GroupSize
  BY <1>1
<1>3. (n - 1) * GroupSize < Blocks /\ Blocks <= n * GroupSize
  BY <1>1, <1>2
<1>4. n # 0
  BY <1>1, <1>3
<1> QED
  BY <1>2, <1>3, <1>4 DEF n

\* The groups tile the filesystem.
LEMMA Extents ==
  ASSUME NEW g \in 0 .. Groups - 1
  PROVE  /\ FirstOf(g) \in Nat /\ LastOf(g) \in Nat
         /\ FirstOf(g) <= LastOf(g) /\ LastOf(g) < Blocks
         /\ (g = 0 => FirstOf(g) = 0)
         /\ (g < Groups - 1 => FirstOf(g + 1) = LastOf(g) + 1)
         /\ (g = Groups - 1 => LastOf(g) = Blocks - 1)
<1>1. /\ GroupSize \in Nat \ {0} /\ Blocks \in Nat \ {0} /\ Groups \in Nat \ {0} /\ g \in Nat
      /\ g <= Groups - 1
  BY UserdataConstantsOK, GroupArith
<1>2. (g + 1) * GroupSize = g * GroupSize + GroupSize /\ g * GroupSize \in Nat
  BY <1>1
<1>3. g * GroupSize <= (Groups - 1) * GroupSize
  BY <1>1
<1>4. (Groups - 1) * GroupSize \in Nat /\ Groups * GroupSize \in Nat
  BY <1>1
<1>5. g < Groups - 1 => (g + 1) * GroupSize <= (Groups - 1) * GroupSize
  BY <1>1
<1>6. g = Groups - 1 => (g + 1) * GroupSize = Groups * GroupSize
  BY <1>1
<1>7. FirstOf(g) = g * GroupSize /\ FirstOf(g + 1) = (g + 1) * GroupSize
  BY DEF FirstOf
<1>8. LastOf(g) = (IF (g + 1) * GroupSize < Blocks THEN (g + 1) * GroupSize ELSE Blocks) - 1
  BY <1>2 DEF LastOf, FirstOf, Smaller
<1>9. g = 0 => FirstOf(g) = 0
  BY <1>1, <1>7
<1> DEFINE first == g * GroupSize
           next == (g + 1) * GroupSize
           start == (Groups - 1) * GroupSize
           end == Groups * GroupSize
<1>10. /\ first \in Nat /\ next = first + GroupSize /\ first <= start
       /\ start < Blocks /\ Blocks <= end /\ start \in Nat /\ end \in Nat
       /\ (g < Groups - 1 => next <= start) /\ (g = Groups - 1 => next = end)
  BY <1>2, <1>3, <1>4, <1>5, <1>6, GroupArith
<1>11. FirstOf(g) = first /\ FirstOf(g + 1) = next
       /\ LastOf(g) = (IF next < Blocks THEN next ELSE Blocks) - 1
  BY <1>7, <1>8
<1> HIDE DEF first, next, start, end
<1> QED
  BY <1>1, <1>9, <1>10, <1>11

\* Where the lines after two others are.
LEMMA AfterTwo ==
  ASSUME NEW S, NEW s \in Seq(S), NEW t \in Seq(S), Len(s) = 2
  PROVE  /\ Len(s \o t) = Len(t) + 2 /\ (s \o t)[1] = s[1] /\ (s \o t)[2] = s[2]
         /\ \A n \in 1 .. Len(t) : (s \o t)[n + 2] = t[n]
<1> DEFINE both == s \o t
<1>1. /\ Len(both) = Len(s) + Len(t)
      /\ \A n \in 1 .. Len(s) + Len(t) :
           both[n] = IF n <= Len(s) THEN s[n] ELSE t[n - Len(s)]
  BY ConcatProperties, Zenon
<1> HIDE DEF both
<1>2. Len(t) \in Nat
  OBVIOUS
<1>3. Len(both) = Len(t) + 2 /\ both[1] = s[1] /\ both[2] = s[2]
  BY <1>1, <1>2
<1>4. \A n \in 1 .. Len(t) : both[n + 2] = t[n]
  <2> SUFFICES ASSUME NEW n \in 1 .. Len(t) PROVE both[n + 2] = t[n]
    OBVIOUS
  <2>1. n + 2 \in 1 .. Len(s) + Len(t) /\ ~ (n + 2 <= Len(s)) /\ n + 2 - Len(s) = n
    BY <1>2
  <2>2. both[n + 2] = t[n + 2 - Len(s)]
    BY <1>1, <2>1
  <2> QED
    BY <2>1, <2>2
<1> QED
  BY <1>3, <1>4 DEF both

SizeLine == Header("Block count", Blocks)
FreeLine(unused) == Header("Free blocks", Cardinality(unused))

\* What an intact listing says, line by line.
LEMMA ListingIs ==
  ASSUME NEW unused \in SUBSET Block, NEW text, text = Listing(unused)
  PROVE  /\ Len(text) = 3 * Groups + 2
         /\ text[1] = SizeLine /\ text[2] = FreeLine(unused)
         /\ \A g \in 0 .. Groups - 1 :
              LET ours == unused \cap FirstOf(g) .. LastOf(g)
              IN  /\ text[3 * g + 3] = GroupLine(g, FirstOf(g), LastOf(g))
                  /\ text[3 * g + 4] = CountLine(Cardinality(ours))
                  /\ text[3 * g + 5] = RangesLine(RunsOf(ours))
<1> DEFINE heads == <<SizeLine, FreeLine(unused)>>
           Body(n) == GroupLines((n - 1) \div 3, unused)[((n - 1) % 3) + 1]
           body == [n \in 1 .. 3 * Groups |-> Body(n)]
           Said == {SizeLine, FreeLine(unused)} \cup {Body(n) : n \in 1 .. 3 * Groups}
<1>1. Len(heads) = 2 /\ heads[1] = SizeLine /\ heads[2] = FreeLine(unused)
      /\ heads \in Seq(Said)
  OBVIOUS
<1>2. text = heads \o body
  BY Zenon DEF Listing, SizeLine, FreeLine
<1>3. Groups \in Nat
  BY GroupArith
<1> HIDE DEF Body
<1>4. body \in [1 .. 3 * Groups -> Said] /\ \A n \in 1 .. 3 * Groups : body[n] = Body(n)
  OBVIOUS
<1> HIDE DEF heads, body, Said
<1>5. /\ Len(text) = 3 * Groups + 2 /\ text[1] = heads[1] /\ text[2] = heads[2]
      /\ \A n \in 1 .. 3 * Groups : text[n + 2] = Body(n)
  <2>1. body \in Seq(Said) /\ Len(body) = 3 * Groups
    BY <1>3, <1>4
  <2> QED
    BY <1>1, <1>2, <1>4, <2>1, AfterTwo
<1>6. ASSUME NEW g \in 0 .. Groups - 1
      PROVE  LET ours == unused \cap FirstOf(g) .. LastOf(g)
             IN  /\ text[3 * g + 3] = GroupLine(g, FirstOf(g), LastOf(g))
                 /\ text[3 * g + 4] = CountLine(Cardinality(ours))
                 /\ text[3 * g + 5] = RangesLine(RunsOf(ours))
  <2> DEFINE first == g * GroupSize
             last == Smaller(first + GroupSize, Blocks) - 1
             ours == unused \cap first .. last
  <2>1. GroupLines(g, unused) =
          <<GroupLine(g, first, last), CountLine(Cardinality(ours)), RangesLine(RunsOf(ours))>>
    BY DEF GroupLines
  <2>2. first = FirstOf(g) /\ last = LastOf(g)
    BY DEF FirstOf, LastOf
  <2> HIDE DEF first, last, ours
  <2>3. ASSUME NEW k \in 1 .. 3
        PROVE  text[3 * g + k + 2] = GroupLines(g, unused)[k]
    <3> DEFINE n == 3 * g + k
    <3>1. n \in 1 .. 3 * Groups /\ (n - 1) \div 3 = g /\ ((n - 1) % 3) + 1 = k
      BY <1>3
    <3> HIDE DEF n
    <3>2. text[n + 2] = Body(n)
      BY <1>5, <3>1
    <3>3. Body(n) = GroupLines(g, unused)[k]
      BY <3>1 DEF Body
    <3> QED
      BY <3>2, <3>3 DEF n
  <2>4. text[3 * g + 3] = GroupLines(g, unused)[1] /\ text[3 * g + 4] = GroupLines(g, unused)[2]
        /\ text[3 * g + 5] = GroupLines(g, unused)[3]
    <3>1. 3 * g + 3 = 3 * g + 1 + 2 /\ 3 * g + 4 = 3 * g + 2 + 2 /\ 3 * g + 5 = 3 * g + 3 + 2
      OBVIOUS
    <3> QED
      BY <2>3, <3>1
  <2> QED
    BY <2>1, <2>2, <2>4 DEF ours
<1> QED
  BY <1>1, <1>5, <1>6

\* What the headers of an intact listing say.
LEMMA IntactSays ==
  ASSUME Intact, used \in SUBSET Block
  PROVE  /\ Cardinality(Says("Block count")) = 1 /\ Cardinality(Says("Free blocks")) = 1
         /\ Value("Block count") = Blocks /\ Value("Free blocks") = Cardinality(Block \ used)
<1> DEFINE unused == Block \ used
           Named(n, name) == report[n].kind = "header" /\ report[n].name = name
<1>1. unused \in SUBSET Block /\ report = Listing(unused)
  BY DEF Intact
<1>2. /\ Len(report) = 3 * Groups + 2 /\ Groups \in Nat
      /\ report[1] = SizeLine /\ report[2] = FreeLine(unused)
  BY <1>1, ListingIs, GroupArith
<1>3. ASSUME NEW g \in 0 .. Groups - 1
      PROVE  /\ report[3 * g + 3].kind # "header" /\ report[3 * g + 4].kind # "header"
             /\ report[3 * g + 5].kind # "header"
  <2> DEFINE ours == unused \cap FirstOf(g) .. LastOf(g)
  <2>1. /\ report[3 * g + 3] = GroupLine(g, FirstOf(g), LastOf(g))
        /\ report[3 * g + 4] = CountLine(Cardinality(ours))
        /\ report[3 * g + 5] = RangesLine(RunsOf(ours))
    BY <1>1, ListingIs, ZenonT(60)
  <2> QED
    BY <2>1 DEF GroupLine, CountLine, RangesLine
<1>4. ASSUME NEW n \in 1 .. Len(report), n # 1, n # 2
      PROVE  report[n].kind # "header"
  <2>1. PICK g \in 0 .. Groups - 1 : n = 3 * g + 3 \/ n = 3 * g + 4 \/ n = 3 * g + 5
    <3>1. (n - 3) \div 3 \in 0 .. Groups - 1
      BY <1>2, <1>4
    <3>2. n = 3 * ((n - 3) \div 3) + 3 \/ n = 3 * ((n - 3) \div 3) + 4
          \/ n = 3 * ((n - 3) \div 3) + 5
      BY <1>2, <1>4
    <3> QED
      BY <3>1, <3>2
  <2> QED
    BY <1>3, <2>1
<1>5. /\ report[1].kind = "header" /\ report[1].name = "Block count" /\ report[1].n = Blocks
      /\ report[2].kind = "header" /\ report[2].name = "Free blocks"
      /\ report[2].n = Cardinality(unused)
  <2>1. /\ SizeLine.kind = "header" /\ SizeLine.name = "Block count" /\ SizeLine.n = Blocks
    BY Zenon DEF Header, SizeLine
  <2>2. /\ FreeLine(unused).kind = "header" /\ FreeLine(unused).name = "Free blocks"
        /\ FreeLine(unused).n = Cardinality(unused)
    BY Zenon DEF Header, FreeLine
  <2> QED
    BY <1>2, <2>1, <2>2, Zenon
<1>6. 1 \in 1 .. Len(report) /\ 2 \in 1 .. Len(report) /\ 1 # 2
  BY <1>2
<1>7. Says("Block count") = {1} /\ Says("Free blocks") = {2}
  <2>1. "Block count" # "Free blocks"
    BY Zenon
  <2> QED
    BY <1>4, <1>5, <1>6, <2>1, Zenon DEF Says
<1>8. Value("Block count") = Blocks /\ Value("Free blocks") = Cardinality(unused)
  BY <1>5, <1>7, Zenon DEF Value
<1>9. Cardinality({1}) = 1 /\ Cardinality({2}) = 1
  BY FS_Singleton
<1> QED
  BY <1>7, <1>9, <1>8, Zenon

\* They pass.
LEMMA IntactHeaders ==
  ASSUME Intact, used \in SUBSET Block, 0 \in used
  PROVE  HeadersOK
<1> DEFINE unused == Block \ used
<1>1. 0 < Cardinality(unused) /\ Cardinality(unused) < Blocks
  <2>1. unused # {} /\ unused # Block /\ unused \subseteq Block
    <3>1. 0 \in Block
      BY UserdataConstantsOK DEF Block
    <3>2. used # Block
      BY DEF Intact
    <3> QED
      BY <3>1, <3>2
  <2> HIDE DEF unused
  <2>2. Cardinality(unused) \in 0 .. Blocks /\ IsFiniteSet(unused) /\ IsFiniteSet(Block)
        /\ Cardinality(Block) = Blocks
    BY <2>1, SizeOK, BlockNat
  <2>3. Cardinality(unused) # 0 /\ Cardinality(unused) # Blocks
    BY <2>1, <2>2, FS_EmptySet, FS_Subset
  <2> QED
    BY <2>2, <2>3, UserdataConstantsOK
<1> QED
  BY <1>1, IntactSays, Zenon DEF HeadersOK

\* Which line comes next, and what it says.
LEMMA NextLine ==
  ASSUME Intact, used \in SUBSET Block, LastLines, rest # <<>>
  PROVE  /\ Len(rest) \in 1 .. 3 * Groups + 2
         /\ Line = report[3 * Groups + 3 - Len(rest)]
         /\ Line \in Lines(Block \ used)
<1>1. Len(report) = 3 * Groups + 2 /\ Groups \in Nat
  BY ListingIs, GroupArith DEF Intact
<1>2. Len(rest) \in Nat /\ Len(rest) # 0 /\ Line = rest[1] /\ rest[1] \in Lines(Block \ used)
  BY DEF LastLines, Line
<1>3. Len(report) - Len(rest) + 1 = 3 * Groups + 3 - Len(rest) /\ 1 \in 1 .. Len(rest)
  BY <1>1, <1>2
<1>4. rest[1] = report[Len(report) - Len(rest) + 1]
  BY <1>3 DEF LastLines
<1> QED
  BY <1>1, <1>2, <1>3, <1>4 DEF LastLines

LEMMA ReadOn ==
  ASSUME LastLines, rest # <<>>, Read
  PROVE  LastLines' /\ Len(rest') = Len(rest) - 1
<1>1. /\ rest \in Seq(Lines(Block \ used)) /\ rest' = Tail(rest) /\ UNCHANGED <<used, report>>
      /\ Len(rest) <= Len(report) /\ Len(rest) \in Nat \ {0}
  BY DEF LastLines, Read
<1>2. /\ rest' \in Seq(Lines(Block \ used)) /\ Len(rest') = Len(rest) - 1
      /\ \A m \in 1 .. Len(rest') : rest'[m] = rest[m + 1]
  BY <1>1
<1>3. ASSUME NEW m \in 1 .. Len(rest')
      PROVE  rest'[m] = report[Len(report) - Len(rest') + m]
  <2>1. m + 1 \in 1 .. Len(rest)
    BY <1>1, <1>2
  <2>2. rest[m + 1] = report[Len(report) - Len(rest) + (m + 1)]
    BY <2>1 DEF LastLines
  <2>3. Len(report) - Len(rest) + (m + 1) = Len(report) - Len(rest') + m
    BY <1>1, <1>2 DEF LastLines
  <2> QED
    BY <1>2, <2>2, <2>3
<1> QED
  BY <1>1, <1>2, <1>3 DEF LastLines

\* A place inside a group is one of the report's.
LEMMA Inside ==
  ASSUME NEW g \in 0 .. Groups - 1, NEW k \in 0 .. 2, InGroup(g, k)
  PROVE  /\ group # None /\ group[1] = FirstOf(g) /\ group[2] = LastOf(g)
         /\ 3 * Groups + 3 - Len(rest) = 3 * g + 4 + k /\ Groups \in Nat /\ g \in Nat
<1>1. FirstOf(g) \in Nat /\ LastOf(g) \in Nat
  BY Extents
<1>2. group = <<FirstOf(g), LastOf(g)>> /\ Len(rest) = 3 * (Groups - g) - 1 - k
  BY DEF InGroup
<1>3. group \in Nat \X Nat
  BY <1>1, <1>2
<1>4. 3 * Groups + 3 - Len(rest) = 3 * g + 4 + k /\ Groups \in Nat /\ g \in Nat
  BY <1>2, GroupArith
<1> QED
  BY <1>2, <1>3, <1>4, UserdataConstantsOK

\* What a line of a group is.
LEMMA GroupLineKinds ==
  ASSUME Intact, used \in SUBSET Block, NEW g \in 0 .. Groups - 1
  PROVE  LET ours == (Block \ used) \cap FirstOf(g) .. LastOf(g)
         IN  /\ report[3 * g + 3] = GroupLine(g, FirstOf(g), LastOf(g))
             /\ report[3 * g + 4] = CountLine(Cardinality(ours))
             /\ report[3 * g + 5] = RangesLine(RunsOf(ours))
<1> DEFINE unused == Block \ used
<1>1. unused \in SUBSET Block /\ report = Listing(unused)
  BY DEF Intact
<1> HIDE DEF unused
<1>2. LET ours == unused \cap FirstOf(g) .. LastOf(g)
      IN  /\ report[3 * g + 3] = GroupLine(g, FirstOf(g), LastOf(g))
          /\ report[3 * g + 4] = CountLine(Cardinality(ours))
          /\ report[3 * g + 5] = RangesLine(RunsOf(ours))
  BY <1>1, ListingIs
<1> QED
  BY <1>2 DEF unused

\* The lines before the first group are passed over.
LEMMA FromHeaders ==
  ASSUME Intact, used \in SUBSET Block, LastLines, BeforeGroups, ReadLine
  PROVE  Read /\ (BeforeGroups' \/ InGroup(0, 0)')
<1>1. rest # <<>>
  BY DEF ReadLine, StartGroup, SkipLine, CountFree, ListFree, At
<1>2. Len(rest) \in 3 * Groups .. 3 * Groups + 2 /\ group = None /\ Groups \in Nat \ {0}
  BY GroupArith DEF BeforeGroups
<1>3. CASE Len(rest) = 3 * Groups
  <2>1. Line = report[3 * 0 + 3]
    BY <1>1, <1>2, <1>3, NextLine
  <2>2. 0 \in 0 .. Groups - 1
    BY <1>2
  <2>3. Line = GroupLine(0, FirstOf(0), LastOf(0))
    BY <2>1, <2>2, GroupLineKinds
  <2>4. /\ Line.kind = "group" /\ Line.number = 0 /\ Line.first = FirstOf(0)
        /\ Line.last = LastOf(0)
    BY <2>3 DEF GroupLine
  <2>5. /\ FirstOf(0) = 0 /\ LastOf(0) \in Nat /\ LastOf(0) < Blocks
    BY <2>2, Extents
  <2>6. GroupComplete /\ Follows
    BY <1>2, <2>4, <2>5 DEF GroupComplete, Follows, BeforeGroups
  <2>7. StartGroup
    BY <1>2, <2>4 DEF ReadLine, SkipLine, CountFree, ListFree, At
  <2>8. /\ Read /\ group' = <<FirstOf(0), LastOf(0)>> /\ groupFree' = None
        /\ listSeen' = FALSE
        /\ nextGroup' = 1 /\ nextBlock' = LastOf(0) + 1 /\ free' = {} /\ used' = used
    BY <2>4, <2>6, <2>7 DEF StartGroup, BeforeGroups, Read
  <2>9. Len(rest') = 3 * (Groups - 0) - 1 - 0
    BY <1>1, <1>2, <1>3, <2>8, ReadOn
  <2>10. (Block \ used) \cap 0 .. FirstOf(0) - 1 = {}
    BY <2>5
  <2> QED
    BY <2>5, <2>8, <2>9, <2>10 DEF InGroup
<1>4. CASE Len(rest) # 3 * Groups
  <2>1. 3 * Groups + 3 - Len(rest) = 1 \/ 3 * Groups + 3 - Len(rest) = 2
    BY <1>2, <1>4
  <2>2. report[1] = SizeLine /\ report[2] = FreeLine(Block \ used)
    BY ListingIs DEF Intact
  <2>3. Line = SizeLine \/ Line = FreeLine(Block \ used)
    BY <1>1, <2>1, <2>2, NextLine
  <2>4. Line.kind = "header"
    <3>1. SizeLine.kind = "header"
      BY Zenon DEF SizeLine, Header
    <3>2. FreeLine(Block \ used).kind = "header"
      BY Zenon DEF FreeLine, Header
    <3> QED
      BY <2>3, <3>1, <3>2, Zenon
  <2>5. SkipLine
    BY <2>4 DEF ReadLine, StartGroup, CountFree, ListFree, At
  <2>6. Read /\ UNCHANGED reading
    BY <2>5 DEF SkipLine
  <2>7. Len(rest') \in 3 * Groups .. 3 * Groups + 2
    BY <1>1, <1>2, <1>4, <2>6, ReadOn
  <2> QED
    BY <2>6, <2>7 DEF BeforeGroups, reading
<1> QED
  BY <1>3, <1>4

\* The count of a group is taken.
LEMMA FromGroup ==
  ASSUME Intact, used \in SUBSET Block, LastLines, NEW g \in 0 .. Groups - 1, InGroup(g, 0),
         ReadLine
  PROVE  Read /\ InGroup(g, 1)'
<1> DEFINE ours == (Block \ used) \cap FirstOf(g) .. LastOf(g)
<1>1. rest # <<>>
  BY DEF ReadLine, StartGroup, SkipLine, CountFree, ListFree, At
<1>2. Line = CountLine(Cardinality(ours))
  BY <1>1, Inside, NextLine, GroupLineKinds
<1>3. Line.kind = "count" /\ Line.n = Cardinality(ours)
  BY <1>2 DEF CountLine
<1>4. group # None /\ groupFree = None
  <2>1. group # None
    BY Inside
  <2>2. groupFree = None
    BY DEF InGroup
  <2> QED
    BY <2>1, <2>2
<1>5. CountFree
  BY <1>3, <1>4 DEF ReadLine, StartGroup, SkipLine, ListFree, At
<1>6. /\ Read /\ groupFree' = Cardinality(ours) /\ used' = used
      /\ UNCHANGED <<free, group, nextGroup, nextBlock, listSeen>>
  BY <1>3, <1>4, <1>5 DEF CountFree, Read
<1>7. Len(rest') = 3 * (Groups - g) - 1 - 1
  BY <1>1, <1>6, ReadOn, Inside, GroupArith DEF InGroup
<1> HIDE DEF ours
<1>8. /\ group' = <<FirstOf(g), LastOf(g)>> /\ nextGroup' = g + 1 /\ nextBlock' = LastOf(g) + 1
      /\ listSeen' = FALSE /\ free' = (Block \ used) \cap 0 .. FirstOf(g) - 1
  BY <1>6 DEF InGroup
<1> QED
  BY <1>6, <1>7, <1>8 DEF InGroup, ours

\* The list of a group is taken: its ranges ascend and lie in the group.
LEMMA FromCount ==
  ASSUME Intact, used \in SUBSET Block, LastLines, NEW g \in 0 .. Groups - 1, InGroup(g, 1),
         ReadLine
  PROVE  Read /\ InGroup(g, 2)'
<1> DEFINE unused == Block \ used
           ours == unused \cap FirstOf(g) .. LastOf(g)
           list == RunsOf(ours)
<1>1. rest # <<>>
  BY DEF ReadLine, StartGroup, SkipLine, CountFree, ListFree, At
<1>2. Line = RangesLine(list)
  <2>1. 3 * Groups + 3 - Len(rest) = 3 * g + 5
    BY Inside
  <2>2. Line = report[3 * g + 5]
    BY <1>1, <2>1, NextLine
  <2> QED
    BY <2>2, GroupLineKinds
<1>3. Line.kind = "ranges" /\ Line.list = list
  BY <1>2 DEF RangesLine
<1>4. group # None /\ ~ listSeen /\ groupFree = Cardinality(ours)
      /\ free = unused \cap 0 .. FirstOf(g) - 1
  <2>1. group # None
    BY Inside
  <2>2. ~ listSeen /\ groupFree = Cardinality(ours) /\ free = unused \cap 0 .. FirstOf(g) - 1
    BY DEF InGroup
  <2> QED
    BY <2>1, <2>2
<1>5. ListFree
  BY <1>3, <1>4 DEF ReadLine, StartGroup, SkipLine, CountFree, At
<1>6. ours \in SUBSET Block /\ ours \subseteq FirstOf(g) .. LastOf(g)
  OBVIOUS
<1>7. FirstOf(g) \in Nat /\ LastOf(g) \in Nat /\ FirstOf(g) <= LastOf(g)
  BY Extents
<1> HIDE DEF ours, list
<1>8. Ascending(list)
  <2> SUFFICES ASSUME NEW n \in 1 .. Len(list)
               PROVE  /\ FirstOf(g) <= list[n][1] /\ list[n][1] <= list[n][2]
                      /\ list[n][2] <= LastOf(g)
                      /\ n > 1 => list[n - 1][2] < list[n][1]
    BY Inside DEF Ascending
  <2> DEFINE first == list[n][1]
             run == list[n]
  <2>1. first \in ours /\ run = RunFrom(ours, first)
    BY <1>6, RunsOK, FirstsOK DEF list
  <2> HIDE DEF first, run
  <2>2. run[2] \in ours /\ first <= run[2]
    BY <1>6, <2>1, RunFromOK, ZenonT(60)
  <2>3. n > 1 => list[n - 1][2] < list[n][1]
    <3>1. Len(list) \in Nat
      BY <1>6, RunsOK DEF list
    <3>2. n > 1 => n \in 2 .. Len(list)
      BY <3>1
    <3> QED
      BY <1>6, <3>2, RunsAscend DEF list
  <2>4. first \in FirstOf(g) .. LastOf(g) /\ run[2] \in FirstOf(g) .. LastOf(g)
    BY <1>6, <2>1, <2>2
  <2> QED
    BY <1>7, <2>2, <2>3, <2>4 DEF first, run
<1>9. Covered(list) = ours
  BY <1>6, RunsCover DEF list
<1>10. /\ Read /\ listSeen' = TRUE /\ free' = free \cup ours /\ used' = used
       /\ UNCHANGED <<group, nextGroup, nextBlock, groupFree>>
  BY <1>3, <1>4, <1>5, <1>8, <1>9 DEF ListFree, Read
<1>11. free' = unused \cap 0 .. LastOf(g)
  <2>1. (0 .. FirstOf(g) - 1) \cup FirstOf(g) .. LastOf(g) = 0 .. LastOf(g)
    BY <1>7
  <2> QED
    BY <1>4, <1>10, <2>1 DEF ours
<1>12. Len(rest') = 3 * (Groups - g) - 1 - 2
  BY <1>1, <1>10, ReadOn, Inside, GroupArith DEF InGroup
<1>13. /\ group' = <<FirstOf(g), LastOf(g)>> /\ nextGroup' = g + 1 /\ nextBlock' = LastOf(g) + 1
       /\ groupFree' = Cardinality(ours)
  BY <1>4, <1>10 DEF InGroup
<1> QED
  BY <1>10, <1>11, <1>12, <1>13 DEF InGroup, ours

\* What a group that has been read says of itself is so.
LEMMA CompleteGroup ==
  ASSUME used \in SUBSET Block, NEW g \in 0 .. Groups - 1, InGroup(g, 2)
  PROVE  GroupComplete
<1> DEFINE unused == Block \ used
           ours == unused \cap FirstOf(g) .. LastOf(g)
<1>1. groupFree = Cardinality(ours) /\ listSeen /\ free = unused \cap 0 .. LastOf(g)
  BY DEF InGroup
<1>2. Cardinality(ours) \in Nat
  BY SizeOK
<1>3. groupFree # None
  BY <1>1, <1>2, UserdataConstantsOK
<1>4. free \cap FirstOf(g) .. LastOf(g) = ours
  BY <1>1, Extents
<1> HIDE DEF ours
<1>5. group[1] = FirstOf(g) /\ group[2] = LastOf(g)
  BY Inside
<1> QED
  BY <1>1, <1>3, <1>4, <1>5 DEF GroupComplete

\* After a group that is not the last, the next one is begun.
LEMMA FromList ==
  ASSUME Intact, used \in SUBSET Block, LastLines, NEW g \in 0 .. Groups - 1, InGroup(g, 2),
         ReadLine
  PROVE  Read /\ g + 1 \in 0 .. Groups - 1 /\ InGroup(g + 1, 0)'
<1> DEFINE h == g + 1
<1>1. rest # <<>>
  BY DEF ReadLine, StartGroup, SkipLine, CountFree, ListFree, At
<1>2. Len(rest) = 3 * (Groups - g) - 3 /\ Len(rest) \in Nat \ {0} /\ Groups \in Nat
  BY <1>1, GroupArith DEF InGroup, LastLines
<1>3. h \in 0 .. Groups - 1 /\ g < Groups - 1 /\ 3 * Groups + 3 - Len(rest) = 3 * h + 3
  BY <1>2
<1>4. FirstOf(h) = LastOf(g) + 1
  BY <1>3, Extents
<1>5. FirstOf(h) \in Nat /\ LastOf(h) \in Nat /\ FirstOf(h) <= LastOf(h) /\ LastOf(h) < Blocks
  BY <1>3, Extents
<1> HIDE DEF h
<1>6. Line = GroupLine(h, FirstOf(h), LastOf(h))
  BY <1>1, <1>3, NextLine, GroupLineKinds
<1>7. /\ Line.kind = "group" /\ Line.number = h /\ Line.first = FirstOf(h)
      /\ Line.last = LastOf(h)
  BY <1>6 DEF GroupLine
<1>8. group # None /\ GroupComplete
  BY Inside, CompleteGroup
<1>9. nextGroup = h /\ nextBlock = FirstOf(h) /\ free = (Block \ used) \cap 0 .. LastOf(g)
  BY <1>4 DEF InGroup, h
<1>10. Follows
  BY <1>5, <1>7, <1>9 DEF Follows
<1>11. StartGroup
  BY <1>7, <1>8 DEF ReadLine, SkipLine, CountFree, ListFree, At
<1>12. /\ Read /\ group' = <<FirstOf(h), LastOf(h)>> /\ groupFree' = None /\ listSeen' = FALSE
       /\ nextGroup' = h + 1 /\ nextBlock' = LastOf(h) + 1 /\ free' = free /\ used' = used
  BY <1>7, <1>8, <1>9, <1>10, <1>11 DEF StartGroup, Read
<1>13. Len(rest') = 3 * (Groups - h) - 1 - 0
  BY <1>1, <1>2, <1>12, ReadOn DEF h
<1>14. FirstOf(h) - 1 = LastOf(g)
  BY <1>4, <1>5, Extents
<1>15. free' = (Block \ used') \cap 0 .. FirstOf(h) - 1
  BY <1>9, <1>12, <1>14
<1>16. InGroup(h, 0)'
  BY <1>12, <1>13, <1>15 DEF InGroup
<1> QED
  BY <1>3, <1>12, <1>16 DEF h

\* The end of an intact listing comes after the last group, and the map is accepted.
LEMMA FromLast ==
  ASSUME IntactInv, Intact, EndOfReport
  PROVE  phase' = "runs"
<1> DEFINE unused == Block \ used
<1>1. /\ phase = "lines" /\ rest = <<>> /\ used \in SUBSET Block /\ 0 \in used /\ LastLines
      /\ HeadersOK
      /\ BeforeGroups \/ \E g \in 0 .. Groups - 1, k \in 0 .. 2 : InGroup(g, k)
  BY DEF EndOfReport, IntactInv
<1>2. Len(rest) = 0 /\ Groups \in Nat \ {0} /\ ~ BeforeGroups
  BY <1>1, GroupArith DEF BeforeGroups
<1>3. PICK g \in 0 .. Groups - 1, k \in 0 .. 2 : InGroup(g, k)
  BY <1>1, <1>2
<1>4. 0 = 3 * (Groups - g) - 1 - k
  BY <1>2, <1>3 DEF InGroup
<1>5. g = Groups - 1 /\ k = 2
  BY <1>2, <1>4
<1>6. LastOf(g) = Blocks - 1
  BY <1>5, Extents
<1>7. nextBlock = Blocks /\ free = unused
  <2>1. nextBlock = LastOf(g) + 1 /\ free = unused \cap 0 .. LastOf(g)
    BY <1>3, <1>5 DEF InGroup
  <2>2. unused \cap 0 .. LastOf(g) = unused
    BY <1>6 DEF Block
  <2> QED
    BY <1>6, <2>1, <2>2, UserdataConstantsOK
<1>8. GroupComplete
  BY <1>1, <1>3, <1>5, CompleteGroup
<1>9. Value("Free blocks") = Cardinality(unused)
  BY <1>1, IntactSays, Zenon
<1>10. Blocks - Cardinality(free) <= Budget
  <2>1. IsFiniteSet(Block) /\ Cardinality(Block) = Blocks
    BY BlockNat
  <2>2. Cardinality(Block \ used) = Cardinality(Block) - Cardinality(Block \cap used)
    BY <2>1, FS_Difference
  <2>3. Block \cap used = used /\ Cardinality(used) \in Nat /\ Cardinality(used) <= Budget
    BY <1>1, SizeOK DEF Intact
  <2>4. Cardinality(free) = Blocks - Cardinality(used)
    BY <1>7, <2>1, <2>2, <2>3, Zenon
  <2>5. \A c \in Nat : c <= Budget => Blocks - (Blocks - c) <= Budget
    BY UserdataConstantsOK
  <2> QED
    BY <2>3, <2>4, <2>5, Zenon
<1>11. MapOK
  BY <1>1, <1>7, <1>8, <1>9, Zenon DEF MapOK
<1> QED
  BY <1>1, <1>10, <1>11 DEF EndOfReport

LEMMA SamePlace ==
  ASSUME UNCHANGED <<used, report, rest, reading>>
  PROVE  /\ LastLines => LastLines'
         /\ BeforeGroups => BeforeGroups'
         /\ \A g, k : InGroup(g, k) => InGroup(g, k)'
BY DEF LastLines, BeforeGroups, InGroup, reading

LEMMA IntactStep ==
  ASSUME IntactInv, [Next]_vars
  PROVE  IntactInv' /\ (Intact /\ phase \in {"headers", "lines"} => phase' # "refused")
<1>1. CASE ~ (Intact /\ phase \in {"headers", "lines"})
  <2>1. phase' \in {"headers", "lines"} => phase \in {"headers", "lines"}
    BY DEF Next, ReadHeaders, ReadLine, StartGroup, SkipLine, CountFree, ListFree, Read, Refuse,
           EndOfReport, NextRun, RunsDone, WriteChunk, Validate, Flash, Done, vars
  <2>2. UNCHANGED <<used, report>>
    BY DEF Next, ReadHeaders, ReadLine, StartGroup, SkipLine, CountFree, ListFree, Read, Refuse,
           EndOfReport, NextRun, RunsDone, WriteChunk, Validate, Flash, Done, vars
  <2>3. ~ (Intact' /\ phase' \in {"headers", "lines"})
    BY <1>1, <2>1, <2>2 DEF Intact
  <2> QED
    BY <1>1, <2>3 DEF IntactInv
<1>2. CASE Intact /\ phase \in {"headers", "lines"}
  <2>1. /\ used \in SUBSET Block /\ 0 \in used /\ LastLines /\ (phase = "lines" => HeadersOK)
        /\ BeforeGroups \/ \E g \in 0 .. Groups - 1, k \in 0 .. 2 : InGroup(g, k)
    BY <1>2 DEF IntactInv
  <2>2. CASE ReadHeaders
    <3>1. phase' = "lines" /\ UNCHANGED <<used, report, rest, reading>>
      BY <1>2, <2>1, <2>2, IntactHeaders DEF ReadHeaders
    <3> QED
      BY <2>1, <3>1, <1>2, IntactHeaders, SameHeaders, SamePlace DEF IntactInv
  <2>3. CASE ReadLine
    <3>1. phase = "lines" /\ rest # <<>>
      BY <2>3 DEF ReadLine, StartGroup, SkipLine, CountFree, ListFree, At
    <3>2. Read /\ (BeforeGroups' \/ \E g \in 0 .. Groups - 1, k \in 0 .. 2 : InGroup(g, k)')
      <4>1. CASE BeforeGroups
        <5>1. 0 \in 0 .. Groups - 1 /\ 0 \in 0 .. 2
          BY GroupArith
        <5> QED
          BY <1>2, <2>1, <2>3, <4>1, <5>1, FromHeaders
      <4>2. ASSUME NEW g \in 0 .. Groups - 1, NEW k \in 0 .. 2, InGroup(g, k)
            PROVE  Read /\ \E h \in 0 .. Groups - 1, j \in 0 .. 2 : InGroup(h, j)'
        <5>1. CASE k = 0
          BY <1>2, <2>1, <2>3, <4>2, <5>1, FromGroup
        <5>2. CASE k = 1
          BY <1>2, <2>1, <2>3, <4>2, <5>2, FromCount
        <5>3. CASE k = 2
          BY <1>2, <2>1, <2>3, <4>2, <5>3, FromList
        <5> QED
          BY <5>1, <5>2, <5>3
      <4> QED
        BY <2>1, <4>1, <4>2
    <3>3. LastLines'
      BY <2>1, <3>1, <3>2, ReadOn
    <3>4. UNCHANGED <<used, report, phase>>
      BY <3>2 DEF Read
    <3>5. HeadersOK'
      BY <2>1, <3>1, <3>4, SameHeaders
    <3> QED
      BY <2>1, <3>1, <3>2, <3>3, <3>4, <3>5 DEF IntactInv
  <2>4. CASE EndOfReport
    <3>1. phase' = "runs"
      BY <1>2, <2>4, FromLast
    <3> QED
      BY <3>1 DEF IntactInv
  <2>5. CASE UNCHANGED vars
    BY <1>2, <2>1, <2>5, SameHeaders, SamePlace DEF IntactInv, vars
  <2> QED
    BY <1>2, <2>2, <2>3, <2>4, <2>5
    DEF Next, NextRun, RunsDone, WriteChunk, Validate, Flash, Done
<1> QED
  BY <1>1, <1>2

LEMMA InitIntact == Init => IntactInv
<1> SUFFICES ASSUME Init, Intact PROVE IntactInv
  BY DEF IntactInv
<1>1. /\ used \in SUBSET Block /\ 0 \in used /\ report = Listing(Block \ used) /\ rest = report
      /\ phase = "headers"
  BY DEF Init, Intact
<1>2. report \in Seq(Lines(Block \ used)) /\ Len(report) = 3 * Groups + 2 /\ Groups \in Nat
  BY <1>1, ListingLines, ListingIs, GroupArith
<1>3. LastLines
  BY <1>1, <1>2 DEF LastLines
<1>4. BeforeGroups
  BY <1>1, <1>2 DEF BeforeGroups, Init
<1> QED
  BY <1>1, <1>3, <1>4 DEF IntactInv

\* The listing of a filesystem that fits is never refused: after each of its lines the
\* parser stands where the line before it leaves off, in the group that comes next.
THEOREM IntactPasses == Spec => IntactNotRefused
<1>1. Spec => []IntactInv
  BY InitIntact, IntactStep, PTL DEF Spec
<1>2. IntactInv /\ [Next]_vars
        => [Intact /\ phase \in {"headers", "lines"} => phase' # "refused"]_vars
  BY IntactStep
<1> QED
  BY <1>1, <1>2, PTL DEF Spec, IntactNotRefused

-----------------------------------------------------------------------------
(* Formatting *)

\* Nothing is programmed before the flash, nor ahead of the chunks that are left.
Untouched ==
  /\ target \in [Block -> Block \cup {Stale}]
  /\ phase \in {"headers", "lines", "runs", "copy"} => \A b \in Block : target[b] = Stale
  /\ phase = "flash" =>
       \A b \in Block : b >= EndOf(Len(runs) - Len(image)) => target[b] = Stale

\* A step other than the flash programs nothing, and the flash begins at the first chunk.
LEMMA NotYetFlashing ==
  ASSUME ImageInv, Untouched, [Next]_vars, ~ Flash
  PROVE  Untouched' /\ UNCHANGED <<used, target>>
<1>1. UNCHANGED <<used, target>>
  BY DEF Next, ReadHeaders, ReadLine, StartGroup, SkipLine, CountFree, ListFree, Read, Refuse,
         EndOfReport, NextRun, RunsDone, WriteChunk, Validate, Done, vars
<1>2. CASE phase' \in {"headers", "lines", "runs", "copy"}
  <2>1. phase \in {"headers", "lines", "runs", "copy"}
    BY <1>2 DEF Next, ReadHeaders, ReadLine, StartGroup, SkipLine, CountFree, ListFree, Read,
         Refuse, EndOfReport, NextRun, RunsDone, WriteChunk, Validate, Done, vars
  <2> QED
    BY <1>1, <1>2, <2>1 DEF Untouched
<1>3. CASE phase' = "flash"
  <2>1. UNCHANGED <<runs, image>> /\ (phase = "flash" \/ phase = "copy")
    BY <1>3 DEF Next, ReadHeaders, ReadLine, StartGroup, SkipLine, CountFree, ListFree, Read,
         Refuse, EndOfReport, NextRun, RunsDone, WriteChunk, Validate, Done, vars
  <2>2. \A n : EndOf(n)' = EndOf(n)
    BY <2>1 DEF EndOf
  <2>3. \A b \in Block : b >= EndOf(Len(runs) - Len(image)) => target[b] = Stale
    BY <2>1 DEF Untouched
  <2> QED
    BY <1>1, <1>3, <2>1, <2>2, <2>3 DEF Untouched
<1>4. CASE phase' \notin {"headers", "lines", "runs", "copy", "flash"}
  BY <1>1, <1>4 DEF Untouched
<1> QED
  BY <1>2, <1>3, <1>4

\* The flash of a chunk programs the live blocks of its run, which nothing touched before.
LEMMA FlashPrograms ==
  ASSUME ImageInv, Untouched, Flash, image # <<>>, phase' # "refused"
  PROVE  /\ Untouched' /\ phase' = "flash"
         /\ \E blocks \in SUBSET {b \in used : target[b] = Stale} :
              target' = [b \in Block |-> IF b \in blocks THEN b ELSE target[b]]
<1> DEFINE k == Len(runs) - Len(image)
           chunk == Head(image)
           start == Blocks - Total(image)
<1>1. /\ phase = "flash" /\ UNCHANGED <<used, free, phase, runs>> /\ image' = Tail(image)
      /\ target' = [b \in Block |->
                      IF chunk.type = "RAW" /\ b \in start .. start + chunk.blocks - 1
                      THEN chunk.data[b - start + 1] ELSE target[b]]
  BY DEF Flash, reading
<1>2. /\ k \in Nat /\ chunk \in ChunkSet /\ EndOf(k) \in Nat /\ EndOf(k + 1) \in Nat
      /\ EndOf(k) < EndOf(k + 1) /\ EndOf(k + 1) <= Blocks
      /\ start = EndOf(k) /\ EndOf(k) + chunk.blocks = EndOf(k + 1)
      /\ \/ /\ chunk.type = "DONT_CARE"
            /\ \A b \in EndOf(k) .. EndOf(k + 1) - 1 : b \in free
         \/ /\ chunk.type = "RAW"
            /\ \A b \in EndOf(k) .. EndOf(k + 1) - 1 :
                 b \notin free /\ chunk.data[b - EndOf(k) + 1] = Raw(b)
  BY <1>1, NextChunk
<1>3. Len(runs') - Len(image') = k + 1
  BY <1>1 DEF ImageInv, Splitting, Copying
<1>4. free = Block \ used /\ used \in SUBSET Block /\ Blocks \in Nat
  BY <1>1, UserdataConstantsOK DEF ImageInv, Reading, Running
<1>5. /\ target \in [Block -> Block \cup {Stale}]
      /\ \A b \in Block : b >= EndOf(k) => target[b] = Stale
  BY <1>1 DEF Untouched
<1>6. \A n : EndOf(n)' = EndOf(n)
  BY <1>1 DEF EndOf
<1> DEFINE here == EndOf(k) .. EndOf(k + 1) - 1
           blocks == IF chunk.type = "RAW" THEN here ELSE {}
<1> HIDE DEF k, chunk, start
<1>7. start .. start + chunk.blocks - 1 = here
  <2>1. start = EndOf(k) /\ start \in Nat /\ chunk.blocks \in Nat
    BY <1>2 DEF ChunkSet
  <2>2. start + chunk.blocks - 1 = EndOf(k + 1) - 1
    BY <1>2, <2>1
  <2> QED
    BY <2>1, <2>2, Zenon
<1>8. here \subseteq Block /\ \A b \in here : b >= EndOf(k)
  BY <1>2, <1>4 DEF Block
<1>9. target' = [b \in Block |-> IF b \in blocks THEN b ELSE target[b]]
  <2>1. CASE chunk.type = "RAW"
    <3>1. \A b \in here : chunk.data[b - start + 1] = b
      BY <1>2, <2>1 DEF Raw
    <3> QED
      BY <1>1, <1>7, <2>1, <3>1
  <2>2. CASE chunk.type # "RAW"
    BY <1>1, <2>2
  <2> QED
    BY <2>1, <2>2
<1>10. blocks \in SUBSET {b \in used : target[b] = Stale}
  <2>1. chunk.type = "RAW" => \A b \in here : b \notin free
    BY <1>2
  <2> HIDE DEF here
  <2> QED
    BY <1>4, <1>5, <1>8, <2>1
<1>11. Untouched'
  <2>1. blocks \subseteq here
    OBVIOUS
  <2>2. target' \in [Block -> Block \cup {Stale}]
    BY <1>5, <1>9
  <2>3. ASSUME NEW b \in Block, b >= EndOf(k + 1)
        PROVE  target'[b] = Stale
    <3>1. b \notin here /\ b >= EndOf(k)
      BY <1>2, <1>4, <2>3 DEF Block
    <3> QED
      BY <1>5, <1>9, <2>1, <3>1
  <2> HIDE DEF blocks, here
  <2> QED
    BY <1>1, <1>3, <1>6, <2>2, <2>3 DEF Untouched
<1> HIDE DEF blocks
<1> QED
  BY <1>1, <1>9, <1>10, <1>11

LEMMA UntouchedStep ==
  ASSUME ImageInv, Untouched, [Next]_vars
  PROVE  Untouched'
<1>1. CASE Flash /\ image # <<>> /\ phase' # "refused"
  BY <1>1, FlashPrograms
<1>2. CASE Flash /\ ~ (image # <<>> /\ phase' # "refused")
  <2>1. target' = target /\ phase' \in {"flashed", "refused"}
    BY <1>2 DEF Flash
  <2> QED
    BY <2>1 DEF Untouched
<1> QED
  BY <1>1, <1>2, NotYetFlashing

\* What formatting does to the partition, for filesystems and groups of any size.
THEOREM ImageFormats == Spec => ImplementsFormat
<1>1. Init => Untouched /\ Formatting!Init
  BY DEF Init, Untouched, Formatting!Init
<1>2. ImageInv /\ Untouched /\ ImageInv' /\ [Next]_vars => [Formatting!Next]_(Formatting!vars)
  <2> SUFFICES ASSUME ImageInv, Untouched, ImageInv', [Next]_vars
               PROVE  [Formatting!Next]_(Formatting!vars)
    OBVIOUS
  <2> USE DEF Formatting!vars, Formatting!Next
  <2>1. CASE Flash /\ image # <<>> /\ phase' # "refused"
    <3>1. phase = "flash" /\ phase' = "flash" /\ used' = used
      BY <2>1, FlashPrograms DEF Flash
    <3>2. Formatting!Program
      BY <2>1, <3>1, FlashPrograms DEF Formatting!Program
    <3> QED
      BY <3>2
  <2>2. CASE Flash /\ image # <<>> /\ phase' = "refused"
    <3>1. phase = "flash" /\ UNCHANGED <<used, target>>
      BY <2>2 DEF Flash
    <3> QED
      BY <2>2, <3>1 DEF Formatting!Fail
  <2>3. CASE Flash /\ image = <<>>
    <3>1. phase = "flash" /\ phase' = "flashed" /\ UNCHANGED <<used, target>>
      BY <2>3 DEF Flash
    <3>2. \A b \in used : target[b] = b
      <4>1. /\ Splitting /\ Covers(runs) = Blocks /\ free = Block \ used /\ used \in SUBSET Block
            /\ Len(runs) - Len(image) = Len(runs)
            /\ \A b \in 0 .. EndOf(Len(runs) - Len(image)) - 1 : b \notin free => target[b] = b
        BY <2>3, <3>1 DEF ImageInv, Splitting, Flashing, Reading, Running, Raw
      <4>2. EndOf(Len(runs) - Len(image)) = Blocks
        BY <4>1, CoversOK
      <4> QED
        BY <4>1, <4>2 DEF Block
    <3> QED
      BY <3>1, <3>2 DEF Formatting!Finish
  <2>4. CASE ~ Flash
    <3>1. UNCHANGED <<used, target>>
      BY <2>4, NotYetFlashing
    <3>2. phase' # "disowned" /\ phase # "disowned"
      BY DEF ImageInv, OwnImageValid
    <3>3. /\ phase' = "flashed" => phase = "flashed"
          /\ phase = "flashed" => phase' = "flashed"
          /\ phase = "refused" => phase' = "refused"
      BY <2>4 DEF Next, ReadHeaders, ReadLine, StartGroup, SkipLine, CountFree, ListFree, Read,
         At, Refuse, EndOfReport, NextRun, RunsDone, WriteChunk, Validate, Done, vars
    <3> QED
      BY <3>1, <3>2, <3>3 DEF Formatting!Fail
  <2> QED
    BY <2>1, <2>2, <2>3, <2>4
<1>3. Spec => []ImageInv
  BY SpecScrambled, ScrambledInv, ImageStep, PTL DEF ScrambledSpec
<1>4. ImageInv /\ Untouched /\ [Next]_vars => Untouched'
  BY UntouchedStep
<1>5. Spec => []Untouched
  BY <1>1, <1>3, <1>4, PTL DEF Spec
<1> QED
  BY <1>1, <1>2, <1>3, <1>5, PTL DEF Spec, ImplementsFormat, Formatting!Spec

-----------------------------------------------------------------------------
(* Types *)

\* What the parser keeps between two lines.
ReadTyped ==
  /\ group \in (Block \X Block) \cup {None}
  /\ nextGroup \in 0 .. Groups /\ nextBlock \in 0 .. Blocks
  /\ groupFree \in 0 .. Blocks \cup {None} /\ listSeen \in BOOLEAN

\* The numbers in the lines of a group.
LEMMA LineTyped ==
  ASSUME NEW unused \in SUBSET Block, NEW line \in Lines(unused)
  PROVE  /\ line.kind = "group" =>
              line.number \in 0 .. Groups - 1 /\ line.first \in Nat /\ line.last \in Nat
         /\ line.kind = "count" => line.n \in 0 .. Blocks
<1>1. CASE line \in {Header("Block count", Blocks), Header("Free blocks", Cardinality(unused))}
  <2>1. line = Header("Block count", Blocks) \/ line = Header("Free blocks", Cardinality(unused))
    BY <1>1, Zenon
  <2>2. /\ Header("Block count", Blocks).kind = "header"
        /\ Header("Free blocks", Cardinality(unused)).kind = "header"
    BY Zenon DEF Header
  <2>3. line.kind = "header"
    BY <2>1, <2>2, Zenon
  <2>4. "header" # "group" /\ "header" # "count"
    OBVIOUS
  <2> QED
    BY <2>3, <2>4, Zenon
<1>2. ASSUME NEW g \in 0 .. Groups - 1, NEW k \in 1 .. 3, line = GroupLines(g, unused)[k]
      PROVE  /\ line.kind = "group" =>
                  line.number \in 0 .. Groups - 1 /\ line.first \in Nat /\ line.last \in Nat
             /\ line.kind = "count" => line.n \in 0 .. Blocks
  <2> DEFINE ours == unused \cap FirstOf(g) .. LastOf(g)
  <2>1. GroupLines(g, unused) = <<GroupLine(g, FirstOf(g), LastOf(g)),
                                  CountLine(Cardinality(ours)), RangesLine(RunsOf(ours))>>
    BY DEF GroupLines, FirstOf, LastOf
  <2>2. FirstOf(g) \in Nat /\ LastOf(g) \in Nat /\ Cardinality(ours) \in 0 .. Blocks
    BY Extents, SizeOK
  <2> HIDE DEF ours
  <2>3. \/ line = GroupLine(g, FirstOf(g), LastOf(g))
        \/ line = CountLine(Cardinality(ours)) \/ line = RangesLine(RunsOf(ours))
    BY <1>2, <2>1
  <2>4. CASE line = GroupLine(g, FirstOf(g), LastOf(g))
    BY <2>2, <2>4 DEF GroupLine
  <2>5. CASE line = CountLine(Cardinality(ours))
    BY <2>2, <2>5 DEF CountLine
  <2>6. CASE line = RangesLine(RunsOf(ours))
    BY <2>6 DEF RangesLine
  <2> QED
    BY <2>3, <2>4, <2>5, <2>6
<1>3. \/ line \in {Header("Block count", Blocks), Header("Free blocks", Cardinality(unused))}
      \/ \E g \in 0 .. Groups - 1, k \in 1 .. 3 : line = GroupLines(g, unused)[k]
  <2>1. ASSUME NEW S \in {{GroupLines(g, unused)[k] : k \in 1 .. 3} : g \in 0 .. Groups - 1},
               line \in S
        PROVE  \E g \in 0 .. Groups - 1, k \in 1 .. 3 : line = GroupLines(g, unused)[k]
    <3>1. PICK g \in 0 .. Groups - 1 : S = {GroupLines(g, unused)[k] : k \in 1 .. 3}
      BY Zenon
    <3>2. PICK k \in 1 .. 3 : line = GroupLines(g, unused)[k]
      BY <2>1, <3>1, Zenon
    <3> QED
      BY <3>2, Zenon
  <2>2. \/ line \in {Header("Block count", Blocks), Header("Free blocks", Cardinality(unused))}
        \/ line \in UNION {{GroupLines(g, unused)[k] : k \in 1 .. 3} : g \in 0 .. Groups - 1}
    BY Zenon DEF Lines
  <2> QED
    BY <2>1, <2>2, Zenon
<1> QED
  BY <1>1, <1>2, <1>3, Zenon

LEMMA ReadTypedStep ==
  ASSUME ImageInv, ReadTyped, [Next]_vars
  PROVE  ReadTyped'
<1>1. CASE UNCHANGED reading
  BY <1>1 DEF ReadTyped, reading
<1>2. CASE UNCHANGED <<group, nextGroup, nextBlock>>
           /\ groupFree' \in 0 .. Blocks \cup {None} /\ listSeen' \in BOOLEAN
  BY <1>2 DEF ReadTyped
<1>3. CASE At("count") /\ groupFree' = Line.n
           /\ UNCHANGED <<free, group, nextGroup, nextBlock, listSeen>>
  <2>1. Line \in Lines(Block \ used) /\ Line.kind = "count"
    BY <1>3 DEF At, Line, ImageInv, Reading
  <2>2. Line.n \in 0 .. Blocks
    BY <2>1, LineTyped
  <2> QED
    BY <1>2, <1>3, <2>2 DEF ReadTyped
<1>4. CASE /\ At("group") /\ Follows
           /\ group' = <<Line.first, Line.last>> /\ groupFree' = None /\ listSeen' = FALSE
           /\ nextGroup' = nextGroup + 1 /\ nextBlock' = Line.last + 1
  <2>1. Line \in Lines(Block \ used) /\ Line.kind = "group"
    BY <1>4 DEF At, Line, ImageInv, Reading
  <2>2. Line.number \in 0 .. Groups - 1 /\ Line.first \in Nat /\ Line.last \in Nat
    BY <2>1, LineTyped
  <2>3. Line.number = nextGroup /\ Line.first <= Line.last /\ Line.last < Blocks
    BY <1>4 DEF Follows
  <2>4. Blocks \in Nat /\ Groups \in Nat
    BY UserdataConstantsOK, GroupArith
  <2>5. nextGroup + 1 \in 0 .. Groups /\ Line.last + 1 \in 0 .. Blocks
    BY <2>2, <2>3, <2>4
  <2>6. Line.first \in Block /\ Line.last \in Block
    BY <2>2, <2>3, <2>4 DEF Block
  <2> QED
    BY <1>4, <2>5, <2>6 DEF ReadTyped
<1> QED
  <2>1. CASE ReadLine
    BY <1>1, <1>2, <1>3, <1>4, <2>1
    DEF ReadLine, StartGroup, SkipLine, CountFree, ListFree, Refuse, ReadTyped
  <2>2. CASE ~ ReadLine
    <3>1. UNCHANGED reading
      BY <2>2 DEF Next, ReadHeaders, Refuse, EndOfReport, NextRun, RunsDone, WriteChunk,
                  Validate, Flash, Done, vars
    <3> QED
      BY <1>1, <3>1
  <2> QED
    BY <2>1, <2>2

\* Everything stays what it is declared to be: no run, range or count leaves the
\* filesystem.
THEOREM TypeCorrect == Spec => []TypeOK
<1>1. Init => ReadTyped /\ Untouched
  <2> SUFFICES ASSUME Init PROVE ReadTyped /\ Untouched
    OBVIOUS
  <2>1. Groups \in Nat /\ 0 \in 0 .. Groups
    BY GroupArith
  <2>2. Blocks \in Nat /\ 0 \in 0 .. Blocks
    BY UserdataConstantsOK
  <2>3. group = None /\ groupFree = None /\ listSeen = FALSE /\ nextGroup = 0 /\ nextBlock = 0
    BY DEF Init
  <2>4. ReadTyped
    BY <2>1, <2>2, <2>3 DEF ReadTyped
  <2>5. Untouched
    BY DEF Init, Untouched
  <2> QED
    BY <2>4, <2>5
<1>2. Spec => []ImageInv
  BY SpecScrambled, ScrambledInv, ImageStep, PTL DEF ScrambledSpec
<1>3. ImageInv /\ ReadTyped /\ Untouched /\ [Next]_vars => ReadTyped' /\ Untouched'
  BY ReadTypedStep, UntouchedStep
<1>4. ImageInv /\ ReadTyped /\ Untouched => TypeOK
  <2> SUFFICES ASSUME ImageInv, ReadTyped, Untouched PROVE TypeOK
    OBVIOUS
  <2>1. used \subseteq Block /\ free \subseteq Block
    BY DEF ImageInv, Reading
  <2>2. \A n \in 1 .. Len(runs) : runs[n] \in RunSet
    BY ElementOfSeq DEF ImageInv, Splitting
  <2> QED
    BY <2>1, <2>2 DEF TypeOK, ReadTyped, Untouched, ImageInv, RunSet
<1> QED
  BY <1>1, <1>2, <1>3, <1>4, PTL DEF Spec

-----------------------------------------------------------------------------
(* The end *)

\* What is left to read, to split and to write before the image is looked at.
Ahead == Len(rest) + 3 * (Blocks - Covers(runs)) + 2 * Len(runs) - Len(image)
\* A bound on the steps that are left: a line, a run or a chunk at a time.
Remaining ==
  CASE phase = "headers" -> Ahead + 5
    [] phase = "lines" -> Ahead + 4
    [] phase = "runs" -> Ahead + 3
    [] phase = "copy" -> Ahead + 2
    [] phase = "flash" -> Len(image) + 1
    [] OTHER -> 0

\* The numbers Remaining is made of.
LEMMA AheadOK ==
  ASSUME ImageInv
  PROVE  /\ Len(rest) \in Nat /\ Len(runs) \in Nat /\ Len(image) \in Nat /\ Blocks \in Nat
         /\ Covers(runs) \in 0 .. Blocks
         /\ phase \in {"headers", "lines", "runs", "copy"} => Len(image) <= Len(runs)
         /\ Remaining \in Nat
<1>1. /\ Len(rest) \in Nat /\ Len(runs) \in Nat /\ Len(image) \in Nat /\ Blocks \in Nat
      /\ phase \in {"headers", "lines", "runs"} => Len(image) = 0
      /\ phase = "copy" => Len(image) <= Len(runs)
  BY UserdataConstantsOK DEF ImageInv, Reading, Splitting, Copying
<1>2. Covers(runs) \in 0 .. Blocks
  BY CoversOK DEF ImageInv
<1>3. phase \in {"headers", "lines", "runs", "copy"} => Len(image) <= Len(runs) /\ Ahead \in Nat
  BY <1>1, <1>2 DEF Ahead
<1> QED
  BY <1>1, <1>2, <1>3 DEF Remaining

LEMMA AheadIs ==
  /\ Ahead = Len(rest) + 3 * (Blocks - Covers(runs)) + 2 * Len(runs) - Len(image)
  /\ Ahead' = Len(rest') + 3 * (Blocks - Covers(runs')) + 2 * Len(runs') - Len(image')
BY DEF Ahead, Covers

LEMMA AheadSame ==
  ASSUME UNCHANGED <<rest, runs, image>>
  PROVE  UNCHANGED Ahead
BY AheadIs, Zenon

\* A run ends after it starts, and inside the filesystem.
LEMMA RunsGrow ==
  ASSUME ImageInv, NextRun
  PROVE  Len(runs') = Len(runs) + 1 /\ Covers(runs') \in Covers(runs) + 1 .. Blocks
<1> DEFINE start == Covers(runs)
           ends == {e \in start + 1 .. Blocks :
                      /\ \A b \in start .. e - 1 : Same(b, start)
                      /\ e = Blocks \/ ~ Same(e, start)}
           e == CHOOSE x \in ends : TRUE
           r == [end |-> e, start |-> start, unused |-> start \in free]
<1>1. start < Blocks /\ runs' = Append(runs, r) /\ runs \in Seq(RunSet)
  BY DEF NextRun, ImageInv, Splitting
<1>2. start \in 0 .. Blocks
  BY CoversOK DEF ImageInv
<1>3. start \in Block
  BY <1>1, <1>2, UserdataConstantsOK DEF Block
<1>4. e \in ends
  BY <1>3, RunEndExists
<1>5. e \in start + 1 .. Blocks
  BY <1>4
<1>6. r.end = e
  OBVIOUS
<1> HIDE DEF e, r
<1>7. Len(runs') = Len(runs) + 1 /\ runs'[Len(runs')] = r /\ runs' # <<>>
  BY <1>1
<1>8. Covers(runs') = e
  BY <1>6, <1>7 DEF Covers, Last
<1> QED
  BY <1>5, <1>7, <1>8

LEMMA Closer ==
  ASSUME ImageInv, Next, vars' # vars
  PROVE  Remaining' < Remaining
<1> DEFINE Open == phase \in {"headers", "lines", "runs", "copy"}
<1>1. /\ Len(rest) \in Nat /\ Len(runs) \in Nat /\ Len(image) \in Nat /\ Blocks \in Nat
      /\ Covers(runs) \in 0 .. Blocks /\ (Open => Len(image) <= Len(runs))
  BY AheadOK
<1>2. Open => Ahead \in Nat
  BY <1>1 DEF Ahead
<1>3. ASSUME phase' = "refused", phase \in {"headers", "lines", "runs", "copy", "flash"}
      PROVE  Remaining' < Remaining
  BY <1>1, <1>2, <1>3 DEF Remaining
<1>4. CASE ReadHeaders
  <2>1. /\ phase = "headers"
        /\ phase' = "refused" \/ (phase' = "lines" /\ UNCHANGED <<rest, runs, image>>)
    BY <1>4 DEF ReadHeaders, Refuse
  <2> QED
    BY <1>2, <1>3, <2>1, AheadSame DEF Remaining
<1>5. CASE ReadLine
  <2>1. CASE Refuse
    <3>1. phase = "lines" /\ phase' = "refused"
      BY <1>5, <2>1 DEF ReadLine, StartGroup, SkipLine, CountFree, ListFree, At, Refuse
    <3> QED
      BY <1>3, <3>1
  <2>2. CASE ~ Refuse
    <3>1. phase = "lines" /\ rest # <<>> /\ Read
      BY <1>5, <2>2 DEF ReadLine, StartGroup, SkipLine, CountFree, ListFree, At
    <3>2. Len(rest') = Len(rest) - 1 /\ phase' = "lines" /\ UNCHANGED <<runs, image>>
      BY <3>1 DEF Read, ImageInv, Reading
    <3>3. Ahead' = Len(rest') + 3 * (Blocks - Covers(runs)) + 2 * Len(runs) - Len(image)
      BY <3>2, AheadIs, Zenon
    <3>4. Ahead' = Ahead - 1
      <4> DEFINE r == Len(rest)
                 c == Covers(runs)
                 l == Len(runs)
                 m == Len(image)
      <4>1. r \in Nat /\ c \in Nat /\ l \in Nat /\ m \in Nat /\ Blocks \in Nat
        BY <1>1
      <4>2. /\ Ahead = r + 3 * (Blocks - c) + 2 * l - m
            /\ Ahead' = (r - 1) + 3 * (Blocks - c) + 2 * l - m
        BY <3>2, <3>3, AheadIs, Zenon
      <4> HIDE DEF r, c, l, m
      <4> QED
        BY <4>1, <4>2
    <3> QED
      BY <1>2, <3>1, <3>2, <3>4 DEF Remaining
  <2> QED
    BY <2>1, <2>2
<1>6. CASE EndOfReport
  <2>1. /\ phase = "lines"
        /\ phase' = "refused" \/ (phase' = "runs" /\ UNCHANGED <<rest, runs, image>>)
    BY <1>6 DEF EndOfReport, Refuse
  <2> QED
    BY <1>2, <1>3, <2>1, AheadSame DEF Remaining
<1>7. CASE NextRun
  <2>1. phase = "runs" /\ phase' = "runs" /\ UNCHANGED <<rest, image>>
    BY <1>7 DEF NextRun
  <2>2. Len(runs') = Len(runs) + 1 /\ Covers(runs') \in Covers(runs) + 1 .. Blocks
    BY <1>7, RunsGrow
  <2>3. Ahead' = Len(rest) + 3 * (Blocks - Covers(runs')) + 2 * (Len(runs) + 1) - Len(image)
    BY <2>1, <2>2, AheadIs, Zenon
  <2>4. Ahead = Len(rest) + 3 * (Blocks - Covers(runs)) + 2 * Len(runs) - Len(image)
    BY AheadIs
  <2>5. Ahead' < Ahead /\ Ahead' \in Int
    <3> DEFINE c == Covers(runs)
               d == Covers(runs')
    <3>1. c \in 0 .. Blocks /\ d \in c + 1 .. Blocks
      BY <1>1, <2>2
    <3> HIDE DEF c, d
    <3>2. /\ Ahead = Len(rest) + 3 * (Blocks - c) + 2 * Len(runs) - Len(image)
          /\ Ahead' = Len(rest) + 3 * (Blocks - d) + 2 * (Len(runs) + 1) - Len(image)
      BY <2>3, <2>4 DEF c, d
    <3> QED
      BY <1>1, <3>1, <3>2
  <2> QED
    BY <1>2, <2>1, <2>5 DEF Remaining
<1>8. CASE RunsDone
  <2>1. phase = "runs" /\ phase' = "copy" /\ UNCHANGED <<rest, runs, image>>
    BY <1>8 DEF RunsDone
  <2> QED
    BY <1>2, <2>1, AheadSame DEF Remaining
<1>9. CASE WriteChunk
  <2>1. phase = "copy" /\ (phase' = "refused" \/ phase' = "copy")
    BY <1>9 DEF WriteChunk, Refuse
  <2>2. CASE phase' = "copy"
    <3>1. Len(image') = Len(image) + 1 /\ UNCHANGED <<rest, runs>>
      BY <1>9, <2>2 DEF WriteChunk, Refuse, ImageInv, Copying
    <3>2. Ahead' = Len(rest) + 3 * (Blocks - Covers(runs)) + 2 * Len(runs) - Len(image')
      BY <3>1, AheadIs, Zenon
    <3>3. Ahead' = Ahead - 1
      <4> DEFINE r == Len(rest)
                 c == Covers(runs)
                 l == Len(runs)
                 m == Len(image)
      <4>1. r \in Nat /\ c \in Nat /\ l \in Nat /\ m \in Nat /\ Blocks \in Nat
        BY <1>1
      <4>2. /\ Ahead = r + 3 * (Blocks - c) + 2 * l - m
            /\ Ahead' = r + 3 * (Blocks - c) + 2 * l - (m + 1)
        BY <3>1, <3>2, AheadIs, Zenon
      <4> HIDE DEF r, c, l, m
      <4> QED
        BY <4>1, <4>2
    <3> QED
      BY <1>2, <2>1, <2>2, <3>3 DEF Remaining
  <2> QED
    BY <1>3, <2>1, <2>2
<1>10. CASE Validate
  <2>1. /\ phase = "copy" /\ Len(image) = Len(runs) /\ phase' \in {"flash", "disowned"}
        /\ UNCHANGED <<rest, runs, image>>
    BY <1>10 DEF Validate
  <2>2. Len(image) <= Ahead
    BY <1>1, <2>1 DEF Ahead
  <2>3. Remaining = Ahead + 2 /\ Remaining' \in {Len(image) + 1, 0}
    BY <2>1 DEF Remaining
  <2> QED
    BY <1>1, <1>2, <2>1, <2>2, <2>3
<1>11. CASE Flash
  <2>1. phase = "flash" /\ phase' \in {"flash", "flashed", "refused"}
    BY <1>11 DEF Flash
  <2>2. CASE phase' = "flash"
    <3>1. Len(image') = Len(image) - 1
      BY <1>11, <2>1, <2>2 DEF Flash, ImageInv, Copying
    <3> QED
      BY <1>1, <2>1, <2>2, <3>1 DEF Remaining
  <2> QED
    BY <1>1, <2>1, <2>2 DEF Remaining
<1>12. ~ Done
  BY DEF Done
<1> QED
  BY <1>4, <1>5, <1>6, <1>7, <1>8, <1>9, <1>10, <1>11, <1>12 DEF Next

\* Formatting never goes round in circles: every step that changes anything brings the end
\* nearer, which the lines of the listing and three times the blocks bound from the start.
THEOREM ImageEnds ==
  Spec => /\ Remaining = Len(report) + 3 * Blocks + 5
          /\ [](Remaining \in Nat)
          /\ [][Remaining' < Remaining]_vars
<1>1. Init => Remaining = Len(report) + 3 * Blocks + 5
  <2> SUFFICES ASSUME Init PROVE Remaining = Len(report) + 3 * Blocks + 5
    OBVIOUS
  <2>1. ImageInv
    BY InitScrambled, ScrambledInv
  <2>2. phase = "headers" /\ rest = report /\ runs = <<>> /\ image = <<>>
    BY DEF Init
  <2>3. Covers(runs) = 0 /\ Len(runs) = 0 /\ Len(image) = 0
    BY <2>2 DEF Covers
  <2>4. Len(report) \in Nat /\ Blocks \in Nat
    BY <2>1, <2>2, AheadOK
  <2>5. Ahead = Len(report) + 3 * Blocks
    BY <2>2, <2>3, <2>4 DEF Ahead
  <2> QED
    BY <2>2, <2>4, <2>5 DEF Remaining
<1>2. Spec => []ImageInv
  BY SpecScrambled, ScrambledInv, ImageStep, PTL DEF ScrambledSpec
<1>3. ImageInv => Remaining \in Nat
  BY AheadOK
<1>4. ImageInv /\ [Next]_vars => [Remaining' < Remaining]_vars
  BY Closer
<1> QED
  BY <1>1, <1>2, <1>3, <1>4, PTL DEF Spec

=============================================================================
