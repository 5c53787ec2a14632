------------------------------ MODULE Fat32_proofs ------------------------------
(***************************************************************************)
(* What is proved about Fat32, for volumes of every size and content that  *)
(* VolumeAssumption admits and every number of calls, failed commands and  *)
(* power losses: types, and that chains stay apart and end, in the copy of *)
(* the table and on the disk.  For as long as no command failed, also that *)
(* directories have their dots in time, that entries stay where they were  *)
(* created, and that no name is added twice.                               *)
(***************************************************************************)
EXTENDS Fat32, FiniteSetTheorems, WellFoundedInduction, TLAPS

-----------------------------------------------------------------------------
(* Constants, least members and loops.                                     *)

LEMMA Constants ==
  /\ Total \in Nat /\ Total >= 3 /\ Slots \in Nat /\ Slots >= 2
  /\ Cluster \subseteq Nat /\ Root \in Cluster
  /\ 0 \notin Cluster /\ Free \notin Cluster /\ Eoc \notin Cluster /\ Eoc # Free /\ Free = 0
  /\ \A e \in FatEntry : e \notin Cluster => e = Free \/ e = Eoc
  /\ \A n \in Names : Needs(n) \in 1 .. Slots
BY Fat32Assumption DEF Cluster, Free, Eoc, FatEntry

LEMMA Least ==
  ASSUME NEW T \in SUBSET Nat, T # {}
  PROVE  \E m \in T : \A k \in T : m <= k
<1> DEFINE R == OpToRel(<, Nat)
<1>1. IsWellFoundedOn(R, Nat)
  BY NatLessThanWellFounded
<1>2. \A x, y \in Nat : << x, y >> \in R <=> x < y
  BY DEF OpToRel
<1> HIDE DEF R
<1>3. PICK x \in T : \A y \in T : ~ (<< y, x >> \in R)
  BY <1>1, WFMin
<1>4. x \in Nat /\ \A k \in T : k \in Nat
  OBVIOUS
<1>5. \A k \in T : ~(k < x)
  BY <1>2, <1>3, <1>4
<1> QED BY <1>4, <1>5

\* A set that holds 0, and k + 1 with k, holds every number up to n.
LEMMA UpTo ==
  ASSUME NEW n \in Nat, NEW T, 0 \in T, \A k \in 0 .. n - 1 : k \in T => k + 1 \in T
  PROVE  \A k \in 0 .. n : k \in T
<1> DEFINE U == { k \in 0 .. n : k \notin T }
<1>1. SUFFICES ASSUME U # {} PROVE FALSE
  OBVIOUS
<1>2. U \in SUBSET Nat
  OBVIOUS
<1>3. PICK m \in U : \A k \in U : m <= k
  BY <1>1, <1>2, Least
<1>4. m \in 0 .. n /\ m \notin T /\ m # 0
  BY <1>3
<1>5. m - 1 \in 0 .. n - 1 /\ m - 1 \notin U
  BY <1>3, <1>4
<1>6. m - 1 \in T
  BY <1>5
<1>7. (m - 1) + 1 \in T
  BY <1>5, <1>6
<1> QED BY <1>4, <1>7

\* A loop of n turns over values in S, each a function of the value before it,
\* has a result after each turn.
LoopEnds(n, S, a, turn) ==
  \E f \in [0 .. n -> S] : f[0] = a /\ \A k \in 1 .. n : f[k] = turn[f[k - 1]]

LEMMA LoopRuns ==
  ASSUME NEW n \in Nat, NEW S, NEW a \in S, NEW turn \in [S -> S]
  PROVE  LoopEnds(n, S, a, turn)
<1> DEFINE Run(f, m) == /\ f \in [0 .. m -> S] /\ f[0] = a
                        /\ \A k \in 1 .. m : f[k] = turn[f[k - 1]]
           T == { m \in 0 .. n : \E f : Run(f, m) }
<1>1. 0 \in T
  <2>1. Run([k \in 0 .. 0 |-> a], 0)
    OBVIOUS
  <2>2. \E f : Run(f, 0)
    BY <2>1
  <2> HIDE DEF Run
  <2> QED BY <2>2
<1>2. ASSUME NEW m \in 0 .. n - 1, m \in T PROVE m + 1 \in T
  <2>1. PICK f : Run(f, m)
    BY <1>2
  <2> DEFINE g == [k \in 0 .. m + 1 |-> IF k = m + 1 THEN turn[f[m]] ELSE f[k]]
  <2>2. m \in 0 .. m /\ f[m] \in S
    BY <2>1
  <2>3. turn[f[m]] \in S
    BY <2>2
  <2>4. g \in [0 .. m + 1 -> S] /\ g[0] = a
    BY <2>1, <2>3
  <2>5. ASSUME NEW k \in 1 .. m + 1 PROVE g[k] = turn[g[k - 1]]
    <3>1. CASE k = m + 1
      BY <3>1
    <3>2. CASE k # m + 1
      <4>1. k \in 1 .. m /\ k - 1 \in 0 .. m
        BY <3>2
      <4>2. g[k] = f[k] /\ g[k - 1] = f[k - 1]
        BY <4>1
      <4> QED BY <2>1, <4>1, <4>2
    <3> QED BY <3>1, <3>2
  <2> HIDE DEF g
  <2>6. Run(g, m + 1)
    BY <2>4, <2>5
  <2> QED BY <2>2, <2>6
<1> HIDE DEF T
<1>3. n \in T
  <2>1. \A k \in 0 .. n : k \in T
    BY <1>1, <1>2, UpTo
  <2> QED BY <2>1
<1>4. PICK f : Run(f, n)
  BY <1>3 DEF T
<1> QED BY <1>4 DEF LoopEnds

-----------------------------------------------------------------------------
(* Chains.                                                                 *)

Tables == [Cluster -> FatEntry]

\* w leads from c along table t until an entry that is not a cluster.
Leads(w, t, c) ==
  /\ w \in Seq(Cluster) /\ Len(w) \in 1 .. Total + 1
  /\ w[1] = c
  /\ \A k \in 1 .. Len(w) - 1 : w[k + 1] = t[w[k]]
  /\ Len(w) <= Total => t[w[Len(w)]] \notin Cluster

LEMMA WalkLeads ==
  ASSUME NEW t \in Tables, NEW c \in Cluster
  PROVE  Leads(Walk(t, c), t, c)
<1> DEFINE V == Cluster \cup FatEntry
           turn == [i \in V |-> IF i \in Cluster THEN t[i] ELSE i]
           Following(i) == IF i \in Cluster THEN t[i] ELSE i
           Follows(f) == f = [k \in 0 .. Total |-> IF k = 0 THEN c ELSE Following(f[k - 1])]
           at == CHOOSE f : Follows(f)
           In == { k \in 0 .. Total : at[k] \in Cluster }
           Out == { k \in 0 .. Total : at[k] \notin Cluster } \cup {Total + 1}
<1>1. Walk(t, c) = [k \in 1 .. Cardinality(In) |-> at[k - 1]]
  BY DEF Walk
<1>2. turn \in [V -> V] /\ c \in V /\ Total \in Nat
  BY Constants DEF Tables
<1>3. \E f : Follows(f)
  <2> HIDE DEF turn, V
  <2>1. PICK f \in [0 .. Total -> V] : f[0] = c /\ \A k \in 1 .. Total : f[k] = turn[f[k - 1]]
    <3>1. LoopEnds(Total, V, c, turn)
      BY <1>2, LoopRuns
    <3> QED BY <3>1 DEF LoopEnds
  <2>2. \A k \in 0 .. Total : k # 0 => k \in 1 .. Total /\ k - 1 \in 0 .. Total
    BY <1>2
  <2>3. \A k \in 0 .. Total : k # 0 => f[k - 1] \in V
    BY <2>1, <2>2
  <2>4. \A i \in V : turn[i] = Following(i)
    BY DEF turn
  <2> HIDE DEF Following
  <2>5. \A k \in 0 .. Total : f[k] = IF k = 0 THEN c ELSE Following(f[k - 1])
    BY <2>1, <2>2, <2>3, <2>4
  <2>6. f = [k \in 0 .. Total |-> f[k]]
    BY <2>1
  <2>7. Follows(f)
    BY <2>5, <2>6
  <2> QED BY <2>7
<1>4. Follows(at)
  BY <1>3
<1> HIDE DEF at
<1>5. at[0] = c /\ \A k \in 1 .. Total : at[k] = Following(at[k - 1])
  <2>1. 0 \in 0 .. Total /\ \A k \in 1 .. Total : k \in 0 .. Total /\ k # 0
    BY <1>2
  <2> HIDE DEF Following
  <2> QED BY <1>4, <2>1
<1>6. PICK m \in Out : \A k \in Out : m <= k
  <2>1. Out \in SUBSET Nat /\ Out # {}
    BY <1>2
  <2> HIDE DEF Out
  <2> QED BY <2>1, Least
<1>7. m \in 1 .. Total + 1
  <2>1. 0 \notin Out
    BY <1>2, <1>5
  <2> QED BY <1>2, <2>1
<1>8. \A k \in 0 .. m - 1 : at[k] \in Cluster
  <2>1. \A k \in 0 .. m - 1 : k \in 0 .. Total /\ k \notin Out
    BY <1>2, <1>6, <1>7
  <2> QED BY <2>1
<1>9. \A k \in m .. Total : at[k] \notin Cluster
  <2> DEFINE T == { k \in Nat : m + k <= Total => at[m + k] \notin Cluster }
  <2>1. 0 \in T
    BY <1>6, <1>7, <1>2
  <2>2. ASSUME NEW k \in 0 .. Total - 1, k \in T PROVE k + 1 \in T
    <3>1. SUFFICES ASSUME m + (k + 1) <= Total PROVE at[m + (k + 1)] \notin Cluster
      BY <2>2
    <3>2. m + (k + 1) \in 1 .. Total /\ (m + (k + 1)) - 1 = m + k /\ m + k <= Total
      BY <1>2, <1>7, <3>1
    <3>3. at[m + k] \notin Cluster
      BY <2>2, <3>2
    <3>4. at[m + (k + 1)] = at[m + k]
      BY <1>5, <3>2, <3>3
    <3> QED BY <3>3, <3>4
  <2> HIDE DEF T
  <2>3. \A k \in 0 .. Total : k \in T
    BY <1>2, <2>1, <2>2, UpTo
  <2>4. ASSUME NEW k \in m .. Total PROVE at[k] \notin Cluster
    <3>1. k - m \in 0 .. Total /\ m + (k - m) = k /\ k <= Total
      BY <1>2, <1>7
    <3>2. k - m \in T
      BY <2>3, <3>1
    <3> QED BY <3>1, <3>2 DEF T
  <2> QED BY <2>4
<1>10. In = 0 .. m - 1
  <2>1. \A k \in 0 .. Total : k \in 0 .. m - 1 \/ k \in m .. Total
    BY <1>2, <1>7
  <2>2. \A k \in 0 .. m - 1 : k \in 0 .. Total
    BY <1>2, <1>7
  <2> QED BY <1>8, <1>9, <2>1, <2>2
<1>11. Cardinality(In) = m
  <2>1. Cardinality(0 .. m - 1) = m
    BY <1>7, FS_Interval
  <2> QED BY <1>10, <2>1
<1> DEFINE w == Walk(t, c)
<1>12. w = [k \in 1 .. m |-> at[k - 1]]
  BY <1>1, <1>11
<1> HIDE DEF w
<1>13. w \in Seq(Cluster) /\ Len(w) = m
  <2>1. w \in [1 .. m -> Cluster]
    BY <1>7, <1>8, <1>12
  <2> QED BY <1>7, <2>1
<1>14. \A k \in 1 .. m : w[k] = at[k - 1]
  BY <1>12
<1>15. w[1] = c
  BY <1>5, <1>7, <1>14
<1>16. ASSUME NEW k \in 1 .. m - 1 PROVE w[k + 1] = t[w[k]]
  <2>1. k \in 1 .. m /\ k + 1 \in 1 .. m /\ k \in 1 .. Total /\ k - 1 \in 0 .. m - 1
    BY <1>2, <1>7
  <2>2. w[k + 1] = at[k] /\ w[k] = at[k - 1] /\ at[k - 1] \in Cluster
    BY <1>8, <1>14, <2>1
  <2> QED BY <1>5, <2>1, <2>2
<1>17. ASSUME m <= Total PROVE t[w[m]] \notin Cluster
  <2>1. m \in 1 .. Total /\ m \in 1 .. m /\ m - 1 \in 0 .. m - 1 /\ m \in m .. Total
    BY <1>2, <1>7, <1>17
  <2>2. w[m] = at[m - 1] /\ at[m - 1] \in Cluster /\ at[m] \notin Cluster
    BY <1>8, <1>9, <1>14, <2>1
  <2> QED BY <1>5, <2>1, <2>2
<1>18. Leads(w, t, c)
  BY <1>7, <1>13, <1>15, <1>16, <1>17 DEF Leads
<1> QED BY <1>18 DEF w

\* Two tables that agree on a chain that ends lead along the same one.
LEMMA SameChain ==
  ASSUME NEW t, NEW u, NEW c, NEW v, NEW w, Leads(v, t, c), Leads(w, u, c),
         Len(v) <= Total, \A k \in 1 .. Len(v) : u[v[k]] = t[v[k]]
  PROVE  w = v
<1> DEFINE m == Len(v)
           n == Len(w)
           T == { k \in Nat : k + 1 <= m /\ k + 1 <= n => w[k + 1] = v[k + 1] }
<1>1. m \in Nat \ {0} /\ n \in Nat \ {0} /\ m <= Total
  BY Constants DEF Leads
<1>2. /\ \A k \in 1 .. m : v[k] \in Cluster
      /\ \A k \in 1 .. n : w[k] \in Cluster
  BY DEF Leads
<1>3. 0 \in T
  BY DEF Leads
<1>4. ASSUME NEW k \in 0 .. m - 1, k \in T PROVE k + 1 \in T
  <2>1. SUFFICES ASSUME (k + 1) + 1 <= m, (k + 1) + 1 <= n PROVE w[(k + 1) + 1] = v[(k + 1) + 1]
    BY <1>4
  <2>2. k + 1 \in 1 .. m - 1 /\ k + 1 \in 1 .. n - 1 /\ k + 1 \in 1 .. m /\ k + 1 <= m /\ k + 1 <= n
    BY <1>1, <2>1
  <2>3. w[(k + 1) + 1] = u[w[k + 1]] /\ v[(k + 1) + 1] = t[v[k + 1]] /\ u[v[k + 1]] = t[v[k + 1]]
    BY <2>2 DEF Leads
  <2> QED BY <1>4, <2>2, <2>3
<1> HIDE DEF T
<1>5. \A k \in 0 .. m : k \in T
  BY <1>1, <1>3, <1>4, UpTo
<1>6. \A k \in 1 .. m : k <= n => w[k] = v[k]
  <2>1. ASSUME NEW k \in 1 .. m, k <= n PROVE w[k] = v[k]
    <3>1. k - 1 \in 0 .. m /\ (k - 1) + 1 = k
      BY <1>1
    <3>2. k - 1 \in T
      BY <1>5, <3>1
    <3> QED BY <2>1, <3>1, <3>2 DEF T
  <2> QED BY <2>1
<1>7. ~ (n < m)
  <2>1. SUFFICES ASSUME n < m PROVE FALSE
    OBVIOUS
  <2>2. n \in 1 .. m /\ n \in 1 .. m - 1 /\ n + 1 \in 1 .. m /\ n <= Total
    BY <1>1, <2>1, Constants
  <2>3. w[n] = v[n] /\ u[w[n]] \notin Cluster
    BY <1>1, <1>6, <2>2 DEF Leads
  <2>4. v[n + 1] = t[v[n]] /\ u[v[n]] = t[v[n]]
    BY <2>2 DEF Leads
  <2> QED BY <1>2, <2>2, <2>3, <2>4
<1>8. ~ (m < n)
  <2>1. SUFFICES ASSUME m < n PROVE FALSE
    OBVIOUS
  <2>2. m \in 1 .. m /\ m \in 1 .. n - 1 /\ m + 1 \in 1 .. n /\ m <= n
    BY <1>1, <2>1
  <2>3. w[m] = v[m] /\ t[v[m]] \notin Cluster /\ u[v[m]] = t[v[m]]
    BY <1>1, <1>6, <2>2 DEF Leads
  <2>4. w[m + 1] = u[w[m]]
    BY <2>2 DEF Leads
  <2> QED BY <1>2, <2>2, <2>3, <2>4
<1>9. n = m
  BY <1>1, <1>7, <1>8
<1>10. v \in Seq(Cluster) /\ w \in Seq(Cluster) /\ \A k \in 1 .. m : w[k] = v[k]
  BY <1>1, <1>6, <1>9 DEF Leads
<1> QED BY <1>9, <1>10

\* The chain from c ends with an end mark.
Ends(t, c) ==
  LET w == Walk(t, c)
  IN Leads(w, t, c) /\ Len(w) < Total /\ t[w[Len(w)]] = Eoc

\* A chain from its beginning comes to no cluster twice, so it ends.
Once(w) == \A i, j \in 1 .. Len(w) : w[i] = w[j] => i = j

LEMMA ChainOnce ==
  ASSUME NEW t \in Tables, LinkedOnce(t), NEW c, Begins(t, c)
  PROVE  Once(Walk(t, c))
<1> DEFINE w == Walk(t, c)
           T == { i \in Nat : i \in 1 .. Len(w) /\ \E j \in 1 .. Len(w) : i < j /\ w[i] = w[j] }
<1>1. Leads(w, t, c)
  BY WalkLeads DEF Begins
<1> HIDE DEF w
<1>2. \A k \in 1 .. Len(w) : w[k] \in Cluster /\ (k < Len(w) => k \in 1 .. Len(w) - 1)
  BY <1>1 DEF Leads
<1>3. T = {}
  <2>1. SUFFICES ASSUME T # {} PROVE FALSE
    OBVIOUS
  <2>2. PICK i \in T : \A k \in T : i <= k
    BY <2>1, Least
  <2>3. PICK j \in 1 .. Len(w) : i < j /\ w[i] = w[j]
    BY <2>2
  <2>4. Len(w) \in Nat /\ i \in 1 .. Len(w)
    BY <1>1, <2>2 DEF Leads
  <2>5. j - 1 \in 1 .. Len(w) - 1 /\ (j - 1) + 1 = j /\ j - 1 \in 1 .. Len(w)
    BY <2>3, <2>4
  <2>6. w[j] = t[w[j - 1]] /\ w[j - 1] \in Cluster
    BY <1>1, <1>2, <2>5 DEF Leads
  <2>7. i # 1
    BY <1>1, <2>3, <2>6 DEF Leads, Begins
  <2>8. i - 1 \in 1 .. Len(w) - 1 /\ (i - 1) + 1 = i /\ i - 1 \in 1 .. Len(w) /\ i - 1 < j - 1
    BY <2>3, <2>4, <2>7
  <2>9. w[i] = t[w[i - 1]] /\ w[i - 1] \in Cluster
    BY <1>1, <1>2, <2>8 DEF Leads
  <2>10. w[i - 1] = w[j - 1]
    <3>1. t[w[i - 1]] \in Cluster /\ t[w[i - 1]] = t[w[j - 1]]
      BY <1>2, <2>3, <2>4, <2>6, <2>9
    <3> QED BY <2>6, <2>9, <3>1 DEF LinkedOnce
  <2>11. i - 1 \in T
    BY <2>4, <2>5, <2>8, <2>10
  <2> QED BY <2>2, <2>4, <2>11
<1>4. ASSUME NEW i \in 1 .. Len(w), NEW j \in 1 .. Len(w), w[i] = w[j] PROVE i = j
  <2>1. i \notin T /\ j \notin T /\ i \in Nat /\ j \in Nat
    BY <1>3
  <2> QED BY <1>4, <2>1
<1> QED BY <1>4 DEF Once, w

LEMMA ChainEnds ==
  ASSUME NEW t \in Tables, LinkedOnce(t), NEW c, Begins(t, c)
  PROVE  /\ Ends(t, c)
         /\ \A k \in 1 .. Len(Walk(t, c)) : t[Walk(t, c)[k]] # Free
<1> DEFINE w == Walk(t, c)
           n == Len(w)
<1>1. Leads(w, t, c) /\ Once(w)
  BY WalkLeads, ChainOnce DEF Begins
<1> HIDE DEF w
<1>2. n \in Nat \ {0} /\ w \in [1 .. n -> Cluster]
  BY <1>1, Constants DEF Leads
<1>3. n < Total
  <2>1. IsFiniteSet(1 .. n) /\ Cardinality(1 .. n) = n
    BY <1>2, FS_Interval
  <2>2. IsFiniteSet(Cluster) /\ Cardinality(Cluster) = Total - 2
    BY Constants, FS_Interval DEF Cluster
  <2>3. SUFFICES ASSUME ~ (n < Total) PROVE FALSE
    OBVIOUS
  <2>4. Cardinality(Cluster) < Cardinality(1 .. n)
    BY <1>2, <2>1, <2>2, <2>3, Constants
  <2>5. \E i, j \in 1 .. n : i # j /\ w[i] = w[j]
    BY <1>2, <2>1, <2>2, <2>4, FS_PigeonHole
  <2> QED BY <1>1, <2>5 DEF Once
<1>4. ASSUME NEW k \in 1 .. n PROVE t[w[k]] # Free
  <2>1. CASE k = 1
    BY <1>1, <2>1 DEF Leads, Begins
  <2>2. CASE k # 1
    <3>1. k - 1 \in 1 .. n - 1 /\ k - 1 \in 1 .. n /\ (k - 1) + 1 = k
      BY <1>2, <2>2
    <3>2. w[k] = t[w[k - 1]] /\ w[k] \in Cluster /\ w[k - 1] \in Cluster
      BY <1>1, <1>2, <3>1 DEF Leads
    <3> QED BY <3>2 DEF LinkedOnce
  <2> QED BY <2>1, <2>2
<1>5. t[w[n]] = Eoc
  <2>1. n \in 1 .. n /\ w[n] \in Cluster /\ n <= Total
    BY <1>2, <1>3, Constants
  <2>2. t[w[n]] \in FatEntry /\ t[w[n]] \notin Cluster
    BY <1>1, <2>1 DEF Leads, Tables
  <2> QED BY <1>4, <2>1, <2>2, Constants
<1> QED BY <1>1, <1>3, <1>4, <1>5 DEF Ends, w

\* The chains from two beginnings share no cluster.
LEMMA ChainsApart ==
  ASSUME NEW t \in Tables, LinkedOnce(t), NEW c, Begins(t, c), NEW e, Begins(t, e), c # e,
         NEW i \in 1 .. Len(Walk(t, c)), NEW j \in 1 .. Len(Walk(t, e))
  PROVE  Walk(t, c)[i] # Walk(t, e)[j]
<1> DEFINE a == Walk(t, c)
           b == Walk(t, e)
           T == { k \in Nat : k \in 1 .. Len(a) /\ \E l \in 1 .. Len(b) : a[k] = b[l] }
<1>1. Leads(a, t, c) /\ Leads(b, t, e)
  BY WalkLeads DEF Begins
<1> HIDE DEF a, b
<1>2. /\ Len(a) \in Nat /\ Len(b) \in Nat
      /\ \A k \in 1 .. Len(a) : a[k] \in Cluster
      /\ \A k \in 1 .. Len(b) : b[k] \in Cluster
  BY <1>1 DEF Leads
<1>3. T = {}
  <2>1. SUFFICES ASSUME T # {} PROVE FALSE
    OBVIOUS
  <2>2. PICK k \in T : \A m \in T : k <= m
    BY <2>1, Least
  <2>3. PICK l \in 1 .. Len(b) : a[k] = b[l]
    BY <2>2
  <2>4. k \in 1 .. Len(a)
    BY <2>2
  <2>5. k # 1 => k - 1 \in 1 .. Len(a) - 1 /\ (k - 1) + 1 = k /\ k - 1 \in 1 .. Len(a)
    BY <1>2, <2>4
  <2>6. l # 1 => l - 1 \in 1 .. Len(b) - 1 /\ (l - 1) + 1 = l /\ l - 1 \in 1 .. Len(b)
    BY <1>2, <2>3
  <2>7. k # 1 => a[k] = t[a[k - 1]] /\ a[k - 1] \in Cluster
    BY <1>1, <1>2, <2>5 DEF Leads
  <2>8. l # 1 => b[l] = t[b[l - 1]] /\ b[l - 1] \in Cluster
    BY <1>1, <1>2, <2>6 DEF Leads
  <2>9. a[1] = c /\ b[1] = e
    BY <1>1 DEF Leads
  <2>10. k # 1 /\ l # 1
    <3>1. ~ (k = 1 /\ l = 1)
      BY <2>3, <2>9
    <3>2. ~ (k = 1 /\ l # 1)
      BY <2>3, <2>8, <2>9 DEF Begins
    <3>3. ~ (k # 1 /\ l = 1)
      BY <2>3, <2>7, <2>9 DEF Begins
    <3> QED BY <3>1, <3>2, <3>3
  <2>11. a[k - 1] = b[l - 1]
    <3>1. t[a[k - 1]] \in Cluster /\ t[a[k - 1]] = t[b[l - 1]]
      BY <1>2, <2>3, <2>4, <2>7, <2>8, <2>10
    <3> QED BY <2>7, <2>8, <2>10, <3>1 DEF LinkedOnce
  <2>12. k - 1 \in T
    BY <2>4, <2>5, <2>6, <2>10, <2>11
  <2> QED BY <2>2, <2>4, <2>12
<1>4. i \in Nat /\ a[i] # b[j]
  BY <1>3 DEF a, b
<1> QED BY <1>4 DEF a, b

\* The rest of a chain that ends is the chain from there.
LEMMA RestEnds ==
  ASSUME NEW t \in Tables, NEW c, Ends(t, c), NEW k \in 1 .. Len(Walk(t, c))
  PROVE  Walk(t, c)[k] \in Cluster /\ Ends(t, Walk(t, c)[k])
<1> DEFINE w == Walk(t, c)
           n == Len(w)
           r == [i \in 1 .. (n - k + 1) |-> w[k + i - 1]]
<1>1. Leads(w, t, c) /\ n < Total /\ t[w[n]] = Eoc
  BY DEF Ends
<1>2. k \in 1 .. n
  OBVIOUS
<1> HIDE DEF w
<1>3. n \in Nat /\ w \in [1 .. n -> Cluster] /\ w[k] \in Cluster
  BY <1>1, <1>2 DEF Leads
<1>4. r \in Seq(Cluster) /\ Len(r) = n - k + 1 /\ \A i \in 1 .. (n - k + 1) : r[i] = w[k + i - 1]
  <2>1. \A i \in 1 .. (n - k + 1) : k + i - 1 \in 1 .. n
    BY <1>2, <1>3
  <2>2. r \in [1 .. (n - k + 1) -> Cluster]
    BY <1>2, <1>3, <2>1
  <2>3. \A l \in Nat : \A q \in [1 .. l -> Cluster] : q \in Seq(Cluster) /\ Len(q) = l
    OBVIOUS
  <2>4. n - k + 1 \in Nat
    BY <1>2, <1>3
  <2>5. r \in Seq(Cluster) /\ Len(r) = n - k + 1
    BY <2>2, <2>3, <2>4
  <2> QED BY <2>5
<1> HIDE DEF r
<1>5. r[1] = w[k]
  BY <1>2, <1>3, <1>4
<1>6. ASSUME NEW i \in 1 .. Len(r) - 1 PROVE r[i + 1] = t[r[i]]
  <2>1. /\ i \in 1 .. (n - k + 1) /\ i + 1 \in 1 .. (n - k + 1)
        /\ k + i - 1 \in 1 .. n - 1 /\ k + (i + 1) - 1 = (k + i - 1) + 1
    BY <1>2, <1>3, <1>4
  <2>2. r[i] = w[k + i - 1] /\ r[i + 1] = w[(k + i - 1) + 1]
    BY <1>4, <2>1
  <2> QED BY <1>1, <2>1, <2>2 DEF Leads
<1>7. r[Len(r)] = w[n]
  <2>1. Len(r) \in 1 .. (n - k + 1) /\ k + Len(r) - 1 = n
    BY <1>2, <1>3, <1>4
  <2> QED BY <1>4, <2>1
<1>8. Len(r) \in 1 .. Total + 1 /\ Len(r) < Total
  BY <1>1, <1>2, <1>3, <1>4, Constants
<1>9. Leads(r, t, w[k])
  <2>1. t[r[Len(r)]] \notin Cluster
    BY <1>1, <1>7, Constants
  <2> QED BY <1>4, <1>5, <1>6, <1>8, <2>1 DEF Leads
<1>10. Leads(Walk(t, w[k]), t, w[k])
  BY <1>3, WalkLeads
<1>11. Walk(t, w[k]) = r
  <2>1. Len(r) <= Total
    BY <1>8, Constants, <1>4, <1>3, <1>2
  <2> QED BY <1>9, <1>10, <2>1, SameChain
<1> QED BY <1>1, <1>3, <1>7, <1>8, <1>9, <1>11 DEF Ends, w

-----------------------------------------------------------------------------
(* Units of a chain and the entries among them.                            *)

Disks == [Cluster -> [1 .. Slots -> Unit]]

LEMMA Scaled ==
  ASSUME NEW s \in Nat, NEW x \in Int, NEW y \in Int, x <= y
  PROVE  s * x <= s * y
OBVIOUS

LEMMA QuotientRest ==
  ASSUME NEW a \in Int, NEW s \in Int, s > 0, NEW q \in Int, NEW r \in Int,
         q = a \div s, r = a % s
  PROVE  a = s * q + r
OBVIOUS

LEMMA DivMod ==
  ASSUME NEW s \in Nat, s # 0, NEW m \in Nat, NEW a \in Nat, a < s * m
  PROVE  a \div s \in 0 .. m - 1 /\ a % s \in 0 .. s - 1
<1>1. a % s \in 0 .. s - 1
  OBVIOUS
<1>2. a \div s \in Int
  OBVIOUS
<1>4. PICK q \in Int : q = a \div s
  BY <1>2
<1>5. PICK r \in 0 .. s - 1 : r = a % s
  BY <1>1
<1>6. a = s * q + r
  <2>1. s \in Int /\ s > 0 /\ a \in Int /\ r \in Int
    OBVIOUS
  <2> QED BY <1>4, <1>5, <2>1, QuotientRest
<1>7. ~ (q <= -1)
  <2>1. SUFFICES ASSUME q <= -1 PROVE FALSE
    OBVIOUS
  <2>2. s * q <= s * (-1)
    BY <2>1, Scaled
  <2>3. s * (-1) = - s
    OBVIOUS
  <2>4. PICK z \in Int : z = s * q
    OBVIOUS
  <2> QED BY <1>6, <2>2, <2>3, <2>4
<1>8. ~ (m <= q)
  <2>1. SUFFICES ASSUME m <= q PROVE FALSE
    OBVIOUS
  <2>2. s * m <= s * q
    BY <2>1, Scaled
  <2>3. PICK z \in Int : z = s * q
    OBVIOUS
  <2>4. PICK y \in Int : y = s * m
    OBVIOUS
  <2> QED BY <1>6, <2>2, <2>3, <2>4
<1>9. q \in 0 .. m - 1
  BY <1>7, <1>8
<1> QED BY <1>1, <1>4, <1>9

LEMMA UnitsStand ==
  ASSUME disk \in Disks, NEW t \in Tables, NEW c \in Cluster, NEW i \in DOMAIN Units(t, c)
  PROVE  /\ Units(t, c)[i] \in Unit
         /\ \E k \in 1 .. Len(Walk(t, c)), j \in 1 .. Slots : Units(t, c)[i] = disk[Walk(t, c)[k]][j]
<1> DEFINE w == Walk(t, c)
           n == Len(w)
           k == ((i - 1) \div Slots) + 1
           j == ((i - 1) % Slots) + 1
<1>1. w \in Seq(Cluster) /\ n \in Nat
  BY WalkLeads DEF Leads
<1>2. Units(t, c) = [l \in 1 .. Slots * n |-> disk[w[((l - 1) \div Slots) + 1]][((l - 1) % Slots) + 1]]
  BY DEF Units
<1>3. i \in 1 .. Slots * n
  BY <1>2
<1>4. Units(t, c)[i] = disk[w[k]][j]
  BY <1>2, <1>3
<1>5. k \in 1 .. n /\ j \in 1 .. Slots
  <2>1. Slots \in Nat /\ Slots # 0 /\ i - 1 \in Nat /\ i - 1 < Slots * n
    <3>1. Slots \in Nat \ {0}
      BY Constants
    <3>2. Slots * n \in Nat
      BY <1>1, <3>1
    <3> QED BY <1>3, <3>1, <3>2
  <2>2. (i - 1) \div Slots \in 0 .. n - 1 /\ (i - 1) % Slots \in 0 .. Slots - 1
    BY <1>1, <2>1, DivMod
  <2> DEFINE q == (i - 1) \div Slots
             r == (i - 1) % Slots
  <2>3. q \in 0 .. n - 1 /\ r \in 0 .. Slots - 1 /\ k = q + 1 /\ j = r + 1
    BY <2>2
  <2> HIDE DEF q, r, k, j
  <2> QED BY <1>1, <2>1, <2>3
<1> HIDE DEF k, j
<1>6. w[k] \in Cluster
  BY <1>1, <1>5
<1>7. disk[w[k]][j] \in Unit
  BY <1>5, <1>6 DEF Disks
<1> QED BY <1>4, <1>5, <1>7

\* An entry has a name, a kind, a first cluster and a size.
LEMMA EntryParts ==
  ASSUME NEW u \in Unit, u[1] = "entry"
  PROVE  /\ u[2] \in Names \cup Dots /\ u[3] \in BOOLEAN
         /\ u[4] \in {0} \cup Cluster /\ u[5] \in 0 .. Slots
         /\ u = Sfn(u[2], u[3], u[4], u[5])
<1>1. u \notin {End, Deleted, Label, Stale}
  BY DEF End, Deleted, Label, Stale
<1>2. \A n \in Names : u # Lfn(n)
  BY DEF Lfn
<1>3. \A b \in Bytes : u # Data(b)
  BY DEF Data
<1>4. PICK n \in Names \cup Dots, d \in BOOLEAN, c \in {0} \cup Cluster, s \in 0 .. Slots :
        u = Sfn(n, d, c, s)
  BY <1>1, <1>2, <1>3 DEF Unit
<1> QED BY <1>4 DEF Sfn

\* Entries a scan meets stand in the chain of the directory.
LEMMA EntriesStand ==
  ASSUME disk \in Disks, NEW t \in Tables, NEW d \in Cluster, NEW e \in EntriesOf(t, d)
  PROVE  /\ e \in Unit /\ e[1] = "entry"
         /\ \E k \in 1 .. Len(Walk(t, d)), p \in Cluster \X (1 .. Slots) :
              p[1] = Walk(t, d)[k] /\ At(disk, p) = e
<1> DEFINE w == Walk(t, d)
<1>1. PICK i \in DOMAIN Units(t, d) : Units(t, d)[i] = e /\ e[1] = "entry"
  BY DEF EntriesOf, Seen, EntryAt
<1>2. PICK k \in 1 .. Len(w), j \in 1 .. Slots : e = disk[w[k]][j]
  BY <1>1, UnitsStand
<1>3. e \in Unit
  BY <1>1, UnitsStand
<1>4. w[k] \in Cluster
  BY WalkLeads DEF Leads
<1>5. << w[k], j >> \in Cluster \X (1 .. Slots) /\ At(disk, << w[k], j >>) = e
  BY <1>2, <1>4 DEF At
<1> QED BY <1>1, <1>3, <1>5

\* What finddir and readdir find is such an entry.
LEMMA FoundStand ==
  ASSUME disk \in Disks, fat \in Tables, NEW d \in Cluster
  PROVE  /\ \A n : FindDir(d, n) \subseteq EntriesOf(fat, d)
         /\ \A index : ReadDirAt(d, index) \subseteq EntriesOf(fat, d)
BY DEF FindDir, ReadDirAt, EntriesOf, First

LEMMA EndsAlone ==
  ASSUME NEW t \in Tables, NEW c \in Cluster, t[c] = Eoc
  PROVE  Ends(t, c)
<1> DEFINE v == << c >>
<1>1. v \in Seq(Cluster) /\ Len(v) = 1 /\ v[1] = c
  OBVIOUS
<1> HIDE DEF v
<1>2. Leads(v, t, c)
  BY <1>1, Constants DEF Leads
<1>3. Walk(t, c) = v
  <2>1. Leads(Walk(t, c), t, c)
    BY WalkLeads
  <2>2. Len(v) <= Total /\ \A k \in 1 .. Len(v) : t[v[k]] = t[v[k]]
    BY <1>1, Constants
  <2> QED BY <1>2, <2>1, <2>2, SameChain
<1>4. Len(v) < Total /\ t[v[Len(v)]] = Eoc
  BY <1>1, Constants
<1> QED BY <1>2, <1>3, <1>4 DEF Ends

-----------------------------------------------------------------------------
(* The inductive invariant: tables.  A mark or a link may be missing on the *)
(* disk, nothing else.                                                     *)

Behind(f, d) ==
  \A c \in Cluster :
    \/ d[c] = f[c]
    \/ d[c] = Free /\ f[c] = Eoc
    \/ d[c] = Eoc /\ f[c] \in Cluster

TablesOK(f, d) ==
  /\ f \in Tables /\ d \in Tables
  /\ \A c, e \in Cluster : f[c] \in Cluster /\ f[c] = f[e] => c = e
  /\ \A c \in Cluster : f[c] \in Cluster => d[f[c]] # Free
  /\ Behind(f, d)

\* A chain begins with c, in memory and on the disk.
BeginsBoth(f, d, c) == c \in Cluster /\ d[c] # Free /\ \A e \in Cluster : f[e] # c

\* The table e on the disk after a write of f over d, complete or not.
Landed(f, d, e) == e \in Tables /\ \A c \in Cluster : e[c] = d[c] \/ e[c] = f[c]

LEMMA TablesLead ==
  ASSUME NEW f, NEW d, TablesOK(f, d)
  PROVE  /\ LinkedOnce(f) /\ LinkedOnce(d) /\ TablesOK(d, d)
         /\ \A c : BeginsBoth(f, d, c) => Begins(f, c) /\ Begins(d, c) /\ BeginsBoth(d, d, c)
<1>1. ASSUME NEW c \in Cluster PROVE d[c] \in Cluster => f[c] = d[c]
  BY Constants DEF TablesOK, Behind
<1>2. ASSUME NEW c \in Cluster PROVE d[c] # Free => f[c] # Free
  BY Constants DEF TablesOK, Behind
<1>3. LinkedOnce(f)
  BY <1>2 DEF TablesOK, LinkedOnce
<1>4. LinkedOnce(d)
  <2>1. \A c, e \in Cluster : d[c] \in Cluster /\ d[c] = d[e] => c = e
    BY <1>1 DEF TablesOK
  <2>2. \A c \in Cluster : d[c] \in Cluster => d[d[c]] # Free
    BY <1>1 DEF TablesOK
  <2> QED BY <2>1, <2>2 DEF LinkedOnce
<1>5. TablesOK(d, d)
  BY <1>4 DEF TablesOK, Behind, LinkedOnce
<1>6. ASSUME NEW c, BeginsBoth(f, d, c) PROVE Begins(f, c) /\ Begins(d, c) /\ BeginsBoth(d, d, c)
  <2>1. c \in Cluster /\ d[c] # Free /\ f[c] # Free /\ \A e \in Cluster : f[e] # c
    BY <1>2, <1>6 DEF BeginsBoth
  <2>2. \A e \in Cluster : d[e] # c
    BY <1>1, <2>1
  <2> QED BY <2>1, <2>2 DEF Begins, BeginsBoth
<1> QED BY <1>3, <1>4, <1>5, <1>6

LEMMA MarkKeeps ==
  ASSUME NEW f, NEW d, TablesOK(f, d), NEW c \in Cluster, f[c] = Free,
         NEW e, Landed([f EXCEPT ![c] = Eoc], d, e)
  PROVE  /\ TablesOK([f EXCEPT ![c] = Eoc], e)
         /\ \A x : BeginsBoth(f, d, x) => BeginsBoth([f EXCEPT ![c] = Eoc], e, x) /\ x # c
         /\ e[c] = Eoc => BeginsBoth([f EXCEPT ![c] = Eoc], e, c)
<1> DEFINE g == [f EXCEPT ![c] = Eoc]
<1>1. /\ g \in Tables /\ g[c] = Eoc /\ \A x \in Cluster : x # c => g[x] = f[x]
  BY DEF TablesOK, Tables, FatEntry
<1>2. Landed(g, d, e)
  OBVIOUS
<1> HIDE DEF g
<1>3. d[c] = Free
  BY Constants DEF TablesOK, Behind
<1>4. \A x \in Cluster : d[x] # Free => e[x] # Free /\ x # c
  <2>1. ASSUME NEW x \in Cluster, d[x] # Free PROVE e[x] # Free /\ x # c
    <3>1. x # c /\ f[x] # Free
      BY <1>3, <2>1, Constants DEF TablesOK, Behind
    <3> QED BY <1>1, <1>2, <2>1, <3>1 DEF Landed
  <2> QED BY <2>1
<1>5. \A x \in Cluster : f[x] # c
  BY <1>3 DEF TablesOK
<1>6. \A x \in Cluster : g[x] \in Cluster => x # c /\ g[x] = f[x]
  BY <1>1, Constants
<1>7. \A x, y \in Cluster : g[x] \in Cluster /\ g[x] = g[y] => x = y
  BY <1>6 DEF TablesOK
<1>8. \A x \in Cluster : g[x] \in Cluster => e[g[x]] # Free
  BY <1>4, <1>6 DEF TablesOK
<1>9. Behind(g, e)
  <2>1. ASSUME NEW x \in Cluster
        PROVE \/ e[x] = g[x]
              \/ e[x] = Free /\ g[x] = Eoc
              \/ e[x] = Eoc /\ g[x] \in Cluster
    <3>1. CASE e[x] = g[x]
      BY <3>1
    <3>2. CASE e[x] # g[x] /\ x = c
      BY <1>1, <1>2, <1>3, <3>2 DEF Landed
    <3>3. CASE e[x] # g[x] /\ x # c
      <4>1. e[x] = d[x] /\ g[x] = f[x]
        BY <1>1, <1>2, <3>3 DEF Landed
      <4> QED BY <4>1 DEF TablesOK, Behind
    <3> QED BY <3>1, <3>2, <3>3
  <2> QED BY <2>1 DEF Behind
<1>10. TablesOK(g, e)
  BY <1>1, <1>2, <1>7, <1>8, <1>9 DEF TablesOK, Landed
<1>11. ASSUME NEW x, BeginsBoth(f, d, x) PROVE BeginsBoth(g, e, x) /\ x # c
  <2>1. x \in Cluster /\ e[x] # Free /\ x # c
    BY <1>4, <1>11 DEF BeginsBoth
  <2>2. \A y \in Cluster : g[y] # x
    BY <1>6, <1>11, <2>1 DEF BeginsBoth
  <2> QED BY <2>1, <2>2 DEF BeginsBoth
<1>12. ASSUME e[c] = Eoc PROVE BeginsBoth(g, e, c)
  <2>1. \A y \in Cluster : g[y] # c
    BY <1>5, <1>6
  <2> QED BY <1>12, <2>1, Constants DEF BeginsBoth
<1> QED BY <1>10, <1>11, <1>12 DEF g

LEMMA LinkKeeps ==
  ASSUME NEW f, NEW d, TablesOK(f, d), NEW c \in Cluster, NEW n \in Cluster, c # n,
         f[c] = Eoc, d[c] # Free, BeginsBoth(f, d, n),
         NEW e, Landed([f EXCEPT ![c] = n], d, e)
  PROVE  /\ TablesOK([f EXCEPT ![c] = n], e)
         /\ \A x : BeginsBoth(f, d, x) /\ x # n => BeginsBoth([f EXCEPT ![c] = n], e, x)
<1> DEFINE g == [f EXCEPT ![c] = n]
<1>1. /\ g \in Tables /\ g[c] = n /\ \A x \in Cluster : x # c => g[x] = f[x]
  BY DEF TablesOK, Tables, FatEntry
<1>2. Landed(g, d, e)
  OBVIOUS
<1> HIDE DEF g
<1>3. \A x \in Cluster : d[x] # Free => e[x] # Free
  <2>1. ASSUME NEW x \in Cluster, d[x] # Free PROVE e[x] # Free
    <3>1. f[x] # Free
      BY <2>1, Constants DEF TablesOK, Behind
    <3>2. g[x] # Free
      BY <1>1, <3>1, Constants
    <3> QED BY <1>2, <2>1, <3>2 DEF Landed
  <2> QED BY <2>1
<1>4. d[n] # Free /\ \A x \in Cluster : f[x] # n
  BY DEF BeginsBoth
<1>5. \A x, y \in Cluster : g[x] \in Cluster /\ g[x] = g[y] => x = y
  <2>1. ASSUME NEW x \in Cluster, NEW y \in Cluster, g[x] \in Cluster, g[x] = g[y] PROVE x = y
    <3>1. CASE x = c
      BY <1>1, <1>4, <2>1, <3>1
    <3>2. CASE y = c
      BY <1>1, <1>4, <2>1, <3>2
    <3>3. CASE x # c /\ y # c
      BY <1>1, <2>1, <3>3 DEF TablesOK
    <3> QED BY <3>1, <3>2, <3>3
  <2> QED BY <2>1
<1>6. \A x \in Cluster : g[x] \in Cluster => e[g[x]] # Free
  <2>1. ASSUME NEW x \in Cluster, g[x] \in Cluster PROVE e[g[x]] # Free
    <3>1. d[g[x]] # Free
      BY <1>1, <1>4, <2>1 DEF TablesOK
    <3> QED BY <1>3, <2>1, <3>1
  <2> QED BY <2>1
<1>7. d[c] = Eoc
  BY Constants DEF TablesOK, Behind
<1>8. Behind(g, e)
  <2>1. ASSUME NEW x \in Cluster
        PROVE \/ e[x] = g[x]
              \/ e[x] = Free /\ g[x] = Eoc
              \/ e[x] = Eoc /\ g[x] \in Cluster
    <3>1. CASE e[x] = g[x]
      BY <3>1
    <3>2. CASE e[x] # g[x] /\ x = c
      BY <1>1, <1>2, <1>7, <3>2 DEF Landed
    <3>3. CASE e[x] # g[x] /\ x # c
      <4>1. e[x] = d[x] /\ g[x] = f[x]
        BY <1>1, <1>2, <3>3 DEF Landed
      <4> QED BY <4>1 DEF TablesOK, Behind
    <3> QED BY <3>1, <3>2, <3>3
  <2> QED BY <2>1 DEF Behind
<1>9. TablesOK(g, e)
  BY <1>1, <1>2, <1>5, <1>6, <1>8 DEF TablesOK, Landed
<1>10. ASSUME NEW x, BeginsBoth(f, d, x), x # n PROVE BeginsBoth(g, e, x)
  <2>1. x \in Cluster /\ e[x] # Free
    BY <1>3, <1>10 DEF BeginsBoth
  <2>2. \A y \in Cluster : g[y] # x
    BY <1>1, <1>10 DEF BeginsBoth
  <2> QED BY <2>1, <2>2 DEF BeginsBoth
<1> QED BY <1>9, <1>10 DEF g

\* A chain in use at its beginning is in use all along, on the disk too.
LEMMA InUseBoth ==
  ASSUME NEW f, NEW d, TablesOK(f, d), NEW c \in Cluster, Ends(f, c), d[c] # Free,
         NEW k \in 1 .. Len(Walk(f, c))
  PROVE  d[Walk(f, c)[k]] # Free
<1> DEFINE w == Walk(f, c)
<1>1. /\ w[1] = c /\ \A i \in 1 .. Len(w) - 1 : w[i + 1] = f[w[i]]
      /\ \A i \in 1 .. Len(w) : w[i] \in Cluster
      /\ Len(w) \in Nat
  BY DEF Ends, Leads
<1> HIDE DEF w
<1>2. d[w[k]] # Free
  <2>1. CASE k = 1
    BY <1>1, <2>1
  <2>2. CASE k # 1
    <3>1. k - 1 \in 1 .. Len(w) - 1 /\ k - 1 \in 1 .. Len(w) /\ (k - 1) + 1 = k /\ k \in 1 .. Len(w)
      BY <1>1, <2>2 DEF w
    <3>2. w[k] = f[w[k - 1]] /\ w[k] \in Cluster /\ w[k - 1] \in Cluster
      BY <1>1, <3>1
    <3> QED BY <3>2 DEF TablesOK
  <2> QED BY <2>1, <2>2
<1> QED BY <1>2 DEF w

-----------------------------------------------------------------------------
(* The inductive invariant: entries.  No two lead to the same chain.       *)

EntriesOK(s) ==
  /\ s \in Disks
  /\ \A p \in Places(s) :
       /\ At(s, p)[3] => At(s, p)[4] # 0
       /\ At(s, p)[4] # Root
       /\ \A q \in Places(s) : At(s, p)[4] # 0 /\ At(s, p)[4] = At(s, q)[4] => p = q

\* First clusters of entries and nodes.
Firsts(s, hs) ==
  {Root} \cup (({ At(s, p)[4] : p \in Places(s) } \cup { hs[h].first : h \in Handles }) \ {0})

\* s holds no entry that r does not hold at the same place.
NoneNew(s, r) == \A p \in Places(s) : p \in Places(r) /\ At(s, p) = At(r, p)

LEMMA NoneNewKeeps ==
  ASSUME NEW r, EntriesOK(r), NEW s \in Disks, NoneNew(s, r)
  PROVE  EntriesOK(s) /\ \A hs : Firsts(s, hs) \subseteq Firsts(r, hs)
<1>1. EntriesOK(s)
  BY DEF EntriesOK, NoneNew
<1>2. ASSUME NEW hs PROVE Firsts(s, hs) \subseteq Firsts(r, hs)
  BY DEF Firsts, NoneNew
<1> QED BY <1>1, <1>2

LEMMA ClusterKeeps ==
  ASSUME NEW r, EntriesOK(r), NEW c \in Cluster, NEW u \in [1 .. Slots -> Unit],
         \A i \in 1 .. Slots : Named(u[i]) => u[i] = r[c][i]
  PROVE  [r EXCEPT ![c] = u] \in Disks /\ NoneNew([r EXCEPT ![c] = u], r)
<1> DEFINE s == [r EXCEPT ![c] = u]
<1>1. r \in Disks
  BY DEF EntriesOK
<1>2. s \in Disks /\ s[c] = u /\ \A x \in Cluster : x # c => s[x] = r[x]
  BY <1>1 DEF Disks
<1> HIDE DEF s
<1>3. ASSUME NEW p \in Places(s) PROVE p \in Places(r) /\ At(s, p) = At(r, p)
  <2>1. p \in Cluster \X (1 .. Slots) /\ Named(At(s, p)) /\ p[1] \in Cluster /\ p[2] \in 1 .. Slots
    BY <1>3 DEF Places
  <2>2. At(s, p) = At(r, p)
    <3>1. CASE p[1] # c
      BY <1>2, <2>1, <3>1 DEF At
    <3>2. CASE p[1] = c
      <4>1. At(s, p) = u[p[2]] /\ At(r, p) = r[c][p[2]]
        BY <1>2, <3>2 DEF At
      <4>2. Named(u[p[2]])
        BY <2>1, <4>1
      <4> QED BY <2>1, <4>1, <4>2
    <3> QED BY <3>1, <3>2
  <2> QED BY <2>1, <2>2 DEF Places
<1> QED BY <1>2, <1>3 DEF NoneNew, s

\* One entry more, which leads nowhere or to a cluster no other leads to.
Puts(r, c, u, j, first, hs) ==
  /\ EntriesOK(r) /\ c \in Cluster /\ u \in [1 .. Slots -> Unit] /\ j \in 1 .. Slots
  /\ u[j][4] = first /\ (u[j][3] => first # 0) /\ first \notin Firsts(r, hs)
  /\ \A i \in 1 .. Slots : i # j /\ Named(u[i]) => u[i] = r[c][i]

LEMMA EntryKeeps ==
  ASSUME NEW r, NEW c, NEW u, NEW j, NEW first, NEW hs, Puts(r, c, u, j, first, hs)
  PROVE  /\ EntriesOK([r EXCEPT ![c] = u])
         /\ Firsts([r EXCEPT ![c] = u], hs) \subseteq Firsts(r, hs) \cup ({first} \ {0})
<1>0. /\ EntriesOK(r) /\ c \in Cluster /\ u \in [1 .. Slots -> Unit] /\ j \in 1 .. Slots
      /\ u[j][4] = first /\ (u[j][3] => first # 0) /\ first \notin Firsts(r, hs)
      /\ \A i \in 1 .. Slots : i # j /\ Named(u[i]) => u[i] = r[c][i]
  BY DEF Puts
<1> DEFINE s == [r EXCEPT ![c] = u]
           new == << c, j >>
<1>1. r \in Disks
  BY <1>0 DEF EntriesOK
<1>2. s \in Disks /\ s[c] = u /\ \A x \in Cluster : x # c => s[x] = r[x]
  BY <1>0, <1>1 DEF Disks
<1>3. At(s, new) = u[j]
  <2>1. new[1] = c /\ new[2] = j
    OBVIOUS
  <2> QED BY <1>0, <1>2, <2>1 DEF At
<1> HIDE DEF s
<1>4. ASSUME NEW p \in Places(s), p # new PROVE p \in Places(r) /\ At(s, p) = At(r, p)
  <2>1. p \in Cluster \X (1 .. Slots) /\ Named(At(s, p)) /\ p[1] \in Cluster /\ p[2] \in 1 .. Slots
        /\ p = << p[1], p[2] >>
    BY <1>4 DEF Places
  <2>2. At(s, p) = At(r, p)
    <3>1. CASE p[1] # c
      BY <1>2, <2>1, <3>1 DEF At
    <3>2. CASE p[1] = c
      <4>1. p[2] # j
        BY <1>4, <2>1, <3>2
      <4> QED BY <1>0, <1>2, <2>1, <3>2, <4>1 DEF At
    <3> QED BY <3>1, <3>2
  <2> QED BY <2>1, <2>2 DEF Places
<1>5. \A p \in Places(r) : At(r, p)[4] # 0 => At(r, p)[4] # first
  BY <1>0 DEF Firsts
<1>6. Root # first
  BY <1>0 DEF Firsts
<1> HIDE DEF new
<1>7. ASSUME NEW p \in Places(s)
      PROVE  /\ At(s, p)[3] => At(s, p)[4] # 0
             /\ At(s, p)[4] # Root
             /\ \A q \in Places(s) : At(s, p)[4] # 0 /\ At(s, p)[4] = At(s, q)[4] => p = q
  <2>1. At(s, p)[3] => At(s, p)[4] # 0
    BY <1>0, <1>3, <1>4 DEF EntriesOK
  <2>2. At(s, p)[4] # Root
    BY <1>0, <1>3, <1>4, <1>6 DEF EntriesOK
  <2>3. ASSUME NEW q \in Places(s), At(s, p)[4] # 0, At(s, p)[4] = At(s, q)[4] PROVE p = q
    <3>1. CASE p = new
      BY <1>0, <1>3, <1>4, <1>5, <2>3, <3>1
    <3>2. CASE q = new
      BY <1>0, <1>3, <1>4, <1>5, <2>3, <3>2
    <3>3. CASE p # new /\ q # new
      BY <1>0, <1>4, <2>3, <3>3 DEF EntriesOK
    <3> QED BY <3>1, <3>2, <3>3
  <2> QED BY <2>1, <2>2, <2>3
<1>8. EntriesOK(s)
  BY <1>2, <1>7 DEF EntriesOK
<1>9. Firsts(s, hs) \subseteq Firsts(r, hs) \cup ({first} \ {0})
  BY <1>0, <1>3, <1>4 DEF Firsts
<1> QED BY <1>8, <1>9 DEF s

-----------------------------------------------------------------------------
(* The inductive invariant: nodes and the call in progress.                *)

HandlesOK(hs) ==
  /\ hs \in [Handles -> Node \cup {NoNode}]
  /\ \A h \in Handles : hs[h].directory => hs[h].first # 0

HeadsOK(f, d, s, hs) == \A c \in Firsts(s, hs) : BeginsBoth(f, d, c)

\* A cluster just allocated, which nothing leads to.
Fresh(c, f, d, s, hs) == BeginsBoth(f, d, c) /\ c \notin Firsts(s, hs) /\ f[c] = Eoc

\* What extend_chain has when it links: the last cluster of a chain and a new one.
CanLink(o, f, d, s, hs) ==
  /\ o.cur # o.new
  /\ f[o.cur] = Eoc /\ d[o.cur] # Free
  /\ Fresh(o.new, f, d, s, hs)

Creating ==
  [kind : {"create"}, pc : {"alloc", "link", "zero", "dots", "enter"}, d : Cluster, n : Names,
   directory : BOOLEAN, extend : BOOLEAN, cur : Cluster, slot : 1 .. Slots,
   new : {0} \cup Cluster, first : {0} \cup Cluster]

CreatingOK(o, f, d, s, hs) ==
  /\ o \in Creating
  /\ o.slot + Needs(o.n) - 1 <= Slots
  /\ o.pc \in {"alloc", "link", "zero"} => o.first = 0
  /\ o.pc = "alloc" => IF o.extend THEN f[o.cur] = Eoc /\ d[o.cur] # Free ELSE o.directory
  /\ o.pc = "link" => CanLink(o, f, d, s, hs)
  /\ o.pc = "zero" => o.new \in Cluster /\ f[o.cur] = o.new /\ o.new \notin Firsts(s, hs)
  /\ o.pc \in {"dots", "enter"} =>
       /\ o.directory <=> o.first # 0
       /\ o.first # 0 => Fresh(o.first, f, d, s, hs)
  /\ o.pc = "dots" => o.directory

Storing ==
  [kind : {"write"}, pc : {"alloc", "link", "body"}, h : Handles, offset : Nat, n : Nat \ {0},
   b : Bytes, extend : BOOLEAN, new : {0} \cup Cluster, done : Int, cur : {0} \cup Cluster,
   skip : Nat]

StoringOK(o, f, d, s, hs) ==
  /\ o \in Storing
  /\ << o.offset, o.n >> \in Spans
  /\ hs[o.h] # NoNode /\ ~ hs[o.h].directory
  /\ o.pc = "alloc" /\ o.extend =>
       o.cur \in Cluster /\ f[o.cur] = Eoc /\ d[o.cur] # Free /\ o.skip >= 1
  /\ o.pc = "link" => o.cur \in Cluster /\ CanLink(o, f, d, s, hs) /\ o.skip >= 1
  /\ o.pc = "body" => o.cur \in Cluster /\ Ends(f, o.cur) /\ d[o.cur] # Free

CallOK(o, f, d, s, hs) ==
  o = Idle \/ CreatingOK(o, f, d, s, hs) \/ StoringOK(o, f, d, s, hs)

BoundsOK ==
  /\ adrift \in BOOLEAN /\ made \subseteq Cluster \X Names
  /\ calls \in 0 .. MaxCalls /\ faults \in 0 .. MaxFaults /\ resets \in 0 .. MaxResets

VolumeOK ==
  /\ TablesOK(fat, dfat) /\ EntriesOK(disk) /\ HandlesOK(handles)
  /\ HeadsOK(fat, dfat, disk, handles)
  /\ CallOK(op, fat, dfat, disk, handles)

ChainInv == VolumeOK /\ BoundsOK

LEMMA PcOf ==
  ASSUME NEW o, NEW f, NEW d, NEW s, NEW hs, CallOK(o, f, d, s, hs), o.pc # "idle"
  PROVE  /\ o # Idle
         /\ o.pc \in {"dots", "enter", "zero"} => CreatingOK(o, f, d, s, hs)
         /\ o.pc = "body" => StoringOK(o, f, d, s, hs)
         /\ o.kind = "create" => CreatingOK(o, f, d, s, hs)
         /\ o.kind # "create" => o.kind = "write" /\ StoringOK(o, f, d, s, hs)
BY DEF CallOK, Idle, CreatingOK, Creating, StoringOK, Storing

LEMMA BoundsStep ==
  ASSUME ChainInv, [Next]_vars
  PROVE  BoundsOK'
<1>1. BoundsOK /\ Fat32Assumption
  BY Fat32Assumption DEF ChainInv
<1>2. MaxCalls \in Nat /\ MaxFaults \in Nat /\ MaxResets \in Nat
  BY <1>1 DEF Fat32Assumption
<1>3. Fault => faults' \in 0 .. MaxFaults
  BY <1>1, <1>2 DEF Fault, BoundsOK
<1>4. calls < MaxCalls /\ calls' = calls + 1 => calls' \in 0 .. MaxCalls
  BY <1>1, <1>2 DEF BoundsOK
<1>5. resets < MaxResets /\ resets' = resets + 1 => resets' \in 0 .. MaxResets
  BY <1>1, <1>2 DEF BoundsOK
<1>6. ASSUME NEW c, NEW buffer, NEW r \in ReadInto(c, buffer) PROVE r[2] \in 0 .. MaxFaults
  BY <1>1, <1>2, <1>6 DEF ReadInto, BoundsOK
<1>0. adrift' \in BOOLEAN
  <2>1. adrift \in BOOLEAN
    BY <1>1 DEF BoundsOK
  <2>2. UNCHANGED adrift \/ adrift' = TRUE \/ \E P \in BOOLEAN : adrift' = P
    <3>1. CASE UNCHANGED vars
      BY <3>1 DEF vars
    <3>2. CASE Alloc \/ Link \/ Zero \/ WriteDots
      BY <3>2 DEF Alloc, Link, Zero, WriteDots, SetUp
    <3>3. CASE Enter \/ Grow \/ WriteCluster \/ Reset
      BY <3>3 DEF Enter, Grow, WriteCluster, Reset
    <3>4. CASE \E d \in Directories, n \in Names, directory \in BOOLEAN : Create(d, n, directory)
      BY <3>4 DEF Create, Misread
    <3>5. CASE \/ \E h \in Handles, d \in Directories, n \in Names : Open(h, d, n)
               \/ \E h \in Handles, d \in Directories, index \in 0 .. Slots : ReadDir(h, d, index)
               \/ \E h \in Handles, w \in Spans, b \in Bytes : Write(h, w[1], w[2], b)
      BY <3>5 DEF Open, ReadDir, Lookup, Misread, Write
    <3> QED BY <3>1, <3>2, <3>3, <3>4, <3>5 DEF Next, Steps
  <2> QED BY <2>1, <2>2
<1> HIDE DEF BoundsOK
<1>7. CASE \E d \in Directories, n \in Names, directory \in BOOLEAN : Create(d, n, directory)
  BY <1>0, <1>1, <1>3, <1>4, <1>7 DEF Create, Misread, BoundsOK, volume
<1>8. CASE \/ \E h \in Handles, d \in Directories, n \in Names : Open(h, d, n)
           \/ \E h \in Handles, d \in Directories, index \in 0 .. Slots : ReadDir(h, d, index)
           \/ \E h \in Handles, w \in Spans, b \in Bytes : Write(h, w[1], w[2], b)
  BY <1>0, <1>1, <1>3, <1>4, <1>8 DEF Open, ReadDir, Lookup, Misread, Write, BoundsOK
<1>9. CASE Alloc \/ Link \/ Zero \/ WriteDots
  <2>1. FatWritten \/ FatFailed \/ UNCHANGED faults => faults' \in 0 .. MaxFaults
    BY <1>1, <1>3 DEF FatWritten, FatFailed, BoundsOK
  <2>2. \A c, u : ClusterWritten(c, u) \/ ClusterFailed(c, u) => faults' \in 0 .. MaxFaults
    BY <1>1, <1>3 DEF ClusterWritten, ClusterFailed, BoundsOK
  <2>3. faults' \in 0 .. MaxFaults /\ UNCHANGED << calls, resets, made >>
    BY <1>9, <2>1, <2>2 DEF Alloc, Link, Zero, WriteDots, SetUp
  <2> QED BY <1>0, <1>1, <2>3 DEF BoundsOK
<1>10. CASE Grow
  BY <1>0, <1>1, <1>10 DEF Grow, bounds, BoundsOK
<1>11. CASE Enter
  <2>1. faults' \in 0 .. MaxFaults
    BY <1>3, <1>6, <1>11 DEF Enter, ClusterFailed
  <2>2. << op.d, op.n >> \in Cluster \X Names
    <3>1. CreatingOK(op, fat, dfat, disk, handles)
      BY <1>11, PcOf DEF Enter, ChainInv, VolumeOK
    <3> QED BY <3>1 DEF CreatingOK, Creating
  <2> QED BY <1>0, <1>1, <1>11, <2>1, <2>2 DEF Enter, BoundsOK
<1>12. CASE WriteCluster
  <2>1. faults' \in 0 .. MaxFaults
    <3>1. PICK c, r : /\ r \in ReadInto(c, Junk) \/ r = << Junk, faults >>
                      /\ faults' = r[2] \/ Fault
      BY <1>12 DEF WriteCluster, ClusterFailed
    <3>2. r = << Junk, faults >> => r[2] \in 0 .. MaxFaults
      BY <1>1 DEF BoundsOK
    <3> QED BY <1>3, <1>6, <3>1, <3>2
  <2> QED BY <1>0, <1>1, <1>12, <2>1 DEF WriteCluster, BoundsOK
<1>13. CASE Reset
  BY <1>0, <1>1, <1>5, <1>13 DEF Reset, BoundsOK
<1>14. CASE UNCHANGED vars
  BY <1>0, <1>1, <1>14 DEF vars, bounds, BoundsOK
<1> QED BY <1>7, <1>8, <1>9, <1>10, <1>11, <1>12, <1>13, <1>14 DEF Next, Steps

-----------------------------------------------------------------------------
(* Each step keeps the volume sound.                                       *)

LEMMA LowestIn ==
  ASSUME NEW S \in SUBSET Nat, S # {}
  PROVE  LowestOf(S) \in S /\ \A k \in S : LowestOf(S) <= k
BY Least DEF LowestOf

LEMMA HeadChains ==
  ASSUME VolumeOK
  PROVE  /\ \A c \in Firsts(disk, handles) : c \in Cluster /\ Begins(fat, c) /\ Ends(fat, c)
         /\ \A d \in Directories : d \in Firsts(disk, handles)
         /\ \A h \in Handles : handles[h].first # 0 => handles[h].first \in Firsts(disk, handles)
<1>1. \A c \in Firsts(disk, handles) : BeginsBoth(fat, dfat, c)
  BY DEF VolumeOK, HeadsOK
<1>2. LinkedOnce(fat) /\ fat \in Tables /\ \A c : BeginsBoth(fat, dfat, c) => Begins(fat, c)
  BY TablesLead DEF VolumeOK, TablesOK
<1>3. ASSUME NEW c \in Firsts(disk, handles) PROVE c \in Cluster /\ Begins(fat, c) /\ Ends(fat, c)
  <2>1. Begins(fat, c)
    BY <1>1, <1>2
  <2> QED BY <1>2, <2>1, ChainEnds DEF Begins
<1>4. \A h \in Handles : handles[h].first # 0 => handles[h].first \in Firsts(disk, handles)
  BY DEF Firsts
<1>5. \A d \in Directories : d \in Firsts(disk, handles)
  <2>1. \A h \in Handles : handles[h].directory => handles[h].first # 0
    BY DEF VolumeOK, HandlesOK
  <2> QED BY <1>4, <2>1 DEF Directories, Firsts
<1> QED BY <1>3, <1>4, <1>5

LEMMA WrittenLands ==
  ASSUME VolumeOK, fat' \in Tables, FatWritten \/ FatFailed
  PROVE  Landed(fat', dfat, dfat')
<1>1. dfat \in Tables
  BY DEF VolumeOK, TablesOK
<1>2. CASE FatWritten
  BY <1>2 DEF FatWritten, Landed
<1>3. CASE FatFailed
  <2>1. PICK landed \in SUBSET { c \in Cluster : fat'[c] # dfat[c] } :
          dfat' = [c \in Cluster |-> IF c \in landed THEN fat'[c] ELSE dfat[c]]
    BY <1>3 DEF FatFailed
  <2> QED BY <1>1, <2>1 DEF Landed, Tables
<1> QED BY <1>2, <1>3

LEMMA AllocStep ==
  ASSUME VolumeOK, Alloc
  PROVE  VolumeOK'
<1> DEFINE c == LowestOf(FreeClusters)
<1>1. UNCHANGED disk /\ op.pc = "alloc" /\ CallOK(op, fat, dfat, disk, handles)
  BY DEF Alloc, VolumeOK
<1>2. CASE FreeClusters = {}
  <2>1. UNCHANGED << fat, dfat, handles >> /\ op' = Idle
    BY <1>2 DEF Alloc, NoCluster
  <2> QED BY <1>1, <2>1 DEF VolumeOK, CallOK
<1>3. CASE FreeClusters # {}
  <2>1. c \in Cluster /\ fat[c] = Free
    <3>1. FreeClusters \in SUBSET Nat
      BY Constants DEF FreeClusters
    <3>2. c \in FreeClusters
      BY <1>3, <3>1, LowestIn
    <3> QED BY <3>2 DEF FreeClusters
  <2>2. /\ fat' = [fat EXCEPT ![c] = Eoc]
        /\ FatWritten \/ FatFailed
        /\ \/ dfat'[c] = fat'[c] /\ op' = AfterAlloc(op, c) /\ FirstKept(op, c)
           \/ op' = Idle /\ UNCHANGED handles
    BY <1>3 DEF Alloc, Claimed, NoCluster
  <2> HIDE DEF c
  <2>3. fat \in Tables /\ fat' \in Tables /\ fat'[c] = Eoc /\ \A x \in Cluster : x # c => fat'[x] = fat[x]
    BY <2>1, <2>2 DEF VolumeOK, TablesOK, Tables, FatEntry
  <2>4. Landed(fat', dfat, dfat')
    BY <2>2, <2>3, WrittenLands
  <2>5. TablesOK(fat, dfat) /\ HeadsOK(fat, dfat, disk, handles)
    BY DEF VolumeOK
  <2>6. Landed([fat EXCEPT ![c] = Eoc], dfat, dfat')
    BY <2>2, <2>4
  <2>7. /\ TablesOK(fat', dfat')
        /\ \A x : BeginsBoth(fat, dfat, x) => BeginsBoth(fat', dfat', x) /\ x # c
        /\ dfat'[c] = Eoc => BeginsBoth(fat', dfat', c)
    BY <2>1, <2>2, <2>5, <2>6, MarkKeeps, Zenon
  <2>8. \A x \in Firsts(disk, handles) : BeginsBoth(fat', dfat', x) /\ x # c
    BY <2>5, <2>7 DEF HeadsOK
  <2>9. CASE op' = Idle /\ UNCHANGED handles
    <3>1. HeadsOK(fat', dfat', disk, handles)
      BY <2>8 DEF HeadsOK
    <3> QED BY <1>1, <2>7, <2>9, <3>1 DEF VolumeOK, CallOK
  <2>10. CASE dfat'[c] = fat'[c] /\ op' = AfterAlloc(op, c) /\ FirstKept(op, c)
    <3>1. BeginsBoth(fat', dfat', c)
      BY <2>3, <2>7, <2>10
    <3>2. Fresh(c, fat', dfat', disk, handles)
      BY <2>3, <2>8, <3>1 DEF Fresh
    <3>3. HeadsOK(fat', dfat', disk, handles)
      BY <2>8 DEF HeadsOK
    <3>4. c # 0 /\ \A x \in Cluster : dfat[x] # Free => dfat'[x] # Free
      <4>1. c # 0
        BY <2>1, Constants
      <4>2. ASSUME NEW x \in Cluster, dfat[x] # Free PROVE dfat'[x] # Free
        <5>1. fat[x] # Free
          BY <2>5, <4>2, Constants DEF TablesOK, Behind
        <5>2. fat'[x] # Free
          BY <2>3, <5>1, Constants
        <5> QED BY <2>4, <4>2, <5>2 DEF Landed
      <4> QED BY <4>1, <4>2
    <3>5. CASE op.kind = "create"
      <4>1. CreatingOK(op, fat, dfat, disk, handles)
        BY <1>1, <3>5, PcOf
      <4>2. handles' = handles
        BY <2>10, <3>5 DEF FirstKept
      <4>3. CreatingOK(op', fat', dfat', disk, handles)
        <5>1. CASE op.extend
          <6>1. op' = [op EXCEPT !.pc = "link", !.new = c]
            BY <2>10, <5>1 DEF AfterAlloc
          <6>2. /\ op \in Creating /\ op.slot + Needs(op.n) - 1 <= Slots /\ op.first = 0
                /\ fat[op.cur] = Eoc /\ dfat[op.cur] # Free
            BY <1>1, <4>1, <5>1 DEF CreatingOK
          <6>3. op' \in Creating /\ op'.slot = op.slot /\ op'.n = op.n /\ op'.first = 0
                /\ op'.cur = op.cur /\ op'.new = c /\ op'.pc = "link" /\ op.cur \in Cluster
            BY <2>1, <6>1, <6>2 DEF Creating
          <6>4. op.cur # c /\ fat'[op.cur] = Eoc /\ dfat'[op.cur] # Free
            BY <2>1, <2>3, <3>4, <6>2, <6>3, Constants
          <6>5. CanLink(op', fat', dfat', disk, handles)
            BY <3>2, <6>3, <6>4 DEF CanLink
          <6> QED BY <6>2, <6>3, <6>5 DEF CreatingOK
        <5>2. CASE ~ op.extend
          <6>1. op' = [op EXCEPT !.pc = "dots", !.first = c]
            BY <2>10, <3>5, <5>2 DEF AfterAlloc
          <6>2. op \in Creating /\ op.slot + Needs(op.n) - 1 <= Slots /\ op.directory
            BY <1>1, <4>1, <5>2 DEF CreatingOK
          <6>3. op' \in Creating /\ op'.slot = op.slot /\ op'.n = op.n /\ op'.first = c
                /\ op'.directory = op.directory /\ op'.pc = "dots"
            BY <2>1, <6>1, <6>2 DEF Creating
          <6> QED BY <3>2, <3>4, <6>2, <6>3 DEF CreatingOK
        <5> QED BY <5>1, <5>2
      <4> QED BY <1>1, <2>7, <3>3, <4>2, <4>3 DEF VolumeOK, CallOK
    <3>6. CASE op.kind # "create"
      <4>1. op.kind = "write" /\ StoringOK(op, fat, dfat, disk, handles)
        BY <1>1, <3>6, PcOf
      <4>2. op \in Storing /\ << op.offset, op.n >> \in Spans
            /\ handles[op.h] # NoNode /\ ~ handles[op.h].directory
        BY <4>1 DEF StoringOK
      <4>3. CASE op.extend
        <5>1. op' = [op EXCEPT !.pc = "link", !.new = c] /\ handles' = handles
          BY <2>10, <4>3 DEF AfterAlloc, FirstKept
        <5>2. fat[op.cur] = Eoc /\ dfat[op.cur] # Free /\ op.cur \in Cluster /\ op.skip >= 1
          BY <1>1, <4>1, <4>3 DEF StoringOK
        <5>3. op' \in Storing /\ op'.cur = op.cur /\ op'.new = c /\ op'.pc = "link" /\ op'.skip = op.skip
              /\ op'.h = op.h /\ op'.offset = op.offset /\ op'.n = op.n
          BY <2>1, <4>2, <5>1 DEF Storing
        <5>4. op.cur # c /\ fat'[op.cur] = Eoc /\ dfat'[op.cur] # Free
          BY <2>1, <2>3, <3>4, <5>2, Constants
        <5>5. CanLink(op', fat', dfat', disk, handles)
          BY <3>2, <5>3, <5>4 DEF CanLink
        <5>6. StoringOK(op', fat', dfat', disk, handles)
          BY <4>2, <5>2, <5>3, <5>5 DEF StoringOK
        <5> QED BY <1>1, <2>7, <3>3, <5>1, <5>6 DEF VolumeOK, CallOK
      <4>4. CASE ~ op.extend
        <5>1. op' = [op EXCEPT !.pc = "body", !.cur = c]
              /\ handles' = [handles EXCEPT ![op.h].first = c]
          BY <2>10, <3>6, <4>1, <4>4 DEF AfterAlloc, FirstKept
        <5>2. op' \in Storing /\ op'.cur = c /\ op'.pc = "body"
              /\ op'.h = op.h /\ op'.offset = op.offset /\ op'.n = op.n /\ op.h \in Handles
          BY <2>1, <4>2, <5>1 DEF Storing
        <5>3. HandlesOK(handles)
          BY DEF VolumeOK
        <5>4. handles[op.h] \in Node
          BY <4>2, <5>2, <5>3 DEF HandlesOK
        <5>5. /\ handles'[op.h] \in Node /\ handles'[op.h].first = c
              /\ handles'[op.h].directory = handles[op.h].directory
              /\ \A h \in Handles : h # op.h => handles'[h] = handles[h]
          BY <2>1, <5>1, <5>2, <5>3, <5>4 DEF HandlesOK, Node
        <5>6. HandlesOK(handles')
          BY <3>4, <5>1, <5>3, <5>5 DEF HandlesOK
        <5>7. Firsts(disk, handles') \subseteq Firsts(disk, handles) \cup {c}
          BY <5>2, <5>5 DEF Firsts
        <5>8. HeadsOK(fat', dfat', disk, handles')
          BY <2>8, <3>1, <5>7 DEF HeadsOK
        <5>9. handles'[op.h] # NoNode
          BY <3>4, <5>5 DEF NoNode
        <5>10. Ends(fat', c)
          BY <2>1, <2>3, EndsAlone
        <5>11. StoringOK(op', fat', dfat', disk, handles')
          BY <2>1, <3>1, <4>2, <5>2, <5>5, <5>9, <5>10 DEF StoringOK, BeginsBoth
        <5> QED BY <1>1, <2>7, <5>6, <5>8, <5>11 DEF VolumeOK, CallOK
      <4> QED BY <4>3, <4>4
    <3> QED BY <3>5, <3>6
  <2> QED BY <2>2, <2>9, <2>10
<1> QED BY <1>2, <1>3

LEMMA LinkStep ==
  ASSUME VolumeOK, Link
  PROVE  VolumeOK'
<1>1. /\ op.pc = "link" /\ CallOK(op, fat, dfat, disk, handles)
      /\ fat' = [fat EXCEPT ![op.cur] = op.new] /\ op' = Linked(op)
      /\ UNCHANGED << disk, handles >>
  BY DEF Link, VolumeOK
<1>2. op.cur \in Cluster /\ CanLink(op, fat, dfat, disk, handles)
  BY <1>1, PcOf DEF CreatingOK, Creating, StoringOK
<1>3. /\ op.cur # op.new /\ fat[op.cur] = Eoc /\ dfat[op.cur] # Free /\ fat[op.new] = Eoc
      /\ op.new \in Cluster /\ BeginsBoth(fat, dfat, op.new) /\ op.new \notin Firsts(disk, handles)
  BY <1>2 DEF CanLink, Fresh, BeginsBoth
<1>4. fat \in Tables /\ TablesOK(fat, dfat) /\ HeadsOK(fat, dfat, disk, handles)
  BY DEF VolumeOK, TablesOK
<1>5. fat' \in Tables /\ fat'[op.new] = Eoc
  BY <1>1, <1>2, <1>3, <1>4 DEF Tables, FatEntry
<1>6. Landed([fat EXCEPT ![op.cur] = op.new], dfat, dfat')
  <2>1. FatWritten \/ FatFailed
    BY DEF Link
  <2>2. Landed(fat', dfat, dfat')
    BY <1>5, <2>1, WrittenLands
  <2> QED BY <1>1, <2>2
<1>7. /\ TablesOK(fat', dfat')
      /\ \A x : BeginsBoth(fat, dfat, x) /\ x # op.new => BeginsBoth(fat', dfat', x)
  BY <1>1, <1>2, <1>3, <1>4, <1>6, LinkKeeps, Zenon
<1>8. HeadsOK(fat', dfat', disk, handles)
  BY <1>3, <1>4, <1>7 DEF HeadsOK
<1>9. CASE op.kind = "create"
  <2>1. CreatingOK(op, fat, dfat, disk, handles) /\ op' = [op EXCEPT !.pc = "zero"]
    BY <1>1, <1>9, PcOf DEF Linked
  <2>2. op' \in Creating /\ op'.new = op.new /\ op'.cur = op.cur /\ op'.slot = op.slot /\ op'.n = op.n
        /\ op'.pc = "zero" /\ op'.first = op.first
    BY <2>1 DEF CreatingOK, Creating
  <2>3. fat'[op.cur] = op.new
    BY <1>1, <1>2, <1>4 DEF Tables
  <2>4. CreatingOK(op', fat', dfat', disk, handles)
    BY <1>1, <1>3, <2>1, <2>2, <2>3 DEF CreatingOK
  <2> QED BY <1>1, <1>7, <1>8, <2>4 DEF VolumeOK, CallOK
<1>10. CASE op.kind # "create"
  <2>1. StoringOK(op, fat, dfat, disk, handles)
    BY <1>1, <1>10, PcOf
  <2>2. op' = [op EXCEPT !.pc = "body", !.extend = FALSE, !.cur = op.new, !.skip = op.skip - 1]
    BY <1>1, <1>10 DEF Linked
  <2>3. op \in Storing /\ op.skip \in Nat /\ op.skip >= 1
    BY <1>1, <2>1 DEF StoringOK, Storing
  <2>4. op' \in Storing /\ op'.pc = "body" /\ op'.cur = op.new
        /\ op'.h = op.h /\ op'.offset = op.offset /\ op'.n = op.n
    <3>1. op.skip - 1 \in Nat
      BY <2>3
    <3> QED BY <1>3, <2>2, <2>3, <3>1 DEF Storing
  <2>5. Ends(fat', op.new)
    BY <1>3, <1>5, EndsAlone
  <2>6. dfat'[op.new] # Free
    BY <1>5, <1>6, <1>1, <1>3, Constants DEF Landed, BeginsBoth
  <2>7. StoringOK(op', fat', dfat', disk, handles)
    BY <1>3, <2>1, <2>4, <2>5, <2>6 DEF StoringOK
  <2> QED BY <1>1, <1>7, <1>8, <2>7 DEF VolumeOK, CallOK
<1> QED BY <1>9, <1>10

\* A step that puts no entry on the disk and leaves tables and nodes alone.
LEMMA NoEntryStep ==
  ASSUME VolumeOK, NEW c \in Cluster, NEW u \in [1 .. Slots -> Unit],
         \A i \in 1 .. Slots : Named(u[i]) => u[i] = disk[c][i],
         disk' \in {disk, [disk EXCEPT ![c] = u]}, UNCHANGED << fat, dfat, handles >>
  PROVE  /\ EntriesOK(disk') /\ HeadsOK(fat', dfat', disk', handles')
         /\ TablesOK(fat', dfat') /\ HandlesOK(handles')
         /\ \A x : Fresh(x, fat, dfat, disk, handles) => Fresh(x, fat', dfat', disk', handles')
<1>1. EntriesOK(disk) /\ HeadsOK(fat, dfat, disk, handles) /\ TablesOK(fat, dfat) /\ HandlesOK(handles)
  BY DEF VolumeOK
<1>2. EntriesOK(disk') /\ Firsts(disk', handles) \subseteq Firsts(disk, handles)
  <2>1. CASE disk' = disk
    BY <1>1, <2>1
  <2>2. CASE disk' = [disk EXCEPT ![c] = u]
    <3>1. [disk EXCEPT ![c] = u] \in Disks /\ NoneNew([disk EXCEPT ![c] = u], disk)
      BY <1>1, ClusterKeeps
    <3>2. disk' \in Disks /\ NoneNew(disk', disk)
      BY <2>2, <3>1
    <3> QED BY <1>1, <3>2, NoneNewKeeps
  <2> QED BY <2>1, <2>2
<1> QED BY <1>1, <1>2 DEF HeadsOK, Fresh

LEMMA BlankUnits ==
  /\ Blank \in [1 .. Slots -> Unit] /\ Junk \in [1 .. Slots -> Unit]
  /\ \A i \in 1 .. Slots : ~ Named(Blank[i]) /\ ~ Named(Junk[i])
BY DEF Blank, Junk, Unit, End, Stale, Named

LEMMA ZeroStep ==
  ASSUME VolumeOK, Zero
  PROVE  VolumeOK'
<1>1. /\ op.pc = "zero" /\ CallOK(op, fat, dfat, disk, handles) /\ UNCHANGED << fat, dfat, handles >>
      /\ disk' \in {disk, [disk EXCEPT ![op.new] = Blank]}
      /\ op' = [op EXCEPT !.pc = IF op.directory THEN "alloc" ELSE "enter",
                          !.extend = FALSE, !.cur = op.new]
  BY DEF Zero, SetUp, VolumeOK, ClusterWritten, ClusterFailed
<1>2. CreatingOK(op, fat, dfat, disk, handles)
  BY <1>1, PcOf
<1>3. op \in Creating /\ op.new \in Cluster /\ op.first = 0 /\ op.slot + Needs(op.n) - 1 <= Slots
  BY <1>1, <1>2 DEF CreatingOK
<1>4. EntriesOK(disk') /\ HeadsOK(fat', dfat', disk', handles')
        /\ TablesOK(fat', dfat') /\ HandlesOK(handles')
  BY <1>1, <1>3, BlankUnits, NoEntryStep
<1>5. /\ op' \in Creating /\ op'.first = 0 /\ op'.slot = op.slot /\ op'.n = op.n /\ ~ op'.extend
      /\ op'.directory = op.directory /\ op'.pc = IF op.directory THEN "alloc" ELSE "enter"
  BY <1>1, <1>3 DEF Creating
<1>6. CreatingOK(op', fat', dfat', disk', handles')
  BY <1>3, <1>5 DEF CreatingOK
<1> QED BY <1>4, <1>6 DEF VolumeOK, CallOK

LEMMA EntryIsUnit ==
  ASSUME NEW n \in Names \cup Dots, NEW d \in BOOLEAN, NEW c \in {0} \cup Cluster, NEW s \in 0 .. Slots
  PROVE  Sfn(n, d, c, s) \in Unit
<1>1. Sfn(n, d, c, s) \in { Sfn(m, e, x, z) : m \in Names \cup Dots, e \in BOOLEAN,
                                             x \in {0} \cup Cluster, z \in 0 .. Slots }
  OBVIOUS
<1> QED BY <1>1 DEF Unit

LEMMA DotUnits ==
  ASSUME NEW c \in Cluster, NEW d \in Cluster
  PROVE  /\ DotEntries(c, d) \in [1 .. Slots -> Unit]
         /\ \A i \in 1 .. Slots : ~ Named(DotEntries(c, d)[i])
<1> DEFINE one == Sfn(".", TRUE, c, 0)
           two == Sfn("..", TRUE, IF d = Root THEN 0 ELSE d, 0)
<1>1. one \in Unit /\ two \in Unit
  <2>1. 0 \in 0 .. Slots /\ "." \in Names \cup Dots /\ ".." \in Names \cup Dots /\ TRUE \in BOOLEAN
    BY Constants DEF Dots
  <2>2. c \in {0} \cup Cluster /\ (IF d = Root THEN 0 ELSE d) \in {0} \cup Cluster
    OBVIOUS
  <2> QED BY <2>1, <2>2, EntryIsUnit
<1>2. ~ Named(one) /\ ~ Named(two)
  BY DEF Named, Sfn, Dots
<1> HIDE DEF one, two
<1>3. DotEntries(c, d) = [Blank EXCEPT ![1] = one, ![2] = two]
  BY DEF DotEntries, one, two
<1>4. ASSUME NEW i \in 1 .. Slots
      PROVE  DotEntries(c, d)[i] \in Unit /\ ~ Named(DotEntries(c, d)[i])
  <2>1. DotEntries(c, d)[i] \in {one, two, Blank[i]}
    BY <1>3 DEF Blank
  <2> QED BY <1>1, <1>2, <2>1, BlankUnits
<1>5. DotEntries(c, d) = [i \in 1 .. Slots |-> DotEntries(c, d)[i]]
  BY <1>3 DEF Blank
<1> QED BY <1>4, <1>5

LEMMA WriteDotsStep ==
  ASSUME VolumeOK, WriteDots
  PROVE  VolumeOK'
<1>1. /\ op.pc = "dots" /\ CallOK(op, fat, dfat, disk, handles) /\ UNCHANGED << fat, dfat, handles >>
      /\ disk' \in {disk, [disk EXCEPT ![op.first] = DotEntries(op.first, op.d)]}
      /\ op' = [op EXCEPT !.pc = "enter"]
  BY DEF WriteDots, SetUp, VolumeOK, ClusterWritten, ClusterFailed
<1>2. CreatingOK(op, fat, dfat, disk, handles)
  BY <1>1, PcOf
<1>3. /\ op \in Creating /\ op.directory /\ op.first # 0 /\ op.slot + Needs(op.n) - 1 <= Slots
      /\ op.d \in Cluster /\ op.first \in Cluster /\ Fresh(op.first, fat, dfat, disk, handles)
  BY <1>1, <1>2 DEF CreatingOK, Creating
<1>4. /\ EntriesOK(disk') /\ HeadsOK(fat', dfat', disk', handles')
      /\ TablesOK(fat', dfat') /\ HandlesOK(handles')
      /\ Fresh(op.first, fat', dfat', disk', handles')
  BY <1>1, <1>3, DotUnits, NoEntryStep
<1>5. /\ op' \in Creating /\ op'.first = op.first /\ op'.slot = op.slot /\ op'.n = op.n
      /\ op'.directory = op.directory /\ op'.pc = "enter"
  BY <1>1, <1>3 DEF Creating
<1>6. CreatingOK(op', fat', dfat', disk', handles')
  BY <1>3, <1>4, <1>5 DEF CreatingOK
<1> QED BY <1>4, <1>6 DEF VolumeOK, CallOK

\* The cluster an entry is put into: the entry last, its name before it.
LEMMA EnteredUnits ==
  ASSUME NEW o \in Creating, o.slot + Needs(o.n) - 1 <= Slots, NEW base \in [1 .. Slots -> Unit]
  PROVE  /\ Entered(base, o) \in [1 .. Slots -> Unit]
         /\ o.slot + Needs(o.n) - 1 \in 1 .. Slots
         /\ Entered(base, o)[o.slot + Needs(o.n) - 1] = Sfn(o.n, o.directory, o.first, 0)
         /\ \A i \in 1 .. Slots : i # o.slot + Needs(o.n) - 1 =>
              Entered(base, o)[i] = base[i] \/ ~ Named(Entered(base, o)[i])
<1>1. /\ o.n \in Names /\ o.slot \in 1 .. Slots /\ o.directory \in BOOLEAN
      /\ o.first \in {0} \cup Cluster
  BY DEF Creating
<1>2. Needs(o.n) \in 1 .. Slots /\ Slots \in Nat
  BY <1>1, Constants
<1> DEFINE j == o.slot + Needs(o.n) - 1
           e == Sfn(o.n, o.directory, o.first, 0)
<1>3. j \in 1 .. Slots /\ o.slot <= j /\ j \in o.slot .. j
  BY <1>1, <1>2
<1>4. e \in Unit
  <2>1. 0 \in 0 .. Slots /\ o.n \in Names \cup Dots
    BY <1>1, <1>2
  <2> QED BY <1>1, <2>1, EntryIsUnit
<1>5. Lfn(o.n) \in Unit /\ ~ Named(Lfn(o.n))
  BY <1>1 DEF Unit, Lfn, Named
<1>6. Entered(base, o) = [i \in 1 .. Slots |-> IF i \notin o.slot .. j THEN base[i]
                                               ELSE IF i < j THEN Lfn(o.n) ELSE e]
  BY DEF Entered
<1> HIDE DEF e, j
<1>7. \A i \in 1 .. Slots : Entered(base, o)[i] \in {base[i], Lfn(o.n), e}
  BY <1>6
<1>8. Entered(base, o) \in [1 .. Slots -> Unit]
  BY <1>4, <1>5, <1>6
<1>9. Entered(base, o)[j] = e
  BY <1>3, <1>6
<1>10. ASSUME NEW i \in 1 .. Slots, i # j
       PROVE  Entered(base, o)[i] = base[i] \/ Entered(base, o)[i] = Lfn(o.n)
  BY <1>1, <1>3, <1>6, <1>10
<1> QED BY <1>3, <1>5, <1>8, <1>9, <1>10 DEF e, j

LEMMA EnterStep ==
  ASSUME VolumeOK, Enter
  PROVE  VolumeOK'
<1>1. op.pc = "enter" /\ CallOK(op, fat, dfat, disk, handles) /\ UNCHANGED << fat, dfat, handles >>
      /\ op' = Idle
  BY DEF Enter, VolumeOK
<1>2. CreatingOK(op, fat, dfat, disk, handles)
  BY <1>1, PcOf
<1>3. /\ op \in Creating /\ op.slot + Needs(op.n) - 1 <= Slots
      /\ op.cur \in Cluster /\ op.n \in Names /\ op.directory \in BOOLEAN /\ op.first \in {0} \cup Cluster
      /\ op.directory <=> op.first # 0
      /\ op.first # 0 => Fresh(op.first, fat, dfat, disk, handles)
  BY <1>1, <1>2 DEF CreatingOK, Creating
<1>4. TablesOK(fat, dfat) /\ EntriesOK(disk) /\ HandlesOK(handles) /\ HeadsOK(fat, dfat, disk, handles)
  BY DEF VolumeOK
<1>5. PICK base \in {disk[op.cur], Blank} : disk' \in {disk, [disk EXCEPT ![op.cur] = Entered(base, op)]}
  <2>1. PICK r \in ReadInto(op.cur, IF op.cur = op.new THEN Blank ELSE disk[op.cur]) :
          \/ disk' = [disk EXCEPT ![op.cur] = Entered(r[1], op)]
          \/ ClusterFailed(op.cur, Entered(r[1], op))
    BY DEF Enter
  <2>2. r[1] \in {disk[op.cur], Blank}
    BY <2>1 DEF ReadInto
  <2>3. disk' \in {disk, [disk EXCEPT ![op.cur] = Entered(r[1], op)]}
    BY <2>1 DEF ClusterFailed
  <2> QED BY <2>2, <2>3
<1> DEFINE u == Entered(base, op)
           j == op.slot + Needs(op.n) - 1
<1>6. base \in [1 .. Slots -> Unit] /\ \A i \in 1 .. Slots : Named(base[i]) => base[i] = disk[op.cur][i]
  <2>1. disk[op.cur] \in [1 .. Slots -> Unit]
    BY <1>3, <1>4 DEF EntriesOK, Disks
  <2> QED BY <2>1, BlankUnits
<1>7. /\ u \in [1 .. Slots -> Unit] /\ j \in 1 .. Slots
      /\ u[j] = Sfn(op.n, op.directory, op.first, 0)
      /\ \A i \in 1 .. Slots : i # j => u[i] = base[i] \/ ~ Named(u[i])
  BY <1>3, <1>6, EnteredUnits
<1> HIDE DEF u, j
<1>8. \A i \in 1 .. Slots : i # j /\ Named(u[i]) => u[i] = disk[op.cur][i]
  BY <1>6, <1>7
<1>9. op.first \notin Firsts(disk, handles)
  <2>1. 0 \notin Firsts(disk, handles)
    BY Constants DEF Firsts
  <2> QED BY <1>3, <2>1 DEF Fresh
<1>10. /\ EntriesOK([disk EXCEPT ![op.cur] = u])
       /\ Firsts([disk EXCEPT ![op.cur] = u], handles) \subseteq Firsts(disk, handles) \cup ({op.first} \ {0})
  <2>1. Sfn(op.n, op.directory, op.first, 0)[3] = op.directory
        /\ Sfn(op.n, op.directory, op.first, 0)[4] = op.first
    BY DEF Sfn
  <2>2. u[j][4] = op.first /\ (u[j][3] => op.first # 0)
    BY <1>3, <1>7, <2>1
  <2>3. EntriesOK(disk) /\ op.cur \in Cluster /\ u \in [1 .. Slots -> Unit] /\ j \in 1 .. Slots
    BY <1>3, <1>4, <1>7
  <2>4. Puts(disk, op.cur, u, j, op.first, handles)
    BY <1>8, <1>9, <2>2, <2>3 DEF Puts
  <2> QED BY <2>4, EntryKeeps, Zenon
<1>11. disk' = disk \/ disk' = [disk EXCEPT ![op.cur] = u]
  BY <1>5 DEF u
<1>12. EntriesOK(disk') /\ Firsts(disk', handles) \subseteq Firsts(disk, handles) \cup ({op.first} \ {0})
  BY <1>4, <1>10, <1>11
<1>13. HeadsOK(fat, dfat, disk', handles)
  BY <1>3, <1>4, <1>12 DEF HeadsOK, Fresh
<1> QED BY <1>1, <1>4, <1>12, <1>13 DEF VolumeOK, CallOK

LEMMA GrowStep ==
  ASSUME VolumeOK, Grow
  PROVE  VolumeOK'
<1> DEFINE ch == Walk(fat, op.cur)
<1>1. /\ op.pc = "body" /\ CallOK(op, fat, dfat, disk, handles) /\ UNCHANGED << fat, dfat, disk, handles >>
      /\ Len(ch) <= op.skip
      /\ op' = [op EXCEPT !.pc = "alloc", !.extend = TRUE, !.cur = ch[Len(ch)],
                          !.skip = op.skip - (Len(ch) - 1)]
  BY DEF Grow, VolumeOK, volume, Short
<1>2. StoringOK(op, fat, dfat, disk, handles)
  BY <1>1, PcOf
<1>3. op \in Storing /\ op.skip \in Nat /\ Ends(fat, op.cur) /\ op.cur \in Cluster /\ dfat[op.cur] # Free
  BY <1>1, <1>2 DEF StoringOK, Storing
<1>4. ch \in Seq(Cluster) /\ Len(ch) \in 1 .. Total + 1 /\ fat[ch[Len(ch)]] = Eoc
  BY <1>3 DEF Ends, Leads
<1>8. dfat[ch[Len(ch)]] # Free
  <2>1. Len(ch) \in 1 .. Len(ch) /\ TablesOK(fat, dfat)
    BY <1>4 DEF VolumeOK
  <2> QED BY <1>3, <2>1, InUseBoth
<1> HIDE DEF ch
<1>5. ch[Len(ch)] \in Cluster /\ op.skip - (Len(ch) - 1) \in Nat /\ op.skip - (Len(ch) - 1) >= 1
  <2>1. Len(ch) \in Nat /\ Len(ch) >= 1 /\ Len(ch) <= op.skip
    BY <1>1, <1>4
  <2>2. ch[Len(ch)] \in Cluster
    BY <1>4, <2>1
  <2> QED BY <1>3, <2>1, <2>2
<1>6. /\ op' \in Storing /\ op'.pc = "alloc" /\ op'.cur = ch[Len(ch)] /\ op'.skip >= 1
      /\ op'.h = op.h /\ op'.offset = op.offset /\ op'.n = op.n
  BY <1>1, <1>3, <1>5 DEF Storing
<1>7. StoringOK(op', fat', dfat', disk', handles')
  BY <1>1, <1>2, <1>4, <1>5, <1>6, <1>8 DEF StoringOK
<1> QED BY <1>1, <1>7 DEF VolumeOK, CallOK

LEMMA MergedUnits ==
  ASSUME NEW o \in Storing, NEW base \in [1 .. Slots -> Unit]
  PROVE  /\ Merged(base, o) \in [1 .. Slots -> Unit]
         /\ \A i \in 1 .. Slots : Named(Merged(base, o)[i]) => Merged(base, o)[i] = base[i]
<1>1. Data(o.b) \in Unit /\ ~ Named(Data(o.b))
  BY DEF Storing, Unit, Data, Named
<1> QED BY <1>1 DEF Merged

LEMMA WriteClusterStep ==
  ASSUME VolumeOK, WriteCluster
  PROVE  VolumeOK'
<1> DEFINE ch == Walk(fat, op.cur)
           c == ch[op.skip + 1]
<1>1. /\ op.pc = "body" /\ CallOK(op, fat, dfat, disk, handles) /\ UNCHANGED << fat, dfat >>
      /\ ~ (Len(ch) <= op.skip)
  BY DEF WriteCluster, VolumeOK, Short
<1>2. StoringOK(op, fat, dfat, disk, handles)
  BY <1>1, PcOf
<1>3. op \in Storing /\ op.skip \in Nat /\ op.cur \in Cluster /\ Ends(fat, op.cur) /\ op.h \in Handles
      /\ dfat[op.cur] # Free
      /\ << op.offset, op.n >> \in Spans /\ op.offset \in Nat /\ op.n \in Nat
  BY <1>1, <1>2 DEF StoringOK, Storing
<1>4. TablesOK(fat, dfat) /\ EntriesOK(disk) /\ HandlesOK(handles) /\ HeadsOK(fat, dfat, disk, handles)
  BY DEF VolumeOK
<1>5. c \in Cluster /\ Ends(fat, c) /\ dfat[c] # Free
  <2>1. Len(ch) \in Nat /\ fat \in Tables
    BY <1>3, <1>4 DEF Ends, Leads, TablesOK
  <2>2. op.skip + 1 \in 1 .. Len(ch)
    BY <1>1, <1>3, <2>1
  <2> QED BY <1>3, <1>4, <2>1, <2>2, RestEnds, InUseBoth
<1>6. PICK r : /\ r[1] \in {disk[c], Junk}
               /\ \/ /\ \/ disk' = [disk EXCEPT ![c] = Merged(r[1], op)]
                        \/ ClusterFailed(c, Merged(r[1], op))
                     /\ IF op.done + Copied(op) = op.n
                        THEN op' = Idle /\ handles' = Grown(op)
                        ELSE /\ op' = [op EXCEPT !.cur = c, !.skip = 1, !.done = @ + Copied(op)]
                             /\ UNCHANGED handles
                  \/ /\ ClusterFailed(c, Merged(r[1], op))
                     /\ op' = Idle /\ UNCHANGED handles
  <2>1. \A r \in ReadInto(c, Junk) \cup {<< Junk, faults >>} : r[1] \in {disk[c], Junk}
    BY DEF ReadInto
  <2>2. WriteCluster
    OBVIOUS
  <2> HIDE DEF c
  <2>3. \A r \in (IF Partial(op) THEN ReadInto(c, Junk) ELSE { << Junk, faults >> }) :
          r[1] \in {disk[c], Junk}
    BY <2>1
  <2> QED BY <2>2, <2>3 DEF WriteCluster, c
<1> DEFINE u == Merged(r[1], op)
<1> HIDE DEF c
<1>7. u \in [1 .. Slots -> Unit] /\ \A i \in 1 .. Slots : Named(u[i]) => u[i] = disk[c][i]
  <2>1. disk[c] \in [1 .. Slots -> Unit]
    BY <1>4, <1>5 DEF EntriesOK, Disks
  <2>2. r[1] \in [1 .. Slots -> Unit] /\ (r[1] = disk[c] \/ r[1] = Junk)
    BY <1>6, <2>1, BlankUnits
  <2>3. u \in [1 .. Slots -> Unit] /\ \A i \in 1 .. Slots : Named(u[i]) => u[i] = r[1][i]
    BY <1>3, <2>2, MergedUnits
  <2>4. ASSUME NEW i \in 1 .. Slots, Named(u[i]) PROVE u[i] = disk[c][i]
    <3>1. u[i] = r[1][i] /\ Named(r[1][i])
      BY <2>3, <2>4
    <3>2. r[1] # Junk
      BY <3>1, BlankUnits
    <3> QED BY <2>2, <3>1, <3>2
  <2> QED BY <2>3, <2>4
<1> HIDE DEF u
<1>8. disk' \in {disk, [disk EXCEPT ![c] = u]}
  BY <1>6 DEF ClusterFailed, u
<1>9. EntriesOK(disk') /\ Firsts(disk', handles) \subseteq Firsts(disk, handles)
  <2>1. CASE disk' = disk
    BY <1>4, <2>1
  <2>2. CASE disk' = [disk EXCEPT ![c] = u]
    <3>1. [disk EXCEPT ![c] = u] \in Disks /\ NoneNew([disk EXCEPT ![c] = u], disk)
      BY <1>4, <1>5, <1>7, ClusterKeeps
    <3>2. disk' \in Disks /\ NoneNew(disk', disk)
      BY <2>2, <3>1
    <3> QED BY <1>4, <3>2, NoneNewKeeps
  <2> QED BY <1>8, <2>1, <2>2
<1>10. /\ HandlesOK(handles')
       /\ \A h \in Handles : handles'[h].first = handles[h].first
       /\ handles'[op.h] # NoNode /\ ~ handles'[op.h].directory
  <2>1. handles[op.h] # NoNode /\ ~ handles[op.h].directory
    BY <1>2 DEF StoringOK
  <2>2. CASE UNCHANGED handles
    BY <1>4, <2>1, <2>2
  <2>3. CASE handles' = Grown(op)
    <3>1. handles[op.h] \in Node /\ handles[op.h].size \in Nat
      BY <1>3, <1>4, <2>1, Constants, Fat32Assumption DEF HandlesOK, Node
    <3> DEFINE z == IF op.offset + op.n > handles[op.h].size THEN op.offset + op.n ELSE handles[op.h].size
    <3>2. handles' = [handles EXCEPT ![op.h].size = z]
      BY <2>3 DEF Grown
    <3>3. << op.offset, op.n >>[1] + << op.offset, op.n >>[2] = op.offset + op.n
      OBVIOUS
    <3>4. op.offset + op.n \in { w[1] + w[2] : w \in Spans }
      BY <1>3, <3>3
    <3>5. z \in 0 .. Slots \cup { w[1] + w[2] : w \in Spans } /\ z \in Nat
      BY <1>3, <3>1, <3>4 DEF Node
    <3> HIDE DEF z
    <3>6. /\ handles'[op.h] \in Node /\ handles'[op.h].first = handles[op.h].first
          /\ handles'[op.h].directory = handles[op.h].directory /\ handles'[op.h].size = z
          /\ \A h \in Handles : h # op.h => handles'[h] = handles[h]
      BY <1>3, <1>4, <3>1, <3>2, <3>5 DEF HandlesOK, Node
    <3>7. HandlesOK(handles')
      BY <1>4, <3>2, <3>6 DEF HandlesOK
    <3>8. handles'[op.h] # NoNode
      BY <3>5, <3>6 DEF NoNode
    <3> QED BY <2>1, <3>6, <3>7, <3>8
  <2> QED BY <1>6, <2>2, <2>3
<1>11. HeadsOK(fat', dfat', disk', handles')
  <2>1. Firsts(disk', handles') = Firsts(disk', handles)
    BY <1>10 DEF Firsts
  <2> QED BY <1>1, <1>4, <1>9, <2>1 DEF HeadsOK
<1>12. CallOK(op', fat', dfat', disk', handles')
  <2>1. CASE op' = Idle
    BY <2>1 DEF CallOK
  <2>2. CASE op' = [op EXCEPT !.cur = c, !.skip = 1, !.done = op.done + Copied(op)]
    <3>1. op.done + Copied(op) \in Int
      <4>1. Slots \in Nat /\ Slots # 0 /\ op.done \in Int
        BY <1>3, Constants DEF Storing
      <4>2. op.offset % Slots \in Int
        BY <1>3, <4>1
      <4> QED BY <1>3, <4>1, <4>2 DEF Copied, Within
    <3>2. /\ op' \in Storing /\ op'.pc = "body" /\ op'.cur = c /\ op'.h = op.h
          /\ op'.offset = op.offset /\ op'.n = op.n
      BY <1>1, <1>3, <1>5, <2>2, <3>1 DEF Storing
    <3>3. StoringOK(op', fat', dfat', disk', handles')
      BY <1>1, <1>3, <1>5, <1>10, <3>2 DEF StoringOK
    <3> QED BY <3>3 DEF CallOK
  <2> QED BY <1>6, <2>1, <2>2
<1> QED BY <1>1, <1>4, <1>9, <1>10, <1>11, <1>12 DEF VolumeOK

LEMMA PlacedOK ==
  ASSUME VolumeOK, NEW d \in Directories, NEW n \in Names, NEW directory \in BOOLEAN
  PROVE  CallOK(Placed(d, n, directory), fat, dfat, disk, handles)
<1> DEFINE ch == Walk(fat, d)
           fits == { k \in DOMAIN ch : Starts(ch[k], n) # {} }
           extend == fits = {}
           c == IF extend THEN ch[Len(ch)] ELSE ch[LowestOf(fits)]
           i == IF extend THEN 1 ELSE LowestOf(Starts(c, n))
           o == CreateOp(d, n, directory, extend, c, i)
<1>1. Placed(d, n, directory) = o
  BY DEF Placed
<1>2. d \in Cluster /\ Ends(fat, d)
  BY HeadChains
<1>3. ch \in Seq(Cluster) /\ Len(ch) \in 1 .. Total + 1 /\ fat[ch[Len(ch)]] = Eoc
  BY <1>2 DEF Ends, Leads
<1>4. Needs(n) \in 1 .. Slots /\ Slots \in Nat
  BY Constants
<1>12. dfat[ch[Len(ch)]] # Free
  <2>1. Len(ch) \in 1 .. Len(ch) /\ TablesOK(fat, dfat)
    BY <1>3 DEF VolumeOK
  <2>2. dfat[d] # Free
    BY HeadChains DEF VolumeOK, HeadsOK, BeginsBoth
  <2> QED BY <1>2, <2>1, <2>2, InUseBoth
<1> HIDE DEF ch
<1>5. fits \in SUBSET Nat /\ \A k \in fits : k \in 1 .. Len(ch) /\ Starts(ch[k], n) # {}
  BY <1>3
<1> HIDE DEF fits
<1>6. c \in Cluster /\ (extend => fat[c] = Eoc /\ dfat[c] # Free)
  <2>1. CASE extend
    BY <1>3, <1>12, <2>1, Constants
  <2>2. CASE ~ extend
    <3>1. LowestOf(fits) \in fits
      BY <1>5, <2>2, LowestIn
    <3>2. PICK k \in 1 .. Len(ch) : k = LowestOf(fits)
      BY <1>5, <3>1
    <3>3. ch[k] \in Cluster
      BY <1>3, <3>2
    <3> QED BY <2>2, <3>2, <3>3
  <2> QED BY <2>1, <2>2
<1>7. ~ extend => Starts(c, n) # {}
  <2>1. ~ extend => LowestOf(fits) \in fits
    BY <1>5, LowestIn
  <2> QED BY <1>5, <2>1
<1> HIDE DEF c
<1>8. i \in 1 .. Slots /\ i + Needs(n) - 1 <= Slots
  <2>1. CASE extend
    BY <1>4, <2>1
  <2>2. CASE ~ extend
    <3>1. \A l \in Starts(c, n) : l \in 1 .. Slots /\ l + Needs(n) - 1 <= Slots
      BY <1>4 DEF Starts
    <3>2. Starts(c, n) \in SUBSET Nat
      BY <1>4 DEF Starts
    <3>3. LowestOf(Starts(c, n)) \in Starts(c, n)
      BY <1>7, <2>2, <3>2, LowestIn
    <3> QED BY <2>2, <3>1, <3>3
  <2> QED BY <2>1, <2>2
<1> HIDE DEF extend, i
<1>9. extend \in BOOLEAN
  BY DEF extend
<1>10. /\ o \in Creating /\ o.slot = i /\ o.n = n /\ o.first = 0 /\ o.cur = c
       /\ o.extend = extend /\ o.directory = directory
       /\ o.pc = IF extend \/ directory THEN "alloc" ELSE "enter"
  BY <1>2, <1>6, <1>8, <1>9 DEF CreateOp, Creating
<1> HIDE DEF o
<1>11. CreatingOK(o, fat, dfat, disk, handles)
  BY <1>6, <1>8, <1>10 DEF CreatingOK
<1> QED BY <1>1, <1>11 DEF CallOK

LEMMA CreateStep ==
  ASSUME VolumeOK, NEW d \in Directories, NEW n \in Names, NEW directory \in BOOLEAN,
         Create(d, n, directory)
  PROVE  VolumeOK'
<1>1. UNCHANGED << fat, dfat, disk, handles >> /\ (op' = op \/ op' = Placed(d, n, directory))
  BY DEF Create, volume
<1>2. CallOK(op', fat, dfat, disk, handles)
  BY <1>1, PlacedOK DEF VolumeOK
<1> QED BY <1>1, <1>2 DEF VolumeOK

LEMMA LookupStep ==
  ASSUME VolumeOK, NEW h \in Handles, NEW d \in Directories, NEW found,
         found \subseteq EntriesOf(fat, d), Lookup(h, d, found)
  PROVE  VolumeOK'
<1>1. UNCHANGED << fat, dfat, disk, op >> /\ op = Idle
  BY DEF Lookup, volume
<1>0. CASE UNCHANGED handles
  BY <1>0, <1>1 DEF VolumeOK, CallOK
<1> SUFFICES ASSUME \E e \in EntriesOf(fat, d) : e[2] \notin Dots /\ handles' = [handles EXCEPT ![h] = NodeOf(e)]
             PROVE  VolumeOK'
  BY <1>0 DEF Lookup
<1>2. PICK e \in EntriesOf(fat, d) : e[2] \notin Dots /\ handles' = [handles EXCEPT ![h] = NodeOf(e)]
  OBVIOUS
<1>3. fat \in Tables /\ disk \in Disks /\ EntriesOK(disk) /\ HandlesOK(handles)
      /\ HeadsOK(fat, dfat, disk, handles)
  BY DEF VolumeOK, TablesOK, EntriesOK
<1>4. d \in Cluster
  BY HeadChains
<1>5. /\ e \in Unit /\ e[1] = "entry"
      /\ \E p \in Cluster \X (1 .. Slots) : At(disk, p) = e
  BY <1>3, <1>4, EntriesStand
<1>6. e[3] \in BOOLEAN /\ e[4] \in {0} \cup Cluster /\ e[5] \in 0 .. Slots
  BY <1>5, EntryParts
<1>7. PICK p \in Places(disk) : At(disk, p) = e
  BY <1>2, <1>5 DEF Places, Named
<1>8. e[3] => e[4] # 0
  BY <1>3, <1>7 DEF EntriesOK
<1>9. /\ NodeOf(e) \in Node /\ NodeOf(e).first = e[4]
      /\ NodeOf(e).directory => NodeOf(e).first # 0
  BY <1>6, <1>8 DEF NodeOf, Node
<1>10. HandlesOK(handles')
  BY <1>2, <1>3, <1>9 DEF HandlesOK
<1>11. Firsts(disk, handles') \subseteq Firsts(disk, handles)
  <2>1. \A g \in Handles : handles'[g].first = handles[g].first \/ handles'[g].first = At(disk, p)[4]
    BY <1>2, <1>3, <1>7, <1>9 DEF HandlesOK
  <2> QED BY <2>1 DEF Firsts
<1>12. HeadsOK(fat, dfat, disk, handles')
  BY <1>3, <1>11 DEF HeadsOK
<1> QED BY <1>1, <1>10, <1>12 DEF VolumeOK, CallOK

LEMMA WriteCallStep ==
  ASSUME VolumeOK, NEW h \in Handles, NEW w \in Spans, NEW b \in Bytes, Write(h, w[1], w[2], b)
  PROVE  VolumeOK'
<1>1. /\ UNCHANGED << fat, dfat, disk, handles >> /\ handles[h] # NoNode /\ ~ handles[h].directory
      /\ op' = [kind |-> "write", pc |-> IF handles[h].first = 0 THEN "alloc" ELSE "body", h |-> h,
                offset |-> w[1], n |-> w[2], b |-> b, extend |-> FALSE, new |-> 0, done |-> 0,
                cur |-> handles[h].first, skip |-> w[1] \div Slots]
  BY DEF Write, volume
<1>2. w[1] \in Nat /\ w[2] \in Nat \ {0} /\ w = << w[1], w[2] >>
  BY Fat32Assumption
<1>3. handles[h] \in Node
  BY <1>1 DEF VolumeOK, HandlesOK
<1>4. handles[h].first \in {0} \cup Cluster
  BY <1>3 DEF Node
<1>5. w[1] \div Slots \in Nat
  <2>1. Slots \in Nat /\ Slots # 0
    BY Constants
  <2>2. w[1] < Slots * (w[1] + 1)
    <3>1. 1 <= Slots /\ w[1] + 1 \in Nat
      BY <1>2, <2>1
    <3>2. (w[1] + 1) * 1 <= (w[1] + 1) * Slots
      BY <2>1, <3>1, Scaled
    <3>3. (w[1] + 1) * 1 = w[1] + 1 /\ (w[1] + 1) * Slots = Slots * (w[1] + 1)
      BY <1>2, <2>1
    <3>4. PICK z \in Int : z = Slots * (w[1] + 1)
      BY <1>2, <2>1
    <3> QED BY <1>2, <3>2, <3>3, <3>4
  <2>3. w[1] \div Slots \in 0 .. (w[1] + 1) - 1
    BY <1>2, <2>1, <2>2, DivMod
  <2> QED BY <1>2, <2>3
<1>6. handles[h].first # 0 => Ends(fat, handles[h].first) /\ dfat[handles[h].first] # Free
  BY HeadChains DEF VolumeOK, HeadsOK, BeginsBoth
<1> DEFINE q == w[1] \div Slots
<1>7. q \in Nat
  BY <1>5
<1>8. op' = [kind |-> "write", pc |-> IF handles[h].first = 0 THEN "alloc" ELSE "body", h |-> h,
             offset |-> w[1], n |-> w[2], b |-> b, extend |-> FALSE, new |-> 0, done |-> 0,
             cur |-> handles[h].first, skip |-> q]
  BY <1>1
<1> HIDE DEF q
<1>9. /\ op' \in Storing /\ op'.h = h /\ op'.offset = w[1] /\ op'.n = w[2] /\ op'.cur = handles[h].first
      /\ ~ op'.extend /\ op'.pc = IF handles[h].first = 0 THEN "alloc" ELSE "body"
  BY <1>2, <1>4, <1>7, <1>8 DEF Storing
<1>10. StoringOK(op', fat, dfat, disk, handles)
  BY <1>1, <1>2, <1>4, <1>6, <1>9 DEF StoringOK
<1> QED BY <1>1, <1>10 DEF VolumeOK, CallOK

LEMMA ResetStep ==
  ASSUME VolumeOK, Reset
  PROVE  VolumeOK'
<1>1. /\ fat' = dfat /\ UNCHANGED << dfat, disk >> /\ op' = Idle
      /\ handles' = [h \in Handles |-> NoNode]
  BY DEF Reset, volume
<1>2. TablesOK(fat', dfat') /\ \A c : BeginsBoth(fat, dfat, c) => BeginsBoth(fat', dfat', c)
  BY <1>1, TablesLead DEF VolumeOK
<1>3. HandlesOK(handles')
  BY <1>1 DEF HandlesOK, NoNode
<1>4. Firsts(disk, handles') \subseteq Firsts(disk, handles)
  BY <1>1 DEF Firsts, NoNode
<1>5. HeadsOK(fat', dfat', disk, handles')
  BY <1>2, <1>4 DEF VolumeOK, HeadsOK
<1> QED BY <1>1, <1>2, <1>3, <1>5 DEF VolumeOK, CallOK

LEMMA VolumeStep ==
  ASSUME VolumeOK, [Next]_vars
  PROVE  VolumeOK'
<1>1. CASE \E d \in Directories, n \in Names, directory \in BOOLEAN : Create(d, n, directory)
  BY <1>1, CreateStep
<1>2. fat \in Tables /\ disk \in Disks /\ \A d \in Directories : d \in Cluster
  BY HeadChains DEF VolumeOK, TablesOK, EntriesOK
<1>3. CASE \E h \in Handles, d \in Directories, n \in Names : Open(h, d, n)
  <2>1. PICK h \in Handles, d \in Directories, n \in Names : Lookup(h, d, FindDir(d, n))
    BY <1>3 DEF Open
  <2>2. FindDir(d, n) \subseteq EntriesOf(fat, d)
    BY <1>2, FoundStand
  <2> QED BY <2>1, <2>2, LookupStep
<1>4. CASE \E h \in Handles, d \in Directories, index \in 0 .. Slots : ReadDir(h, d, index)
  <2>1. PICK h \in Handles, d \in Directories, index \in 0 .. Slots : Lookup(h, d, ReadDirAt(d, index))
    BY <1>4 DEF ReadDir
  <2>2. ReadDirAt(d, index) \subseteq EntriesOf(fat, d)
    BY <1>2, FoundStand
  <2> QED BY <2>1, <2>2, LookupStep
<1>5. CASE \E h \in Handles, w \in Spans, b \in Bytes : Write(h, w[1], w[2], b)
  BY <1>5, WriteCallStep
<1>6. CASE Steps
  BY <1>6, AllocStep, LinkStep, ZeroStep, WriteDotsStep, EnterStep, GrowStep, WriteClusterStep DEF Steps
<1>7. CASE Reset
  BY <1>7, ResetStep
<1>8. CASE UNCHANGED vars
  <2>1. UNCHANGED << fat, dfat, disk, handles, op >>
    BY <1>8 DEF vars, volume
  <2> QED BY <2>1 DEF VolumeOK
<1> QED BY <1>1, <1>3, <1>4, <1>5, <1>6, <1>7, <1>8 DEF Next

LEMMA ChainInit ==
  ASSUME Init
  PROVE  ChainInv
<1>1. /\ fat = Image.fat /\ dfat = Image.fat /\ disk = Image.disk /\ op = Idle /\ made = {}
      /\ handles = [h \in Handles |-> NoNode] /\ calls = 0 /\ faults = 0 /\ resets = 0
      /\ adrift = FALSE
  BY DEF Init
<1>2. fat \in Tables /\ disk \in Disks /\ LinkedOnce(fat) /\ OwnChain(fat, disk)
  BY <1>1, Fat32Assumption, VolumeAssumption DEF Tables, Disks
<1>3. TablesOK(fat, dfat)
  BY <1>1, <1>2 DEF TablesOK, LinkedOnce, Behind
<1>4. EntriesOK(disk)
  BY <1>2, Constants DEF EntriesOK, OwnChain, Begins
<1>5. HandlesOK(handles)
  BY <1>1 DEF HandlesOK, NoNode
<1>6. HeadsOK(fat, dfat, disk, handles)
  <2>1. \A c \in Firsts(disk, handles) :
          c = Root \/ \E p \in Places(disk) : At(disk, p)[4] = c /\ c # 0
    BY <1>1 DEF Firsts, NoNode
  <2>2. \A c \in Firsts(disk, handles) : Begins(fat, c)
    BY <1>2, <2>1 DEF OwnChain
  <2> QED BY <1>1, <2>2 DEF HeadsOK, Begins, BeginsBoth
<1>7. BoundsOK
  <2>1. adrift \in BOOLEAN
    BY <1>1
  <2>2. MaxCalls \in Nat /\ MaxFaults \in Nat /\ MaxResets \in Nat
    BY Fat32Assumption
  <2> QED BY <1>1, <2>1, <2>2 DEF BoundsOK
<1> QED BY <1>1, <1>3, <1>4, <1>5, <1>6, <1>7 DEF ChainInv, VolumeOK, CallOK

LEMMA ChainInvariant == Spec => []ChainInv
<1>1. Init => ChainInv
  BY ChainInit
<1>2. ChainInv /\ [Next]_vars => ChainInv'
  BY VolumeStep, BoundsStep DEF ChainInv
<1> QED BY <1>1, <1>2, PTL DEF Spec

\* Every state has its type: a call goes on only with clusters that exist, so
\* the 0 a failed allocation returns is never used as one.
THEOREM TypeCorrect == Spec => []TypeOK
<1>1. ChainInv => TypeOK
  <2>1. SUFFICES ASSUME ChainInv PROVE TypeOK
    OBVIOUS
  <2>2. /\ fat \in Tables /\ dfat \in Tables /\ disk \in Disks /\ HandlesOK(handles) /\ BoundsOK
        /\ CallOK(op, fat, dfat, disk, handles)
    BY <2>1 DEF ChainInv, VolumeOK, TablesOK, EntriesOK
  <2>3. /\ op.pc \in {"idle", "alloc", "link", "zero", "dots", "enter", "body"}
        /\ op.pc \in {"link", "zero"} => op.new \in Cluster
        /\ op.pc \in {"link", "body", "enter"} => op.cur \in Cluster
        /\ op.pc = "dots" => op.first \in Cluster
    <3>1. CASE op = Idle
      BY <3>1 DEF Idle
    <3>2. CASE CreatingOK(op, fat, dfat, disk, handles)
      BY <3>2 DEF CreatingOK, Creating, CanLink, Fresh, BeginsBoth
    <3>3. CASE StoringOK(op, fat, dfat, disk, handles)
      BY <3>3 DEF StoringOK, Storing, CanLink, Fresh, BeginsBoth
    <3> QED BY <2>2, <3>1, <3>2, <3>3 DEF CallOK
  <2> QED BY <2>2, <2>3 DEF TypeOK, Tables, Disks, HandlesOK, BoundsOK
<1> QED BY <1>1, ChainInvariant, PTL

-----------------------------------------------------------------------------
(* From the invariant to the chains a table leads to.                      *)

\* What a table leads from: every entry and node begins a chain.
AllBegin(t) ==
  /\ t \in Tables /\ LinkedOnce(t)
  /\ \A c \in Firsts(disk, handles) : Begins(t, c)

LEMMA ListedEntries ==
  ASSUME EntriesOK(disk), NEW t, AllBegin(t), NEW d \in Dirs(disk)
  PROVE  /\ d \in Firsts(disk, handles) /\ d \in Cluster
         /\ \A e \in EntriesOf(t, d) : Named(e) =>
              \E k \in 1 .. Len(Walk(t, d)), p \in Places(disk) :
                p[1] = Walk(t, d)[k] /\ At(disk, p) = e
<1>1. d \in Firsts(disk, handles)
  BY DEF Dirs, Firsts, EntriesOK
<1>2. d \in Cluster /\ t \in Tables /\ disk \in Disks
  BY <1>1 DEF AllBegin, Begins, EntriesOK
<1>3. ASSUME NEW e \in EntriesOf(t, d), Named(e)
      PROVE  \E k \in 1 .. Len(Walk(t, d)), p \in Places(disk) :
               p[1] = Walk(t, d)[k] /\ At(disk, p) = e
  <2>1. PICK k \in 1 .. Len(Walk(t, d)), p \in Cluster \X (1 .. Slots) :
          p[1] = Walk(t, d)[k] /\ At(disk, p) = e
    BY <1>2, EntriesStand
  <2>2. p \in Places(disk)
    BY <1>3, <2>1 DEF Places
  <2> QED BY <2>1, <2>2
<1> QED BY <1>1, <1>2, <1>3

LEMMA DirsReached ==
  ASSUME EntriesOK(disk), NEW t, AllBegin(t)
  PROVE  DirsOf(t) \subseteq Dirs(disk)
<1> DEFINE D == Dirs(disk)
           Below(X) == UNION { {d} \cup Children(t, d) : d \in X }
           turn == [X \in SUBSET D |-> Below(X)]
           Levels(f) == f = [k \in 0 .. Total |-> IF k = 0 THEN {Root} ELSE Below(f[k - 1])]
           at == CHOOSE f : Levels(f)
<1>1. DirsOf(t) = at[Total]
  BY DEF DirsOf
<1>2. ASSUME NEW d \in D PROVE Children(t, d) \subseteq D
  <2>1. ASSUME NEW e \in EntriesOf(t, d), Named(e), e[3] PROVE e[4] \in D
    <3>1. PICK p \in Places(disk) : At(disk, p) = e
      BY <2>1, ListedEntries
    <3> QED BY <2>1, <3>1 DEF Dirs
  <2> QED BY <2>1 DEF Children
<1>3. {Root} \in SUBSET D
  BY DEF Dirs
<1> HIDE DEF D
<1>4. \A X \in SUBSET D : Below(X) \in SUBSET D
  BY <1>2
<1> HIDE DEF Below
<1>5. turn \in [SUBSET D -> SUBSET D] /\ Total \in Nat
  BY <1>4, Constants
<1>6. \E f : Levels(f)
  <2>1. PICK f \in [0 .. Total -> SUBSET D] : f[0] = {Root} /\ \A k \in 1 .. Total : f[k] = turn[f[k - 1]]
    <3> HIDE DEF turn
    <3>1. LoopEnds(Total, SUBSET D, {Root}, turn)
      BY <1>3, <1>5, LoopRuns
    <3> QED BY <3>1 DEF LoopEnds
  <2>2. \A k \in 0 .. Total : k # 0 => k \in 1 .. Total /\ k - 1 \in 0 .. Total
    BY <1>5
  <2>3. \A k \in 0 .. Total : f[k] = IF k = 0 THEN {Root} ELSE Below(f[k - 1])
    BY <2>1, <2>2
  <2>4. f = [k \in 0 .. Total |-> f[k]]
    BY <2>1
  <2> QED BY <2>3, <2>4
<1>7. Levels(at)
  BY <1>6
<1> HIDE DEF at
<1> DEFINE T == { k \in 0 .. Total : at[k] \in SUBSET D }
<1>8. 0 \in T
  BY <1>3, <1>5, <1>7
<1>9. ASSUME NEW k \in 0 .. Total - 1, k \in T PROVE k + 1 \in T
  <2>1. k + 1 \in 0 .. Total /\ k + 1 # 0 /\ (k + 1) - 1 = k
    BY <1>5
  <2>2. at[k + 1] = Below(at[k])
    BY <1>7, <2>1
  <2> QED BY <1>4, <1>9, <2>1, <2>2
<1> HIDE DEF T
<1>10. Total \in T
  <2>1. \A k \in 0 .. Total : k \in T
    BY <1>5, <1>8, <1>9, UpTo
  <2> QED BY <1>5, <2>1
<1> QED BY <1>1, <1>10 DEF T, D

LEMMA HeadsReached ==
  ASSUME EntriesOK(disk), NEW t, AllBegin(t)
  PROVE  Heads(t) \subseteq Firsts(disk, handles)
<1>1. ASSUME NEW c \in Heads(t) PROVE c \in Firsts(disk, handles)
  <2>1. c # 0 /\ \E d \in DirsOf(t) : c = d \/ \E e \in EntriesOf(t, d) : Named(e) /\ e[4] = c
    <3>1. c # 0
          /\ \E d \in DirsOf(t) : c \in {d} \cup { e[4] : e \in { f \in EntriesOf(t, d) : Named(f) } }
      BY DEF Heads
    <3>2. PICK d \in DirsOf(t) : c \in {d} \cup { e[4] : e \in { f \in EntriesOf(t, d) : Named(f) } }
      BY <3>1
    <3>3. c = d \/ \E e \in EntriesOf(t, d) : Named(e) /\ e[4] = c
      BY <3>2
    <3> QED BY <3>1, <3>3
  <2>2. PICK d \in Dirs(disk) : c = d \/ \E e \in EntriesOf(t, d) : Named(e) /\ e[4] = c
    BY <2>1, DirsReached
  <2>3. CASE c = d
    BY <2>3, ListedEntries
  <2>4. CASE \E e \in EntriesOf(t, d) : Named(e) /\ e[4] = c
    <3>1. PICK p \in Places(disk) : At(disk, p)[4] = c
      BY <2>4, ListedEntries
    <3> QED BY <2>1, <3>1 DEF Firsts
  <2> QED BY <2>2, <2>3, <2>4
<1> QED BY <1>1

LEMMA SoundBelow ==
  ASSUME NEW t, AllBegin(t), NEW H, H \subseteq Firsts(disk, handles)
  PROVE  Sound(t, H)
<1>1. t \in Tables /\ LinkedOnce(t) /\ \A c \in H : c \in Cluster /\ Begins(t, c)
  BY DEF AllBegin, Begins
<1>2. ASSUME NEW c \in H
      PROVE  Len(Walk(t, c)) < Total /\ t[Walk(t, c)[Len(Walk(t, c))]] = Eoc
  BY <1>1, ChainEnds DEF Ends
<1>3. \A c \in H : DOMAIN Walk(t, c) = 1 .. Len(Walk(t, c))
  BY <1>1, WalkLeads DEF Leads
<1>4. ASSUME NEW c \in H, NEW e \in H, c # e,
             NEW i \in DOMAIN Walk(t, c), NEW j \in DOMAIN Walk(t, e)
      PROVE  Walk(t, c)[i] # Walk(t, e)[j]
  BY <1>1, <1>3, <1>4, ChainsApart
<1> QED BY <1>2, <1>4 DEF Sound

LEMMA OneEntryBelow ==
  ASSUME EntriesOK(disk), NEW t, AllBegin(t)
  PROVE  OneEntryEach(t)
<1>1. SUFFICES ASSUME NEW d \in DirsOf(t), NEW e \in DirsOf(t),
                      NEW x \in EntriesOf(t, d), NEW y \in EntriesOf(t, e),
                      Named(x), Named(y), x[4] = y[4], x[4] # 0
               PROVE  x = y /\ d = e
  BY DEF OneEntryEach
<1>2. d \in Dirs(disk) /\ e \in Dirs(disk)
  BY DirsReached
<1>3. PICK i \in 1 .. Len(Walk(t, d)), p \in Places(disk) : p[1] = Walk(t, d)[i] /\ At(disk, p) = x
  BY <1>1, <1>2, ListedEntries
<1>4. PICK j \in 1 .. Len(Walk(t, e)), q \in Places(disk) : q[1] = Walk(t, e)[j] /\ At(disk, q) = y
  BY <1>1, <1>2, ListedEntries
<1>5. p = q
  BY <1>1, <1>3, <1>4 DEF EntriesOK
<1>6. Begins(t, d) /\ Begins(t, e) /\ t \in Tables /\ LinkedOnce(t)
  BY <1>2, ListedEntries DEF AllBegin
<1>7. d = e
  BY <1>3, <1>4, <1>5, <1>6, ChainsApart
<1> QED BY <1>3, <1>4, <1>5, <1>7

-----------------------------------------------------------------------------
(* Chains when a cluster is marked or linked.                              *)

LEMMA InChainIs ==
  ASSUME NEW t \in Tables, NEW d \in Cluster
  PROVE  /\ \A c : InChain(t, d, c) <=> \E k \in 1 .. Len(Walk(t, d)) : Walk(t, d)[k] = c
         /\ \A c : InChain(t, d, c) => c \in Cluster
         /\ InChain(t, d, d)
<1> DEFINE w == Walk(t, d)
<1>1. Leads(w, t, d)
  BY WalkLeads
<1>2. DOMAIN w = 1 .. Len(w) /\ w[1] = d /\ 1 \in 1 .. Len(w) /\ \A k \in 1 .. Len(w) : w[k] \in Cluster
  BY <1>1 DEF Leads
<1> QED BY <1>2 DEF InChain

\* A cluster is in the chain of one beginning only.
LEMMA OneChain ==
  ASSUME NEW t \in Tables, LinkedOnce(t), NEW d, Begins(t, d), NEW e, Begins(t, e),
         NEW c, InChain(t, d, c), InChain(t, e, c)
  PROVE  d = e
<1>1. d \in Cluster /\ e \in Cluster
  BY DEF Begins
<1>2. PICK i \in 1 .. Len(Walk(t, d)) : Walk(t, d)[i] = c
  BY <1>1, InChainIs
<1>3. PICK j \in 1 .. Len(Walk(t, e)) : Walk(t, e)[j] = c
  BY <1>1, InChainIs
<1> QED BY <1>2, <1>3, ChainsApart

LEMMA InUse ==
  ASSUME NEW t \in Tables, LinkedOnce(t), NEW d, Begins(t, d), NEW c, InChain(t, d, c)
  PROVE  c \in Cluster /\ t[c] # Free
<1>1. d \in Cluster
  BY DEF Begins
<1>2. PICK i \in 1 .. Len(Walk(t, d)) : Walk(t, d)[i] = c
  BY <1>1, InChainIs
<1> QED BY <1>1, <1>2, ChainEnds, InChainIs

\* A change elsewhere leaves the chain as it is.
LEMMA ChangeElsewhere ==
  ASSUME NEW t \in Tables, LinkedOnce(t), NEW d, Begins(t, d),
         NEW u \in Tables, \A x : InChain(t, d, x) => u[x] = t[x]
  PROVE  Walk(u, d) = Walk(t, d)
<1> DEFINE v == Walk(t, d)
           w == Walk(u, d)
<1>1. d \in Cluster
  BY DEF Begins
<1>2. Leads(v, t, d) /\ Leads(w, u, d) /\ Len(v) < Total
  BY <1>1, WalkLeads, ChainEnds DEF Ends
<1>3. \A k \in 1 .. Len(v) : u[v[k]] = t[v[k]]
  BY <1>1, InChainIs
<1> HIDE DEF v, w
<1>4. Len(v) <= Total
  BY <1>2, Constants DEF Leads
<1>5. w = v
  BY <1>2, <1>3, <1>4, SameChain
<1> QED BY <1>5 DEF v, w

\* A link from its last cluster makes the chain one longer.
Links(t, d, c, n, u) ==
  /\ t \in Tables /\ LinkedOnce(t) /\ Begins(t, d) /\ InChain(t, d, c) /\ t[c] = Eoc
  /\ Begins(t, n) /\ t[n] = Eoc /\ n # d /\ u = [t EXCEPT ![c] = n]

LEMMA ChainGrows ==
  ASSUME NEW t, NEW d, NEW c, NEW n, NEW u, Links(t, d, c, n, u)
  PROVE  Walk(u, d) = Append(Walk(t, d), n)
<1> DEFINE w == Walk(t, d)
           m == Len(w)
           v == Append(w, n)
<1>0. /\ t \in Tables /\ LinkedOnce(t) /\ Begins(t, d) /\ InChain(t, d, c) /\ t[c] = Eoc
      /\ Begins(t, n) /\ t[n] = Eoc /\ n # d /\ u = [t EXCEPT ![c] = n]
  BY DEF Links
<1>1. d \in Cluster /\ n \in Cluster /\ \A e \in Cluster : t[e] # n
  BY <1>0 DEF Begins
<1>2. c \in Cluster
  BY <1>0, <1>1, InChainIs
<1>3. Leads(w, t, d) /\ m < Total /\ Once(w)
  BY <1>0, <1>1, ChainEnds, ChainOnce DEF Ends
<1>4. PICK k \in 1 .. m : w[k] = c
  BY <1>0, <1>1, InChainIs
<1>5. u \in Tables /\ u[c] = n /\ \A x \in Cluster : x # c => u[x] = t[x]
  BY <1>0, <1>1, <1>2 DEF Tables, FatEntry
<1> HIDE DEF w
<1>6. m \in Nat /\ m >= 1 /\ \A i \in 1 .. m : w[i] \in Cluster
  BY <1>3 DEF Leads
<1>7. k = m
  <2>1. SUFFICES ASSUME k # m PROVE FALSE
    OBVIOUS
  <2>2. k \in 1 .. m - 1 /\ k + 1 \in 1 .. m
    BY <1>4, <1>6, <2>1
  <2>3. w[k + 1] = t[c]
    BY <1>0, <1>3, <1>4, <2>2 DEF Leads
  <2> QED BY <1>0, <1>6, <2>2, <2>3, Constants
<1>8. \A i \in 1 .. m : w[i] # n
  <2>1. ASSUME NEW i \in 1 .. m, w[i] = n PROVE FALSE
    <3>1. i # 1
      BY <1>0, <1>3, <2>1 DEF Leads
    <3>2. i - 1 \in 1 .. m - 1 /\ (i - 1) + 1 = i /\ i - 1 \in 1 .. m
      BY <1>6, <3>1
    <3>3. w[i] = t[w[i - 1]]
      BY <1>3, <3>2 DEF Leads
    <3> QED BY <1>0, <1>1, <1>6, <2>1, <3>2, <3>3
  <2> QED BY <2>1
<1>9. v \in Seq(Cluster) /\ Len(v) = m + 1 /\ v[m + 1] = n /\ \A i \in 1 .. m : v[i] = w[i]
  BY <1>0, <1>1, <1>3, <1>6 DEF Leads
<1> HIDE DEF v
<1>10. ASSUME NEW i \in 1 .. Len(v) - 1 PROVE v[i + 1] = u[v[i]]
  <2>1. i \in 1 .. m
    BY <1>6, <1>9
  <2>2. CASE i = m
    BY <1>4, <1>5, <1>7, <1>9, <2>1, <2>2
  <2>3. CASE i # m
    <3>1. i \in 1 .. m - 1 /\ i + 1 \in 1 .. m /\ m \in 1 .. m
      BY <1>6, <2>1, <2>3
    <3>2. w[i] # c
      BY <1>3, <1>4, <1>7, <2>1, <2>3 DEF Once
    <3>3. u[w[i]] = t[w[i]] /\ w[i + 1] = t[w[i]]
      BY <1>3, <1>5, <1>6, <2>1, <3>1, <3>2 DEF Leads
    <3> QED BY <1>9, <2>1, <3>1, <3>3
  <2> QED BY <2>2, <2>3
<1>11. u[v[Len(v)]] \notin Cluster
  <2>1. n # c
    BY <1>4, <1>8
  <2> QED BY <1>0, <1>1, <1>5, <1>9, <2>1, Constants
<1>12. Len(v) <= Total /\ Len(v) \in 1 .. Total + 1 /\ v[1] = d
  <2>1. w[1] = d /\ 1 \in 1 .. m
    BY <1>3, <1>6 DEF Leads
  <2> QED BY <1>3, <1>6, <1>9, <2>1, Constants
<1>13. Leads(v, u, d)
  BY <1>9, <1>10, <1>11, <1>12 DEF Leads
<1>14. Leads(Walk(u, d), u, d)
  BY <1>0, <1>1, <1>5, WalkLeads
<1>15. Walk(u, d) = v
  <2>1. \A i \in 1 .. Len(v) : u[v[i]] = u[v[i]]
    OBVIOUS
  <2> QED BY <1>12, <1>13, <1>14, <2>1, SameChain
<1> QED BY <1>15 DEF v, w

LEMMA GrownChain ==
  ASSUME NEW t, NEW d, NEW c, NEW n, NEW u, Links(t, d, c, n, u)
  PROVE  /\ \A x : InChain(u, d, x) <=> InChain(t, d, x) \/ x = n
         /\ Len(Walk(u, d)) = Len(Walk(t, d)) + 1
         /\ \A k \in 1 .. Len(Walk(t, d)) : Walk(u, d)[k] = Walk(t, d)[k]
<1> DEFINE w == Walk(t, d)
           v == Walk(u, d)
<1>0. /\ t \in Tables /\ LinkedOnce(t) /\ Begins(t, d) /\ InChain(t, d, c) /\ t[c] = Eoc
      /\ Begins(t, n) /\ t[n] = Eoc /\ n # d /\ u = [t EXCEPT ![c] = n]
  BY DEF Links
<1>1. d \in Cluster /\ n \in Cluster
  BY <1>0 DEF Begins
<1>2. c \in Cluster
  BY <1>0, <1>1, InChainIs
<1>3. u \in Tables
  BY <1>0, <1>1, <1>2 DEF Tables, FatEntry
<1>4. v = Append(w, n)
  <2>1. Links(t, d, c, n, u) => Walk(u, d) = Append(Walk(t, d), n)
    BY ChainGrows
  <2>2. Links(t, d, c, n, u)
    OBVIOUS
  <2>3. Walk(u, d) = Append(Walk(t, d), n)
    BY <2>1, <2>2
  <2> QED BY <2>3
<1>5. w \in Seq(Cluster)
  BY <1>0, <1>1, WalkLeads DEF Leads
<1>6. \A x : InChain(t, d, x) <=> \E k \in 1 .. Len(w) : w[k] = x
  BY <1>0, <1>1, InChainIs
<1>7. \A x : InChain(u, d, x) <=> \E k \in 1 .. Len(v) : v[k] = x
  BY <1>0, <1>1, <1>3, InChainIs
<1> HIDE DEF w, v
<1>8. Len(v) = Len(w) + 1 /\ v[Len(w) + 1] = n /\ Len(w) \in Nat /\ \A k \in 1 .. Len(w) : v[k] = w[k]
  BY <1>0, <1>1, <1>4, <1>5
<1>9. \A x : InChain(u, d, x) <=> InChain(t, d, x) \/ x = n
  <2>1. \A k \in 1 .. Len(v) : k \in 1 .. Len(w) \/ k = Len(w) + 1
    BY <1>8
  <2>2. Len(w) + 1 \in 1 .. Len(v) /\ \A k \in 1 .. Len(w) : k \in 1 .. Len(v)
    BY <1>8
  <2> QED BY <1>6, <1>7, <1>8, <2>1, <2>2
<1> QED BY <1>8, <1>9 DEF v, w

\* The last cluster of a chain alone.
LEMMA Alone ==
  ASSUME NEW t \in Tables, NEW c \in Cluster, t[c] = Eoc
  PROVE  \A x : InChain(t, c, x) <=> x = c
<1>1. Leads(Walk(t, c), t, c)
  BY WalkLeads
<1> DEFINE w == Walk(t, c)
<1>2. \A x : InChain(t, c, x) <=> \E k \in 1 .. Len(w) : w[k] = x
  BY InChainIs
<1> HIDE DEF w
<1>3. /\ w \in Seq(Cluster) /\ Len(w) \in Nat /\ Len(w) >= 1 /\ w[1] = c
      /\ \A k \in 1 .. Len(w) - 1 : w[k + 1] = t[w[k]]
      /\ \A k \in 1 .. Len(w) : w[k] \in Cluster
  BY <1>1 DEF Leads, w
<1>4. Len(w) = 1
  <2>1. SUFFICES ASSUME Len(w) # 1 PROVE FALSE
    OBVIOUS
  <2>2. 1 \in 1 .. Len(w) - 1 /\ 1 + 1 \in 1 .. Len(w)
    <3>1. PICK n \in Nat : n = Len(w) /\ n >= 1 /\ n # 1
      BY <1>3, <2>1
    <3>2. 1 \in 1 .. n - 1 /\ 1 + 1 \in 1 .. n
      BY <3>1
    <3> QED BY <3>1, <3>2
  <2>3. w[1 + 1] = Eoc
    BY <1>3, <2>2
  <2> QED BY <1>3, <2>2, <2>3, Constants
<1> QED BY <1>2, <1>3, <1>4

\* A chain goes on as the chain from any of its clusters does.
LEMMA Onward ==
  ASSUME NEW t \in Tables, NEW d \in Cluster, t[Walk(t, d)[Len(Walk(t, d))]] \notin Cluster,
         NEW c, InChain(t, d, c), NEW x, InChain(t, c, x)
  PROVE  InChain(t, d, x)
<1> DEFINE v == Walk(t, d)
           w == Walk(t, c)
<1>1. c \in Cluster
  BY InChainIs
<1>2. Leads(v, t, d) /\ Leads(w, t, c)
  BY <1>1, WalkLeads
<1>3. \A y : InChain(t, d, y) <=> \E k \in 1 .. Len(v) : v[k] = y
  BY InChainIs
<1>4. PICK m \in 1 .. Len(w) : w[m] = x
  BY <1>1, InChainIs
<1>5. t[v[Len(v)]] \notin Cluster
  OBVIOUS
<1> HIDE DEF v, w
<1>6. /\ Len(v) \in Nat /\ Len(w) \in Nat /\ w[1] = c
      /\ \A k \in 1 .. Len(v) - 1 : v[k + 1] = t[v[k]]
      /\ \A k \in 1 .. Len(w) - 1 : w[k + 1] = t[w[k]]
      /\ \A k \in 1 .. Len(w) : w[k] \in Cluster
  BY <1>2 DEF Leads
<1> DEFINE T == { k \in 0 .. Len(w) : k = Len(w) \/ InChain(t, d, w[k + 1]) }
<1>7. 0 \in T
  BY <1>6 DEF T
<1>8. ASSUME NEW k \in 0 .. Len(w) - 1, k \in T PROVE k + 1 \in T
  <2>1. CASE k + 1 = Len(w)
    BY <1>6, <2>1
  <2>2. CASE k + 1 # Len(w)
    <3>1. k + 1 \in 1 .. Len(w) - 1 /\ (k + 1) + 1 \in 1 .. Len(w) /\ k # Len(w) /\ k + 1 \in 0 .. Len(w)
      BY <1>6, <2>2
    <3>2. PICK i \in 1 .. Len(v) : v[i] = w[k + 1]
      BY <1>3, <1>8, <3>1
    <3>3. w[(k + 1) + 1] = t[w[k + 1]] /\ w[(k + 1) + 1] \in Cluster
      BY <1>6, <3>1
    <3>4. i # Len(v)
      BY <1>5, <3>2, <3>3
    <3>5. i \in 1 .. Len(v) - 1 /\ i + 1 \in 1 .. Len(v)
      BY <1>6, <3>4
    <3>6. v[i + 1] = w[(k + 1) + 1]
      BY <1>6, <3>2, <3>3, <3>5
    <3> QED BY <1>3, <3>1, <3>5, <3>6
  <2> QED BY <2>1, <2>2
<1> HIDE DEF T
<1>9. \A k \in 0 .. Len(w) : k \in T
  BY <1>6, <1>7, <1>8, UpTo
<1>10. m - 1 \in 0 .. Len(w) /\ m - 1 # Len(w) /\ (m - 1) + 1 = m
  BY <1>6
<1> QED BY <1>4, <1>9, <1>10 DEF T

-----------------------------------------------------------------------------
(* What directories hold is the driver's: their clusters are legible, but   *)
(* for the one that is linked and not cleared yet.                          *)

AllLegible(u) == \A i \in 1 .. Slots : Legible(u[i])

\* The write has not left the chain of its node.
StoreAt(o, f, hs) ==
  (o.pc = "alloc" /\ ~ o.extend) \/ (hs[o.h].first # 0 /\ InChain(f, hs[o.h].first, o.cur))

KnownAt(f, s, o) ==
  \A d \in Dirs(s) : \A c :
    InChain(f, d, c) => AllLegible(s[c]) \/ (o.pc = "zero" /\ c = o.new)

\* A new directory is set up when the entry that leads to it is written.
EnterAt(o, s) == o.pc = "enter" /\ o.directory => AllLegible(s[o.first])

\* Nodes of files lead to no directory.
FilesOK(s, hs) == \A h \in Handles : ~ hs[h].directory => hs[h].first \notin Dirs(s)

WriteAt(o, f, hs) == o.pc # "idle" /\ o.kind = "write" => StoreAt(o, f, hs)

Own(f, s, hs, o) ==
  FilesOK(s, hs) /\ WriteAt(o, f, hs) /\ KnownAt(f, s, o) /\ EnterAt(o, s)

\* Where a step starts from.
Known == VolumeOK /\ Own(fat, disk, handles, op)

LEMMA KnownGround ==
  ASSUME Known
  PROVE  /\ fat \in Tables /\ LinkedOnce(fat) /\ EntriesOK(disk) /\ disk \in Disks
         /\ HandlesOK(handles) /\ TablesOK(fat, dfat) /\ CallOK(op, fat, dfat, disk, handles)
         /\ FilesOK(disk, handles) /\ WriteAt(op, fat, handles) /\ KnownAt(fat, disk, op)
         /\ EnterAt(op, disk)
         /\ \A c \in Firsts(disk, handles) : c \in Cluster /\ Begins(fat, c) /\ Ends(fat, c)
         /\ Dirs(disk) \subseteq Firsts(disk, handles) /\ 0 \notin Dirs(disk)
<1>1. /\ EntriesOK(disk) /\ HandlesOK(handles) /\ TablesOK(fat, dfat)
      /\ CallOK(op, fat, dfat, disk, handles)
      /\ FilesOK(disk, handles) /\ WriteAt(op, fat, handles) /\ KnownAt(fat, disk, op)
      /\ EnterAt(op, disk)
  BY DEF Known, VolumeOK, Own
<1>2. fat \in Tables /\ LinkedOnce(fat) /\ disk \in Disks
  BY <1>1, TablesLead DEF TablesOK, EntriesOK
<1>3. \A c \in Firsts(disk, handles) : c \in Cluster /\ Begins(fat, c) /\ Ends(fat, c)
  BY HeadChains DEF Known
<1>4. Dirs(disk) \subseteq Firsts(disk, handles)
  BY <1>1 DEF Dirs, Firsts, EntriesOK
<1>5. 0 \notin Dirs(disk)
  BY <1>3, <1>4, Constants
<1> QED BY <1>1, <1>2, <1>3, <1>4, <1>5

\* The node of the write in progress, and the file's clusters: in no directory.
LEMMA KnownStored ==
  ASSUME Known, op.pc # "idle", op.kind # "create"
  PROVE  /\ op.kind = "write" /\ op \in Storing /\ op.h \in Handles
         /\ StoringOK(op, fat, dfat, disk, handles) /\ StoreAt(op, fat, handles)
         /\ ~ handles[op.h].directory
         /\ handles[op.h].first # 0 =>
              handles[op.h].first \in Firsts(disk, handles) /\ handles[op.h].first \notin Dirs(disk)
<1>1. op.kind = "write" /\ StoringOK(op, fat, dfat, disk, handles)
  BY KnownGround, PcOf
<1>2. op \in Storing /\ op.h \in Handles /\ ~ handles[op.h].directory
  BY <1>1 DEF StoringOK, Storing
<1>3. StoreAt(op, fat, handles)
  BY <1>1, KnownGround DEF WriteAt
<1>4. handles[op.h].first \notin Dirs(disk)
  BY <1>2, KnownGround DEF FilesOK
<1>5. handles[op.h].first # 0 => handles[op.h].first \in Firsts(disk, handles)
  BY <1>2 DEF Firsts
<1> QED BY <1>1, <1>2, <1>3, <1>4, <1>5

LEMMA FilesApart ==
  ASSUME Known, NEW e \in Firsts(disk, handles), e \notin Dirs(disk), NEW c, InChain(fat, e, c)
  PROVE  \A d \in Dirs(disk) : ~ InChain(fat, d, c)
<1>1. /\ fat \in Tables /\ LinkedOnce(fat) /\ Begins(fat, e)
      /\ \A d \in Dirs(disk) : Begins(fat, d)
  BY KnownGround
<1>2. SUFFICES ASSUME NEW d \in Dirs(disk), InChain(fat, d, c) PROVE FALSE
  OBVIOUS
<1> QED BY <1>1, <1>2, OneChain

LEMMA FewerDirs ==
  ASSUME NEW s, NEW r, NoneNew(s, r)
  PROVE  Dirs(s) \subseteq Dirs(r)
<1>1. \A p \in Places(s) : p \in Places(r) /\ At(s, p) = At(r, p)
  BY DEF NoneNew
<1> QED BY <1>1 DEF Dirs

\* Nothing that reads as an entry is written: no directory is added.
LEMMA SameFiles ==
  ASSUME NEW s, NEW r, Dirs(r) \subseteq Dirs(s), NEW hs, NEW gs, FilesOK(s, hs),
         \A h \in Handles : gs[h].first = hs[h].first /\ gs[h].directory = hs[h].directory
  PROVE  FilesOK(r, gs)
BY DEF FilesOK

-----------------------------------------------------------------------------
(* Each step leaves it so.                                                 *)

\* A cluster that was free is in no chain.
LEMMA MarkedApart ==
  ASSUME Known, NEW c \in Cluster, fat[c] = Free, NEW g, g = [fat EXCEPT ![c] = Eoc]
  PROVE  /\ \A d \in Firsts(disk, handles) : \A x : InChain(g, d, x) <=> InChain(fat, d, x)
         /\ g \in Tables /\ c \notin Dirs(disk) /\ c # 0
<1>1. /\ fat \in Tables /\ LinkedOnce(fat)
      /\ \A d \in Firsts(disk, handles) : d \in Cluster /\ Begins(fat, d)
      /\ Dirs(disk) \subseteq Firsts(disk, handles)
  BY KnownGround
<1>2. g \in Tables /\ \A x \in Cluster : x # c => g[x] = fat[x]
  BY <1>1 DEF Tables, FatEntry
<1>3. ASSUME NEW d \in Firsts(disk, handles) PROVE Walk(g, d) = Walk(fat, d)
  <2>1. \A x : InChain(fat, d, x) => x \in Cluster /\ fat[x] # Free
    BY <1>1, InUse
  <2>2. \A x : InChain(fat, d, x) => g[x] = fat[x]
    BY <1>2, <2>1
  <2> QED BY <1>1, <1>2, <2>2, ChangeElsewhere
<1>4. \A d \in Firsts(disk, handles) : \A x : InChain(g, d, x) <=> InChain(fat, d, x)
  BY <1>3 DEF InChain
<1>5. c \notin Dirs(disk) /\ c # 0
  BY <1>1, Constants DEF Begins
<1> QED BY <1>2, <1>4, <1>5

LEMMA AllocKnown ==
  ASSUME Known, Alloc, ~ adrift'
  PROVE  Own(fat', disk', handles', op')
<1> DEFINE c == LowestOf(FreeClusters)
<1>1. op.pc = "alloc" /\ UNCHANGED disk /\ FilesOK(disk, handles) /\ KnownAt(fat, disk, op)
  BY KnownGround DEF Alloc
<1>2. \A d \in Dirs(disk) : \A x : InChain(fat, d, x) => AllLegible(disk[x])
  BY <1>1 DEF KnownAt
<1>3. CASE FreeClusters = {}
  <2>1. UNCHANGED << fat, handles >> /\ op' = Idle
    BY <1>3 DEF Alloc, NoCluster
  <2> QED BY <1>1, <1>2, <2>1 DEF Own, WriteAt, KnownAt, EnterAt, Idle
<1>4. CASE FreeClusters # {}
  <2>1. c \in Cluster /\ fat[c] = Free
    <3>1. FreeClusters \in SUBSET Nat
      BY Constants DEF FreeClusters
    <3>2. c \in FreeClusters
      BY <1>4, <3>1, LowestIn
    <3> QED BY <3>2 DEF FreeClusters
  <2>2. /\ fat' = [fat EXCEPT ![c] = Eoc]
        /\ \/ op' = AfterAlloc(op, c) /\ FirstKept(op, c)
           \/ op' = Idle /\ UNCHANGED handles
    BY <1>4 DEF Alloc, Claimed, NoCluster
  <2> HIDE DEF c
  <2>3. /\ \A d \in Firsts(disk, handles) : \A x : InChain(fat', d, x) <=> InChain(fat, d, x)
        /\ fat' \in Tables /\ c \notin Dirs(disk) /\ c # 0
    BY <2>1, <2>2, MarkedApart
  <2>4. \A d \in Dirs(disk) : \A x : InChain(fat', d, x) => AllLegible(disk[x])
    BY <1>2, <2>3, KnownGround
  <2>5. CASE op' = Idle /\ UNCHANGED handles
    BY <1>1, <2>4, <2>5 DEF Own, WriteAt, KnownAt, EnterAt, Idle
  <2>6. CASE op' = AfterAlloc(op, c) /\ FirstKept(op, c) /\ op.kind = "create"
    <3>1. op \in Creating
      BY <1>1, <2>6, KnownGround, PcOf DEF CreatingOK
    <3>2. op'.pc \in {"link", "dots"} /\ op'.kind = "create" /\ handles' = handles
      BY <2>6, <3>1 DEF AfterAlloc, FirstKept, Creating
    <3> QED BY <1>1, <2>4, <3>2 DEF Own, WriteAt, KnownAt, EnterAt
  <2>7. CASE op' = AfterAlloc(op, c) /\ FirstKept(op, c) /\ op.kind # "create"
    <3>1. /\ op.kind = "write" /\ op \in Storing /\ op.h \in Handles /\ StoreAt(op, fat, handles)
          /\ ~ handles[op.h].directory
          /\ handles[op.h].first # 0 => handles[op.h].first \in Firsts(disk, handles)
          /\ StoringOK(op, fat, dfat, disk, handles)
      BY <1>1, <2>7, KnownStored
    <3>2. CASE op.extend
      <4>1. op' = [op EXCEPT !.pc = "link", !.new = c] /\ handles' = handles
        BY <2>7, <3>2 DEF AfterAlloc, FirstKept
      <4>2. op'.h = op.h /\ op'.cur = op.cur /\ op'.pc = "link" /\ op'.kind = "write"
        BY <3>1, <4>1 DEF Storing
      <4>3. handles[op.h].first # 0 /\ InChain(fat, handles[op.h].first, op.cur)
        BY <1>1, <3>1, <3>2 DEF StoreAt
      <4>4. StoreAt(op', fat', handles)
        BY <2>3, <3>1, <4>2, <4>3 DEF StoreAt
      <4> QED BY <1>1, <2>4, <4>1, <4>2, <4>4 DEF Own, WriteAt, KnownAt, EnterAt
    <3>3. CASE ~ op.extend
      <4>1. op' = [op EXCEPT !.pc = "body", !.cur = c]
            /\ handles' = [handles EXCEPT ![op.h].first = c]
        BY <2>7, <3>1, <3>3 DEF AfterAlloc, FirstKept
      <4>2. op'.h = op.h /\ op'.cur = c /\ op'.pc = "body" /\ op'.kind = "write"
        BY <3>1, <4>1 DEF Storing
      <4>3. HandlesOK(handles) /\ handles[op.h] # NoNode
        BY <3>1, KnownGround DEF StoringOK
      <4>4. handles[op.h] \in Node
        BY <3>1, <4>3 DEF HandlesOK
      <4>5. /\ handles'[op.h].first = c
            /\ \A h \in Handles : h # op.h => handles'[h] = handles[h]
        BY <3>1, <4>1, <4>3, <4>4 DEF HandlesOK, Node
      <4>6. FilesOK(disk, handles')
        BY <1>1, <2>3, <4>5 DEF FilesOK
      <4>7. InChain(fat', c, c)
        BY <2>1, <2>3, InChainIs
      <4>8. StoreAt(op', fat', handles')
        BY <2>3, <4>2, <4>5, <4>7 DEF StoreAt
      <4> QED BY <1>1, <2>4, <4>2, <4>6, <4>8 DEF Own, WriteAt, KnownAt, EnterAt
    <3> QED BY <3>2, <3>3
  <2> QED BY <2>2, <2>5, <2>6, <2>7
<1> QED BY <1>3, <1>4

LEMMA LinkKnown ==
  ASSUME Known, Link
  PROVE  Own(fat', disk', handles', op')
<1>1. /\ op.pc = "link" /\ fat' = [fat EXCEPT ![op.cur] = op.new] /\ op' = Linked(op)
      /\ UNCHANGED << disk, handles >>
  BY DEF Link
<1>2. /\ fat \in Tables /\ LinkedOnce(fat) /\ FilesOK(disk, handles) /\ KnownAt(fat, disk, op)
      /\ CallOK(op, fat, dfat, disk, handles) /\ TablesOK(fat, dfat)
      /\ \A d \in Firsts(disk, handles) : d \in Cluster /\ Begins(fat, d)
      /\ Dirs(disk) \subseteq Firsts(disk, handles)
  BY KnownGround
<1>3. op.cur \in Cluster /\ CanLink(op, fat, dfat, disk, handles)
  BY <1>1, <1>2, PcOf DEF CreatingOK, Creating, StoringOK
<1>4. /\ op.cur # op.new /\ fat[op.cur] = Eoc /\ fat[op.new] = Eoc
      /\ op.new \in Cluster /\ Begins(fat, op.new) /\ op.new \notin Firsts(disk, handles)
  <2>1. BeginsBoth(fat, dfat, op.new)
    BY <1>3 DEF CanLink, Fresh
  <2>2. Begins(fat, op.new)
    BY <1>2, <2>1, TablesLead
  <2> QED BY <1>3, <2>2 DEF CanLink, Fresh, Begins
<1>5. PICK n : n = op.new
  OBVIOUS
<1>6. PICK c : c = op.cur
  OBVIOUS
<1>7. PICK g : g = fat'
  OBVIOUS
<1>8. g \in Tables /\ \A x \in Cluster : x # c => g[x] = fat[x]
  BY <1>1, <1>2, <1>3, <1>4, <1>5, <1>6, <1>7 DEF Tables, FatEntry
<1>9. ASSUME NEW d \in Firsts(disk, handles), InChain(fat, d, c)
      PROVE  \A x : InChain(g, d, x) <=> InChain(fat, d, x) \/ x = n
  <2>1. Links(fat, d, c, n, g)
    BY <1>1, <1>2, <1>4, <1>5, <1>6, <1>7, <1>9 DEF Links
  <2> QED BY <2>1, GrownChain
<1>10. ASSUME NEW d \in Firsts(disk, handles), ~ InChain(fat, d, c)
       PROVE  \A x : InChain(g, d, x) <=> InChain(fat, d, x)
  <2>1. d \in Cluster
    BY <1>2
  <2>2. \A x : InChain(fat, d, x) => x \in Cluster /\ x # c
    BY <1>2, <1>10, <2>1, InChainIs
  <2>3. \A x : InChain(fat, d, x) => g[x] = fat[x]
    BY <1>8, <2>2
  <2>4. Walk(g, d) = Walk(fat, d)
    BY <1>2, <1>8, <2>1, <2>3, ChangeElsewhere
  <2> QED BY <2>4 DEF InChain
<1>11. \A d \in Dirs(disk) : \A x : InChain(fat, d, x) => AllLegible(disk[x])
  BY <1>1, <1>2 DEF KnownAt
<1>12. CASE op.kind = "create"
  <2>1. op' = [op EXCEPT !.pc = "zero"] /\ op \in Creating
    BY <1>1, <1>2, <1>12, PcOf DEF Linked, CreatingOK
  <2>2. op'.pc = "zero" /\ op'.new = n /\ op'.kind = "create"
    BY <1>5, <1>12, <2>1 DEF Creating
  <2>3. \A d \in Dirs(disk) : \A x : InChain(g, d, x) => AllLegible(disk[x]) \/ x = n
    BY <1>2, <1>9, <1>10, <1>11
  <2> QED BY <1>1, <1>2, <1>7, <2>2, <2>3 DEF Own, WriteAt, KnownAt, EnterAt
<1>13. CASE op.kind # "create"
  <2>1. /\ op.kind = "write" /\ op \in Storing /\ op.h \in Handles /\ StoreAt(op, fat, handles)
        /\ handles[op.h].first # 0 =>
             handles[op.h].first \in Firsts(disk, handles) /\ handles[op.h].first \notin Dirs(disk)
    BY <1>1, <1>13, KnownStored
  <2>2. handles[op.h].first # 0 /\ InChain(fat, handles[op.h].first, c)
    BY <1>1, <1>6, <2>1 DEF StoreAt
  <2>3. op' = [op EXCEPT !.pc = "body", !.extend = FALSE, !.cur = op.new, !.skip = op.skip - 1]
    BY <1>1, <1>13 DEF Linked
  <2>4. op'.pc = "body" /\ op'.cur = n /\ op'.h = op.h /\ op'.kind = "write"
    BY <1>5, <2>1, <2>3 DEF Storing
  <2>5. InChain(g, handles[op.h].first, n)
    BY <1>9, <2>1, <2>2
  <2>6. StoreAt(op', g, handles)
    BY <2>2, <2>4, <2>5 DEF StoreAt
  <2>7. \A d \in Dirs(disk) : ~ InChain(fat, d, c)
    BY <2>1, <2>2, FilesApart
  <2>8. \A d \in Dirs(disk) : \A x : InChain(g, d, x) => AllLegible(disk[x])
    BY <1>2, <1>10, <1>11, <2>7
  <2> QED BY <1>1, <1>2, <1>7, <2>4, <2>6, <2>8 DEF Own, WriteAt, KnownAt, EnterAt
<1> QED BY <1>12, <1>13

LEMMA LegibleUnits ==
  /\ AllLegible(Blank)
  /\ \A c, d : AllLegible(DotEntries(c, d))
  /\ \A base, o : AllLegible(base) => AllLegible(Entered(base, o))
<1>1. Legible(End) /\ \A n, d, c, s : Legible(Sfn(n, d, c, s)) /\ Legible(Lfn(n))
  BY DEF Legible, End, Sfn, Lfn
<1>2. AllLegible(Blank)
  BY <1>1 DEF AllLegible, Blank
<1>3. ASSUME NEW c, NEW d PROVE AllLegible(DotEntries(c, d))
  <2> DEFINE one == Sfn(".", TRUE, c, 0)
             two == Sfn("..", TRUE, IF d = Root THEN 0 ELSE d, 0)
  <2>1. Legible(one) /\ Legible(two)
    BY <1>1
  <2> HIDE DEF one, two
  <2>2. DotEntries(c, d) = [Blank EXCEPT ![1] = one, ![2] = two]
    BY DEF DotEntries, one, two
  <2>3. ASSUME NEW i \in 1 .. Slots PROVE DotEntries(c, d)[i] \in {one, two, Blank[i]}
    BY <2>2 DEF Blank
  <2> QED BY <1>2, <2>1, <2>3 DEF AllLegible
<1>4. ASSUME NEW base, NEW o, AllLegible(base) PROVE AllLegible(Entered(base, o))
  <2> DEFINE new == Sfn(o.n, o.directory, o.first, 0)
             part == Lfn(o.n)
  <2>1. Legible(new) /\ Legible(part)
    BY <1>1
  <2> HIDE DEF new, part
  <2>2. Entered(base, o) =
          [i \in 1 .. Slots |->
             IF i \notin o.slot .. (o.slot + Needs(o.n) - 1) THEN base[i]
             ELSE IF i < o.slot + Needs(o.n) - 1 THEN part ELSE new]
    BY DEF Entered, new, part
  <2>3. ASSUME NEW i \in 1 .. Slots PROVE Entered(base, o)[i] \in {base[i], part, new}
    BY <2>2
  <2> QED BY <1>4, <2>1, <2>3 DEF AllLegible
<1> QED BY <1>2, <1>3, <1>4

LEMMA ZeroKnown ==
  ASSUME Known, Zero, ~ adrift'
  PROVE  Own(fat', disk', handles', op')
<1>1. /\ op.pc = "zero" /\ UNCHANGED << fat, handles >>
      /\ disk' \in {disk, [disk EXCEPT ![op.new] = Blank]} /\ disk'[op.new] = Blank
      /\ op' = [op EXCEPT !.pc = IF op.directory THEN "alloc" ELSE "enter",
                          !.extend = FALSE, !.cur = op.new]
  BY DEF Zero, SetUp, ClusterWritten, ClusterFailed
<1>2. /\ fat \in Tables /\ disk \in Disks /\ EntriesOK(disk) /\ FilesOK(disk, handles)
      /\ KnownAt(fat, disk, op) /\ CallOK(op, fat, dfat, disk, handles)
      /\ \A d \in Dirs(disk) : d \in Cluster
  BY KnownGround
<1>3. op \in Creating /\ op.new \in Cluster /\ op.kind = "create"
  BY <1>1, <1>2, PcOf DEF CreatingOK, Creating
<1>4. /\ op'.kind = "create" /\ op'.directory = op.directory
      /\ op'.pc = IF op.directory THEN "alloc" ELSE "enter"
  BY <1>1, <1>3 DEF Creating
<1>5. Dirs(disk') \subseteq Dirs(disk)
  <2>1. CASE disk' = disk
    BY <2>1
  <2>2. CASE disk' = [disk EXCEPT ![op.new] = Blank]
    <3>1. NoneNew([disk EXCEPT ![op.new] = Blank], disk)
      BY <1>2, <1>3, BlankUnits, ClusterKeeps
    <3>2. NoneNew(disk', disk)
      BY <2>2, <3>1
    <3> QED BY <3>2, FewerDirs
  <2> QED BY <1>1, <2>1, <2>2
<1>6. \A x \in Cluster : x # op.new => disk'[x] = disk[x]
  BY <1>1, <1>2 DEF Disks
<1>7. AllLegible(disk'[op.new])
  BY <1>1, LegibleUnits
<1>8. ASSUME NEW d \in Dirs(disk'), NEW x, InChain(fat, d, x) PROVE AllLegible(disk'[x])
  <2>1. x \in Cluster
    BY <1>2, <1>5, <1>8, InChainIs
  <2>2. AllLegible(disk[x]) \/ x = op.new
    BY <1>2, <1>5, <1>8 DEF KnownAt
  <2> QED BY <1>6, <1>7, <2>1, <2>2
<1>9. FilesOK(disk', handles)
  BY <1>2, <1>5 DEF FilesOK
<1> QED BY <1>1, <1>4, <1>8, <1>9 DEF Own, WriteAt, KnownAt, EnterAt

LEMMA WriteDotsKnown ==
  ASSUME Known, WriteDots, ~ adrift'
  PROVE  Own(fat', disk', handles', op')
<1>1. /\ op.pc = "dots" /\ UNCHANGED << fat, handles >>
      /\ disk' \in {disk, [disk EXCEPT ![op.first] = DotEntries(op.first, op.d)]}
      /\ disk'[op.first] = DotEntries(op.first, op.d)
      /\ op' = [op EXCEPT !.pc = "enter"]
  BY DEF WriteDots, SetUp, ClusterWritten, ClusterFailed
<1>2. /\ fat \in Tables /\ disk \in Disks /\ EntriesOK(disk) /\ FilesOK(disk, handles)
      /\ KnownAt(fat, disk, op) /\ CallOK(op, fat, dfat, disk, handles)
      /\ \A d \in Dirs(disk) : d \in Cluster
  BY KnownGround
<1>3. op \in Creating /\ op.first \in Cluster /\ op.d \in Cluster /\ op.kind = "create"
  BY <1>1, <1>2, PcOf DEF CreatingOK, Creating
<1>4. op'.kind = "create" /\ op'.first = op.first /\ op'.pc = "enter"
  BY <1>1, <1>3 DEF Creating
<1>5. Dirs(disk') \subseteq Dirs(disk)
  <2>1. CASE disk' = disk
    BY <2>1
  <2>2. CASE disk' = [disk EXCEPT ![op.first] = DotEntries(op.first, op.d)]
    <3>1. NoneNew([disk EXCEPT ![op.first] = DotEntries(op.first, op.d)], disk)
      BY <1>2, <1>3, DotUnits, ClusterKeeps
    <3>2. NoneNew(disk', disk)
      BY <2>2, <3>1
    <3> QED BY <3>2, FewerDirs
  <2> QED BY <1>1, <2>1, <2>2
<1>6. \A x \in Cluster : x # op.first => disk'[x] = disk[x]
  BY <1>1, <1>2 DEF Disks
<1>7. AllLegible(disk'[op.first])
  BY <1>1, LegibleUnits
<1>8. ASSUME NEW d \in Dirs(disk'), NEW x, InChain(fat, d, x) PROVE AllLegible(disk'[x])
  <2>1. x \in Cluster
    BY <1>2, <1>5, <1>8, InChainIs
  <2>2. AllLegible(disk[x])
    BY <1>1, <1>2, <1>5, <1>8 DEF KnownAt
  <2> QED BY <1>6, <1>7, <2>1, <2>2
<1>9. FilesOK(disk', handles)
  BY <1>2, <1>5 DEF FilesOK
<1> QED BY <1>1, <1>4, <1>7, <1>8, <1>9 DEF Own, WriteAt, KnownAt, EnterAt

LEMMA EnterKnown ==
  ASSUME Known, Enter
  PROVE  Own(fat', disk', handles', op')
<1>1. op.pc = "enter" /\ UNCHANGED << fat, handles >> /\ op' = Idle
  BY DEF Enter
<1>2. /\ fat \in Tables /\ disk \in Disks /\ EntriesOK(disk) /\ FilesOK(disk, handles)
      /\ KnownAt(fat, disk, op) /\ CallOK(op, fat, dfat, disk, handles) /\ EnterAt(op, disk)
      /\ \A d \in Dirs(disk) : d \in Cluster
      /\ Dirs(disk) \subseteq Firsts(disk, handles)
  BY KnownGround
<1>3. CreatingOK(op, fat, dfat, disk, handles)
  BY <1>1, <1>2, PcOf
<1>4. /\ op \in Creating /\ op.slot + Needs(op.n) - 1 <= Slots
      /\ op.cur \in Cluster /\ op.n \in Names /\ op.directory \in BOOLEAN /\ op.first \in {0} \cup Cluster
      /\ op.directory <=> op.first # 0
      /\ op.first # 0 => Fresh(op.first, fat, dfat, disk, handles)
  BY <1>1, <1>3 DEF CreatingOK, Creating
<1>5. PICK base \in {disk[op.cur], Blank} : disk' \in {disk, [disk EXCEPT ![op.cur] = Entered(base, op)]}
  <2>1. PICK r \in ReadInto(op.cur, IF op.cur = op.new THEN Blank ELSE disk[op.cur]) :
          \/ disk' = [disk EXCEPT ![op.cur] = Entered(r[1], op)]
          \/ ClusterFailed(op.cur, Entered(r[1], op))
    BY DEF Enter
  <2>2. r[1] \in {disk[op.cur], Blank}
    BY <2>1 DEF ReadInto
  <2>3. disk' \in {disk, [disk EXCEPT ![op.cur] = Entered(r[1], op)]}
    BY <2>1 DEF ClusterFailed
  <2> QED BY <2>2, <2>3
<1>6. \A x \in Cluster : disk'[x] = disk[x] \/ (x = op.cur /\ disk'[x] = Entered(base, op))
  BY <1>2, <1>4, <1>5 DEF Disks
<1>7. ASSUME NEW x \in Cluster, AllLegible(disk[x]) PROVE AllLegible(disk'[x])
  <2>1. CASE disk'[x] = disk[x]
    BY <1>7, <2>1
  <2>2. CASE x = op.cur /\ disk'[x] = Entered(base, op)
    <3>1. AllLegible(base)
      BY <1>5, <1>7, <2>2, LegibleUnits
    <3> QED BY <2>2, <3>1, LegibleUnits
  <2> QED BY <1>6, <2>1, <2>2
<1>8. ASSUME NEW d \in Dirs(disk') PROVE d \in Dirs(disk) \/ (d = op.first /\ op.directory)
  <2>1. CASE d = Root
    BY <2>1 DEF Dirs
  <2>2. CASE d # Root
    <3>1. PICK p \in Places(disk') : At(disk', p)[3] /\ At(disk', p)[4] = d
      BY <1>8, <2>2 DEF Dirs
    <3>2. p \in Cluster \X (1 .. Slots) /\ Named(At(disk', p)) /\ p[1] \in Cluster /\ p[2] \in 1 .. Slots
      BY <3>1 DEF Places
    <3>3. CASE disk'[p[1]] = disk[p[1]]
      <4>1. At(disk', p) = At(disk, p)
        BY <3>3 DEF At
      <4>2. p \in Places(disk)
        BY <3>2, <4>1 DEF Places
      <4> QED BY <3>1, <4>1, <4>2 DEF Dirs
    <3>4. CASE p[1] = op.cur /\ disk'[p[1]] = Entered(base, op)
      <4>1. base \in [1 .. Slots -> Unit] /\ \A i \in 1 .. Slots : Named(base[i]) => base[i] = disk[op.cur][i]
        <5>1. disk[op.cur] \in [1 .. Slots -> Unit]
          BY <1>2, <1>4 DEF Disks
        <5> QED BY <1>5, <5>1, BlankUnits
      <4>2. \/ Entered(base, op)[p[2]] = Sfn(op.n, op.directory, op.first, 0)
            \/ Entered(base, op)[p[2]] = base[p[2]]
            \/ ~ Named(Entered(base, op)[p[2]])
        BY <1>4, <3>2, <4>1, EnteredUnits
      <4>3. At(disk', p) = Entered(base, op)[p[2]]
        BY <3>4 DEF At
      <4>4. CASE Entered(base, op)[p[2]] = Sfn(op.n, op.directory, op.first, 0)
        <5>1. At(disk', p)[3] = op.directory /\ At(disk', p)[4] = op.first
          BY <4>3, <4>4 DEF Sfn
        <5> QED BY <3>1, <5>1
      <4>5. CASE Entered(base, op)[p[2]] = base[p[2]]
        <5>1. At(disk', p) = At(disk, p)
          BY <3>2, <3>4, <4>1, <4>3, <4>5 DEF At
        <5>2. p \in Places(disk)
          BY <3>2, <5>1 DEF Places
        <5> QED BY <3>1, <5>1, <5>2 DEF Dirs
      <4> QED BY <3>2, <4>2, <4>3, <4>4, <4>5
    <3> QED BY <1>6, <3>2, <3>3, <3>4
  <2> QED BY <2>1, <2>2
<1>9. FilesOK(disk', handles)
  <2>1. ASSUME NEW h \in Handles, ~ handles[h].directory, handles[h].first \in Dirs(disk') PROVE FALSE
    <3>1. handles[h].first = op.first /\ op.directory
      BY <1>2, <1>8, <2>1 DEF FilesOK
    <3>2. op.first # 0 /\ op.first \notin Firsts(disk, handles)
      BY <1>4, <3>1 DEF Fresh
    <3> QED BY <3>1, <3>2 DEF Firsts
  <2> QED BY <2>1 DEF FilesOK
<1>10. ASSUME NEW d \in Dirs(disk'), NEW x, InChain(fat, d, x) PROVE AllLegible(disk'[x])
  <2>1. CASE d \in Dirs(disk)
    <3>1. x \in Cluster
      BY <1>2, <1>10, <2>1, InChainIs
    <3>2. AllLegible(disk[x])
      BY <1>1, <1>2, <1>10, <2>1 DEF KnownAt
    <3> QED BY <1>7, <3>1, <3>2
  <2>2. CASE d = op.first /\ op.directory
    <3>1. op.first \in Cluster /\ fat[op.first] = Eoc
      BY <1>4, <2>2 DEF Fresh, BeginsBoth
    <3>2. x = op.first
      BY <1>2, <1>10, <2>2, <3>1, Alone
    <3>3. AllLegible(disk[op.first])
      BY <1>1, <1>2, <2>2 DEF EnterAt
    <3> QED BY <1>7, <3>1, <3>2, <3>3
  <2> QED BY <1>8, <2>1, <2>2
<1> QED BY <1>1, <1>9, <1>10 DEF Own, WriteAt, KnownAt, EnterAt, Idle

LEMMA GrowKnown ==
  ASSUME Known, Grow
  PROVE  Own(fat', disk', handles', op')
<1> DEFINE ch == Walk(fat, op.cur)
<1>1. /\ op.pc = "body" /\ UNCHANGED << fat, disk, handles >>
      /\ op' = [op EXCEPT !.pc = "alloc", !.extend = TRUE, !.cur = ch[Len(ch)],
                          !.skip = op.skip - (Len(ch) - 1)]
  BY DEF Grow, volume
<1>2. /\ fat \in Tables /\ FilesOK(disk, handles) /\ KnownAt(fat, disk, op)
      /\ CallOK(op, fat, dfat, disk, handles)
      /\ \A c \in Firsts(disk, handles) : c \in Cluster /\ Ends(fat, c)
  BY KnownGround
<1>3. op.kind # "create"
  BY <1>1, <1>2, PcOf DEF CreatingOK, Creating
<1>4. /\ op.kind = "write" /\ op \in Storing /\ op.h \in Handles /\ StoreAt(op, fat, handles)
      /\ StoringOK(op, fat, dfat, disk, handles)
      /\ handles[op.h].first # 0 => handles[op.h].first \in Firsts(disk, handles)
  BY <1>1, <1>3, KnownStored
<1>5. handles[op.h].first # 0 /\ InChain(fat, handles[op.h].first, op.cur)
  BY <1>1, <1>4 DEF StoreAt
<1>6. Ends(fat, op.cur) /\ op.cur \in Cluster
  BY <1>1, <1>4 DEF StoringOK
<1>7. InChain(fat, op.cur, ch[Len(ch)])
  <2>1. Len(ch) \in 1 .. Len(ch)
    BY <1>6 DEF Ends, Leads
  <2> QED BY <1>2, <1>6, <2>1, InChainIs
<1> HIDE DEF ch
<1>8. PICK e \in Cluster : e = handles[op.h].first
  BY <1>2, <1>4, <1>5
<1>9. Ends(fat, e) /\ InChain(fat, e, op.cur)
  BY <1>2, <1>4, <1>5, <1>8
<1>10. fat[Walk(fat, e)[Len(Walk(fat, e))]] \notin Cluster
  <2>1. fat[Walk(fat, e)[Len(Walk(fat, e))]] = Eoc
    BY <1>9 DEF Ends
  <2> QED BY <2>1, Constants
<1>11. InChain(fat, e, ch[Len(ch)])
  BY <1>2, <1>7, <1>9, <1>10, Onward
<1>12. op'.h = op.h /\ op'.cur = ch[Len(ch)] /\ op'.pc = "alloc" /\ op'.kind = "write" /\ op'.extend
  BY <1>1, <1>4 DEF Storing
<1>13. StoreAt(op', fat, handles)
  BY <1>5, <1>8, <1>11, <1>12 DEF StoreAt
<1> QED BY <1>1, <1>2, <1>12, <1>13 DEF Own, WriteAt, KnownAt, EnterAt

LEMMA WriteClusterKnown ==
  ASSUME Known, WriteCluster
  PROVE  Own(fat', disk', handles', op')
<1> DEFINE ch == Walk(fat, op.cur)
           c == ch[op.skip + 1]
<1>1. op.pc = "body" /\ UNCHANGED fat /\ ~ (Len(ch) <= op.skip)
  BY DEF WriteCluster, Short
<1>2. /\ fat \in Tables /\ disk \in Disks /\ EntriesOK(disk) /\ FilesOK(disk, handles)
      /\ KnownAt(fat, disk, op) /\ HandlesOK(handles)
      /\ CallOK(op, fat, dfat, disk, handles)
      /\ Dirs(disk) \subseteq Firsts(disk, handles)
      /\ \A x \in Firsts(disk, handles) : x \in Cluster /\ Ends(fat, x)
  BY KnownGround
<1>3. op.kind # "create"
  BY <1>1, <1>2, PcOf DEF CreatingOK, Creating
<1>4. /\ op.kind = "write" /\ op \in Storing /\ op.h \in Handles /\ StoreAt(op, fat, handles)
      /\ StoringOK(op, fat, dfat, disk, handles) /\ ~ handles[op.h].directory
      /\ handles[op.h].first # 0 =>
           handles[op.h].first \in Firsts(disk, handles) /\ handles[op.h].first \notin Dirs(disk)
  BY <1>1, <1>3, KnownStored
<1>5. handles[op.h].first # 0 /\ InChain(fat, handles[op.h].first, op.cur)
  BY <1>1, <1>4 DEF StoreAt
<1>6. Ends(fat, op.cur) /\ op.cur \in Cluster /\ op.skip \in Nat
  BY <1>1, <1>4 DEF StoringOK, Storing
<1>7. InChain(fat, op.cur, c)
  <2>1. Len(ch) \in Nat
    BY <1>6 DEF Ends, Leads
  <2>2. op.skip + 1 \in 1 .. Len(ch)
    BY <1>1, <1>6, <2>1
  <2> QED BY <1>2, <1>6, <2>2, InChainIs
<1>8. PICK e \in Firsts(disk, handles) : e = handles[op.h].first
  BY <1>4, <1>5
<1> HIDE DEF ch
<1>9. InChain(fat, e, c)
  <2>1. Ends(fat, e) /\ e \in Cluster /\ InChain(fat, e, op.cur)
    BY <1>2, <1>5, <1>8
  <2>2. fat[Walk(fat, e)[Len(Walk(fat, e))]] = Eoc
    BY <2>1 DEF Ends
  <2>3. fat[Walk(fat, e)[Len(Walk(fat, e))]] \notin Cluster
    BY <2>2, Constants
  <2> HIDE DEF c
  <2> QED BY <1>2, <1>7, <2>1, <2>3, Onward
<1>10. PICK r : /\ r[1] \in {disk[c], Junk}
                /\ \/ /\ \/ disk' = [disk EXCEPT ![c] = Merged(r[1], op)]
                         \/ ClusterFailed(c, Merged(r[1], op))
                      /\ IF op.done + Copied(op) = op.n
                         THEN op' = Idle /\ handles' = Grown(op)
                         ELSE /\ op' = [op EXCEPT !.cur = c, !.skip = 1, !.done = @ + Copied(op)]
                              /\ UNCHANGED handles
                   \/ /\ ClusterFailed(c, Merged(r[1], op))
                      /\ op' = Idle /\ UNCHANGED handles
  <2>1. \A r \in ReadInto(c, Junk) \cup {<< Junk, faults >>} : r[1] \in {disk[c], Junk}
    BY DEF ReadInto
  <2>2. WriteCluster
    OBVIOUS
  <2> HIDE DEF c
  <2>3. \A r \in (IF Partial(op) THEN ReadInto(c, Junk) ELSE { << Junk, faults >> }) :
          r[1] \in {disk[c], Junk}
    BY <2>1
  <2> QED BY <2>2, <2>3 DEF WriteCluster, c, ch
<1> DEFINE u == Merged(r[1], op)
<1> HIDE DEF c
<1>11. c \in Cluster /\ \A d \in Dirs(disk) : ~ InChain(fat, d, c)
  <2>1. c \in Cluster
    BY <1>2, <1>6, <1>7, InChainIs
  <2>2. \A d \in Dirs(disk) : ~ InChain(fat, d, c)
    BY <1>4, <1>5, <1>8, <1>9, FilesApart
  <2> QED BY <2>1, <2>2
<1>12. u \in [1 .. Slots -> Unit] /\ \A i \in 1 .. Slots : Named(u[i]) => u[i] = disk[c][i]
  <2>1. disk[c] \in [1 .. Slots -> Unit]
    BY <1>2, <1>11 DEF Disks
  <2>2. r[1] \in [1 .. Slots -> Unit] /\ (r[1] = disk[c] \/ r[1] = Junk)
    BY <1>10, <2>1, BlankUnits
  <2>3. u \in [1 .. Slots -> Unit] /\ \A i \in 1 .. Slots : Named(u[i]) => u[i] = r[1][i]
    BY <1>4, <2>2, MergedUnits
  <2>4. ASSUME NEW i \in 1 .. Slots, Named(u[i]) PROVE u[i] = disk[c][i]
    <3>1. u[i] = r[1][i] /\ Named(r[1][i])
      BY <2>3, <2>4
    <3>2. r[1] # Junk
      BY <3>1, BlankUnits
    <3> QED BY <2>2, <3>1, <3>2
  <2> QED BY <2>3, <2>4
<1>13. disk' \in {disk, [disk EXCEPT ![c] = u]}
  BY <1>10 DEF ClusterFailed
<1> HIDE DEF u
<1>14. Dirs(disk') \subseteq Dirs(disk)
  <2>1. CASE disk' = disk
    BY <2>1
  <2>2. CASE disk' = [disk EXCEPT ![c] = u]
    <3>1. NoneNew([disk EXCEPT ![c] = u], disk)
      BY <1>2, <1>11, <1>12, ClusterKeeps
    <3>2. NoneNew(disk', disk)
      BY <2>2, <3>1
    <3> QED BY <3>2, FewerDirs
  <2> QED BY <1>13, <2>1, <2>2
<1>15. \A h \in Handles : /\ handles'[h].first = handles[h].first
                          /\ handles'[h].directory = handles[h].directory
  <2>1. CASE UNCHANGED handles
    BY <2>1
  <2>2. CASE handles' = Grown(op)
    <3>1. PICK z : handles' = [handles EXCEPT ![op.h].size = z]
      BY <2>2 DEF Grown
    <3>2. handles[op.h] \in Node \cup {NoNode} /\ \A h \in Handles : h # op.h => handles'[h] = handles[h]
      BY <1>2, <1>4, <3>1 DEF HandlesOK
    <3>3. handles'[op.h] = [handles[op.h] EXCEPT !.size = z]
      BY <1>2, <1>4, <3>1 DEF HandlesOK
    <3>4. handles'[op.h].first = handles[op.h].first /\ handles'[op.h].directory = handles[op.h].directory
      BY <3>2, <3>3 DEF Node, NoNode
    <3> QED BY <3>2, <3>4
  <2> QED BY <1>10, <2>1, <2>2
<1>16. FilesOK(disk', handles')
  BY <1>2, <1>14, <1>15, SameFiles
<1>17. ASSUME NEW d \in Dirs(disk'), NEW x, InChain(fat, d, x) PROVE AllLegible(disk'[x])
  <2>1. d \in Dirs(disk) /\ d \in Cluster
    BY <1>2, <1>14
  <2>2. x \in Cluster /\ x # c
    BY <1>2, <1>11, <1>17, <2>1, InChainIs
  <2>3. disk'[x] = disk[x]
    BY <1>2, <1>11, <1>13, <2>2 DEF Disks
  <2>4. AllLegible(disk[x])
    BY <1>1, <1>2, <1>17, <2>1 DEF KnownAt
  <2> QED BY <2>3, <2>4
<1>18. WriteAt(op', fat, handles') /\ op'.pc # "enter"
  <2>1. CASE op' = Idle
    BY <2>1 DEF WriteAt, Idle
  <2>2. CASE op' = [op EXCEPT !.cur = c, !.skip = 1, !.done = op.done + Copied(op)]
    <3>1. op'.pc = "body" /\ op'.cur = c /\ op'.h = op.h
      BY <1>1, <1>4, <2>2 DEF Storing
    <3>2. StoreAt(op', fat, handles')
      BY <1>4, <1>5, <1>8, <1>9, <1>15, <3>1 DEF StoreAt
    <3> QED BY <3>1, <3>2 DEF WriteAt
  <2> QED BY <1>10, <2>1, <2>2
<1> QED BY <1>1, <1>16, <1>17, <1>18 DEF Own, KnownAt, EnterAt

\* A step that leaves volume and nodes alone, before the first command of a call.
LEMMA CallKnown ==
  ASSUME Known, UNCHANGED << fat, disk, handles >>, op.pc # "zero",
         WriteAt(op', fat, handles), EnterAt(op', disk)
  PROVE  Own(fat', disk', handles', op')
<1>1. FilesOK(disk, handles) /\ KnownAt(fat, disk, op)
  BY KnownGround
<1>2. KnownAt(fat, disk, op')
  BY <1>1 DEF KnownAt
<1> QED BY <1>1, <1>2 DEF Own

LEMMA CreateKnown ==
  ASSUME Known, NEW d, NEW n, NEW directory \in BOOLEAN, Create(d, n, directory)
  PROVE  Own(fat', disk', handles', op')
<1>1. /\ UNCHANGED << fat, disk, handles >> /\ op = Idle
      /\ op' = op \/ op' = Placed(d, n, directory)
  BY DEF Create, volume
<1>2. op.pc = "idle"
  BY <1>1 DEF Idle
<1>3. CASE op' = op
  <2>1. WriteAt(op', fat, handles) /\ EnterAt(op', disk)
    BY <1>2, <1>3 DEF WriteAt, EnterAt
  <2> QED BY <1>1, <1>2, <2>1, CallKnown
<1>4. CASE op' = Placed(d, n, directory)
  <2>1. \E extend \in BOOLEAN : \E c, i : op' = CreateOp(d, n, directory, extend, c, i)
    BY <1>4 DEF Placed
  <2>2. op'.kind = "create" /\ op'.directory = directory /\ (directory => op'.pc = "alloc")
    BY <2>1 DEF CreateOp
  <2>3. WriteAt(op', fat, handles) /\ EnterAt(op', disk)
    BY <2>2 DEF WriteAt, EnterAt
  <2> QED BY <1>1, <1>2, <2>3, CallKnown
<1> QED BY <1>1, <1>3, <1>4

LEMMA LookupKnown ==
  ASSUME Known, NEW h \in Handles, NEW d \in Directories, NEW found,
         found \subseteq EntriesOf(fat, d), Lookup(h, d, found)
  PROVE  Own(fat', disk', handles', op')
<1>1. UNCHANGED << fat, disk, op >> /\ op = Idle
  BY DEF Lookup, volume
<1>2. /\ fat \in Tables /\ disk \in Disks /\ EntriesOK(disk) /\ HandlesOK(handles)
      /\ FilesOK(disk, handles) /\ KnownAt(fat, disk, op) /\ 0 \notin Dirs(disk)
  BY KnownGround
<1>3. FilesOK(disk, handles')
  <2>1. CASE UNCHANGED handles
    BY <1>2, <2>1
  <2>2. CASE \E e \in EntriesOf(fat, d) : e[2] \notin Dots /\ handles' = [handles EXCEPT ![h] = NodeOf(e)]
    <3>1. PICK e \in EntriesOf(fat, d) : e[2] \notin Dots /\ handles' = [handles EXCEPT ![h] = NodeOf(e)]
      BY <2>2
    <3>2. d \in Cluster
      BY HeadChains DEF Known
    <3>3. e[1] = "entry" /\ \E p \in Cluster \X (1 .. Slots) : At(disk, p) = e
      BY <1>2, <3>2, EntriesStand
    <3>4. PICK p \in Places(disk) : At(disk, p) = e
      BY <3>1, <3>3 DEF Places, Named
    <3>5. e[4] \in Dirs(disk) => e[3]
      <4>1. SUFFICES ASSUME e[4] \in Dirs(disk) PROVE e[3]
        OBVIOUS
      <4>2. e[4] # 0 /\ e[4] # Root
        BY <1>2, <3>4, <4>1 DEF EntriesOK
      <4>3. PICK q \in Places(disk) : At(disk, q)[3] /\ At(disk, q)[4] = e[4]
        BY <4>1, <4>2 DEF Dirs
      <4>4. p = q
        BY <1>2, <3>4, <4>2, <4>3 DEF EntriesOK
      <4> QED BY <3>4, <4>3, <4>4
    <3>6. handles'[h] = NodeOf(e) /\ \A g \in Handles : g # h => handles'[g] = handles[g]
      BY <1>2, <3>1 DEF HandlesOK
    <3>7. NodeOf(e).directory = e[3] /\ NodeOf(e).first = e[4]
      BY DEF NodeOf
    <3> QED BY <1>2, <3>5, <3>6, <3>7 DEF FilesOK
  <2> QED BY <2>1, <2>2 DEF Lookup
<1> QED BY <1>1, <1>2, <1>3 DEF Own, WriteAt, KnownAt, EnterAt, Idle

LEMMA WriteCallKnown ==
  ASSUME Known, NEW h \in Handles, NEW w, NEW b, Write(h, w[1], w[2], b)
  PROVE  Own(fat', disk', handles', op')
<1>1. UNCHANGED << fat, disk, handles >> /\ op = Idle /\ handles[h] # NoNode
  BY DEF Write, volume
<1>2. PICK q : q = w[1] \div Slots
  OBVIOUS
<1>3. op' = [kind |-> "write", pc |-> IF handles[h].first = 0 THEN "alloc" ELSE "body", h |-> h,
             offset |-> w[1], n |-> w[2], b |-> b, extend |-> FALSE, new |-> 0, done |-> 0,
             cur |-> handles[h].first, skip |-> q]
  BY <1>2 DEF Write
<1>4. /\ op'.kind = "write" /\ op'.h = h /\ op'.cur = handles[h].first /\ ~ op'.extend
      /\ op'.pc = IF handles[h].first = 0 THEN "alloc" ELSE "body"
  BY <1>3
<1>5. handles[h].first \in {0} \cup Cluster /\ fat \in Tables
  BY <1>1, KnownGround DEF HandlesOK, Node
<1>6. StoreAt(op', fat, handles)
  <2>1. CASE handles[h].first = 0
    BY <1>4, <2>1 DEF StoreAt
  <2>2. CASE handles[h].first # 0
    <3>1. InChain(fat, handles[h].first, handles[h].first)
      BY <1>5, <2>2, InChainIs
    <3> QED BY <1>4, <2>2, <3>1 DEF StoreAt
  <2> QED BY <2>1, <2>2
<1>7. op.pc # "zero" /\ WriteAt(op', fat, handles) /\ EnterAt(op', disk)
  BY <1>1, <1>4, <1>6 DEF WriteAt, EnterAt, Idle
<1> QED BY <1>1, <1>7, CallKnown

\* A chain on the disk is the beginning of the one in memory.
LEMMA PrefixChain ==
  ASSUME NEW f, NEW d, TablesOK(f, d), NEW c \in Cluster, Ends(f, c), NEW x, InChain(d, c, x)
  PROVE  /\ InChain(f, c, x)
         /\ x = c \/ \E y \in Cluster : d[y] = x /\ f[y] = x
<1> DEFINE v == Walk(f, c)
           w == Walk(d, c)
<1>1. f \in Tables /\ d \in Tables /\ Behind(f, d)
  BY DEF TablesOK
<1>2. Leads(v, f, c) /\ Leads(w, d, c)
  BY <1>1, WalkLeads
<1>3. \A y : InChain(f, c, y) <=> \E k \in 1 .. Len(v) : v[k] = y
  BY <1>1, InChainIs
<1>4. PICK m \in 1 .. Len(w) : w[m] = x
  BY <1>1, InChainIs
<1>5. f[v[Len(v)]] \notin Cluster
  BY Constants DEF Ends
<1>6. \A y \in Cluster : d[y] \in Cluster => f[y] = d[y]
  BY <1>1, Constants DEF Behind
<1> HIDE DEF v, w
<1>7. /\ Len(v) \in Nat /\ Len(w) \in Nat /\ w[1] = c /\ v[1] = c /\ Len(v) >= 1
      /\ \A k \in 1 .. Len(v) - 1 : v[k + 1] = f[v[k]]
      /\ \A k \in 1 .. Len(w) - 1 : w[k + 1] = d[w[k]]
      /\ \A k \in 1 .. Len(w) : w[k] \in Cluster
  BY <1>2 DEF Leads
<1> DEFINE T == { k \in 0 .. Len(w) : k = Len(w) \/ InChain(f, c, w[k + 1]) }
<1>8. 0 \in T
  <2>1. 1 \in 1 .. Len(v)
    BY <1>7
  <2> QED BY <1>3, <1>7, <2>1 DEF T
<1>9. ASSUME NEW k \in 0 .. Len(w) - 1, k \in T PROVE k + 1 \in T
  <2>1. CASE k + 1 = Len(w)
    BY <1>7, <2>1
  <2>2. CASE k + 1 # Len(w)
    <3>1. k + 1 \in 1 .. Len(w) - 1 /\ (k + 1) + 1 \in 1 .. Len(w) /\ k # Len(w) /\ k + 1 \in 0 .. Len(w)
          /\ k + 1 \in 1 .. Len(w)
      BY <1>7, <2>2
    <3>2. PICK i \in 1 .. Len(v) : v[i] = w[k + 1]
      BY <1>3, <1>9, <3>1
    <3>3. w[(k + 1) + 1] = d[w[k + 1]] /\ w[(k + 1) + 1] \in Cluster /\ w[k + 1] \in Cluster
      BY <1>7, <3>1
    <3>4. w[(k + 1) + 1] = f[w[k + 1]]
      BY <1>6, <3>3
    <3>5. i # Len(v)
      BY <1>5, <3>2, <3>3, <3>4
    <3>6. i \in 1 .. Len(v) - 1 /\ i + 1 \in 1 .. Len(v)
      BY <1>7, <3>5
    <3>7. v[i + 1] = w[(k + 1) + 1]
      BY <1>7, <3>2, <3>4, <3>6
    <3> QED BY <1>3, <3>1, <3>6, <3>7
  <2> QED BY <2>1, <2>2
<1> HIDE DEF T
<1>10. \A k \in 0 .. Len(w) : k \in T
  BY <1>7, <1>8, <1>9, UpTo
<1>11. m - 1 \in 0 .. Len(w) /\ m - 1 # Len(w) /\ (m - 1) + 1 = m
  BY <1>7
<1>12. InChain(f, c, x)
  BY <1>4, <1>10, <1>11 DEF T
<1>13. m # 1 => \E y \in Cluster : d[y] = x /\ f[y] = x
  <2>1. SUFFICES ASSUME m # 1 PROVE \E y \in Cluster : d[y] = x /\ f[y] = x
    OBVIOUS
  <2>2. m - 1 \in 1 .. Len(w) - 1 /\ m - 1 \in 1 .. Len(w)
    BY <1>7, <2>1
  <2>3. x = d[w[m - 1]] /\ w[m - 1] \in Cluster /\ x \in Cluster
    BY <1>4, <1>7, <1>11, <2>2
  <2> QED BY <1>6, <2>3
<1> QED BY <1>4, <1>7, <1>12, <1>13

LEMMA ResetKnown ==
  ASSUME Known, Reset, ~ adrift'
  PROVE  Own(fat', disk', handles', op')
<1>1. /\ fat' = dfat /\ UNCHANGED disk /\ op' = Idle /\ handles' = [h \in Handles |-> NoNode]
      /\ ~ (op.pc = "zero" /\ dfat[op.cur] = op.new)
  BY DEF Reset, volume
<1>2. /\ TablesOK(fat, dfat) /\ KnownAt(fat, disk, op) /\ CallOK(op, fat, dfat, disk, handles)
      /\ Dirs(disk) \subseteq Firsts(disk, handles) /\ 0 \notin Dirs(disk) /\ LinkedOnce(fat)
      /\ \A c \in Firsts(disk, handles) : c \in Cluster /\ Ends(fat, c)
  BY KnownGround
<1>3. FilesOK(disk, handles')
  BY <1>1, <1>2 DEF FilesOK, NoNode
<1>4. ASSUME NEW d \in Dirs(disk), NEW x, InChain(dfat, d, x) PROVE AllLegible(disk[x])
  <2>1. InChain(fat, d, x) /\ (x = d \/ \E y \in Cluster : dfat[y] = x /\ fat[y] = x)
    BY <1>2, <1>4, PrefixChain
  <2>2. ~ (op.pc = "zero" /\ x = op.new)
    <3>1. SUFFICES ASSUME op.pc = "zero", x = op.new PROVE FALSE
      OBVIOUS
    <3>2. CreatingOK(op, fat, dfat, disk, handles) /\ op.cur \in Cluster
      BY <1>2, <3>1, PcOf DEF CreatingOK, Creating
    <3>3. op.new \in Cluster /\ fat[op.cur] = op.new /\ op.new \notin Firsts(disk, handles)
      BY <3>1, <3>2 DEF CreatingOK
    <3>4. PICK y \in Cluster : dfat[y] = op.new /\ fat[y] = op.new
      BY <1>2, <2>1, <3>1, <3>3
    <3>5. y = op.cur
      BY <1>2, <3>2, <3>3, <3>4 DEF LinkedOnce
    <3> QED BY <1>1, <3>1, <3>4, <3>5
  <2> QED BY <1>2, <2>1, <2>2 DEF KnownAt
<1> QED BY <1>1, <1>3, <1>4 DEF Own, WriteAt, KnownAt, EnterAt, Idle

LEMMA OwnStep ==
  ASSUME Known, Next, ~ adrift'
  PROVE  Own(fat', disk', handles', op')
<1>1. CASE \E d \in Directories, n \in Names, directory \in BOOLEAN : Create(d, n, directory)
  BY <1>1, CreateKnown
<1>2. fat \in Tables /\ disk \in Disks /\ \A d \in Directories : d \in Cluster
  BY HeadChains, KnownGround DEF Known
<1>3. CASE \E h \in Handles, d \in Directories, n \in Names : Open(h, d, n)
  <2>1. PICK h \in Handles, d \in Directories, n \in Names : Lookup(h, d, FindDir(d, n))
    BY <1>3 DEF Open
  <2>2. FindDir(d, n) \subseteq EntriesOf(fat, d)
    BY <1>2, FoundStand
  <2> QED BY <2>1, <2>2, LookupKnown
<1>4. CASE \E h \in Handles, d \in Directories, index \in 0 .. Slots : ReadDir(h, d, index)
  <2>1. PICK h \in Handles, d \in Directories, index \in 0 .. Slots : Lookup(h, d, ReadDirAt(d, index))
    BY <1>4 DEF ReadDir
  <2>2. ReadDirAt(d, index) \subseteq EntriesOf(fat, d)
    BY <1>2, FoundStand
  <2> QED BY <2>1, <2>2, LookupKnown
<1>5. CASE \E h \in Handles, w \in Spans, b \in Bytes : Write(h, w[1], w[2], b)
  BY <1>5, WriteCallKnown
<1>6. CASE Steps
  BY <1>6, AllocKnown, LinkKnown, ZeroKnown, WriteDotsKnown, EnterKnown, GrowKnown, WriteClusterKnown
     DEF Steps
<1>7. CASE Reset
  BY <1>7, ResetKnown
<1> QED BY <1>1, <1>3, <1>4, <1>5, <1>6, <1>7 DEF Next

OwnInv == ~ adrift => Own(fat, disk, handles, op)

LEMMA OwnInit ==
  ASSUME Init
  PROVE  OwnInv
<1>1. fat = Image.fat /\ disk = Image.disk /\ op = Idle /\ handles = [h \in Handles |-> NoNode]
  BY DEF Init
<1>2. OwnChain(fat, disk) /\ LegibleDirs(fat, disk) /\ fat \in Tables
  BY <1>1, Fat32Assumption, VolumeAssumption DEF Tables
<1>3. Root \in Cluster /\ \A d \in Dirs(disk) : d \in Cluster
  BY <1>2, Fat32Assumption DEF Dirs, OwnChain, Begins
<1>4. FilesOK(disk, handles)
  <2>1. 0 \notin Dirs(disk)
    BY <1>3, Constants
  <2> QED BY <1>1, <2>1 DEF FilesOK, NoNode
<1>5. KnownAt(fat, disk, op)
  BY <1>2, <1>3, InChainIs DEF LegibleDirs, KnownAt, AllLegible
<1> QED BY <1>1, <1>4, <1>5 DEF OwnInv, Own, WriteAt, EnterAt, Idle

LEMMA OwnInvariant == Spec => [](ChainInv /\ OwnInv)
<1>1. Init => OwnInv
  BY OwnInit
<1>2. ChainInv /\ OwnInv /\ [Next]_vars => OwnInv'
  <2>1. CASE Next
    BY <2>1, OwnStep DEF Next, OwnInv, ChainInv, Known
  <2>2. CASE UNCHANGED vars
    BY <2>2 DEF vars, volume, OwnInv, Own, FilesOK, WriteAt, StoreAt, KnownAt, EnterAt
  <2> QED BY <2>1, <2>2
<1> QED BY <1>1, <1>2, ChainInvariant, PTL DEF Spec

LEMMA KnownUnder ==
  ASSUME EntriesOK(disk), NEW t, AllBegin(t),
         \A d \in Dirs(disk) : \A c :
           InChain(t, d, c) => AllLegible(disk[c]) \/ (op.pc = "zero" /\ c = op.new)
  PROVE  KnownBelow(t)
<1>1. SUFFICES ASSUME NEW d \in DirsOf(t), NEW k \in DOMAIN Walk(t, d), NEW i \in 1 .. Slots
               PROVE  Legible(disk[Walk(t, d)[k]][i]) \/ (op.pc = "zero" /\ Walk(t, d)[k] = op.new)
  BY DEF KnownBelow
<1>2. d \in Dirs(disk)
  BY DirsReached
<1>3. InChain(t, d, Walk(t, d)[k])
  BY DEF InChain
<1> QED BY <1>2, <1>3 DEF AllLegible

\* Chains stay apart and end, in memory and on the disk, no two entries lead to
\* one chain and no directory shows what its clusters held before, whatever
\* commands failed, seen or not, and wherever power was lost, up to where the
\* model stops (adrift).
THEOREM ChainsStaySound == Spec => []ChainsSound
<1>1. ChainInv /\ OwnInv => ChainsSound
  <2>1. SUFFICES ASSUME VolumeOK, Own(fat, disk, handles, op)
                 PROVE  /\ Sound(fat, Heads(fat) \cup ({ handles[h].first : h \in Handles } \ {0}))
                        /\ Sound(dfat, Heads(dfat))
                        /\ OneEntryEach(fat) /\ OneEntryEach(dfat)
                        /\ KnownBelow(fat) /\ KnownBelow(dfat)
    BY DEF ChainInv, OwnInv, ChainsSound
  <2>2. TablesOK(fat, dfat) /\ EntriesOK(disk) /\ HeadsOK(fat, dfat, disk, handles)
    BY <2>1 DEF VolumeOK
  <2>3. AllBegin(fat) /\ AllBegin(dfat)
    BY <2>2, TablesLead DEF AllBegin, HeadsOK, TablesOK
  <2>4. { handles[h].first : h \in Handles } \ {0} \subseteq Firsts(disk, handles)
    BY DEF Firsts
  <2>5. Heads(fat) \subseteq Firsts(disk, handles) /\ Heads(dfat) \subseteq Firsts(disk, handles)
    BY <2>2, <2>3, HeadsReached
  <2>6. Heads(fat) \cup ({ handles[h].first : h \in Handles } \ {0}) \subseteq Firsts(disk, handles)
    BY <2>4, <2>5
  <2>7. Sound(fat, Heads(fat) \cup ({ handles[h].first : h \in Handles } \ {0}))
    BY <2>3, <2>6, SoundBelow
  <2>8. Sound(dfat, Heads(dfat))
    BY <2>3, <2>5, SoundBelow
  <2>9. OneEntryEach(fat) /\ OneEntryEach(dfat)
    BY <2>2, <2>3, OneEntryBelow
  <2>10. /\ KnownAt(fat, disk, op) /\ Dirs(disk) \subseteq Firsts(disk, handles)
         /\ \A c \in Firsts(disk, handles) : c \in Cluster /\ Ends(fat, c)
    BY <2>1, KnownGround DEF Known
  <2>11. KnownBelow(fat)
    BY <2>2, <2>3, <2>10, KnownUnder DEF KnownAt
  <2>12. KnownBelow(dfat)
    <3>1. \A d \in Dirs(disk) : \A c : InChain(dfat, d, c) => InChain(fat, d, c)
      BY <2>2, <2>10, PrefixChain
    <3>2. \A d \in Dirs(disk) : \A c :
            InChain(dfat, d, c) => AllLegible(disk[c]) \/ (op.pc = "zero" /\ c = op.new)
      BY <2>10, <3>1 DEF KnownAt
    <3> QED BY <2>2, <2>3, <3>2, KnownUnder
  <2> QED BY <2>7, <2>8, <2>9, <2>11, <2>12
<1> QED BY <1>1, OwnInvariant, PTL

-----------------------------------------------------------------------------
(* Directories while no command fails: how they look, and what leaves them  *)
(* so.                                                                     *)

Tidy(f, s) == Listed(f, s) /\ DotsInPlace(f, s) /\ EndsLast(f, s) /\ FreeAreStale(f, s)

\* What has been created stands in its directory.
MadeOK(f, s, names) ==
  \A m \in names :
    m[1] \in Dirs(s) /\ \E p \in Places(s) : InChain(f, m[1], p[1]) /\ At(s, p)[2] = m[2]

\* Gapless, and no entry of name n, in terms of the clusters of d.
Full(t, s, d) ==
  \A k \in 1 .. (Len(Walk(t, d)) - 1), i \in 1 .. Slots : s[Walk(t, d)[k]][i] # End
NoName(t, s, d, n) ==
  \A c \in Cluster, j \in 1 .. Slots :
    InChain(t, d, c) => ~ (s[c][j][1] = "entry" /\ s[c][j][2] = n)

Ground(f, s) ==
  /\ f \in Tables /\ LinkedOnce(f) /\ EntriesOK(s)
  /\ \A d \in Dirs(s) : Begins(f, d)

NotIn(f, s, c) == \A d \in Dirs(s) : ~ InChain(f, d, c)
StaleIn(s, c) == \A i \in 1 .. Slots : s[c][i] = Stale
NoneNamed(u) == \A i \in 1 .. Slots : ~ Named(u[i])
EndsAfter(u) == \A i, j \in 1 .. Slots : i < j /\ u[i] = End => u[j] = End

LEMMA StaleUnits ==
  ASSUME NEW s, NEW c, StaleIn(s, c)
  PROVE  NoneNamed(s[c]) /\ \A i \in 1 .. Slots : s[c][i] # End /\ s[c][i][1] # "entry"
<1>1. Stale[1] # "entry" /\ Stale # End /\ ~ Named(Stale)
  BY DEF Stale, End, Named
<1> QED BY <1>1 DEF StaleIn, NoneNamed

\* Where the chains of the directories are as before.
LEMMA SameDirs ==
  ASSUME NEW f, NEW g, NEW s, Tidy(f, s), \A d \in Dirs(s) : Walk(g, d) = Walk(f, d),
         \A c \in Cluster : g[c] = Free => f[c] = Free
  PROVE  /\ Tidy(g, s)
         /\ \A names : MadeOK(f, s, names) => MadeOK(g, s, names)
<1>1. \A d \in Dirs(s) : \A c : InChain(g, d, c) <=> InChain(f, d, c)
  BY DEF InChain
<1> QED BY <1>1 DEF Tidy, Listed, DotsInPlace, EndsLast, FreeAreStale, MadeOK

\* A directory got a cluster more, which holds nothing that reads as an entry.
LEMMA LinkedDir ==
  ASSUME NEW f, NEW s, Ground(f, s), Tidy(f, s), NEW d \in Dirs(s), NEW c, NEW n, NEW g,
         Links(f, d, c, n, g), n \notin Dirs(s), StaleIn(s, n)
  PROVE  /\ Tidy(g, s) /\ InChain(g, d, n)
         /\ \A names : MadeOK(f, s, names) => MadeOK(g, s, names)
         /\ Full(g, s, d) => Full(f, s, d)
         /\ \A m : NoName(f, s, d, m) => NoName(g, s, d, m)
<1>1. /\ f \in Tables /\ LinkedOnce(f) /\ Begins(f, d) /\ InChain(f, d, c) /\ f[c] = Eoc
      /\ Begins(f, n) /\ f[n] = Eoc /\ n # d /\ g = [f EXCEPT ![c] = n]
      /\ \A e \in Dirs(s) : Begins(f, e)
  BY DEF Links, Ground
<1>2. d \in Cluster /\ n \in Cluster
  BY <1>1 DEF Begins
<1>3. c \in Cluster
  BY <1>1, <1>2, InChainIs
<1>4. g \in Tables /\ g[c] = n /\ \A x \in Cluster : x # c => g[x] = f[x]
  BY <1>1, <1>2, <1>3 DEF Tables, FatEntry
<1>5. /\ \A x : InChain(g, d, x) <=> InChain(f, d, x) \/ x = n
      /\ Len(Walk(g, d)) = Len(Walk(f, d)) + 1
      /\ \A k \in 1 .. Len(Walk(f, d)) : Walk(g, d)[k] = Walk(f, d)[k]
  BY GrownChain
<1>6. ASSUME NEW e \in Dirs(s), e # d PROVE Walk(g, e) = Walk(f, e)
  <2>1. Begins(f, e) /\ e \in Cluster
    BY <1>1 DEF Begins
  <2>2. \A x : InChain(f, e, x) => x \in Cluster /\ x # c
    BY <1>1, <1>6, <2>1, OneChain, InChainIs
  <2>3. \A x : InChain(f, e, x) => g[x] = f[x]
    BY <1>4, <2>2
  <2> QED BY <1>1, <1>4, <2>1, <2>3, ChangeElsewhere
<1>7. \A e \in Dirs(s) : \A x : InChain(g, e, x) <=> InChain(f, e, x) \/ (e = d /\ x = n)
  <2>1. \A e \in Dirs(s) : \A x : e # d => (InChain(g, e, x) <=> InChain(f, e, x))
    BY <1>6 DEF InChain
  <2> QED BY <1>5, <2>1
<1>8. NoneNamed(s[n]) /\ \A i \in 1 .. Slots : s[n][i] # End /\ s[n][i][1] # "entry"
  BY StaleUnits
<1>9. \A p \in Places(s) : p[1] # n /\ p \in Cluster \X (1 .. Slots)
  <2>1. \A p \in Places(s) : p \in Cluster \X (1 .. Slots) /\ p[2] \in 1 .. Slots /\ Named(s[p[1]][p[2]])
    BY DEF Places, At
  <2> QED BY <1>8, <2>1 DEF NoneNamed
<1>10. Listed(g, s)
  BY <1>7 DEF Tidy, Listed
<1>11. DotsInPlace(g, s)
  BY <1>7, <1>9 DEF Tidy, DotsInPlace
<1>12. EndsLast(g, s)
  BY <1>7, <1>8 DEF Tidy, EndsLast
<1>13. FreeAreStale(g, s)
  <2>1. \A x \in Cluster : g[x] = Free => f[x] = Free
    BY <1>2, <1>4, Constants
  <2> QED BY <2>1 DEF Tidy, FreeAreStale
<1>14. \A names : MadeOK(f, s, names) => MadeOK(g, s, names)
  BY <1>7 DEF MadeOK
<1>15. Full(g, s, d) => Full(f, s, d)
  <2>1. Len(Walk(f, d)) \in Nat
    BY <1>1, <1>2, WalkLeads DEF Leads
  <2>2. \A k \in 1 .. (Len(Walk(f, d)) - 1) :
          k \in 1 .. (Len(Walk(g, d)) - 1) /\ Walk(g, d)[k] = Walk(f, d)[k]
    BY <1>5, <2>1
  <2> QED BY <2>2 DEF Full
<1>16. \A m : NoName(f, s, d, m) => NoName(g, s, d, m)
  BY <1>5, <1>8 DEF NoName
<1> QED BY <1>5, <1>10, <1>11, <1>12, <1>13, <1>14, <1>15, <1>16 DEF Tidy

\* A cluster without entries is overwritten without entries.
Overwrites(f, s, c, u, r) ==
  /\ Ground(f, s) /\ Tidy(f, s) /\ c \in Cluster /\ c \notin Dirs(s) /\ f[c] # Free
  /\ NoneNamed(s[c]) /\ NoneNamed(u) /\ (NotIn(f, s, c) \/ EndsAfter(u))
  /\ r = [s EXCEPT ![c] = u]

LEMMA QuietWrite ==
  ASSUME NEW f, NEW s, NEW c, NEW u, NEW r, Overwrites(f, s, c, u, r)
  PROVE  /\ Dirs(r) = Dirs(s) /\ Tidy(f, r)
         /\ \A names : MadeOK(f, s, names) => MadeOK(f, r, names)
         /\ r[c] = u /\ \A x \in Cluster : x # c => r[x] = s[x]
<1>1. /\ Ground(f, s) /\ Tidy(f, s) /\ c \in Cluster /\ c \notin Dirs(s) /\ f[c] # Free
      /\ NoneNamed(s[c]) /\ NoneNamed(u) /\ (NotIn(f, s, c) \/ EndsAfter(u))
      /\ r = [s EXCEPT ![c] = u]
  BY DEF Overwrites
<1>2. r[c] = u /\ \A x \in Cluster : x # c => r[x] = s[x]
  BY <1>1 DEF Ground, EntriesOK, Disks
<1>3. \A p \in Cluster \X (1 .. Slots) :
        /\ Named(At(s, p)) => p[1] # c
        /\ Named(At(r, p)) => p[1] # c
        /\ p[1] # c => At(r, p) = At(s, p)
  BY <1>1, <1>2 DEF At, NoneNamed
<1>4. Places(r) = Places(s) /\ \A p \in Places(s) : At(r, p) = At(s, p)
  BY <1>3 DEF Places
<1>5. Dirs(r) = Dirs(s)
  BY <1>4 DEF Dirs
<1>6. Listed(f, r)
  BY <1>1, <1>4, <1>5 DEF Tidy, Listed
<1>7. DotsInPlace(f, r)
  <2>1. \A p \in Places(s) : At(s, p)[3] => At(s, p)[4] \in Dirs(s)
    BY DEF Dirs
  <2>2. \A d \in Dirs(s) : d \in Cluster /\ d # c
    BY <1>1 DEF Ground, Begins
  <2>3. ASSUME NEW p \in Places(s), NEW d \in Dirs(s), InChain(f, d, p[1]), At(s, p)[3],
               NEW e, e = At(s, p)[4]
        PROVE  r[e][1] = Sfn(".", TRUE, e, 0) /\ r[e][2] = Sfn("..", TRUE, Parent(d), 0)
    <3>1. r[e] = s[e]
      BY <1>2, <2>1, <2>2, <2>3
    <3>2. s[e][1] = Sfn(".", TRUE, e, 0) /\ s[e][2] = Sfn("..", TRUE, Parent(d), 0)
      BY <1>1, <2>3 DEF Tidy, DotsInPlace
    <3> QED BY <3>1, <3>2
  <2> QED BY <1>4, <1>5, <2>3 DEF DotsInPlace
<1>8. EndsLast(f, r)
  <2>1. ASSUME NEW d \in Dirs(s), NEW x \in Cluster, InChain(f, d, x) PROVE EndsAfter(r[x])
    <3>1. CASE x = c
      BY <1>1, <1>2, <2>1, <3>1 DEF NotIn
    <3>2. CASE x # c
      BY <1>1, <1>2, <2>1, <3>2 DEF Tidy, EndsLast, EndsAfter
    <3> QED BY <3>1, <3>2
  <2> QED BY <1>5, <2>1 DEF EndsLast, EndsAfter
<1>9. FreeAreStale(f, r)
  BY <1>1, <1>2 DEF Tidy, FreeAreStale
<1>10. \A names : MadeOK(f, s, names) => MadeOK(f, r, names)
  BY <1>4, <1>5 DEF MadeOK
<1> QED BY <1>2, <1>5, <1>6, <1>7, <1>8, <1>9, <1>10 DEF Tidy

\* A cluster in no directory: no directory looks different.
LEMMA WrittenOutside ==
  ASSUME NEW f, NEW s, NEW c, NEW u, NEW r, Overwrites(f, s, c, u, r), NotIn(f, s, c),
         NEW d \in Dirs(s)
  PROVE  /\ Full(f, r, d) => Full(f, s, d)
         /\ \A n : NoName(f, s, d, n) => NoName(f, r, d, n)
<1>1. \A x \in Cluster : x # c => r[x] = s[x]
  BY QuietWrite
<1>2. f \in Tables /\ d \in Cluster
  BY DEF Overwrites, Ground, Begins
<1>3. \A x : InChain(f, d, x) => x \in Cluster /\ x # c
  BY <1>2, InChainIs DEF NotIn
<1>4. \A n : NoName(f, s, d, n) => NoName(f, r, d, n)
  BY <1>1, <1>3 DEF NoName
<1>5. \A k \in 1 .. (Len(Walk(f, d)) - 1) : r[Walk(f, d)[k]] = s[Walk(f, d)[k]]
  <2>1. Len(Walk(f, d)) \in Nat
    BY <1>2, WalkLeads DEF Leads
  <2>2. \A k \in 1 .. (Len(Walk(f, d)) - 1) : k \in 1 .. Len(Walk(f, d))
    BY <2>1
  <2>3. \A k \in 1 .. Len(Walk(f, d)) : InChain(f, d, Walk(f, d)[k])
    BY <1>2, InChainIs
  <2> QED BY <1>1, <1>3, <2>2, <2>3
<1>6. Full(f, r, d) => Full(f, s, d)
  BY <1>5 DEF Full
<1> QED BY <1>4, <1>6

\* The cluster a directory got is cleared.
Clears(f, s, d, c, r) ==
  /\ Ground(f, s) /\ Tidy(f, s) /\ d \in Dirs(s) /\ InChain(f, d, c) /\ c \notin Dirs(s)
  /\ StaleIn(s, c) /\ r = [s EXCEPT ![c] = Blank]

LEMMA Zeroed ==
  ASSUME NEW f, NEW s, NEW d, NEW c, NEW r, Clears(f, s, d, c, r)
  PROVE  /\ Dirs(r) = Dirs(s) /\ Tidy(f, r) /\ r[c] = Blank
         /\ \A names : MadeOK(f, s, names) => MadeOK(f, r, names)
         /\ Full(f, r, d) => Full(f, s, d)
         /\ \A n : NoName(f, s, d, n) => NoName(f, r, d, n)
<1>0. /\ Ground(f, s) /\ Tidy(f, s) /\ d \in Dirs(s) /\ InChain(f, d, c) /\ c \notin Dirs(s)
      /\ StaleIn(s, c) /\ r = [s EXCEPT ![c] = Blank]
  BY DEF Clears
<1>1. f \in Tables /\ LinkedOnce(f) /\ Begins(f, d) /\ d \in Cluster
  BY <1>0 DEF Ground, Begins
<1>2. c \in Cluster /\ f[c] # Free
  BY <1>0, <1>1, InUse
<1>3. NoneNamed(s[c])
  BY <1>0, StaleUnits
<1>4. Slots \in Nat /\ 1 \in 1 .. Slots
  BY Constants
<1>5. NoneNamed(Blank) /\ EndsAfter(Blank) /\ \A i \in 1 .. Slots : Blank[i] = End
  BY DEF Blank, NoneNamed, EndsAfter, Named, End
<1>6. PICK u : u = Blank
  OBVIOUS
<1>7. /\ Dirs(r) = Dirs(s) /\ Tidy(f, r)
      /\ \A names : MadeOK(f, s, names) => MadeOK(f, r, names)
      /\ r[c] = Blank /\ \A x \in Cluster : x # c => r[x] = s[x]
  <2>1. Overwrites(f, s, c, u, r)
    BY <1>0, <1>2, <1>3, <1>5, <1>6 DEF Overwrites
  <2>2. Dirs(r) = Dirs(s) /\ Tidy(f, r)
    BY <2>1, QuietWrite
  <2>3. r[c] = Blank /\ \A x \in Cluster : x # c => r[x] = s[x]
    BY <1>0, <1>2 DEF Ground, EntriesOK, Disks
  <2>4. ASSUME NEW names, MadeOK(f, s, names) PROVE MadeOK(f, r, names)
    BY <2>1, <2>4, QuietWrite
  <2> QED BY <2>2, <2>3, <2>4
<1>8. r[c] = Blank /\ \A x \in Cluster : x # c => r[x] = s[x]
  BY <1>7
<1>9. Full(f, r, d) => Full(f, s, d)
  <2>1. Len(Walk(f, d)) \in Nat /\ \A k \in 1 .. Len(Walk(f, d)) : Walk(f, d)[k] \in Cluster
    BY <1>1, WalkLeads DEF Leads
  <2>2. SUFFICES ASSUME Full(f, r, d), NEW k \in 1 .. (Len(Walk(f, d)) - 1), NEW i \in 1 .. Slots
                 PROVE  s[Walk(f, d)[k]][i] # End
    BY DEF Full
  <2>3. Walk(f, d)[k] \in Cluster
    BY <2>1
  <2>4. r[Walk(f, d)[k]][1] # End /\ r[Walk(f, d)[k]][i] # End
    BY <1>4, <2>2 DEF Full
  <2>5. Walk(f, d)[k] # c
    BY <1>4, <1>5, <1>8, <2>4
  <2> QED BY <1>8, <2>3, <2>4, <2>5
<1>10. ASSUME NEW n, NoName(f, s, d, n) PROVE NoName(f, r, d, n)
  <2>1. End[1] # "entry"
    BY DEF End
  <2> QED BY <1>5, <1>8, <1>10, <2>1 DEF NoName
<1> QED BY <1>7, <1>9, <1>10

\* No entry stands in a cluster of no directory, or in one no directory has.
LEMMA Outside ==
  ASSUME NEW f, NEW s, Ground(f, s), Listed(f, s), NEW c, Begins(f, c), c \notin Dirs(s),
         NEW x, InChain(f, c, x)
  PROVE  NotIn(f, s, x) /\ x \in Cluster /\ f[x] # Free /\ x \notin Dirs(s) /\ NoneNamed(s[x])
<1>1. f \in Tables /\ LinkedOnce(f) /\ \A d \in Dirs(s) : Begins(f, d) /\ d \in Cluster
  BY DEF Ground, Begins
<1>2. x \in Cluster /\ f[x] # Free
  BY <1>1, InUse
<1>3. NotIn(f, s, x)
  <2>1. SUFFICES ASSUME NEW d \in Dirs(s), InChain(f, d, x) PROVE FALSE
    BY DEF NotIn
  <2> QED BY <1>1, <2>1, OneChain
<1>4. x \notin Dirs(s)
  BY <1>1, <1>3, InChainIs DEF NotIn
<1>5. NoneNamed(s[x])
  <2>1. SUFFICES ASSUME NEW i \in 1 .. Slots, Named(s[x][i]) PROVE FALSE
    BY DEF NoneNamed
  <2>2. << x, i >> \in Places(s) /\ << x, i >>[1] = x
    BY <1>2, <2>1 DEF Places, At
  <2>3. \E d \in Dirs(s) : InChain(f, d, x)
    BY <2>2 DEF Listed
  <2> QED BY <1>3, <2>3 DEF NotIn
<1> QED BY <1>2, <1>3, <1>4, <1>5

\* The slots of the entry are free, and no end mark is before them.
SlotOK(o, s) ==
  /\ \A i \in o.slot .. o.slot + Needs(o.n) - 1 : IsFree(s[o.cur][i])
  /\ \A i \in 1 .. o.slot - 1 : s[o.cur][i] # End

Enters(f, s, o, r) ==
  /\ Ground(f, s) /\ Tidy(f, s) /\ o \in Creating /\ o.slot + Needs(o.n) - 1 <= Slots
  /\ o.d \in Dirs(s) /\ InChain(f, o.d, o.cur) /\ SlotOK(o, s)
  /\ o.directory <=> o.first # 0
  /\ o.first # 0 =>
       /\ Begins(f, o.first) /\ f[o.first] = Eoc /\ o.first \notin Dirs(s)
       /\ s[o.first] = DotEntries(o.first, o.d)
  /\ r = [s EXCEPT ![o.cur] = Entered(s[o.cur], o)]

\* What the cluster holds once the entry is in it.
LEMMA EnteredAt ==
  ASSUME NEW f, NEW s, NEW o, NEW r, Enters(f, s, o, r),
         NEW j, j = o.slot + Needs(o.n) - 1
  PROVE  /\ o.cur \in Cluster /\ f[o.cur] # Free /\ j \in 1 .. Slots
         /\ r[o.cur][j] = Sfn(o.n, o.directory, o.first, 0)
         /\ \A i \in 1 .. Slots : i \in o.slot .. j => IsFree(s[o.cur][i])
         /\ \A i \in o.slot .. j : i # j => r[o.cur][i] = Lfn(o.n)
         /\ \A i \in 1 .. Slots : i \notin o.slot .. j => r[o.cur][i] = s[o.cur][i]
         /\ \A i \in 1 .. Slots : i < o.slot => s[o.cur][i] # End
         /\ \A x \in Cluster : x # o.cur => r[x] = s[x]
         /\ o.slot \in 1 .. Slots /\ o.slot <= j
<1>1. /\ Ground(f, s) /\ o \in Creating /\ j <= Slots /\ o.d \in Dirs(s) /\ InChain(f, o.d, o.cur)
      /\ SlotOK(o, s) /\ r = [s EXCEPT ![o.cur] = Entered(s[o.cur], o)]
  BY DEF Enters
<1>2. o.slot \in 1 .. Slots /\ o.n \in Names /\ Slots \in Nat /\ Needs(o.n) \in 1 .. Slots
  BY <1>1, Constants DEF Creating
<1>3. j \in 1 .. Slots /\ o.slot <= j /\ j \in o.slot .. j
  BY <1>1, <1>2
<1>4. o.cur \in Cluster /\ f[o.cur] # Free
  BY <1>1, InUse DEF Ground
<1>5. r[o.cur] = Entered(s[o.cur], o) /\ \A x \in Cluster : x # o.cur => r[x] = s[x]
  BY <1>1, <1>4 DEF Ground, EntriesOK, Disks
<1>6. Entered(s[o.cur], o) = [i \in 1 .. Slots |->
        IF i \notin o.slot .. j THEN s[o.cur][i]
        ELSE IF i < j THEN Lfn(o.n) ELSE Sfn(o.n, o.directory, o.first, 0)]
  BY DEF Entered
<1>7. \A i \in o.slot .. j : IsFree(s[o.cur][i])
  BY <1>1 DEF SlotOK
<1>8. \A i \in 1 .. Slots : i < o.slot => s[o.cur][i] # End
  <2>1. \A i \in 1 .. Slots : i < o.slot => i \in 1 .. o.slot - 1
    BY <1>2
  <2> QED BY <1>1, <2>1 DEF SlotOK
<1> HIDE DEF Enters
<1>9. r[o.cur][j] = Sfn(o.n, o.directory, o.first, 0)
  BY <1>3, <1>5, <1>6
<1>10. ASSUME NEW i \in o.slot .. j, i # j PROVE r[o.cur][i] = Lfn(o.n)
  <2>1. i \in 1 .. Slots /\ i < j
    BY <1>2, <1>3, <1>10
  <2> QED BY <1>5, <1>6, <2>1
<1>11. \A i \in 1 .. Slots : i \notin o.slot .. j => r[o.cur][i] = s[o.cur][i]
  BY <1>5, <1>6
<1> QED BY <1>2, <1>3, <1>4, <1>5, <1>7, <1>8, <1>9, <1>10, <1>11

LEMMA NotFree ==
  ASSUME NEW u, u[1] = "entry"
  PROVE  ~ IsFree(u) /\ u # End
BY DEF IsFree, End, Deleted

\* The entries are those of before and the new one.
LEMMA EnteredPlaces ==
  ASSUME NEW f, NEW s, NEW o, NEW r, Enters(f, s, o, r),
         NEW j, j = o.slot + Needs(o.n) - 1
  PROVE  /\ Places(r) = Places(s) \cup { << o.cur, j >> }
         /\ At(r, << o.cur, j >>) = Sfn(o.n, o.directory, o.first, 0)
         /\ \A p \in Places(s) : At(r, p) = At(s, p)
<1>1. /\ o.cur \in Cluster /\ j \in 1 .. Slots
      /\ r[o.cur][j] = Sfn(o.n, o.directory, o.first, 0)
      /\ \A i \in 1 .. Slots : i \in o.slot .. j => IsFree(s[o.cur][i])
      /\ \A i \in o.slot .. j : i # j => r[o.cur][i] = Lfn(o.n)
      /\ \A i \in 1 .. Slots : i \notin o.slot .. j => r[o.cur][i] = s[o.cur][i]
      /\ \A x \in Cluster : x # o.cur => r[x] = s[x]
  BY EnteredAt
<1>2. o.n \in Names /\ o.n \notin Dots
  BY Fat32Assumption DEF Enters, Creating
<1>3. At(r, << o.cur, j >>) = Sfn(o.n, o.directory, o.first, 0)
  BY <1>1 DEF At
<1>4. << o.cur, j >> \in Places(r)
  BY <1>1, <1>2, <1>3 DEF Places, Named, Sfn
<1>5. ASSUME NEW p \in Cluster \X (1 .. Slots), p # << o.cur, j >>
      PROVE  /\ Named(At(s, p)) => At(r, p) = At(s, p)
             /\ Named(At(r, p)) => At(r, p) = At(s, p)
  <2>1. p[1] \in Cluster /\ p[2] \in 1 .. Slots /\ p = << p[1], p[2] >>
    OBVIOUS
  <2>2. CASE p[1] # o.cur
    BY <1>1, <2>1, <2>2 DEF At
  <2>3. CASE p[1] = o.cur /\ p[2] \notin o.slot .. j
    BY <1>1, <2>1, <2>3 DEF At
  <2>4. CASE p[1] = o.cur /\ p[2] \in o.slot .. j
    <3>1. p[2] # j
      BY <1>5, <2>1, <2>4
    <3>2. At(r, p) = Lfn(o.n) /\ IsFree(At(s, p))
      BY <1>1, <2>1, <2>4, <3>1 DEF At
    <3>3. ~ Named(At(r, p)) /\ ~ Named(At(s, p))
      <4>1. ~ Named(Lfn(o.n))
        BY DEF Named, Lfn
      <4> QED BY <3>2, <4>1, NotFree DEF Named
    <3> QED BY <3>3
  <2> QED BY <2>2, <2>3, <2>4
<1>6. << o.cur, j >> \notin Places(s)
  <2>1. IsFree(At(s, << o.cur, j >>))
    <3>1. o.slot <= j /\ o.slot \in 1 .. Slots
      BY EnteredAt
    <3>2. j \in o.slot .. j
      BY <1>1, <3>1, Constants
    <3> QED BY <1>1, <3>2 DEF At
  <2> QED BY <2>1, NotFree DEF Places, Named
<1>7. ASSUME NEW p \in Cluster \X (1 .. Slots), p # << o.cur, j >>
      PROVE  p \in Places(r) <=> p \in Places(s)
  BY <1>5, <1>7 DEF Places
<1>8. \A p \in Places(s) : At(r, p) = At(s, p)
  BY <1>5, <1>6 DEF Places
<1>9. Places(r) = Places(s) \cup { << o.cur, j >> }
  <2>1. Places(r) \subseteq Cluster \X (1 .. Slots) /\ Places(s) \subseteq Cluster \X (1 .. Slots)
    BY DEF Places
  <2> QED BY <1>4, <1>7, <2>1
<1> QED BY <1>3, <1>8, <1>9

\* The cluster entered into is not the new directory's, and no other directory's.
LEMMA EnteredWhere ==
  ASSUME NEW f, NEW s, NEW o, NEW r, Enters(f, s, o, r)
  PROVE  /\ Dirs(r) = Dirs(s) \cup ({o.first} \ {0})
         /\ o.cur # o.first
         /\ \A d \in Dirs(r) : Begins(f, d) /\ (InChain(f, d, o.cur) => d = o.d)
         /\ o.first # 0 => NotIn(f, s, o.first)
                           /\ \A x : InChain(f, o.first, x) <=> x = o.first
<1> DEFINE j == o.slot + Needs(o.n) - 1
           p0 == << o.cur, j >>
<1>1. /\ f \in Tables /\ LinkedOnce(f) /\ \A d \in Dirs(s) : Begins(f, d) /\ d \in Cluster
      /\ Listed(f, s) /\ o.d \in Dirs(s) /\ InChain(f, o.d, o.cur)
      /\ o.directory <=> o.first # 0
      /\ o.first # 0 => Begins(f, o.first) /\ f[o.first] = Eoc /\ o.first \notin Dirs(s)
      /\ Ground(f, s)
  BY DEF Enters, Ground, Tidy, Begins
<1>2. Places(r) = Places(s) \cup {p0} /\ At(r, p0) = Sfn(o.n, o.directory, o.first, 0)
      /\ \A p \in Places(s) : At(r, p) = At(s, p)
  BY EnteredPlaces
<1>3. At(r, p0)[3] = o.directory /\ At(r, p0)[4] = o.first
  BY <1>2 DEF Sfn
<1> HIDE DEF p0
<1>4. Dirs(r) = Dirs(s) \cup ({o.first} \ {0})
  BY <1>1, <1>2, <1>3 DEF Dirs
<1>5. ASSUME o.first # 0
      PROVE  NotIn(f, s, o.first) /\ \A x : InChain(f, o.first, x) <=> x = o.first
  <2>1. o.first \in Cluster /\ InChain(f, o.first, o.first)
    BY <1>1, <1>5, InChainIs DEF Begins
  <2>2. NotIn(f, s, o.first)
    BY <1>1, <1>5, <2>1, Outside
  <2> QED BY <1>1, <1>5, <2>1, <2>2, Alone
<1>6. o.cur # o.first
  <2>1. o.cur \in Cluster
    BY <1>1, InChainIs
  <2> QED BY <1>1, <1>5, <2>1, Constants DEF NotIn
<1>7. ASSUME NEW d \in Dirs(r) PROVE Begins(f, d) /\ (InChain(f, d, o.cur) => d = o.d)
  <2>1. Begins(f, d)
    BY <1>1, <1>4
  <2> QED BY <1>1, <2>1, OneChain
<1> QED BY <1>4, <1>5, <1>6, <1>7

LEMMA DotsUnits ==
  ASSUME NEW c, NEW d
  PROVE  /\ DotEntries(c, d)[1] = Sfn(".", TRUE, c, 0)
         /\ DotEntries(c, d)[2] = Sfn("..", TRUE, Parent(d), 0)
         /\ EndsAfter(DotEntries(c, d))
<1>1. Slots \in Nat /\ Slots >= 2 /\ 1 \in 1 .. Slots /\ 2 \in 1 .. Slots
  BY Constants
<1>2. Blank \in [1 .. Slots -> {End}]
  BY DEF Blank
<1> DEFINE u == DotEntries(c, d)
<1>3. /\ u[1] = Sfn(".", TRUE, c, 0) /\ u[2] = Sfn("..", TRUE, Parent(d), 0)
      /\ \A i \in 1 .. Slots : i # 1 /\ i # 2 => u[i] = End
  <2>1. PICK x, y : x = Sfn(".", TRUE, c, 0) /\ y = Sfn("..", TRUE, Parent(d), 0)
    OBVIOUS
  <2>2. u = [Blank EXCEPT ![1] = x, ![2] = y]
    BY <2>1 DEF DotEntries, Parent
  <2> HIDE DEF u
  <2>3. u[1] = x /\ u[2] = y /\ \A i \in 1 .. Slots : i # 1 /\ i # 2 => u[i] = End
    BY <1>1, <1>2, <2>2
  <2> QED BY <2>1, <2>3
<1> HIDE DEF u
<1>4. u[1] # End /\ u[2] # End
  BY <1>3 DEF Sfn, End
<1>5. EndsAfter(u)
  <2>1. SUFFICES ASSUME NEW i \in 1 .. Slots, NEW k \in 1 .. Slots, i < k, u[i] = End
                 PROVE  u[k] = End
    BY DEF EndsAfter
  <2>2. i # 1 /\ i # 2
    BY <1>4, <2>1
  <2>3. k # 1 /\ k # 2
    BY <1>1, <2>1, <2>2
  <2> QED BY <1>3, <2>3
<1> QED BY <1>3, <1>5 DEF u

\* The dots of a directory stay where they are.
LEMMA DotsStay ==
  ASSUME NEW f, NEW s, NEW o, NEW r, Enters(f, s, o, r),
         NEW c \in Cluster, NEW i \in 1 .. Slots, s[c][i][1] = "entry"
  PROVE  r[c][i] = s[c][i]
<1> DEFINE j == o.slot + Needs(o.n) - 1
<1>1. /\ \A k \in 1 .. Slots : k \in o.slot .. j => IsFree(s[o.cur][k])
      /\ \A k \in 1 .. Slots : k \notin o.slot .. j => r[o.cur][k] = s[o.cur][k]
      /\ \A x \in Cluster : x # o.cur => r[x] = s[x]
  BY EnteredAt
<1>2. ~ IsFree(s[c][i])
  BY NotFree
<1> HIDE DEF j
<1> QED BY <1>1, <1>2

LEMMA EnteredDots ==
  ASSUME NEW f, NEW s, NEW o, NEW r, Enters(f, s, o, r)
  PROVE  DotsInPlace(f, r)
<1> DEFINE j == o.slot + Needs(o.n) - 1
           p0 == << o.cur, j >>
           Dotted(t, c, d) == t[c][1] = Sfn(".", TRUE, c, 0) /\ t[c][2] = Sfn("..", TRUE, Parent(d), 0)
<1>1. /\ Places(r) = Places(s) \cup {p0} /\ At(r, p0) = Sfn(o.n, o.directory, o.first, 0)
      /\ \A p \in Places(s) : At(r, p) = At(s, p)
  BY EnteredPlaces
<1>2. /\ Dirs(r) = Dirs(s) \cup ({o.first} \ {0}) /\ o.cur # o.first
      /\ \A d \in Dirs(r) : Begins(f, d) /\ (InChain(f, d, o.cur) => d = o.d)
      /\ o.first # 0 => NotIn(f, s, o.first) /\ \A x : InChain(f, o.first, x) <=> x = o.first
  BY EnteredWhere
<1>3. /\ f \in Tables /\ LinkedOnce(f) /\ \A d \in Dirs(s) : Begins(f, d) /\ d \in Cluster
      /\ Listed(f, s) /\ DotsInPlace(f, s) /\ (o.directory <=> o.first # 0)
      /\ o.first # 0 => o.first \in Cluster /\ s[o.first] = DotEntries(o.first, o.d)
  BY DEF Enters, Ground, Tidy, Begins
<1>4. p0[1] = o.cur /\ At(r, p0)[3] = o.directory /\ At(r, p0)[4] = o.first
  BY <1>1 DEF Sfn
<1>5. Slots \in Nat /\ 1 \in 1 .. Slots /\ 2 \in 1 .. Slots
  BY Constants
<1> HIDE DEF p0
<1>6. ASSUME NEW c \in Cluster, NEW d, Dotted(s, c, d) PROVE Dotted(r, c, d)
  <2>1. s[c][1][1] = "entry" /\ s[c][2][1] = "entry"
    BY <1>6 DEF Sfn
  <2>2. r[c][1] = s[c][1]
    BY <1>5, <2>1, DotsStay
  <2>3. r[c][2] = s[c][2]
    BY <1>5, <2>1, DotsStay
  <2> QED BY <1>6, <2>2, <2>3
<1> HIDE DEF Dotted
<1>7. ASSUME NEW p \in Places(r), NEW d \in Dirs(r), InChain(f, d, p[1]), At(r, p)[3]
      PROVE  Dotted(r, At(r, p)[4], d)
  <2>1. CASE p \in Places(s)
    <3>1. PICK e \in Dirs(s) : InChain(f, e, p[1])
      BY <1>3, <2>1 DEF Listed
    <3>2. Begins(f, e) /\ Begins(f, d)
      BY <1>2, <1>3
    <3>3. d = e
      BY <1>3, <1>7, <3>1, <3>2, OneChain
    <3>4. At(r, p) = At(s, p) /\ At(s, p)[3]
      BY <1>1, <1>7, <2>1
    <3>5. Dotted(s, At(s, p)[4], d)
      BY <1>3, <1>7, <2>1, <3>1, <3>3, <3>4 DEF DotsInPlace, Dotted
    <3>6. At(s, p)[4] \in Cluster
      BY <1>3, <2>1, <3>4 DEF Dirs
    <3> QED BY <1>6, <3>4, <3>5, <3>6
  <2>2. CASE p = p0
    <3>1. d = o.d /\ o.first # 0 /\ At(r, p)[4] = o.first
      BY <1>2, <1>3, <1>4, <1>7, <2>2
    <3>2. Dotted(s, o.first, o.d)
      <4>1. s[o.first] = DotEntries(o.first, o.d)
        BY <1>3, <3>1
      <4>2. /\ DotEntries(o.first, o.d)[1] = Sfn(".", TRUE, o.first, 0)
            /\ DotEntries(o.first, o.d)[2] = Sfn("..", TRUE, Parent(o.d), 0)
        BY DotsUnits
      <4> QED BY <4>1, <4>2 DEF Dotted
    <3> QED BY <1>3, <1>6, <3>1, <3>2
  <2> QED BY <1>1, <2>1, <2>2
<1> QED BY <1>7 DEF DotsInPlace, Dotted

LEMMA EnteredEnds ==
  ASSUME NEW f, NEW s, NEW o, NEW r, Enters(f, s, o, r)
  PROVE  EndsLast(f, r)
<1> DEFINE j == o.slot + Needs(o.n) - 1
<1>1. /\ o.cur \in Cluster /\ j \in 1 .. Slots
      /\ r[o.cur][j] = Sfn(o.n, o.directory, o.first, 0)
      /\ \A i \in o.slot .. j : i # j => r[o.cur][i] = Lfn(o.n)
      /\ \A i \in 1 .. Slots : i \notin o.slot .. j => r[o.cur][i] = s[o.cur][i]
      /\ \A i \in 1 .. Slots : i < o.slot => s[o.cur][i] # End
      /\ \A x \in Cluster : x # o.cur => r[x] = s[x]
      /\ o.slot \in 1 .. Slots /\ o.slot <= j
  BY EnteredAt
<1>2. /\ Dirs(r) = Dirs(s) \cup ({o.first} \ {0}) /\ o.cur # o.first
      /\ o.first # 0 => \A x : InChain(f, o.first, x) <=> x = o.first
  BY EnteredWhere
<1>3. /\ o.d \in Dirs(s) /\ InChain(f, o.d, o.cur) /\ EndsLast(f, s)
      /\ o.first # 0 => s[o.first] = DotEntries(o.first, o.d)
  BY DEF Enters, Tidy
<1> HIDE DEF j
<1>4. EndsAfter(s[o.cur])
  BY <1>1, <1>3 DEF EndsLast, EndsAfter
<1>5. Lfn(o.n) # End /\ Sfn(o.n, o.directory, o.first, 0) # End
  BY DEF Lfn, Sfn, End
<1>6. EndsAfter(r[o.cur])
  <2>1. SUFFICES ASSUME NEW i \in 1 .. Slots, NEW k \in 1 .. Slots, i < k, r[o.cur][i] = End
                 PROVE  r[o.cur][k] = End
    BY DEF EndsAfter
  <2>2. i \notin o.slot .. j
    BY <1>1, <1>5, <2>1
  <2>3. s[o.cur][i] = End /\ ~ (i < o.slot)
    BY <1>1, <2>1, <2>2
  <2>4. i > j
    BY <1>1, <2>2, <2>3, Constants
  <2>5. k \notin o.slot .. j
    BY <1>1, <2>1, <2>4, Constants
  <2>6. s[o.cur][k] = End
    BY <1>4, <2>1, <2>3 DEF EndsAfter
  <2> QED BY <1>1, <2>5, <2>6
<1>7. ASSUME NEW d \in Dirs(r), NEW x \in Cluster, InChain(f, d, x) PROVE EndsAfter(r[x])
  <2>1. CASE x = o.cur
    BY <1>6, <2>1
  <2>2. CASE x # o.cur /\ d \in Dirs(s)
    BY <1>1, <1>3, <1>7, <2>2 DEF EndsLast, EndsAfter
  <2>3. CASE x # o.cur /\ d \notin Dirs(s)
    <3>1. d = o.first /\ o.first # 0
      BY <1>2, <2>3
    <3>2. x = o.first
      BY <1>2, <1>7, <3>1
    <3>3. r[x] = DotEntries(o.first, o.d)
      BY <1>1, <1>3, <2>3, <3>1, <3>2
    <3>4. EndsAfter(DotEntries(o.first, o.d))
      BY DotsUnits
    <3> QED BY <3>3, <3>4
  <2> QED BY <2>1, <2>2, <2>3
<1> QED BY <1>7 DEF EndsLast, EndsAfter

LEMMA EnteredTidy ==
  ASSUME NEW f, NEW s, NEW o, NEW r, Enters(f, s, o, r)
  PROVE  /\ Tidy(f, r) /\ Dirs(r) = Dirs(s) \cup ({o.first} \ {0})
         /\ \A names : MadeOK(f, s, names) => MadeOK(f, r, names \cup { << o.d, o.n >> })
<1> DEFINE j == o.slot + Needs(o.n) - 1
           p0 == << o.cur, j >>
<1>1. /\ Places(r) = Places(s) \cup {p0} /\ At(r, p0) = Sfn(o.n, o.directory, o.first, 0)
      /\ \A p \in Places(s) : At(r, p) = At(s, p)
  BY EnteredPlaces
<1>2. Dirs(r) = Dirs(s) \cup ({o.first} \ {0})
  BY EnteredWhere
<1>3. p0[1] = o.cur /\ At(r, p0)[2] = o.n
  BY <1>1 DEF Sfn
<1>4. /\ o.d \in Dirs(s) /\ InChain(f, o.d, o.cur) /\ Listed(f, s) /\ FreeAreStale(f, s)
  BY DEF Enters, Tidy
<1>5. f[o.cur] # Free /\ \A x \in Cluster : x # o.cur => r[x] = s[x]
  BY EnteredAt
<1> HIDE DEF p0
<1>6. Listed(f, r)
  BY <1>1, <1>2, <1>3, <1>4 DEF Listed
<1>7. FreeAreStale(f, r)
  BY <1>4, <1>5 DEF FreeAreStale
<1>8. ASSUME NEW names, MadeOK(f, s, names) PROVE MadeOK(f, r, names \cup { << o.d, o.n >> })
  <2>1. ASSUME NEW m \in names
        PROVE  m[1] \in Dirs(r) /\ \E p \in Places(r) : InChain(f, m[1], p[1]) /\ At(r, p)[2] = m[2]
    BY <1>1, <1>2, <1>8 DEF MadeOK
  <2>2. ASSUME NEW m, m = << o.d, o.n >>
        PROVE  m[1] \in Dirs(r) /\ \E p \in Places(r) : InChain(f, m[1], p[1]) /\ At(r, p)[2] = m[2]
    <3>1. m[1] = o.d /\ m[2] = o.n
      BY <2>2
    <3>2. p0 \in Places(r) /\ InChain(f, o.d, p0[1]) /\ At(r, p0)[2] = o.n
      BY <1>1, <1>3, <1>4
    <3> QED BY <1>2, <1>4, <3>1, <3>2
  <2> QED BY <2>1, <2>2 DEF MadeOK
<1>9. DotsInPlace(f, r) /\ EndsLast(f, r)
  BY EnteredDots, EnteredEnds
<1> QED BY <1>2, <1>6, <1>7, <1>8, <1>9 DEF Tidy

-----------------------------------------------------------------------------
(* What a scan meets in a directory whose clusters but the last are full.  *)

LEMMA OneQuotient ==
  ASSUME NEW s \in Nat, NEW q \in Int, NEW r \in 0 .. s - 1, NEW k \in Int, NEW j \in 0 .. s - 1,
         s * q + r = s * k + j
  PROVE  q = k /\ r = j
<1>1. \A x, y \in Int : s * x \in Int
  OBVIOUS
<1>2. ASSUME NEW x \in Int, NEW y \in Int, NEW a \in 0 .. s - 1, NEW b \in 0 .. s - 1,
             s * x + a = s * y + b
      PROVE  ~ (x < y)
  <2>1. SUFFICES ASSUME x < y PROVE FALSE
    OBVIOUS
  <2>2. s * (x + 1) <= s * y
    BY <2>1, Scaled
  <2>3. s * (x + 1) = s * x + s
    OBVIOUS
  <2>4. PICK z \in Int : z = s * x
    OBVIOUS
  <2>5. PICK w \in Int : w = s * y
    OBVIOUS
  <2> QED BY <1>2, <2>2, <2>3, <2>4, <2>5
<1>3. ~ (q < k) /\ ~ (k < q)
  BY <1>2
<1>4. q = k
  BY <1>3
<1>5. PICK z \in Int : z = s * q
  OBVIOUS
<1> QED BY <1>4, <1>5

\* Unit j of the k-th cluster is at position Slots * (k - 1) + j.
LEMMA Position ==
  ASSUME NEW t \in Tables, NEW d \in Cluster,
         NEW k \in 1 .. Len(Walk(t, d)), NEW j \in 1 .. Slots, NEW i, i = Slots * (k - 1) + j
  PROVE  i \in DOMAIN Units(t, d) /\ Units(t, d)[i] = disk[Walk(t, d)[k]][j]
<1> DEFINE w == Walk(t, d)
           n == Len(w)
<1>1. n \in Nat /\ Slots \in Nat /\ Slots # 0 /\ k \in 1 .. n
  BY WalkLeads, Constants DEF Leads
<1>2. Units(t, d) = [l \in 1 .. Slots * n |-> disk[w[((l - 1) \div Slots) + 1]][((l - 1) % Slots) + 1]]
  BY DEF Units
<1> HIDE DEF w, n
<1>3. PICK P \in Nat : P = Slots * (k - 1)
  BY <1>1
<1>4. P + Slots <= Slots * n /\ Slots * n \in Nat
  <2>1. Slots * k <= Slots * n
    BY <1>1, Scaled
  <2>2. Slots * k = Slots * (k - 1) + Slots
    BY <1>1
  <2>3. PICK z \in Nat : z = Slots * n
    BY <1>1
  <2> QED BY <1>1, <1>3, <2>1, <2>2, <2>3
<1>5. i = P + j /\ i \in 1 .. Slots * n
  BY <1>1, <1>3, <1>4
<1>6. PICK q \in Int, r \in 0 .. Slots - 1 : q = (i - 1) \div Slots /\ r = (i - 1) % Slots
  BY <1>1, <1>5
<1>7. i - 1 = Slots * q + r
  <2>1. Slots \in Int /\ Slots > 0 /\ i - 1 \in Int /\ r \in Int
    BY <1>1, <1>5
  <2> QED BY <1>6, <2>1, QuotientRest
<1>8. Slots * q + r = Slots * (k - 1) + (j - 1)
  BY <1>1, <1>3, <1>5, <1>7
<1>9. q = k - 1 /\ r = j - 1
  <2>1. k - 1 \in Int /\ j - 1 \in 0 .. Slots - 1
    BY <1>1
  <2> QED BY <1>1, <1>8, <2>1, OneQuotient
<1>10. ((i - 1) \div Slots) + 1 = k /\ ((i - 1) % Slots) + 1 = j
  BY <1>1, <1>6, <1>9
<1> QED BY <1>2, <1>5, <1>10 DEF w

LEMMA Positioned ==
  ASSUME NEW t \in Tables, NEW d \in Cluster, NEW i \in DOMAIN Units(t, d)
  PROVE  /\ i \in Nat
         /\ \E k \in 1 .. Len(Walk(t, d)), j \in 1 .. Slots :
              i = Slots * (k - 1) + j /\ Units(t, d)[i] = disk[Walk(t, d)[k]][j]
<1> DEFINE w == Walk(t, d)
           n == Len(w)
<1>1. n \in Nat /\ Slots \in Nat /\ Slots # 0 /\ Slots * n \in Nat
  BY WalkLeads, Constants DEF Leads
<1>2. Units(t, d) = [l \in 1 .. Slots * n |-> disk[w[((l - 1) \div Slots) + 1]][((l - 1) % Slots) + 1]]
  BY DEF Units
<1>3. i \in 1 .. Slots * n
  BY <1>2
<1>4. i - 1 \in Nat /\ i - 1 < Slots * n
  <2>1. PICK z \in Nat : z = Slots * n
    BY <1>1
  <2> QED BY <1>3, <2>1
<1>5. (i - 1) \div Slots \in 0 .. n - 1 /\ (i - 1) % Slots \in 0 .. Slots - 1
  BY <1>1, <1>4, DivMod
<1>6. PICK q \in 0 .. n - 1, r \in 0 .. Slots - 1 : q = (i - 1) \div Slots /\ r = (i - 1) % Slots
  BY <1>5
<1>7. i - 1 = Slots * q + r
  <2>1. PICK a \in Int : a = i - 1
    BY <1>4
  <2>2. Slots \in Int /\ Slots > 0 /\ r \in Int /\ q \in Int
    BY <1>1, <1>6
  <2>3. q = a \div Slots /\ r = a % Slots
    BY <1>6, <2>1
  <2>4. a = Slots * q + r
    BY <2>2, <2>3, QuotientRest
  <2> QED BY <2>1, <2>4
<1>8. Units(t, d)[i] = disk[w[q + 1]][r + 1]
  <2>1. Units(t, d)[i] = disk[w[((i - 1) \div Slots) + 1]][((i - 1) % Slots) + 1]
    BY <1>2, <1>3
  <2> QED BY <1>6, <2>1
<1> HIDE DEF n
<1>9. i \in Nat /\ q + 1 \in 1 .. n /\ r + 1 \in 1 .. Slots /\ i = Slots * ((q + 1) - 1) + (r + 1)
  <2>1. i \in Nat /\ q + 1 \in 1 .. n /\ r + 1 \in 1 .. Slots /\ (q + 1) - 1 = q
    BY <1>1, <1>3, <1>4, <1>6
  <2>2. PICK z \in Int : z = Slots * q
    BY <1>1, <1>6
  <2> QED BY <1>7, <2>1, <2>2
<1> QED BY <1>8, <1>9 DEF n

\* An entry in a directory without gaps is met by the scan.
LEMMA EntrySeen ==
  ASSUME disk \in Disks, NEW t \in Tables, NEW d \in Cluster, Full(t, disk, d),
         \A x : InChain(t, d, x) => EndsAfter(disk[x]),
         NEW c, InChain(t, d, c), NEW j \in 1 .. Slots, disk[c][j][1] = "entry"
  PROVE  \E i \in Seen(Units(t, d)) : Units(t, d)[i] = disk[c][j]
<1> DEFINE w == Walk(t, d)
           s == Units(t, d)
<1>1. PICK k \in 1 .. Len(w) : w[k] = c
  BY InChainIs
<1>2. Len(w) \in Nat /\ Slots \in Nat
  BY WalkLeads, Constants DEF Leads
<1>3. PICK i : i = Slots * (k - 1) + j
  OBVIOUS
<1>4. i \in DOMAIN s /\ s[i] = disk[c][j]
  BY <1>1, <1>3, Position
<1>5. i \in Nat
  BY <1>4, Positioned
<1>6. ASSUME NEW l \in 1 .. i - 1, s[l] = End PROVE FALSE
  <2>1. l \in DOMAIN s
    <3>1. s = [m \in 1 .. Slots * Len(w) |-> disk[w[((m - 1) \div Slots) + 1]][((m - 1) % Slots) + 1]]
      BY DEF Units
    <3>2. PICK z \in Nat : z = Slots * Len(w)
      BY <1>2
    <3>3. i \in 1 .. z
      BY <1>4, <3>1, <3>2
    <3>4. l \in 1 .. z
      BY <1>5, <3>2, <3>3
    <3> QED BY <3>1, <3>2, <3>4
  <2>2. PICK k2 \in 1 .. Len(w), j2 \in 1 .. Slots :
          l = Slots * (k2 - 1) + j2 /\ s[l] = disk[w[k2]][j2]
    BY <2>1, Positioned
  <2>3. CASE k2 < k
    <3>1. k2 \in 1 .. (Len(w) - 1)
      BY <1>2, <2>3
    <3> QED BY <1>6, <2>2, <3>1 DEF Full
  <2>4. CASE k2 = k
    <3>1. j2 < j
      <4>1. PICK P \in Int : P = Slots * (k - 1)
        BY <1>2
      <4> QED BY <1>2, <1>3, <1>5, <2>2, <2>4, <4>1
    <3>2. EndsAfter(disk[c]) /\ disk[c][j2] = End
      BY <1>1, <1>6, <2>2, <2>4
    <3>3. disk[c][j] = End
      BY <3>1, <3>2 DEF EndsAfter
    <3> QED BY <3>3 DEF End
  <2>5. CASE k2 > k
    <3>1. Slots * k <= Slots * (k2 - 1)
      BY <1>2, <2>5, Scaled
    <3>2. Slots * k = Slots * (k - 1) + Slots
      BY <1>2
    <3>3. PICK P \in Int : P = Slots * (k - 1)
      BY <1>2
    <3>4. PICK Q \in Int : Q = Slots * (k2 - 1)
      BY <1>2
    <3>5. i = P + j /\ l = Q + j2 /\ P + Slots <= Q
      BY <1>3, <2>2, <3>1, <3>2, <3>3, <3>4
    <3> QED BY <1>2, <1>5, <3>5
  <2> QED BY <1>2, <2>3, <2>4, <2>5
<1>7. i \in Seen(s)
  BY <1>4, <1>6 DEF Seen, EntryAt
<1> QED BY <1>4, <1>7

\* A name that is in a directory without gaps is found.
LEMMA NameFound ==
  ASSUME disk \in Disks, fat \in Tables, NEW d \in Cluster, Full(fat, disk, d),
         \A x : InChain(fat, d, x) => EndsAfter(disk[x]), NEW n, FindDir(d, n) = {}
  PROVE  NoName(fat, disk, d, n)
<1> DEFINE s == Units(fat, d)
           hits == { i \in Seen(s) : s[i][2] = n }
<1>1. SUFFICES ASSUME NEW c \in Cluster, NEW j \in 1 .. Slots, InChain(fat, d, c),
                      disk[c][j][1] = "entry", disk[c][j][2] = n
               PROVE  FALSE
  BY DEF NoName
<1>2. PICK i \in Seen(s) : s[i] = disk[c][j]
  BY <1>1, EntrySeen
<1>3. i \in hits
  BY <1>1, <1>2
<1>4. hits \in SUBSET Nat
  <2>1. \A l \in DOMAIN s : l \in Nat
    BY Positioned
  <2> QED BY <2>1 DEF Seen
<1>5. FindDir(d, n) = First(s, hits)
  BY DEF FindDir
<1> HIDE DEF hits, s
<1>6. PICK m \in hits : \A k \in hits : m <= k
  BY <1>3, <1>4, Least
<1>7. s[m] \in First(s, hits)
  BY <1>6 DEF First
<1> QED BY <1>5, <1>7

-----------------------------------------------------------------------------
(* The inductive invariant: directories and what the call in progress is    *)
(* about to do to them, as long as no command failed.                      *)

NodesOK(s, hs) ==
  \A h \in Handles : hs[h].directory <=> hs[h].first \in Dirs(s)

\* The entry has room in its directory, and a name no full directory has.
CreateAt(o, f, s) ==
  /\ o.d \in Dirs(s) /\ InChain(f, o.d, IF o.pc = "zero" THEN o.new ELSE o.cur)
  /\ IF o.pc \in {"link", "zero"} \/ (o.pc = "alloc" /\ o.extend) THEN o.slot = 1 ELSE SlotOK(o, s)
  /\ o.pc \in {"link", "zero"} => StaleIn(s, o.new) /\ o.new \notin Dirs(s)
  /\ o.pc = "enter" /\ o.directory => s[o.first] = DotEntries(o.first, o.d)
  /\ Full(f, s, o.d) => NoName(f, s, o.d, o.n)

CallAt(o, f, s, hs) ==
  /\ o.pc # "idle" /\ o.kind = "create" => CreateAt(o, f, s)
  /\ o.pc # "idle" /\ o.kind = "write" => StoreAt(o, f, hs)

DirsOK(f, s, hs, names, o) ==
  Tidy(f, s) /\ NodesOK(s, hs) /\ MadeOK(f, s, names) /\ CallAt(o, f, s, hs)

DirInv == faults = 0 => dfat = fat /\ DirsOK(fat, disk, handles, made, op)

\* Where a step starts from.
Quiet == VolumeOK /\ dfat = fat /\ DirsOK(fat, disk, handles, made, op)

LEMMA QuietGround ==
  ASSUME Quiet
  PROVE  /\ fat \in Tables /\ LinkedOnce(fat) /\ Ground(fat, disk) /\ Tidy(fat, disk)
         /\ NodesOK(disk, handles) /\ MadeOK(fat, disk, made) /\ CallAt(op, fat, disk, handles)
         /\ EntriesOK(disk) /\ disk \in Disks
         /\ CallOK(op, fat, fat, disk, handles) /\ HandlesOK(handles)
         /\ \A c \in Firsts(disk, handles) : c \in Cluster /\ Begins(fat, c) /\ Ends(fat, c)
         /\ Dirs(disk) \subseteq Firsts(disk, handles) /\ 0 \notin Dirs(disk)
         /\ \A d \in Dirs(disk) : d \in Cluster /\ Begins(fat, d)
<1>1. /\ TablesOK(fat, fat) /\ EntriesOK(disk) /\ HandlesOK(handles) /\ Tidy(fat, disk)
      /\ CallOK(op, fat, fat, disk, handles) /\ NodesOK(disk, handles) /\ MadeOK(fat, disk, made)
      /\ CallAt(op, fat, disk, handles)
  BY DEF Quiet, VolumeOK, DirsOK
<1>2. fat \in Tables /\ LinkedOnce(fat) /\ disk \in Disks
  BY <1>1, TablesLead DEF TablesOK, EntriesOK
<1>3. \A c \in Firsts(disk, handles) : c \in Cluster /\ Begins(fat, c) /\ Ends(fat, c)
  BY HeadChains DEF Quiet
<1>4. Dirs(disk) \subseteq Firsts(disk, handles)
  BY <1>1 DEF Dirs, Firsts, EntriesOK
<1>5. Ground(fat, disk)
  BY <1>1, <1>2, <1>3, <1>4 DEF Ground
<1> QED BY <1>1, <1>2, <1>3, <1>4, <1>5, Constants

\* A node the write in progress goes through.
LEMMA Stored ==
  ASSUME Quiet, op.pc # "idle", op.kind # "create"
  PROVE  /\ op.kind = "write" /\ op \in Storing /\ op.h \in Handles
         /\ StoringOK(op, fat, fat, disk, handles) /\ StoreAt(op, fat, handles)
         /\ ~ handles[op.h].directory /\ handles[op.h].first \notin Dirs(disk)
         /\ handles[op.h].first # 0 => handles[op.h].first \in Firsts(disk, handles)
<1>1. op.kind = "write" /\ StoringOK(op, fat, fat, disk, handles)
  BY QuietGround, PcOf
<1>2. op \in Storing /\ op.h \in Handles /\ ~ handles[op.h].directory
  BY <1>1 DEF StoringOK, Storing
<1>3. StoreAt(op, fat, handles)
  BY <1>1, QuietGround DEF CallAt
<1>4. handles[op.h].first \notin Dirs(disk)
  BY <1>2, QuietGround DEF NodesOK
<1>5. handles[op.h].first # 0 => handles[op.h].first \in Firsts(disk, handles)
  BY <1>2 DEF Firsts
<1> QED BY <1>1, <1>2, <1>3, <1>4, <1>5

LEMMA Created ==
  ASSUME Quiet, op.pc # "idle", op.kind = "create"
  PROVE  /\ op \in Creating /\ CreatingOK(op, fat, fat, disk, handles) /\ CreateAt(op, fat, disk)
         /\ op.d \in Dirs(disk) /\ op.d \in Cluster /\ Begins(fat, op.d)
<1>1. CreatingOK(op, fat, fat, disk, handles) /\ op \in Creating
  BY QuietGround, PcOf DEF CreatingOK
<1>2. CreateAt(op, fat, disk)
  BY QuietGround DEF CallAt
<1> QED BY <1>1, <1>2, QuietGround DEF CreateAt

\* While none fails, the table and the cluster are on the disk as written.
LEMMA NoneFailed ==
  ASSUME faults \in Nat, faults' = 0
  PROVE  /\ ~ Fault /\ ~ FatFailed /\ \A c, u : ~ ClusterFailed(c, u)
         /\ [Next]_vars => faults = 0
<1>1. ~ Fault
  BY DEF Fault
<1>2. ~ FatFailed /\ \A c, u : ~ ClusterFailed(c, u)
  BY <1>1 DEF FatFailed, ClusterFailed
<1>3. ASSUME Enter \/ WriteCluster PROVE faults = 0
  <2>1. \A c, b : \A r \in ReadInto(c, b) : r[2] = faults \/ r[2] = faults + 1
    BY DEF ReadInto
  <2>2. CASE Enter
    BY <1>2, <2>1, <2>2 DEF Enter
  <2>3. CASE WriteCluster
    <3>1. PICK c \in {Walk(fat, op.cur)[op.skip + 1]} :
            \E r \in (IF Partial(op) THEN ReadInto(c, Junk) ELSE { << Junk, faults >> }) : faults' = r[2] \/ r[2] = faults
      BY <1>2, <2>3 DEF WriteCluster
    <3>2. PICK r : (r \in ReadInto(c, Junk) \/ r = << Junk, faults >>) /\ (faults' = r[2] \/ r[2] = faults)
      BY <3>1
    <3> QED BY <1>2, <2>1, <2>3, <3>2 DEF WriteCluster
  <2> QED BY <1>3, <2>2, <2>3
<1>4. ASSUME [Next]_vars PROVE faults = 0
  BY <1>1, <1>2, <1>3, <1>4 DEF Next, Steps, vars, bounds, Create, Open, ReadDir, Lookup, Misread, Write,
     Alloc, Link, Zero, WriteDots, SetUp, Grow, Reset, FatWritten, ClusterWritten
<1> QED BY <1>1, <1>2, <1>4

\* A cluster marked is in no chain yet.
LEMMA MarkedElsewhere ==
  ASSUME Quiet, NEW c \in Cluster, fat[c] = Free, NEW g, g = [fat EXCEPT ![c] = Eoc]
  PROVE  /\ \A d \in Firsts(disk, handles) : Walk(g, d) = Walk(fat, d)
         /\ Tidy(g, disk) /\ MadeOK(g, disk, made)
         /\ StaleIn(disk, c) /\ c \notin Dirs(disk) /\ c # 0
         /\ g \in Tables /\ g[c] = Eoc
<1>1. /\ fat \in Tables /\ LinkedOnce(fat) /\ Tidy(fat, disk) /\ MadeOK(fat, disk, made)
      /\ \A d \in Firsts(disk, handles) : d \in Cluster /\ Begins(fat, d)
      /\ Dirs(disk) \subseteq Firsts(disk, handles)
  BY QuietGround
<1>2. g \in Tables /\ g[c] = Eoc /\ \A x \in Cluster : x # c => g[x] = fat[x]
  BY <1>1 DEF Tables, FatEntry
<1>3. ASSUME NEW d \in Firsts(disk, handles) PROVE Walk(g, d) = Walk(fat, d)
  <2>1. \A x : InChain(fat, d, x) => x \in Cluster /\ fat[x] # Free
    BY <1>1, InUse
  <2>2. \A x : InChain(fat, d, x) => g[x] = fat[x]
    BY <1>2, <2>1
  <2> QED BY <1>1, <1>2, <2>2, ChangeElsewhere
<1>4. Tidy(g, disk) /\ MadeOK(g, disk, made)
  <2>1. \A x \in Cluster : g[x] = Free => fat[x] = Free
    BY <1>2
  <2>2. \A d \in Dirs(disk) : Walk(g, d) = Walk(fat, d)
    BY <1>1, <1>3
  <2> QED BY <1>1, <2>1, <2>2, SameDirs
<1>5. StaleIn(disk, c)
  BY <1>1 DEF Tidy, FreeAreStale, StaleIn
<1>6. c \notin Dirs(disk) /\ c # 0
  BY <1>1, Constants DEF Begins
<1> QED BY <1>2, <1>3, <1>4, <1>5, <1>6

LEMMA AllocDirs ==
  ASSUME Quiet, faults \in Nat, faults' = 0, Alloc
  PROVE  dfat' = fat' /\ DirsOK(fat', disk', handles', made', op')
<1> DEFINE c == LowestOf(FreeClusters)
<1>1. /\ op.pc = "alloc" /\ UNCHANGED << disk, made >> /\ dfat = fat
      /\ NodesOK(disk, handles) /\ Tidy(fat, disk) /\ MadeOK(fat, disk, made)
  BY QuietGround DEF Alloc, Quiet
<1>2. CASE FreeClusters = {}
  <2>1. UNCHANGED << fat, dfat, handles >> /\ op' = Idle
    BY <1>2 DEF Alloc, NoCluster
  <2> QED BY <1>1, <2>1 DEF DirsOK, CallAt, Idle
<1>3. CASE FreeClusters # {}
  <2>1. c \in Cluster /\ fat[c] = Free
    <3>1. FreeClusters \in SUBSET Nat
      BY Constants DEF FreeClusters
    <3>2. c \in FreeClusters
      BY <1>3, <3>1, LowestIn
    <3> QED BY <3>2 DEF FreeClusters
  <2>2. /\ fat' = [fat EXCEPT ![c] = Eoc] /\ dfat' = fat'
        /\ op' = AfterAlloc(op, c) /\ FirstKept(op, c)
    BY <1>3, NoneFailed DEF Alloc, Claimed, FatWritten
  <2> HIDE DEF c
  <2>3. /\ \A d \in Firsts(disk, handles) : Walk(fat', d) = Walk(fat, d)
        /\ Tidy(fat', disk) /\ MadeOK(fat', disk, made)
        /\ StaleIn(disk, c) /\ c \notin Dirs(disk) /\ c # 0
        /\ fat' \in Tables /\ fat'[c] = Eoc
    BY <2>1, <2>2, MarkedElsewhere
  <2>4. \A d \in Firsts(disk, handles) : \A x : InChain(fat', d, x) <=> InChain(fat, d, x)
    BY <2>3 DEF InChain
  <2>5. CASE op.kind = "create"
    <3>1. /\ op \in Creating /\ CreatingOK(op, fat, fat, disk, handles) /\ CreateAt(op, fat, disk)
          /\ op.d \in Dirs(disk) /\ op.d \in Firsts(disk, handles)
      BY <1>1, <2>5, Created, QuietGround
    <3>2. handles' = handles
      BY <2>2, <2>5 DEF FirstKept
    <3>3. /\ InChain(fat', op.d, op.cur)
          /\ Full(fat', disk, op.d) => NoName(fat', disk, op.d, op.n)
      BY <1>1, <2>3, <2>4, <3>1 DEF CreateAt, Full, NoName
    <3>4. CreateAt(op', fat', disk)
      <4>1. CASE op.extend
        <5>1. op' = [op EXCEPT !.pc = "link", !.new = c]
          BY <2>2, <4>1 DEF AfterAlloc
        <5>2. op'.d = op.d /\ op'.n = op.n /\ op'.cur = op.cur /\ op'.slot = op.slot
              /\ op'.new = c /\ op'.pc = "link"
          BY <3>1, <5>1 DEF Creating
        <5>3. op.slot = 1
          BY <1>1, <3>1, <4>1 DEF CreateAt
        <5> QED BY <2>3, <3>1, <3>3, <5>2, <5>3 DEF CreateAt
      <4>2. CASE ~ op.extend
        <5>1. op' = [op EXCEPT !.pc = "dots", !.first = c]
          BY <2>2, <2>5, <4>2 DEF AfterAlloc
        <5>2. op'.d = op.d /\ op'.n = op.n /\ op'.cur = op.cur /\ op'.slot = op.slot
              /\ op'.pc = "dots"
          BY <3>1, <5>1 DEF Creating
        <5>3. SlotOK(op, disk)
          BY <1>1, <3>1, <4>2 DEF CreateAt
        <5>4. SlotOK(op', disk)
          BY <5>2, <5>3 DEF SlotOK
        <5> QED BY <3>1, <3>3, <5>2, <5>4 DEF CreateAt
      <4> QED BY <4>1, <4>2
    <3>5. op'.kind # "write"
      BY <2>2, <2>5, <3>1 DEF AfterAlloc, Creating
    <3> QED BY <1>1, <2>2, <2>3, <3>2, <3>4, <3>5 DEF DirsOK, CallAt
  <2>6. CASE op.kind # "create"
    <3>1. /\ op.kind = "write" /\ op \in Storing /\ op.h \in Handles /\ StoreAt(op, fat, handles)
          /\ ~ handles[op.h].directory
          /\ handles[op.h].first # 0 => handles[op.h].first \in Firsts(disk, handles)
          /\ StoringOK(op, fat, fat, disk, handles)
      BY <1>1, <2>6, Stored
    <3>2. CASE op.extend
      <4>1. op' = [op EXCEPT !.pc = "link", !.new = c] /\ handles' = handles
        BY <2>2, <3>2 DEF AfterAlloc, FirstKept
      <4>2. op'.h = op.h /\ op'.cur = op.cur /\ op'.pc = "link" /\ op'.kind = "write"
        BY <3>1, <4>1 DEF Storing
      <4>3. handles[op.h].first # 0 /\ InChain(fat, handles[op.h].first, op.cur)
        BY <1>1, <3>1, <3>2 DEF StoreAt
      <4>4. StoreAt(op', fat', handles)
        BY <2>4, <3>1, <4>2, <4>3 DEF StoreAt
      <4> QED BY <1>1, <2>2, <2>3, <4>1, <4>2, <4>4 DEF DirsOK, CallAt
    <3>3. CASE ~ op.extend
      <4>1. op' = [op EXCEPT !.pc = "body", !.cur = c]
            /\ handles' = [handles EXCEPT ![op.h].first = c]
        BY <2>2, <2>6, <3>1, <3>3 DEF AfterAlloc, FirstKept
      <4>2. op'.h = op.h /\ op'.cur = c /\ op'.pc = "body" /\ op'.kind = "write"
        BY <3>1, <4>1 DEF Storing
      <4>3. HandlesOK(handles) /\ handles[op.h] # NoNode
        BY <3>1, QuietGround DEF StoringOK
      <4>4. handles[op.h] \in Node
        BY <3>1, <4>3 DEF HandlesOK
      <4>5. /\ handles'[op.h].first = c
            /\ handles'[op.h].directory = handles[op.h].directory
            /\ \A h \in Handles : h # op.h => handles'[h] = handles[h]
        BY <3>1, <4>1, <4>3, <4>4 DEF HandlesOK, Node
      <4>6. NodesOK(disk, handles')
        BY <1>1, <2>3, <3>1, <4>5 DEF NodesOK
      <4>7. InChain(fat', c, c)
        BY <2>1, <2>3, InChainIs
      <4>8. StoreAt(op', fat', handles')
        BY <2>3, <4>2, <4>5, <4>7 DEF StoreAt
      <4> QED BY <1>1, <2>2, <2>3, <4>2, <4>6, <4>8 DEF DirsOK, CallAt
    <3> QED BY <3>2, <3>3
  <2> QED BY <2>5, <2>6
<1> QED BY <1>2, <1>3

LEMMA LinkDirs ==
  ASSUME Quiet, faults \in Nat, faults' = 0, Link
  PROVE  dfat' = fat' /\ DirsOK(fat', disk', handles', made', op')
<1>1. /\ op.pc = "link" /\ fat' = [fat EXCEPT ![op.cur] = op.new] /\ op' = Linked(op)
      /\ dfat' = fat' /\ UNCHANGED << disk, handles, made >>
  BY NoneFailed DEF Link, FatWritten
<1>2. /\ fat \in Tables /\ LinkedOnce(fat) /\ Ground(fat, disk) /\ Tidy(fat, disk)
      /\ NodesOK(disk, handles) /\ MadeOK(fat, disk, made)
      /\ CallOK(op, fat, fat, disk, handles)
      /\ \A c \in Firsts(disk, handles) : c \in Cluster /\ Begins(fat, c)
      /\ Dirs(disk) \subseteq Firsts(disk, handles) /\ TablesOK(fat, fat)
  BY QuietGround DEF Quiet, VolumeOK
<1>3. op.cur \in Cluster /\ CanLink(op, fat, fat, disk, handles)
  BY <1>1, <1>2, PcOf DEF CreatingOK, Creating, StoringOK
<1>4. /\ op.cur # op.new /\ fat[op.cur] = Eoc /\ fat[op.new] = Eoc
      /\ op.new \in Cluster /\ Begins(fat, op.new) /\ op.new \notin Firsts(disk, handles)
  BY <1>2, <1>3, TablesLead DEF CanLink, Fresh, BeginsBoth
<1>5. ASSUME NEW d \in Firsts(disk, handles), InChain(fat, d, op.cur)
      PROVE  Links(fat, d, op.cur, op.new, fat')
  BY <1>1, <1>2, <1>4, <1>5 DEF Links
<1>6. CASE op.kind = "create"
  <2>1. /\ op \in Creating /\ CreateAt(op, fat, disk) /\ op.d \in Dirs(disk)
    BY <1>1, <1>6, Created
  <2>2. op' = [op EXCEPT !.pc = "zero"]
    BY <1>1, <1>6 DEF Linked
  <2>3. op'.d = op.d /\ op'.n = op.n /\ op'.new = op.new /\ op'.slot = op.slot
        /\ op'.pc = "zero" /\ op'.kind = "create"
    BY <1>6, <2>1, <2>2 DEF Creating
  <2>4. /\ InChain(fat, op.d, op.cur) /\ op.slot = 1 /\ StaleIn(disk, op.new)
        /\ op.new \notin Dirs(disk)
        /\ Full(fat, disk, op.d) => NoName(fat, disk, op.d, op.n)
    BY <1>1, <2>1 DEF CreateAt
  <2>5. Links(fat, op.d, op.cur, op.new, fat')
    BY <1>2, <1>5, <2>1, <2>4
  <2>6. /\ Tidy(fat', disk) /\ InChain(fat', op.d, op.new)
        /\ \A names : MadeOK(fat, disk, names) => MadeOK(fat', disk, names)
        /\ Full(fat', disk, op.d) => Full(fat, disk, op.d)
        /\ \A m : NoName(fat, disk, op.d, m) => NoName(fat', disk, op.d, m)
    BY <1>2, <2>1, <2>4, <2>5, LinkedDir
  <2>7. CreateAt(op', fat', disk)
    BY <2>1, <2>3, <2>4, <2>6 DEF CreateAt
  <2> QED BY <1>1, <1>2, <2>3, <2>6, <2>7 DEF DirsOK, CallAt
<1>7. CASE op.kind # "create"
  <2>1. /\ op.kind = "write" /\ op \in Storing /\ op.h \in Handles /\ StoreAt(op, fat, handles)
        /\ handles[op.h].first \notin Dirs(disk)
        /\ handles[op.h].first # 0 => handles[op.h].first \in Firsts(disk, handles)
    BY <1>1, <1>7, Stored
  <2>2. op' = [op EXCEPT !.pc = "body", !.extend = FALSE, !.cur = op.new, !.skip = op.skip - 1]
    BY <1>1, <1>7 DEF Linked
  <2>3. op'.h = op.h /\ op'.cur = op.new /\ op'.pc = "body" /\ op'.kind = "write"
    BY <2>1, <2>2 DEF Storing
  <2>4. PICK q : q = handles[op.h].first
    OBVIOUS
  <2>5. q # 0 /\ InChain(fat, q, op.cur) /\ q \in Firsts(disk, handles) /\ q \notin Dirs(disk)
    BY <1>1, <2>1, <2>4 DEF StoreAt
  <2>6. Links(fat, q, op.cur, op.new, fat')
    BY <1>5, <2>5
  <2>7. InChain(fat', q, op.new)
    BY <2>6, GrownChain
  <2>8. StoreAt(op', fat', handles)
    BY <2>3, <2>4, <2>5, <2>7 DEF StoreAt
  <2>9. /\ fat' \in Tables /\ fat'[op.cur] = op.new
        /\ \A x \in Cluster : x # op.cur => fat'[x] = fat[x]
    BY <1>1, <1>2, <1>3, <1>4 DEF Tables, FatEntry
  <2>10. ASSUME NEW d \in Dirs(disk) PROVE Walk(fat', d) = Walk(fat, d)
    <3>1. Begins(fat, d) /\ d \in Cluster /\ Begins(fat, q)
      BY <1>2, <2>5
    <3>2. ~ InChain(fat, d, op.cur)
      BY <1>2, <2>5, <3>1, OneChain
    <3>3. \A x : InChain(fat, d, x) => x \in Cluster /\ x # op.cur
      BY <1>2, <3>1, <3>2, InChainIs
    <3>4. \A x : InChain(fat, d, x) => fat'[x] = fat[x]
      BY <2>9, <3>3
    <3> QED BY <1>2, <2>9, <3>1, <3>4, ChangeElsewhere
  <2>11. Tidy(fat', disk) /\ MadeOK(fat', disk, made)
    <3>1. \A x \in Cluster : fat'[x] = Free => fat[x] = Free
      BY <1>4, <2>9, Constants
    <3> QED BY <1>2, <2>10, <3>1, SameDirs
  <2> QED BY <1>1, <1>2, <2>3, <2>8, <2>11 DEF DirsOK, CallAt
<1> QED BY <1>6, <1>7

LEMMA ZeroDirs ==
  ASSUME Quiet, faults \in Nat, faults' = 0, Zero
  PROVE  dfat' = fat' /\ DirsOK(fat', disk', handles', made', op')
<1>1. /\ op.pc = "zero" /\ UNCHANGED << fat, dfat, handles, made >> /\ dfat = fat
      /\ disk' = [disk EXCEPT ![op.new] = Blank]
      /\ op' = [op EXCEPT !.pc = IF op.directory THEN "alloc" ELSE "enter",
                          !.extend = FALSE, !.cur = op.new]
  BY NoneFailed DEF Zero, SetUp, ClusterWritten, Quiet
<1>2. op.kind = "create"
  <2>1. CreatingOK(op, fat, fat, disk, handles)
    BY <1>1, QuietGround, PcOf
  <2> QED BY <2>1 DEF CreatingOK, Creating
<1>3. /\ op \in Creating /\ CreateAt(op, fat, disk) /\ op.d \in Dirs(disk)
  BY <1>1, <1>2, Created
<1>4. op.new \in Cluster
  BY <1>1, <1>2, Created DEF CreatingOK
<1>5. /\ InChain(fat, op.d, op.new) /\ op.slot = 1 /\ StaleIn(disk, op.new) /\ op.new \notin Dirs(disk)
      /\ Full(fat, disk, op.d) => NoName(fat, disk, op.d, op.n)
  BY <1>1, <1>3 DEF CreateAt
<1>6. Ground(fat, disk) /\ Tidy(fat, disk) /\ NodesOK(disk, handles) /\ MadeOK(fat, disk, made)
  BY QuietGround
<1>7. PICK r : r = disk'
  OBVIOUS
<1>8. /\ Dirs(r) = Dirs(disk) /\ Tidy(fat, r) /\ r[op.new] = Blank
      /\ \A names : MadeOK(fat, disk, names) => MadeOK(fat, r, names)
      /\ Full(fat, r, op.d) => Full(fat, disk, op.d)
      /\ \A n : NoName(fat, disk, op.d, n) => NoName(fat, r, op.d, n)
  <2>1. Clears(fat, disk, op.d, op.new, r)
    BY <1>1, <1>3, <1>5, <1>6, <1>7 DEF Clears
  <2> QED BY <2>1, Zeroed
<1>9. /\ op'.d = op.d /\ op'.n = op.n /\ op'.cur = op.new /\ op'.slot = op.slot /\ op'.kind = "create"
      /\ op'.extend = FALSE /\ op'.directory = op.directory
      /\ op'.pc = IF op.directory THEN "alloc" ELSE "enter"
  BY <1>1, <1>2, <1>3 DEF Creating
<1>10. SlotOK(op', r)
  <2>1. op.n \in Names /\ Slots \in Nat /\ Needs(op.n) \in 1 .. Slots
    BY <1>3, Constants DEF Creating
  <2>2. \A i \in 1 .. 1 + Needs(op.n) - 1 : i \in 1 .. Slots
    BY <2>1
  <2>3. \A i \in 1 .. Slots : IsFree(r[op.new][i])
    BY <1>8 DEF Blank, IsFree
  <2>4. ~ \E i \in 1 .. 1 - 1 : TRUE
    OBVIOUS
  <2> QED BY <1>5, <1>9, <2>2, <2>3, <2>4 DEF SlotOK
<1>11. CreateAt(op', fat, r)
  BY <1>3, <1>5, <1>8, <1>9, <1>10 DEF CreateAt
<1>12. NodesOK(r, handles) /\ MadeOK(fat, r, made)
  BY <1>6, <1>8 DEF NodesOK
<1> QED BY <1>1, <1>7, <1>8, <1>9, <1>11, <1>12 DEF DirsOK, CallAt

LEMMA WriteDotsDirs ==
  ASSUME Quiet, faults \in Nat, faults' = 0, WriteDots
  PROVE  dfat' = fat' /\ DirsOK(fat', disk', handles', made', op')
<1> DEFINE c == op.first
           u == DotEntries(op.first, op.d)
<1>1. /\ op.pc = "dots" /\ UNCHANGED << fat, dfat, handles, made >> /\ dfat = fat
      /\ disk' = [disk EXCEPT ![c] = u] /\ op' = [op EXCEPT !.pc = "enter"]
  BY NoneFailed DEF WriteDots, SetUp, ClusterWritten, Quiet
<1>2. CreatingOK(op, fat, fat, disk, handles)
  BY <1>1, QuietGround, PcOf
<1>3. op.kind = "create"
  BY <1>2 DEF CreatingOK, Creating
<1>4. /\ op \in Creating /\ CreateAt(op, fat, disk) /\ op.d \in Dirs(disk) /\ op.d \in Cluster
  BY <1>1, <1>3, Created
<1>5. /\ Ground(fat, disk) /\ Tidy(fat, disk) /\ NodesOK(disk, handles) /\ MadeOK(fat, disk, made)
      /\ Dirs(disk) \subseteq Firsts(disk, handles) /\ TablesOK(fat, fat) /\ fat \in Tables
  BY QuietGround DEF Quiet, VolumeOK
<1>6. Fresh(c, fat, fat, disk, handles)
  BY <1>1, <1>2 DEF CreatingOK
<1>7. Begins(fat, c) /\ c \notin Dirs(disk) /\ c \in Cluster
  BY <1>5, <1>6, TablesLead DEF Fresh, BeginsBoth
<1>8. NotIn(fat, disk, c) /\ fat[c] # Free /\ NoneNamed(disk[c])
  BY <1>5, <1>7, InChainIs, Outside DEF Tidy
<1>9. NoneNamed(u)
  BY <1>4, <1>7, DotUnits DEF NoneNamed
<1>10. /\ InChain(fat, op.d, op.cur) /\ SlotOK(op, disk)
       /\ Full(fat, disk, op.d) => NoName(fat, disk, op.d, op.n)
  BY <1>1, <1>4 DEF CreateAt
<1> HIDE DEF u, c
<1>11. PICK r : r = disk'
  OBVIOUS
<1>12. Overwrites(fat, disk, c, u, r)
  BY <1>1, <1>5, <1>7, <1>8, <1>9, <1>11 DEF Overwrites
<1>13. /\ Dirs(r) = Dirs(disk) /\ Tidy(fat, r)
       /\ \A names : MadeOK(fat, disk, names) => MadeOK(fat, r, names)
       /\ r[c] = u /\ \A x \in Cluster : x # c => r[x] = disk[x]
  BY <1>12, QuietWrite
<1>14. /\ Full(fat, r, op.d) => Full(fat, disk, op.d)
       /\ \A n : NoName(fat, disk, op.d, n) => NoName(fat, r, op.d, n)
  BY <1>4, <1>8, <1>12, WrittenOutside
<1>15. op.cur \in Cluster /\ op.cur # c
  <2>1. op.cur \in Cluster
    BY <1>4, <1>5, <1>10, InChainIs
  <2> QED BY <1>4, <1>8, <1>10, <2>1 DEF NotIn
<1>16. /\ op'.d = op.d /\ op'.n = op.n /\ op'.cur = op.cur /\ op'.slot = op.slot /\ op'.kind = "create"
       /\ op'.pc = "enter" /\ op'.first = op.first
  BY <1>1, <1>3, <1>4 DEF Creating
<1>17. SlotOK(op', r)
  <2>1. r[op.cur] = disk[op.cur]
    BY <1>13, <1>15
  <2> QED BY <1>10, <1>16, <2>1 DEF SlotOK
<1>18. CreateAt(op', fat, r)
  <2>1. r[op.first] = DotEntries(op.first, op.d)
    BY <1>13 DEF u, c
  <2> QED BY <1>4, <1>10, <1>13, <1>14, <1>16, <1>17, <2>1 DEF CreateAt
<1>19. NodesOK(r, handles) /\ MadeOK(fat, r, made)
  BY <1>5, <1>13 DEF NodesOK
<1> QED BY <1>1, <1>11, <1>13, <1>16, <1>18, <1>19 DEF DirsOK, CallAt

LEMMA EnterDirs ==
  ASSUME Quiet, faults \in Nat, faults' = 0, Enter
  PROVE  dfat' = fat' /\ DirsOK(fat', disk', handles', made', op')
<1>1. /\ op.pc = "enter" /\ UNCHANGED << fat, dfat, handles >> /\ dfat = fat
      /\ op' = Idle /\ made' = made \cup { << op.d, op.n >> }
  BY DEF Enter, Quiet
<1>2. CreatingOK(op, fat, fat, disk, handles)
  BY <1>1, QuietGround, PcOf
<1>3. op.kind = "create"
  BY <1>2 DEF CreatingOK, Creating
<1>4. /\ op \in Creating /\ CreateAt(op, fat, disk) /\ op.d \in Dirs(disk) /\ op.d \in Cluster
  BY <1>1, <1>3, Created
<1>5. /\ Ground(fat, disk) /\ Tidy(fat, disk) /\ NodesOK(disk, handles) /\ MadeOK(fat, disk, made)
      /\ Dirs(disk) \subseteq Firsts(disk, handles) /\ TablesOK(fat, fat) /\ 0 \notin Dirs(disk)
  BY QuietGround DEF Quiet, VolumeOK
<1>6. disk' = [disk EXCEPT ![op.cur] = Entered(disk[op.cur], op)]
  <2>1. PICK r \in ReadInto(op.cur, IF op.cur = op.new THEN Blank ELSE disk[op.cur]) :
          \/ disk' = [disk EXCEPT ![op.cur] = Entered(r[1], op)] /\ faults' = r[2]
          \/ ClusterFailed(op.cur, Entered(r[1], op))
    BY DEF Enter
  <2>2. disk' = [disk EXCEPT ![op.cur] = Entered(r[1], op)] /\ r[2] = 0
    BY <2>1, NoneFailed
  <2>3. r[1] = disk[op.cur]
    BY <2>1, <2>2 DEF ReadInto
  <2> QED BY <2>2, <2>3
<1>7. op.first # 0 => Begins(fat, op.first) /\ fat[op.first] = Eoc /\ op.first \notin Firsts(disk, handles)
  BY <1>1, <1>2, <1>5, TablesLead DEF CreatingOK, Fresh
<1>8. PICK r : r = disk'
  OBVIOUS
<1>9. Enters(fat, disk, op, r)
  <2>1. op.slot + Needs(op.n) - 1 <= Slots /\ (op.directory <=> op.first # 0)
    BY <1>1, <1>2 DEF CreatingOK
  <2>2. /\ InChain(fat, op.d, op.cur) /\ SlotOK(op, disk)
        /\ op.directory => disk[op.first] = DotEntries(op.first, op.d)
    BY <1>1, <1>4 DEF CreateAt
  <2> QED BY <1>4, <1>5, <1>6, <1>7, <1>8, <2>1, <2>2 DEF Enters
<1>10. /\ Tidy(fat, r) /\ Dirs(r) = Dirs(disk) \cup ({op.first} \ {0})
       /\ \A names : MadeOK(fat, disk, names) => MadeOK(fat, r, names \cup { << op.d, op.n >> })
  BY <1>9, EnteredTidy
<1>11. NodesOK(r, handles)
  <2>1. ASSUME NEW h \in Handles, handles[h].first = op.first, op.first # 0 PROVE FALSE
    BY <1>7, <2>1 DEF Firsts
  <2> QED BY <1>5, <1>10, <2>1 DEF NodesOK
<1>12. MadeOK(fat, r, made')
  BY <1>1, <1>5, <1>10
<1> QED BY <1>1, <1>8, <1>10, <1>11, <1>12 DEF DirsOK, CallAt, Idle

LEMMA GrowDirs ==
  ASSUME Quiet, Grow
  PROVE  dfat' = fat' /\ DirsOK(fat', disk', handles', made', op')
<1> DEFINE ch == Walk(fat, op.cur)
<1>1. /\ op.pc = "body" /\ UNCHANGED << fat, dfat, disk, handles, made >> /\ dfat = fat
      /\ op' = [op EXCEPT !.pc = "alloc", !.extend = TRUE, !.cur = ch[Len(ch)],
                          !.skip = op.skip - (Len(ch) - 1)]
  BY DEF Grow, Quiet, volume
<1>2. StoringOK(op, fat, fat, disk, handles)
  BY <1>1, QuietGround, PcOf
<1>3. op \in Storing /\ op.kind = "write" /\ op.cur \in Cluster
  BY <1>1, <1>2 DEF StoringOK, Storing
<1>4. PICK q : q = handles[op.h].first
  OBVIOUS
<1>5. q # 0 /\ q \in Firsts(disk, handles) /\ InChain(fat, q, op.cur)
  BY <1>1, <1>3, <1>4, Stored DEF StoreAt
<1>6. fat \in Tables /\ q \in Cluster /\ Ends(fat, q)
  BY <1>5, QuietGround
<1>7. ch \in Seq(Cluster) /\ Len(ch) \in 1 .. Len(ch)
  <2>1. ch \in Seq(Cluster) /\ Len(ch) \in 1 .. Total + 1
    BY <1>3, <1>6, WalkLeads DEF Leads
  <2> QED BY <2>1, Constants
<1>8. InChain(fat, op.cur, ch[Len(ch)])
  BY <1>3, <1>6, <1>7, InChainIs
<1> HIDE DEF ch
<1>9. InChain(fat, q, ch[Len(ch)])
  <2>1. fat[Walk(fat, q)[Len(Walk(fat, q))]] \notin Cluster
    BY <1>6, Constants DEF Ends
  <2> QED BY <1>5, <1>6, <1>8, <2>1, Onward
<1>10. op'.h = op.h /\ op'.cur = ch[Len(ch)] /\ op'.kind = "write"
  BY <1>1, <1>3 DEF Storing
<1>11. StoreAt(op', fat, handles)
  BY <1>4, <1>5, <1>9, <1>10 DEF StoreAt
<1> QED BY <1>1, <1>10, <1>11, QuietGround DEF DirsOK, CallAt

LEMMA WriteClusterDirs ==
  ASSUME Quiet, faults \in Nat, faults' = 0, WriteCluster
  PROVE  dfat' = fat' /\ DirsOK(fat', disk', handles', made', op')
<1> DEFINE ch == Walk(fat, op.cur)
           c == ch[op.skip + 1]
<1>1. /\ op.pc = "body" /\ UNCHANGED << fat, dfat, made >> /\ dfat = fat
      /\ ~ (Len(ch) <= op.skip)
  BY DEF WriteCluster, Quiet, Short
<1>2. StoringOK(op, fat, fat, disk, handles)
  BY <1>1, QuietGround, PcOf
<1>3. op \in Storing /\ op.kind = "write" /\ op.cur \in Cluster /\ op.skip \in Nat /\ op.h \in Handles
  BY <1>1, <1>2 DEF StoringOK, Storing
<1>4. PICK q : q = handles[op.h].first
  OBVIOUS
<1>5. q # 0 /\ q \in Firsts(disk, handles) /\ q \notin Dirs(disk) /\ InChain(fat, q, op.cur)
  BY <1>1, <1>3, <1>4, Stored DEF StoreAt
<1>6. /\ fat \in Tables /\ q \in Cluster /\ Ends(fat, q) /\ Begins(fat, q)
      /\ Ground(fat, disk) /\ Tidy(fat, disk) /\ NodesOK(disk, handles) /\ MadeOK(fat, disk, made)
      /\ HandlesOK(handles) /\ disk \in Disks
  BY <1>5, QuietGround
<1>7. InChain(fat, op.cur, c)
  <2>1. Len(ch) \in Nat
    BY <1>3, <1>6, WalkLeads DEF Leads
  <2>2. op.skip + 1 \in 1 .. Len(ch)
    BY <1>1, <1>3, <2>1
  <2> QED BY <1>3, <1>6, <2>2, InChainIs
<1>8. PICK r : /\ r[1] \in {disk[c], Junk} /\ disk' = [disk EXCEPT ![c] = Merged(r[1], op)]
               /\ \/ op' = Idle /\ handles' = Grown(op)
                  \/ /\ op' = [op EXCEPT !.cur = c, !.skip = 1, !.done = @ + Copied(op)]
                     /\ UNCHANGED handles
  <2>1. \A r \in ReadInto(c, Junk) \cup {<< Junk, faults >>} : r[1] \in {disk[c], Junk}
    BY DEF ReadInto
  <2>2. WriteCluster /\ ~ ClusterFailed(c, Merged(disk[c], op)) /\ ~ ClusterFailed(c, Merged(Junk, op))
    BY NoneFailed
  <2> HIDE DEF c
  <2>3. \A r \in (IF Partial(op) THEN ReadInto(c, Junk) ELSE { << Junk, faults >> }) :
          r[1] \in {disk[c], Junk}
    BY <2>1
  <2> QED BY <2>2, <2>3 DEF WriteCluster, c
<1> HIDE DEF c, ch
<1>9. InChain(fat, q, c)
  <2>1. fat[Walk(fat, q)[Len(Walk(fat, q))]] \notin Cluster
    BY <1>6, Constants DEF Ends
  <2> QED BY <1>5, <1>6, <1>7, <2>1, Onward
<1>10. NotIn(fat, disk, c) /\ c \in Cluster /\ fat[c] # Free /\ c \notin Dirs(disk) /\ NoneNamed(disk[c])
  BY <1>5, <1>6, <1>9, Outside DEF Tidy
<1>11. PICK u : u = Merged(r[1], op)
  OBVIOUS
<1>12. NoneNamed(u)
  <2>1. r[1] \in [1 .. Slots -> Unit] /\ NoneNamed(r[1])
    BY <1>6, <1>8, <1>10, BlankUnits DEF Disks, NoneNamed
  <2> QED BY <1>3, <1>11, <2>1, MergedUnits DEF NoneNamed
<1>13. PICK s : s = disk'
  OBVIOUS
<1>14. Overwrites(fat, disk, c, u, s)
  BY <1>6, <1>8, <1>10, <1>11, <1>12, <1>13 DEF Overwrites
<1>15. /\ Dirs(s) = Dirs(disk) /\ Tidy(fat, s)
       /\ \A names : MadeOK(fat, disk, names) => MadeOK(fat, s, names)
  BY <1>14, QuietWrite
<1>16. NodesOK(s, handles')
  <2>1. CASE handles' = handles
    BY <1>6, <1>15, <2>1 DEF NodesOK
  <2>2. CASE handles' = Grown(op)
    <3>1. PICK z : handles' = [handles EXCEPT ![op.h].size = z]
      BY <2>2 DEF Grown
    <3>2. \A h \in Handles : handles'[h].directory = handles[h].directory
                             /\ handles'[h].first = handles[h].first
      BY <1>3, <1>6, <3>1 DEF HandlesOK, Node, NoNode
    <3> QED BY <1>6, <1>15, <3>2 DEF NodesOK
  <2> QED BY <1>8, <2>1, <2>2
<1>17. CallAt(op', fat, s, handles')
  <2>1. CASE op' = Idle
    BY <2>1 DEF CallAt, Idle
  <2>2. CASE /\ op' = [op EXCEPT !.cur = c, !.skip = 1, !.done = op.done + Copied(op)]
             /\ handles' = handles
    <3>1. op'.cur = c /\ op'.h = op.h /\ op'.kind = "write"
      BY <1>3, <2>2 DEF Storing
    <3>2. StoreAt(op', fat, handles')
      BY <1>4, <1>5, <1>9, <2>2, <3>1 DEF StoreAt
    <3> QED BY <3>1, <3>2 DEF CallAt
  <2> QED BY <1>8, <2>1, <2>2
<1>18. MadeOK(fat, s, made)
  BY <1>6, <1>15
<1> QED BY <1>1, <1>13, <1>15, <1>16, <1>17, <1>18 DEF DirsOK

\* The slots chosen are free, and the first ones that are.
LEMMA SlotChosen ==
  ASSUME NEW c, EndsAfter(disk[c]), NEW n \in Names, Starts(c, n) # {},
         NEW i, i = LowestOf(Starts(c, n))
  PROVE  /\ \A j \in i .. i + Needs(n) - 1 : IsFree(disk[c][j])
         /\ \A j \in 1 .. i - 1 : disk[c][j] # End
<1>1. Needs(n) \in 1 .. Slots /\ Slots \in Nat
  BY Constants
<1>2. Starts(c, n) \in SUBSET Nat
  BY <1>1 DEF Starts
<1>3. i \in Starts(c, n) /\ \A k \in Starts(c, n) : i <= k
  BY <1>2, LowestIn
<1>4. i \in 1 .. (Slots - Needs(n) + 1) /\ \A j \in i .. (i + Needs(n) - 1) : IsFree(disk[c][j])
  BY <1>3 DEF Starts
<1>5. ASSUME NEW j \in 1 .. i - 1, disk[c][j] = End PROVE FALSE
  <2>1. j \in 1 .. (Slots - Needs(n) + 1) /\ j < i /\ j \in 1 .. Slots
    BY <1>1, <1>4
  <2>2. \A k \in j .. (j + Needs(n) - 1) : k \in 1 .. Slots /\ (k = j \/ j < k)
    BY <1>1, <2>1
  <2>3. \A k \in j .. (j + Needs(n) - 1) : disk[c][k] = End
    BY <1>5, <2>1, <2>2 DEF EndsAfter
  <2>4. j \in Starts(c, n)
    BY <2>1, <2>3 DEF Starts, IsFree
  <2> QED BY <1>3, <1>4, <2>1, <2>4
<1> QED BY <1>4, <1>5

LEMMA PlacedAt ==
  ASSUME Quiet, NEW d \in Directories, NEW n \in Names, NEW directory \in BOOLEAN,
         FindDir(d, n) = {}
  PROVE  CallAt(Placed(d, n, directory), fat, disk, handles)
<1> DEFINE ch == Walk(fat, d)
           fits == { k \in DOMAIN ch : Starts(ch[k], n) # {} }
           extend == fits = {}
           c == IF extend THEN ch[Len(ch)] ELSE ch[LowestOf(fits)]
           i == IF extend THEN 1 ELSE LowestOf(Starts(c, n))
           o == CreateOp(d, n, directory, extend, c, i)
<1>1. Placed(d, n, directory) = o
  BY DEF Placed
<1>2. /\ fat \in Tables /\ disk \in Disks /\ d \in Dirs(disk) /\ d \in Cluster /\ EndsLast(fat, disk)
  BY QuietGround DEF Directories, NodesOK, Dirs, Tidy
<1>3. ch \in Seq(Cluster) /\ Len(ch) \in 1 .. Total + 1 /\ DOMAIN ch = 1 .. Len(ch)
  BY <1>2, WalkLeads DEF Leads
<1>4. \A x : InChain(fat, d, x) => EndsAfter(disk[x])
  BY <1>2, InChainIs DEF EndsLast, EndsAfter
<1>5. Full(fat, disk, d) => NoName(fat, disk, d, n)
  BY <1>2, <1>4, NameFound
<1>6. \A k \in 1 .. Len(ch) : InChain(fat, d, ch[k])
  BY <1>2, InChainIs
<1> HIDE DEF ch
<1>7. fits \in SUBSET Nat /\ \A k \in fits : k \in 1 .. Len(ch) /\ Starts(ch[k], n) # {}
  BY <1>3
<1> HIDE DEF fits
<1>8. InChain(fat, d, c) /\ (~ extend => Starts(c, n) # {})
  <2>1. CASE extend
    <3>1. Len(ch) \in 1 .. Len(ch)
      BY <1>3, Constants
    <3> QED BY <1>6, <2>1, <3>1
  <2>2. CASE ~ extend
    <3>1. LowestOf(fits) \in fits
      BY <1>7, <2>2, LowestIn
    <3> QED BY <1>6, <1>7, <2>2, <3>1
  <2> QED BY <2>1, <2>2
<1> HIDE DEF c
<1>9. ~ extend => /\ \A j \in i .. i + Needs(n) - 1 : IsFree(disk[c][j])
                  /\ \A j \in 1 .. i - 1 : disk[c][j] # End
  <2>1. EndsAfter(disk[c])
    BY <1>4, <1>8
  <2> QED BY <1>8, <2>1, SlotChosen
<1>10. extend => i = 1
  OBVIOUS
<1> HIDE DEF extend, i
<1>11. /\ o.d = d /\ o.n = n /\ o.slot = i /\ o.cur = c /\ o.kind = "create"
       /\ o.extend = extend /\ o.directory = directory
       /\ o.pc = IF extend \/ directory THEN "alloc" ELSE "enter"
  BY DEF CreateOp
<1> HIDE DEF o
<1>12. ~ extend => SlotOK(o, disk)
  BY <1>9, <1>11 DEF SlotOK
<1>13. CreateAt(o, fat, disk)
  BY <1>2, <1>5, <1>8, <1>10, <1>11, <1>12 DEF CreateAt
<1> QED BY <1>1, <1>11, <1>13 DEF CallAt

LEMMA CallDirs ==
  ASSUME Quiet, faults \in Nat, faults' = 0, UNCHANGED << fat, dfat, disk, made >>,
         NodesOK(disk, handles'), CallAt(op', fat, disk, handles')
  PROVE  dfat' = fat' /\ DirsOK(fat', disk', handles', made', op')
BY DEF Quiet, DirsOK

LEMMA LookupDirs ==
  ASSUME Quiet, faults \in Nat, faults' = 0, NEW h \in Handles, NEW d \in Directories, NEW found,
         found \subseteq EntriesOf(fat, d), Lookup(h, d, found)
  PROVE  NodesOK(disk, handles')
<1>1. PICK e \in EntriesOf(fat, d) : e[2] \notin Dots /\ handles' = [handles EXCEPT ![h] = NodeOf(e)]
  BY NoneFailed DEF Lookup, Misread
<1>2. /\ fat \in Tables /\ disk \in Disks /\ EntriesOK(disk) /\ HandlesOK(handles)
      /\ NodesOK(disk, handles) /\ 0 \notin Dirs(disk)
  BY QuietGround
<1>3. d \in Cluster
  BY HeadChains DEF Quiet
<1>4. e \in Unit /\ e[1] = "entry" /\ \E p \in Cluster \X (1 .. Slots) : At(disk, p) = e
  BY <1>2, <1>3, EntriesStand
<1>5. PICK p \in Places(disk) : At(disk, p) = e
  BY <1>1, <1>4 DEF Places, Named
<1>6. e[3] => e[4] \in Dirs(disk)
  BY <1>5 DEF Dirs
<1>7. e[4] \in Dirs(disk) => e[3]
  <2>1. SUFFICES ASSUME e[4] \in Dirs(disk) PROVE e[3]
    OBVIOUS
  <2>2. e[4] # 0 /\ e[4] # Root
    BY <1>2, <1>5, <2>1 DEF EntriesOK
  <2>3. PICK q \in Places(disk) : At(disk, q)[3] /\ At(disk, q)[4] = e[4]
    BY <2>1, <2>2 DEF Dirs
  <2>4. p = q
    BY <1>2, <1>5, <2>2, <2>3 DEF EntriesOK
  <2> QED BY <1>5, <2>3, <2>4
<1>8. handles'[h] = NodeOf(e) /\ \A g \in Handles : g # h => handles'[g] = handles[g]
  BY <1>1, <1>2 DEF HandlesOK
<1>9. NodeOf(e).directory = e[3] /\ NodeOf(e).first = e[4]
  BY DEF NodeOf
<1>10. e[3] \in BOOLEAN
  BY <1>4, EntryParts
<1> QED BY <1>2, <1>6, <1>7, <1>8, <1>9, <1>10 DEF NodesOK

LEMMA DirsStep ==
  ASSUME Quiet, faults \in Nat, faults' = 0, [Next]_vars
  PROVE  dfat' = fat' /\ DirsOK(fat', disk', handles', made', op')
<1>1. /\ fat \in Tables /\ disk \in Disks /\ NodesOK(disk, handles) /\ CallAt(op, fat, disk, handles)
      /\ HandlesOK(handles) /\ 0 \notin Dirs(disk) /\ dfat = fat
  BY QuietGround DEF Quiet
<1>2. CASE \E d \in Directories, n \in Names, directory \in BOOLEAN : Create(d, n, directory)
  <2>1. PICK d \in Directories, n \in Names, directory \in BOOLEAN : Create(d, n, directory)
    BY <1>2
  <2>2. /\ UNCHANGED << fat, dfat, disk, handles, made >>
        /\ op' = op \/ (FindDir(d, n) = {} /\ op' = Placed(d, n, directory))
    BY <2>1, NoneFailed DEF Create, volume
  <2>3. CallAt(op', fat, disk, handles)
    BY <1>1, <2>2, PlacedAt
  <2> QED BY <1>1, <2>2, <2>3, CallDirs
<1>3. \A d \in Directories : d \in Cluster
  BY HeadChains DEF Quiet
<1>4. ASSUME NEW h \in Handles, NEW d \in Directories, NEW found, found \subseteq EntriesOf(fat, d),
             Lookup(h, d, found)
      PROVE  dfat' = fat' /\ DirsOK(fat', disk', handles', made', op')
  <2>1. UNCHANGED << fat, dfat, disk, made, op >> /\ op = Idle
    BY <1>4 DEF Lookup, volume
  <2>2. NodesOK(disk, handles')
    BY <1>4, LookupDirs
  <2>3. CallAt(op', fat, disk, handles')
    BY <2>1 DEF CallAt, Idle
  <2> QED BY <2>1, <2>2, <2>3, CallDirs
<1>5. CASE \E h \in Handles, d \in Directories, n \in Names : Open(h, d, n)
  <2>1. PICK h \in Handles, d \in Directories, n \in Names : Lookup(h, d, FindDir(d, n))
    BY <1>5 DEF Open
  <2>2. FindDir(d, n) \subseteq EntriesOf(fat, d)
    BY <1>1, <1>3, FoundStand
  <2> QED BY <1>4, <2>1, <2>2
<1>6. CASE \E h \in Handles, d \in Directories, index \in 0 .. Slots : ReadDir(h, d, index)
  <2>1. PICK h \in Handles, d \in Directories, index \in 0 .. Slots : Lookup(h, d, ReadDirAt(d, index))
    BY <1>6 DEF ReadDir
  <2>2. ReadDirAt(d, index) \subseteq EntriesOf(fat, d)
    BY <1>1, <1>3, FoundStand
  <2> QED BY <1>4, <2>1, <2>2
<1>7. CASE \E h \in Handles, w \in Spans, b \in Bytes : Write(h, w[1], w[2], b)
  <2>1. PICK h \in Handles, w \in Spans, b \in Bytes : Write(h, w[1], w[2], b)
    BY <1>7
  <2>2. UNCHANGED << fat, dfat, disk, handles, made >> /\ handles[h] # NoNode
    BY <2>1 DEF Write, volume
  <2>3. PICK q : q = w[1] \div Slots
    OBVIOUS
  <2>4. op' = [kind |-> "write", pc |-> IF handles[h].first = 0 THEN "alloc" ELSE "body", h |-> h,
               offset |-> w[1], n |-> w[2], b |-> b, extend |-> FALSE, new |-> 0, done |-> 0,
               cur |-> handles[h].first, skip |-> q]
    BY <2>1, <2>3 DEF Write
  <2>5. /\ op'.kind = "write" /\ op'.h = h /\ op'.cur = handles[h].first /\ ~ op'.extend
        /\ op'.pc = IF handles[h].first = 0 THEN "alloc" ELSE "body"
    BY <2>4
  <2>6. handles[h].first \in {0} \cup Cluster
    BY <1>1, <2>2 DEF HandlesOK, Node
  <2>7. StoreAt(op', fat, handles)
    <3>1. CASE handles[h].first = 0
      BY <2>5, <3>1 DEF StoreAt
    <3>2. CASE handles[h].first # 0
      <4>1. InChain(fat, handles[h].first, handles[h].first)
        BY <1>1, <2>6, <3>2, InChainIs
      <4> QED BY <2>5, <3>2, <4>1 DEF StoreAt
    <3> QED BY <3>1, <3>2
  <2>8. CallAt(op', fat, disk, handles)
    BY <2>5, <2>7 DEF CallAt
  <2> QED BY <1>1, <2>2, <2>8, CallDirs
<1>8. CASE Steps
  BY <1>8, AllocDirs, LinkDirs, ZeroDirs, WriteDotsDirs, EnterDirs, GrowDirs, WriteClusterDirs DEF Steps
<1>9. CASE Reset
  <2>1. /\ fat' = dfat /\ UNCHANGED << dfat, disk, made >> /\ op' = Idle
        /\ handles' = [h \in Handles |-> NoNode]
    BY <1>9 DEF Reset, volume
  <2>2. NodesOK(disk, handles')
    BY <1>1, <2>1 DEF NodesOK, NoNode
  <2>3. CallAt(op', fat, disk, handles')
    BY <2>1 DEF CallAt, Idle
  <2> QED BY <1>1, <2>1, <2>2, <2>3, CallDirs
<1>10. CASE UNCHANGED vars
  <2>1. UNCHANGED << fat, dfat, disk, handles, made, op >>
    BY <1>10 DEF vars, volume
  <2> QED BY <1>1, <2>1, CallDirs
<1> QED BY <1>2, <1>5, <1>6, <1>7, <1>8, <1>9, <1>10 DEF Next

LEMMA DirsInit ==
  ASSUME Init
  PROVE  DirInv
<1>1. /\ fat = Image.fat /\ dfat = Image.fat /\ disk = Image.disk /\ op = Idle /\ made = {}
      /\ handles = [h \in Handles |-> NoNode]
  BY DEF Init
<1>2. Tidy(fat, disk) /\ OwnChain(fat, disk)
  BY <1>1, VolumeAssumption DEF Tidy
<1>3. 0 \notin Dirs(disk)
  BY <1>2, Constants DEF Dirs, OwnChain
<1>4. NodesOK(disk, handles)
  BY <1>1, <1>3 DEF NodesOK, NoNode
<1>5. MadeOK(fat, disk, made) /\ CallAt(op, fat, disk, handles)
  BY <1>1 DEF MadeOK, CallAt, Idle
<1> QED BY <1>1, <1>2, <1>4, <1>5 DEF DirInv, DirsOK

LEMMA DirInvariant == Spec => [](ChainInv /\ DirInv)
<1>1. Init => DirInv
  BY DirsInit
<1>2. ChainInv /\ DirInv /\ [Next]_vars => DirInv'
  <2>1. SUFFICES ASSUME ChainInv, DirInv, [Next]_vars, faults' = 0
                 PROVE  dfat' = fat' /\ DirsOK(fat', disk', handles', made', op')
    BY DEF DirInv
  <2>2. faults \in Nat
    BY <2>1, Fat32Assumption DEF ChainInv, BoundsOK
  <2>3. Quiet
    BY <2>1, <2>2, NoneFailed DEF DirInv, ChainInv, Quiet
  <2> QED BY <2>1, <2>2, <2>3, DirsStep
<1> QED BY <1>1, <1>2, ChainInvariant, PTL DEF Spec

LEMMA QuietState ==
  ASSUME ChainInv, DirInv, faults = 0
  PROVE  Quiet
BY DEF ChainInv, DirInv, Quiet

\* While no command fails a directory an entry leads to has its two dots, at
\* whatever moment power is lost.
THEOREM DotsInTime == Spec => []DirsInitialised
<1>1. ChainInv /\ DirInv => DirsInitialised
  <2>1. SUFFICES ASSUME ChainInv, DirInv, faults = 0,
                        NEW d \in DirsOf(dfat), NEW c \in Children(dfat, d)
                 PROVE  /\ disk[c][1] = Sfn(".", TRUE, c, 0)
                        /\ disk[c][2] = Sfn("..", TRUE, Parent(d), 0)
    BY DEF DirsInitialised
  <2>2. Quiet /\ dfat = fat
    BY <2>1, QuietState DEF DirInv
  <2>3. /\ EntriesOK(disk) /\ AllBegin(fat) /\ DotsInPlace(fat, disk) /\ fat \in Tables
    BY <2>2, QuietGround DEF AllBegin, Tidy
  <2>4. d \in Dirs(disk) /\ d \in Cluster
    BY <2>2, <2>3, DirsReached, QuietGround
  <2>5. PICK e \in EntriesOf(fat, d) : Named(e) /\ e[3] /\ e[4] = c
    BY <2>2 DEF Children
  <2>6. PICK k \in 1 .. Len(Walk(fat, d)), p \in Places(disk) :
          p[1] = Walk(fat, d)[k] /\ At(disk, p) = e
    BY <2>3, <2>4, <2>5, ListedEntries
  <2>7. InChain(fat, d, p[1])
    BY <2>3, <2>4, <2>6, InChainIs
  <2>8. At(disk, p)[3] /\ At(disk, p)[4] = c
    BY <2>5, <2>6
  <2> QED BY <2>3, <2>4, <2>7, <2>8 DEF DotsInPlace
<1> QED BY <1>1, DirInvariant, PTL

\* While no command fails what create has returned 0 for is found by every
\* later mount, in a directory without gaps.
THEOREM CreatedIsKept == Spec => []CreatedStays
<1>1. ChainInv /\ DirInv => CreatedStays
  <2>1. SUFFICES ASSUME ChainInv, DirInv, faults = 0, NEW m \in made, Gapless(dfat, m[1])
                 PROVE  \E e \in EntriesOf(dfat, m[1]) : e[2] = m[2]
    BY DEF CreatedStays
  <2>2. Quiet /\ dfat = fat
    BY <2>1, QuietState DEF DirInv
  <2>3. fat \in Tables /\ disk \in Disks /\ MadeOK(fat, disk, made) /\ EndsLast(fat, disk)
    BY <2>2, QuietGround DEF Tidy
  <2>4. PICK p \in Places(disk) : InChain(fat, m[1], p[1]) /\ At(disk, p)[2] = m[2]
    BY <2>3 DEF MadeOK
  <2>5. m[1] \in Dirs(disk)
    BY <2>3 DEF MadeOK
  <2>6. PICK d \in Cluster : d = m[1]
    BY <2>2, <2>5, QuietGround
  <2>7. Full(fat, disk, d)
    BY <2>1, <2>2, <2>6 DEF Gapless, Full
  <2>8. \A x : InChain(fat, d, x) => EndsAfter(disk[x])
    BY <2>3, <2>5, <2>6, InChainIs DEF EndsLast, EndsAfter
  <2>9. p[2] \in 1 .. Slots /\ disk[p[1]][p[2]][1] = "entry" /\ disk[p[1]][p[2]][2] = m[2]
    BY <2>4 DEF Places, At, Named
  <2>10. PICK i \in Seen(Units(fat, d)) : Units(fat, d)[i] = disk[p[1]][p[2]]
    BY <2>3, <2>4, <2>6, <2>7, <2>8, <2>9, EntrySeen
  <2>11. Units(fat, d)[i] \in EntriesOf(fat, d)
    BY DEF EntriesOf
  <2> QED BY <2>2, <2>6, <2>9, <2>10, <2>11
<1> QED BY <1>1, DirInvariant, PTL

\* While no command fails and the directory has no gaps, create never adds a
\* name that is there.
THEOREM NameAddedOnce == Spec => []NameOnce
<1>1. ChainInv /\ DirInv => NameOnce
  <2>1. SUFFICES ASSUME ChainInv, DirInv, faults = 0, op.pc = "enter", Gapless(fat, op.d),
                        NEW i \in NamesIn(op.d, op.n)
                 PROVE  FALSE
    BY DEF NameOnce
  <2>2. Quiet
    BY <2>1, QuietState
  <2>3. fat \in Tables /\ disk \in Disks
    BY <2>2, QuietGround
  <2>4. op.kind = "create"
    <3>1. CreatingOK(op, fat, fat, disk, handles)
      BY <2>1, <2>2, QuietGround, PcOf
    <3> QED BY <3>1 DEF CreatingOK, Creating
  <2>5. CreateAt(op, fat, disk) /\ op.d \in Cluster
    BY <2>1, <2>2, <2>4, Created
  <2>6. NoName(fat, disk, op.d, op.n)
    BY <2>1, <2>5 DEF CreateAt, Gapless, Full
  <2>7. /\ i \in DOMAIN Units(fat, op.d)
        /\ Units(fat, op.d)[i][1] = "entry" /\ Units(fat, op.d)[i][2] = op.n
    BY DEF NamesIn, EntryAt
  <2>8. PICK k \in 1 .. Len(Walk(fat, op.d)), j \in 1 .. Slots :
          Units(fat, op.d)[i] = disk[Walk(fat, op.d)[k]][j]
    BY <2>3, <2>5, <2>7, UnitsStand
  <2>9. Walk(fat, op.d)[k] \in Cluster /\ InChain(fat, op.d, Walk(fat, op.d)[k])
    BY <2>3, <2>5, InChainIs
  <2> QED BY <2>6, <2>7, <2>8, <2>9 DEF NoName
<1> QED BY <1>1, DirInvariant, PTL
=============================================================================
