------------------------------- MODULE Vfs_proofs -------------------------------
(***************************************************************************)
(* Proofs about Vfs for every boot script that mounts the root first, every *)
(* size of the pools and every set of names, paths and descriptors.  The    *)
(* inductive invariant has two halves: TreeInv says that the ramfs pool is  *)
(* one tree (with the state of the boot sequence that creates its root),    *)
(* Descriptors that descriptors name nodes that exist and have listed what  *)
(* their directories hold.  Between them stands Grows: every call leaves    *)
(* the slots that are filled as they are.                                   *)
(***************************************************************************)
EXTENDS Vfs, FiniteSetTheorems, WellFoundedInduction, TLAPS

-----------------------------------------------------------------------------
(* Induction up to a number, as a fact about sets of numbers.              *)

\* A set of natural numbers that is not empty has a least member.
LEMMA Least ==
  ASSUME NEW T \in SUBSET Nat, T # {}
  PROVE  \E m \in T : \A k \in T : m <= k
<1> DEFINE R == OpToRel(<, Nat)
<1>1. IsWellFoundedOn(R, Nat)
  BY NatLessThanWellFounded
<1>2. \A x, y \in Nat : << x, y >> \in R <=> x < y
  BY DEF OpToRel
<1> HIDE DEF R
<1>3. PICK x \in T : \A y \in T : ~ (<< y, x >> \in R)
  BY <1>1, WFMin
<1>4. x \in Nat /\ \A k \in T : k \in Nat
  OBVIOUS
<1>5. \A k \in T : ~(k < x)
  BY <1>2, <1>3, <1>4
<1> QED BY <1>4, <1>5

\* A set that holds 0, and k + 1 with k, holds every number up to n.
LEMMA UpTo ==
  ASSUME NEW n \in Nat, NEW T, 0 \in T, \A k \in 0 .. n - 1 : k \in T => k + 1 \in T
  PROVE  \A k \in 0 .. n : k \in T
<1> DEFINE U == { k \in 0 .. n : k \notin T }
<1>1. SUFFICES ASSUME U # {} PROVE FALSE
  OBVIOUS
<1>2. U \in SUBSET Nat
  OBVIOUS
<1>3. PICK m \in U : \A k \in U : m <= k
  BY <1>1, <1>2, Least
<1>4. m \in 0 .. n /\ m \notin T /\ m # 0
  BY <1>3
<1>5. m - 1 \in 0 .. n - 1 /\ m - 1 \notin U
  BY <1>3, <1>4
<1>6. m - 1 \in T
  BY <1>5
<1>7. (m - 1) + 1 \in T
  BY <1>5, <1>6
<1> QED BY <1>4, <1>7

-----------------------------------------------------------------------------
(* The walk of vfs_resolve_path along a path, as far as component n.       *)

WalksTo(f, path, n) ==
  f = [k \in 0 .. n |-> IF k = 0 THEN {root} \ {Null} ELSE Walk(f[k - 1], path[k])]

\* The loop has a result for every path: the function in Resolve exists.
LEMMA WalkExists ==
  \A path \in Seq(Component) : \E f : WalksTo(f, path, Len(path))
<1>1. SUFFICES ASSUME NEW path \in Seq(Component)
               PROVE  \E f : WalksTo(f, path, Len(path))
  OBVIOUS
<1> DEFINE T == { k \in Nat : \E f : WalksTo(f, path, k) }
<1>2. 0 \in T
  <2> DEFINE g == [k \in 0 .. 0 |-> {root} \ {Null}]
  <2>1. g = [k \in 0 .. 0 |-> IF k = 0 THEN {root} \ {Null} ELSE Walk(g[k - 1], path[k])]
    OBVIOUS
  <2>2. WalksTo(g, path, 0)
    BY <2>1 DEF WalksTo
  <2> QED BY <2>2
<1>3. ASSUME NEW j \in 0 .. Len(path) - 1, j \in T
      PROVE  j + 1 \in T
  <2>1. PICK f : WalksTo(f, path, j)
    BY <1>3
  <2> DEFINE g == [k \in 0 .. j + 1 |-> IF k = j + 1 THEN Walk(f[j], path[k]) ELSE f[k]]
  <2>2. \A k \in 0 .. j : f[k] = IF k = 0 THEN {root} \ {Null} ELSE Walk(f[k - 1], path[k])
    BY <2>1 DEF WalksTo
  <2>3. \A k \in 0 .. j : g[k] = f[k]
    OBVIOUS
  <2>4. \A k \in 0 .. j + 1 :
          g[k] = IF k = 0 THEN {root} \ {Null} ELSE Walk(g[k - 1], path[k])
    <3> HIDE DEF g
    <3>1. SUFFICES ASSUME NEW k \in 0 .. j + 1
                   PROVE  g[k] = IF k = 0 THEN {root} \ {Null} ELSE Walk(g[k - 1], path[k])
      OBVIOUS
    <3>2. CASE k = j + 1
      <4>1. g[k] = Walk(f[j], path[k])
        BY <3>2 DEF g
      <4>2. k # 0 /\ k - 1 = j /\ g[j] = f[j]
        BY <2>3, <3>2
      <4> QED BY <4>1, <4>2
    <3>3. CASE k # j + 1
      <4>1. k \in 0 .. j
        BY <3>3
      <4>2. k # 0 => k - 1 \in 0 .. j
        BY <4>1
      <4>3. g[k] = f[k] /\ (k # 0 => g[k - 1] = f[k - 1])
        BY <2>3, <4>1, <4>2
      <4> QED BY <2>2, <4>1, <4>3
    <3> QED BY <3>2, <3>3
  <2>5. g = [k \in 0 .. j + 1 |-> g[k]]
    OBVIOUS
  <2>6. WalksTo(g, path, j + 1)
    <3> HIDE DEF g
    <3> QED BY <2>4, <2>5 DEF WalksTo
  <2> QED BY <2>6
<1> HIDE DEF T
<1>4. Len(path) \in Nat
  OBVIOUS
<1>5. \A k \in 0 .. Len(path) : k \in T
  BY <1>2, <1>3, <1>4, UpTo
<1>6. Len(path) \in T
  BY <1>4, <1>5
<1> QED BY <1>6 DEF T

\* What Resolve returns is what some walk ends with.
LEMMA ResolveWalks ==
  \A path \in Seq(Component) :
    \E f : /\ WalksTo(f, path, Len(path))
           /\ Resolve(path) = IF f[Len(path)] = {} THEN Null
                              ELSE CHOOSE n \in f[Len(path)] : TRUE
<1>1. SUFFICES ASSUME NEW path \in Seq(Component)
               PROVE  \E f : /\ WalksTo(f, path, Len(path))
                             /\ Resolve(path) = IF f[Len(path)] = {} THEN Null
                                                ELSE CHOOSE n \in f[Len(path)] : TRUE
  OBVIOUS
<1> DEFINE at == CHOOSE f : WalksTo(f, path, Len(path))
<1>2. WalksTo(at, path, Len(path))
  BY WalkExists
<1>3. Resolve(path) = IF at[Len(path)] = {} THEN Null ELSE CHOOSE n \in at[Len(path)] : TRUE
  BY DEF Resolve, WalksTo
<1> QED BY <1>2, <1>3

-----------------------------------------------------------------------------
(* The inductive invariant.                                                *)

Slot == [name : Component, node : RamNode]

\* The nodes that exist.
Live == ({Ram} \X (1 .. used)) \cup (Flat \X (0 .. MaxEntries))

TreeTypes ==
  /\ used \in 0 .. MaxNodes
  /\ isDir \in [RamNode -> BOOLEAN]
  /\ children \in [RamNode -> Seq(Slot)]
  /\ \A i \in RamNode : Len(children[i]) <= MaxChildren
  /\ entries \in [Flat -> Seq(Component)]
  /\ \A f \in Flat : Len(entries[f]) <= MaxEntries
  /\ mounts \in Seq(Live)
  /\ Len(mounts) <= MaxMounts
  /\ mountedOn \in [RamNode -> 0 .. Len(mounts)]
  /\ root \in Live \cup {Null}
  /\ step \in Nat \ {0}

\* The root is the first node of the pool and the first mount.
RootFirst ==
  /\ step = 1 => used = 0 /\ root = Null /\ mounts = <<>>
  /\ step > 1 => root = << Ram, 1 >>

\* Slots that hold node m: the directory and the number of the slot.
Holds(i, k, m) == i \in RamNode /\ k \in 1 .. Len(children[i]) /\ children[i][k].node = m

\* The nodes beyond the last one used are empty, a slot holds a node that is
\* younger than its directory, no two slots hold the same node, and every
\* node but the first has a slot.
OneTree ==
  /\ \A i \in RamNode : i > used => ~isDir[i] /\ children[i] = <<>>
  /\ \A i, k, m : Holds(i, k, m) => i < m /\ m <= used /\ isDir[i]
  /\ \A i, j, k, l, m : Holds(i, k, m) /\ Holds(j, l, m) => i = j /\ k = l
  /\ \A m \in 2 .. used : \E i, k : Holds(i, k, m)

TreeInv == TreeTypes /\ RootFirst /\ OneTree

\* A node found in a directory, or entered, exists.
LEMMA FoundLive ==
  TreeInv => \A n \in Live : \A name : \A m \in FindDir(n, name) : m \in Live /\ Entered(m) \in Live
<1>1. SUFFICES ASSUME TreeInv, NEW n \in Live, NEW name, NEW m \in FindDir(n, name)
               PROVE  m \in Live /\ Entered(m) \in Live
  OBVIOUS
<1> USE VfsAssumption
<1>2. PICK i \in 1 .. Count(n) : IsDirectory(n) /\ m = NodeIn(n, i)
  BY <1>1 DEF FindDir, Matches
<1>3. m \in Live
  <2>1. CASE n[1] = Ram
    <3>1. n[2] \in RamNode /\ i \in 1 .. Len(children[n[2]])
      BY <1>1, <1>2, <2>1 DEF Live, RamNode, Count, TreeInv, TreeTypes
    <3>2. children[n[2]][i] \in Slot
      BY <1>1, <3>1 DEF TreeInv, TreeTypes
    <3>3. Holds(n[2], i, children[n[2]][i].node)
      BY <3>1 DEF Holds
    <3>4. children[n[2]][i].node \in 1 .. used
      <4>1. \A d, k, c : Holds(d, k, c) => c <= used
        BY <1>1, Zenon DEF TreeInv, OneTree
      <4>2. children[n[2]][i].node \in 1 .. MaxNodes /\ used \in 0 .. MaxNodes
        BY <1>1, <3>2 DEF TreeInv, TreeTypes, Slot, RamNode
      <4>3. children[n[2]][i].node <= used
        BY <3>3, <4>1, Zenon
      <4> QED BY <4>2, <4>3
    <3> QED BY <1>2, <2>1, <3>4 DEF NodeIn, Live
  <2>2. CASE n[1] # Ram
    <3>1. n[1] \in Flat
      BY <1>1, <2>2 DEF Live
    <3>2. i \in 0 .. MaxEntries
      BY <1>1, <1>2, <2>2, <3>1 DEF Count, TreeInv, TreeTypes
    <3> QED BY <1>2, <2>2, <3>1, <3>2 DEF NodeIn, Live
  <2> QED BY <2>1, <2>2
<1>4. Entered(m) \in Live
  <2>1. CASE m[1] = Ram /\ mountedOn[m[2]] # 0
    <3>1. m[2] \in RamNode
      BY <1>1, <1>3, <2>1 DEF Live, RamNode, TreeInv, TreeTypes
    <3>2. mountedOn[m[2]] \in 1 .. Len(mounts)
      BY <1>1, <2>1, <3>1 DEF TreeInv, TreeTypes
    <3> QED BY <1>1, <2>1, <3>2 DEF Entered, TreeInv, TreeTypes
  <2>2. CASE ~(m[1] = Ram /\ mountedOn[m[2]] # 0)
    BY <1>3, <2>2 DEF Entered
  <2> QED BY <2>1, <2>2
<1> QED BY <1>3, <1>4

\* A directory gives at most one node for a name.
LEMMA FoundOnce ==
  TreeInv => \A n \in Live : \A name : \A p, q \in FindDir(n, name) : p = q
<1>1. SUFFICES ASSUME TreeInv, NEW n \in Live, NEW name,
                      NEW p \in FindDir(n, name), NEW q \in FindDir(n, name)
               PROVE  p = q
  OBVIOUS
<1>2. PICK i \in Matches(n, name) : p = NodeIn(n, i) /\ \A k \in Matches(n, name) : i <= k
  BY DEF FindDir
<1>3. PICK j \in Matches(n, name) : q = NodeIn(n, j) /\ \A k \in Matches(n, name) : j <= k
  BY DEF FindDir
<1>4. i \in Int /\ j \in Int /\ i <= j /\ j <= i
  BY <1>2, <1>3 DEF Matches
<1> QED BY <1>2, <1>3, <1>4

\* What a walk can be at: nothing, or one node that exists.
Spots == { {} } \cup { {n} : n \in Live }

LEMMA WalkStays ==
  TreeInv => \A N \in Spots : \A name : Walk(N, name) \in Spots
<1>1. SUFFICES ASSUME TreeInv, NEW N \in Spots, NEW name PROVE Walk(N, name) \in Spots
  OBVIOUS
<1>2. CASE name = Empty
  BY <1>1, <1>2 DEF Walk
<1>3. CASE name # Empty /\ N = {}
  <2>1. Walk(N, name) = {}
    BY <1>3 DEF Walk
  <2> QED BY <2>1 DEF Spots
<1>4. CASE name # Empty /\ N # {}
  <2>1. PICK n \in Live : N = {n}
    BY <1>4 DEF Spots
  <2>2. Walk(N, name) = { Entered(m) : m \in FindDir(n, name) }
    BY <1>4, <2>1 DEF Walk
  <2>3. CASE FindDir(n, name) = {}
    BY <2>2, <2>3 DEF Spots
  <2>4. CASE FindDir(n, name) # {}
    <3>1. PICK m : m \in FindDir(n, name)
      BY <2>4
    <3>2. \A p \in FindDir(n, name) : p = m
      BY <1>1, <3>1, FoundOnce
    <3>3. { Entered(p) : p \in FindDir(n, name) } = { Entered(m) }
      BY <3>1, <3>2
    <3>4. Entered(m) \in Live
      BY <1>1, <3>1, FoundLive
    <3> QED BY <2>2, <3>3, <3>4 DEF Spots
  <2> QED BY <2>3, <2>4
<1> QED BY <1>2, <1>3, <1>4

\* A walk is at one of them after every component.
LEMMA WalkSpots ==
  TreeInv => \A path \in Seq(Component) : \A f :
    WalksTo(f, path, Len(path)) => \A k \in 0 .. Len(path) : f[k] \in Spots
<1>1. SUFFICES ASSUME TreeInv, NEW path \in Seq(Component), NEW f,
                      WalksTo(f, path, Len(path))
               PROVE  \A k \in 0 .. Len(path) : f[k] \in Spots
  OBVIOUS
<1> DEFINE T == { k \in 0 .. Len(path) : f[k] \in Spots }
<1>2. \A k \in 0 .. Len(path) :
        f[k] = IF k = 0 THEN {root} \ {Null} ELSE Walk(f[k - 1], path[k])
  BY <1>1 DEF WalksTo
<1>3. Len(path) \in Nat
  OBVIOUS
<1>4. 0 \in T
  <2>1. f[0] = {root} \ {Null}
    BY <1>2, <1>3
  <2>2. {root} \ {Null} \in Spots
    BY <1>1 DEF Spots, TreeInv, TreeTypes
  <2>3. 0 \in 0 .. Len(path)
    BY <1>3
  <2> QED BY <2>1, <2>2, <2>3
<1>5. ASSUME NEW k \in 0 .. Len(path) - 1, k \in T
      PROVE  k + 1 \in T
  <2>1. f[k + 1] = Walk(f[k], path[k + 1])
    BY <1>2, <1>3
  <2>2. f[k] \in Spots
    BY <1>5
  <2>3. f[k + 1] \in Spots
    BY <1>1, <2>1, <2>2, WalkStays
  <2>4. k + 1 \in 0 .. Len(path)
    BY <1>3
  <2> QED BY <2>3, <2>4
<1> HIDE DEF T
<1>6. \A k \in 0 .. Len(path) : k \in T
  BY <1>3, <1>4, <1>5, UpTo
<1> QED BY <1>6 DEF T

\* Resolving a path gives a node that exists, or none.
LEMMA ResolveLive ==
  TreeInv => \A path \in Seq(Component) : Resolve(path) \in Live \cup {Null}
<1>1. SUFFICES ASSUME TreeInv, NEW path \in Seq(Component)
               PROVE  Resolve(path) \in Live \cup {Null}
  OBVIOUS
<1>2. PICK f : /\ WalksTo(f, path, Len(path))
               /\ Resolve(path) = IF f[Len(path)] = {} THEN Null
                                  ELSE CHOOSE n \in f[Len(path)] : TRUE
  BY ResolveWalks
<1>3. Len(path) \in 0 .. Len(path)
  OBVIOUS
<1>4. f[Len(path)] \in Spots
  BY <1>1, <1>2, <1>3, WalkSpots
<1> QED BY <1>2, <1>4 DEF Spots

LEMMA ResolveLivePrime ==
  (TreeInv => \A path \in Seq(Component) : Resolve(path) \in Live \cup {Null})'
<1>1. TreeInv => \A path \in Seq(Component) : Resolve(path) \in Live \cup {Null}
  BY ResolveLive
<1> QED BY <1>1, PTL

\* Walks along a path and along a longer one that begins with it agree, and a
\* walk that is nowhere stays there; so what leads somewhere does so all along.
LEMMA PrefixResolves ==
  ASSUME TreeInv, NEW path \in Seq(Component), Resolve(path) # Null,
         NEW n \in 0 .. Len(path)
  PROVE  Resolve(SubSeq(path, 1, n)) # Null
<1>1. PICK p : p = SubSeq(path, 1, n)
  OBVIOUS
<1>2. /\ Len(path) \in Nat /\ n \in Nat /\ p \in Seq(Component) /\ Len(p) = n
      /\ \A k \in 1 .. n : p[k] = path[k]
  BY <1>1
<1>3. PICK f : /\ WalksTo(f, path, Len(path))
               /\ Resolve(path) = IF f[Len(path)] = {} THEN Null
                                  ELSE CHOOSE m \in f[Len(path)] : TRUE
  BY ResolveWalks
<1>4. PICK g : /\ WalksTo(g, p, Len(p))
               /\ Resolve(p) = IF g[Len(p)] = {} THEN Null
                               ELSE CHOOSE m \in g[Len(p)] : TRUE
  BY <1>2, ResolveWalks
<1>5. \A k \in 0 .. Len(path) :
        f[k] = IF k = 0 THEN {root} \ {Null} ELSE Walk(f[k - 1], path[k])
  BY <1>3 DEF WalksTo
<1>6. \A k \in 0 .. n :
        g[k] = IF k = 0 THEN {root} \ {Null} ELSE Walk(g[k - 1], p[k])
  BY <1>2, <1>4 DEF WalksTo
<1>7. \A k \in 0 .. n : g[k] = f[k]
  <2> DEFINE T == { k \in 0 .. n : g[k] = f[k] }
  <2>1. 0 \in T
    <3>1. 0 \in 0 .. n /\ 0 \in 0 .. Len(path)
      BY <1>2
    <3> QED BY <1>5, <1>6, <3>1
  <2>2. ASSUME NEW k \in 0 .. n - 1, k \in T
        PROVE  k + 1 \in T
    <3>1. /\ k + 1 \in 0 .. n /\ k + 1 \in 0 .. Len(path) /\ k + 1 \in 1 .. n
          /\ (k + 1) - 1 = k /\ k + 1 # 0
      BY <1>2
    <3>2. f[k + 1] = Walk(f[k], path[k + 1]) /\ g[k + 1] = Walk(g[k], p[k + 1])
      BY <1>5, <1>6, <3>1
    <3>3. p[k + 1] = path[k + 1] /\ g[k] = f[k]
      BY <1>2, <2>2, <3>1
    <3> QED BY <3>1, <3>2, <3>3
  <2> HIDE DEF T
  <2>3. \A k \in 0 .. n : k \in T
    BY <1>2, <2>1, <2>2, UpTo
  <2> QED BY <2>3 DEF T
<1>8. f[n] # {}
  <2> SUFFICES ASSUME f[n] = {} PROVE FALSE
    OBVIOUS
  <2> DEFINE T == { k \in Nat : n + k <= Len(path) => f[n + k] = {} }
  <2>1. 0 \in T
    BY <1>2
  <2>2. ASSUME NEW k \in 0 .. Len(path) - n - 1, k \in T
        PROVE  k + 1 \in T
    <3>1. /\ k \in Nat /\ n + k <= Len(path) /\ n + (k + 1) \in 0 .. Len(path)
          /\ n + (k + 1) # 0 /\ (n + (k + 1)) - 1 = n + k
      BY <1>2
    <3>2. f[n + (k + 1)] = Walk(f[n + k], path[n + (k + 1)]) /\ f[n + k] = {}
      BY <1>5, <2>2, <3>1
    <3>3. f[n + (k + 1)] = {}
      BY <3>2 DEF Walk
    <3> QED BY <3>1, <3>3
  <2> HIDE DEF T
  <2>3. Len(path) - n \in Nat /\ Len(path) - n \in 0 .. Len(path) - n
    BY <1>2
  <2>4. Len(path) - n \in T
    BY <2>1, <2>2, <2>3, UpTo
  <2>5. n + (Len(path) - n) = Len(path)
    BY <1>2
  <2>6. f[Len(path)] = {}
    BY <1>2, <2>4, <2>5 DEF T
  <2> QED BY <1>3, <2>6
<1>9. f[n] \in Spots
  BY <1>3, WalkSpots
<1>10. PICK m \in Live : f[n] = {m}
  BY <1>8, <1>9 DEF Spots
<1>11. n \in 0 .. n
  BY <1>2
<1>12. Resolve(p) = m
  BY <1>2, <1>4, <1>7, <1>10, <1>11
<1>13. m # Null
  BY VfsAssumption DEF Null, Live, Ram
<1> QED BY <1>1, <1>12, <1>13

-----------------------------------------------------------------------------
(* Every step only fills slots that were free.                             *)

Grows ==
  \A n \in Live :
    /\ n \in Live'
    /\ IsDirectory(n)' = IsDirectory(n)
    /\ Count(n) <= Count(n)'
    /\ \A i \in 1 .. Count(n) :
         NameIn(n, i)' = NameIn(n, i) /\ NodeIn(n, i)' = NodeIn(n, i)

Prefix(s, t) == Len(s) <= Len(t) /\ \A k \in 1 .. Len(s) : t[k] = s[k]

LEMMA GrowsFrom ==
  ASSUME TreeTypes, TreeTypes',
         used <= used',
         \A i \in 1 .. used : isDir'[i] = isDir[i] /\ Prefix(children[i], children'[i]),
         \A f \in Flat : Prefix(entries[f], entries'[f])
  PROVE  Grows
<1>1. SUFFICES ASSUME NEW n \in Live
               PROVE  /\ n \in Live'
                      /\ IsDirectory(n)' = IsDirectory(n)
                      /\ Count(n) <= Count(n)'
                      /\ \A i \in 1 .. Count(n) :
                           NameIn(n, i)' = NameIn(n, i) /\ NodeIn(n, i)' = NodeIn(n, i)
  BY DEF Grows
<1> USE VfsAssumption
<1>2. n \in Live'
  BY DEF Live, TreeTypes
<1>3. CASE n[1] = Ram
  <2>1. n[2] \in 1 .. used
    BY <1>3 DEF Live
  <2>2. Prefix(children[n[2]], children'[n[2]]) /\ isDir'[n[2]] = isDir[n[2]]
    BY <2>1
  <2>3. IsDirectory(n)' = IsDirectory(n)
    BY <1>3, <2>2 DEF IsDirectory
  <2>4. Count(n) <= Count(n)'
    BY <1>3, <2>2 DEF Count, Prefix
  <2>5. \A i \in 1 .. Count(n) : children'[n[2]][i] = children[n[2]][i]
    BY <1>3, <2>2 DEF Count, Prefix
  <2>6. \A i \in 1 .. Count(n) :
          NameIn(n, i)' = NameIn(n, i) /\ NodeIn(n, i)' = NodeIn(n, i)
    BY <1>3, <2>5 DEF NameIn, NodeIn
  <2> QED BY <1>2, <2>3, <2>4, <2>6
<1>4. CASE n[1] # Ram
  <2>1. n[1] \in Flat
    BY <1>4 DEF Live
  <2>2. Prefix(entries[n[1]], entries'[n[1]])
    BY <2>1
  <2>3. IsDirectory(n)' = IsDirectory(n)
    BY <1>4 DEF IsDirectory
  <2>4. Count(n) <= Count(n)'
    BY <1>4, <2>2 DEF Count, Prefix
  <2>5. \A i \in 1 .. Count(n) : entries'[n[1]][i] = entries[n[1]][i]
    BY <1>4, <2>2 DEF Count, Prefix
  <2>6. \A i \in 1 .. Count(n) :
          NameIn(n, i)' = NameIn(n, i) /\ NodeIn(n, i)' = NodeIn(n, i)
    BY <1>4, <2>5 DEF NameIn, NodeIn
  <2> QED BY <1>2, <2>3, <2>4, <2>6
<1> QED BY <1>3, <1>4

LEMMA PrefixSame ==
  ASSUME NEW D, NEW s \in Seq(D) PROVE Prefix(s, s)
BY DEF Prefix

LEMMA PrefixAppend ==
  ASSUME NEW D, NEW s \in Seq(D), NEW d \in D
  PROVE  /\ Prefix(s, Append(s, d))
         /\ Append(s, d) \in Seq(D)
         /\ Len(Append(s, d)) = Len(s) + 1
         /\ Append(s, d)[Len(s) + 1] = d
BY DEF Prefix

\* The mounts known so far stay, and more nodes may exist.
LEMMA MoreMounts ==
  ASSUME TreeTypes, Live \subseteq Live'
  PROVE  mounts \in Seq(Live')
BY DEF TreeTypes

\* The capacities are positive.
LEMMA Sizes ==
  /\ MaxNodes \in Nat \ {0} /\ MaxChildren \in Nat \ {0} /\ MaxEntries \in Nat \ {0}
  /\ MaxMounts \in Nat \ {0} /\ Size \in Nat \ {0} /\ Chunk \in Nat \ {0}
BY VfsAssumption

\* What ramfs_create changes, the file systems below and the mounts left alone.
LEMMA CreateKeeps ==
  ASSUME TreeInv,
         NEW n \in Live \cup {Null}, NEW name \in Component, NEW directory \in BOOLEAN,
         Create(n, name, directory),
         UNCHANGED << entries, mounts, mountedOn, root >>,
         step' \in Nat \ {0}, step' > 1 <=> step > 1
  PROVE  TreeInv' /\ Grows
<1> USE VfsAssumption
<1>1. CASE ~CanCreate(n)
  <2>1. UNCHANGED << used, isDir, children >>
    BY <1>1 DEF Create, tree
  <2>2. Live' = Live
    BY <2>1 DEF Live
  <2>3. TreeTypes' /\ TreeTypes
    BY <2>1, <2>2 DEF TreeInv, TreeTypes
  <2>4. RootFirst'
    BY <2>1 DEF TreeInv, TreeTypes, RootFirst
  <2>5. OneTree'
    BY <2>1 DEF TreeInv, OneTree, Holds
  <2>6. \A i \in 1 .. used : isDir'[i] = isDir[i] /\ Prefix(children[i], children'[i])
    BY <2>1, <2>3 DEF TreeTypes, Prefix, RamNode
  <2>7. \A f \in Flat : Prefix(entries[f], entries'[f])
    BY <2>3 DEF TreeTypes, Prefix
  <2>8. Grows
    BY <2>1, <2>3, <2>6, <2>7, GrowsFrom DEF TreeTypes
  <2> QED BY <2>3, <2>4, <2>5, <2>8 DEF TreeInv
<1>2. CASE CanCreate(n)
  <2> DEFINE p == n[2]
             new == used + 1
             slot == [name |-> Cut(name), node |-> new]
  <2>1. /\ TreeTypes
        /\ n[1] = Ram /\ isDir[p] /\ Len(children[p]) < MaxChildren /\ used < MaxNodes
    BY <1>2 DEF TreeInv, CanCreate, HasSlot
  <2>2. p \in 1 .. used
    BY <2>1 DEF Live, Null, Ram
  <2>3. used \in Nat /\ used >= 1 /\ new \in RamNode /\ p \in RamNode /\ p < new /\ p # new
    <3>1. used \in Nat /\ used < MaxNodes
      BY <2>1, Sizes DEF TreeTypes
    <3>2. p \in Int /\ 1 <= p /\ p <= used
      BY <2>2, <3>1
    <3> HIDE DEF p
    <3> QED BY <3>1, <3>2, Sizes DEF RamNode
  <2>4. slot \in Slot
    BY <2>3 DEF Slot
  <2>5. /\ used' = new
        /\ isDir' = [isDir EXCEPT ![new] = directory]
        /\ children' = [children EXCEPT ![p] = Append(children[p], slot)]
    BY <1>2 DEF Create
  <2>6. children[p] \in Seq(Slot) /\ Len(children[p]) \in Nat
    BY <2>1, <2>3 DEF TreeTypes
  <2>7. slot.node = new
    OBVIOUS
  <2> HIDE DEF slot
  <2>8. /\ Prefix(children[p], Append(children[p], slot))
        /\ Append(children[p], slot) \in Seq(Slot)
        /\ Len(Append(children[p], slot)) = Len(children[p]) + 1
        /\ Append(children[p], slot)[Len(children[p]) + 1] = slot
    BY <2>4, <2>6, PrefixAppend
  <2>9. /\ children' \in [RamNode -> Seq(Slot)]
        /\ children'[p] = Append(children[p], slot)
        /\ \A i \in RamNode : i # p => children'[i] = children[i]
    BY <2>1, <2>3, <2>5, <2>8 DEF TreeTypes
  <2>10. /\ isDir' \in [RamNode -> BOOLEAN]
         /\ \A i \in RamNode : i # new => isDir'[i] = isDir[i]
    BY <2>1, <2>3, <2>5 DEF TreeTypes
  <2>11. Live \subseteq Live'
    BY <2>3, <2>5 DEF Live
  <2>12. mounts' \in Seq(Live') /\ root' \in Live' \cup {Null}
    BY <2>1, <2>11, MoreMounts DEF TreeTypes
  <2>13. \A i \in RamNode : Len(children'[i]) <= MaxChildren
    <3>1. Len(children'[p]) <= MaxChildren
      BY <2>1, <2>6, <2>8, <2>9, Sizes
    <3>2. \A i \in RamNode : i # p => Len(children'[i]) <= MaxChildren
      BY <2>1, <2>9 DEF TreeTypes
    <3> QED BY <3>1, <3>2
  <2>14. TreeTypes'
    <3>1. used' \in 0 .. MaxNodes
      BY <2>1, <2>3, <2>5, Sizes
    <3> QED BY <2>1, <2>9, <2>10, <2>12, <2>13, <3>1 DEF TreeTypes
  <2>15. RootFirst'
    <3>1. step # 1
      BY <2>3 DEF TreeInv, RootFirst
    <3>2. step > 1 /\ step' > 1
      BY <2>1, <3>1 DEF TreeTypes
    <3> QED BY <3>1, <3>2 DEF TreeInv, RootFirst
  <2>16. OneTree'
    <3>1. \A i \in RamNode : i > used' => ~isDir'[i] /\ children'[i] = <<>>
      BY <2>2, <2>3, <2>5, <2>9, <2>10 DEF TreeInv, OneTree, RamNode
    <3>2. \A i, k, m : Holds(i, k, m)' <=>
                         Holds(i, k, m) \/ (i = p /\ k = Len(children[p]) + 1 /\ m = new)
      <4>1. SUFFICES ASSUME NEW i, NEW k, NEW m
                     PROVE  Holds(i, k, m)' <=>
                         Holds(i, k, m) \/ (i = p /\ k = Len(children[p]) + 1 /\ m = new)
        OBVIOUS
      <4>2. CASE i \notin RamNode
        BY <2>3, <4>2 DEF Holds
      <4>3. CASE i \in RamNode /\ i # p
        BY <2>9, <4>3 DEF Holds
      <4>4. CASE i = p
        <5>1. 1 .. Len(children'[p]) = (1 .. Len(children[p])) \cup {Len(children[p]) + 1}
          <6>1. Len(children'[p]) = Len(children[p]) + 1
            BY <2>8, <2>9, Zenon
          <6>2. \A x \in Nat : 1 .. x + 1 = (1 .. x) \cup {x + 1}
            OBVIOUS
          <6> QED BY <2>6, <6>1, <6>2, Zenon
        <5>2. \A j \in 1 .. Len(children[p]) : children'[p][j] = children[p][j]
          BY <2>8, <2>9 DEF Prefix
        <5>3. children'[p][Len(children[p]) + 1].node = new
          BY <2>7, <2>8, <2>9
        <5>4. Len(children[p]) + 1 \notin 1 .. Len(children[p])
          BY <2>6
        <5> DEFINE end == Len(children[p]) + 1
        <5> HIDE DEF end
        <5>5. Holds(p, k, m)' <=> k \in 1 .. Len(children'[p]) /\ children'[p][k].node = m
          BY <2>3 DEF Holds
        <5>6. Holds(p, k, m) <=> k \in 1 .. Len(children[p]) /\ children[p][k].node = m
          BY <2>3 DEF Holds
        <5>7. Holds(p, k, m)' <=> Holds(p, k, m) \/ (k = end /\ m = new)
          BY <5>1, <5>2, <5>3, <5>4, <5>5, <5>6, Zenon DEF end
        <5> QED BY <4>4, <5>7, Zenon DEF end
      <4> QED BY <4>2, <4>3, <4>4
    <3>3. \A i, k, m : Holds(i, k, m) => i < m /\ m <= used /\ isDir[i] /\ i \in RamNode
      <4>1. \A i, k, m : Holds(i, k, m) => i < m /\ m <= used /\ isDir[i]
        BY Zenon DEF TreeInv, OneTree
      <4>2. \A i, k, m : Holds(i, k, m) => i \in RamNode
        BY Zenon DEF Holds
      <4> QED BY <4>1, <4>2, Zenon
    <3>4. \A i, k, m : Holds(i, k, m)' => i < m /\ m <= used' /\ isDir'[i]
      <4>1. SUFFICES ASSUME NEW i, NEW k, NEW m, Holds(i, k, m)'
                     PROVE  i < m /\ m <= used' /\ isDir'[i]
        OBVIOUS
      <4>2. CASE Holds(i, k, m)
        <5>1. i \in RamNode /\ i < m /\ m <= used /\ isDir[i]
          BY <3>3, <4>2
        <5>2. m \in Int
          <6>1. i \in RamNode /\ k \in 1 .. Len(children[i]) /\ m = children[i][k].node
            BY <4>2 DEF Holds
          <6>2. children[i][k] \in Slot
            BY <2>1, <6>1 DEF TreeTypes
          <6> QED BY <6>1, <6>2 DEF Slot, RamNode
        <5>3. i # new /\ m <= new
          BY <2>3, <5>1, <5>2 DEF RamNode
        <5> QED BY <2>5, <2>10, <5>1, <5>3
      <4>3. CASE i = p /\ m = new
        BY <2>1, <2>3, <2>5, <2>10, <4>3
      <4> QED BY <3>2, <4>1, <4>2, <4>3
    <3>5. \A i, k : ~Holds(i, k, new)
      BY <2>3, <3>3
    <3>6. \A i, j, k, l, m : Holds(i, k, m)' /\ Holds(j, l, m)' => i = j /\ k = l
      BY <3>2, <3>5 DEF TreeInv, OneTree
    <3>7. \A m \in 2 .. used' : \E i, k : Holds(i, k, m)'
      <4>1. SUFFICES ASSUME NEW m \in 2 .. used' PROVE \E i, k : Holds(i, k, m)'
        OBVIOUS
      <4>2. CASE m = new
        BY <3>2, <4>2
      <4>3. CASE m # new
        <5>1. m \in 2 .. used
          BY <2>3, <2>5, <4>3
        <5> QED BY <3>2, <5>1 DEF TreeInv, OneTree
      <4> QED BY <4>2, <4>3
    <3> QED BY <3>1, <3>4, <3>6, <3>7 DEF OneTree
  <2>17. \A i \in 1 .. used : isDir'[i] = isDir[i] /\ Prefix(children[i], children'[i])
    <3>1. SUFFICES ASSUME NEW i \in 1 .. used
                   PROVE  isDir'[i] = isDir[i] /\ Prefix(children[i], children'[i])
      OBVIOUS
    <3>2. i \in RamNode /\ i # new
      BY <2>3 DEF RamNode
    <3>3. children[i] \in Seq(Slot)
      BY <2>1, <3>2 DEF TreeTypes
    <3>4. isDir'[i] = isDir[i]
      BY <2>10, <3>2
    <3>5. Prefix(children[i], children[i])
      BY <3>3, PrefixSame
    <3>6. CASE i = p
      BY <2>8, <2>9, <3>4, <3>6, Zenon
    <3>7. CASE i # p
      BY <2>9, <3>2, <3>4, <3>5, <3>7, Zenon
    <3> QED BY <3>6, <3>7
  <2>18. \A f \in Flat : Prefix(entries[f], entries'[f])
    BY <2>1, PrefixSame DEF TreeTypes
  <2>19. used <= used'
    BY <2>3, <2>5
  <2>20. Grows
    BY <2>1, <2>14, <2>17, <2>18, <2>19, GrowsFrom
  <2> QED BY <2>14, <2>15, <2>16, <2>20 DEF TreeInv
<1> QED BY <1>1, <1>2

\* A live node of ramfs is one of the pool.
LEMMA RamLive ==
  TreeTypes => \A n \in Live : n[1] = Ram => n[2] \in RamNode
<1>1. SUFFICES ASSUME TreeTypes, NEW n \in Live, n[1] = Ram PROVE n[2] \in RamNode
  OBVIOUS
<1>2. n[2] \in 1 .. used
  BY <1>1, VfsAssumption DEF Live
<1> QED BY <1>1, <1>2, Sizes DEF TreeTypes, RamNode

\* vfs_mount of the root, the first step of the boot sequence.
LEMMA MountRootKeeps ==
  ASSUME TreeInv, MountRoot, step = 1, step' = 2
  PROVE  TreeInv' /\ Grows
<1> USE VfsAssumption
<1>1. TreeTypes /\ used = 0 /\ root = Null /\ mounts = <<>>
  BY DEF TreeInv, RootFirst
<1>2. /\ used' = 1
      /\ isDir' = [isDir EXCEPT ![1] = TRUE]
      /\ mounts' = Append(<<>>, << Ram, 1 >>)
      /\ root' = << Ram, 1 >>
      /\ mountedOn' = [mountedOn EXCEPT ![1] = 1]
      /\ children' = children /\ entries' = entries
  BY <1>1, Sizes DEF MountRoot
<1>3. 1 \in RamNode
  BY Sizes DEF RamNode
<1>4. << Ram, 1 >> \in Live'
  BY <1>2 DEF Live
<1>5. mounts' \in Seq(Live') /\ Len(mounts') = 1
  BY <1>2, <1>4
<1>6. mountedOn' \in [RamNode -> 0 .. Len(mounts')]
  BY <1>1, <1>2, <1>3, <1>5 DEF TreeTypes
<1>7. isDir' \in [RamNode -> BOOLEAN] /\ \A i \in RamNode : i # 1 => isDir'[i] = isDir[i]
  BY <1>1, <1>2, <1>3 DEF TreeTypes
<1>8. used' \in 0 .. MaxNodes /\ Len(mounts') <= MaxMounts
  BY <1>2, <1>5, Sizes
<1>9. TreeTypes'
  BY <1>1, <1>2, <1>4, <1>5, <1>6, <1>7, <1>8 DEF TreeTypes
<1>10. RootFirst'
  BY <1>2 DEF RootFirst
<1>11. \A i \in RamNode : ~isDir[i] /\ children[i] = <<>>
  BY <1>1 DEF TreeInv, OneTree, RamNode
<1>12. \A i, k, m : ~Holds(i, k, m)'
  BY <1>2, <1>11 DEF Holds
<1>13. OneTree'
  <2>1. \A i \in RamNode : i > used' => ~isDir'[i] /\ children'[i] = <<>>
    BY <1>2, <1>7, <1>11 DEF RamNode
  <2>2. 2 .. used' = {}
    BY <1>2
  <2> QED BY <1>12, <2>1, <2>2 DEF OneTree
<1>14. Grows
  <2>1. used <= used' /\ 1 .. used = {}
    BY <1>1, <1>2
  <2>2. \A f \in Flat : Prefix(entries[f], entries'[f])
    BY <1>1, <1>2, PrefixSame DEF TreeTypes
  <2> QED BY <1>1, <1>9, <2>1, <2>2, GrowsFrom
<1> QED BY <1>9, <1>10, <1>13, <1>14 DEF TreeInv

\* vfs_mount of a flat file system.
LEMMA MountKeeps ==
  ASSUME TreeInv, NEW path \in Seq(Component), NEW f \in Flat, Mount(path, f),
         step > 1, step' = step + 1
  PROVE  TreeInv' /\ Grows
<1> USE VfsAssumption
<1> DEFINE n == Resolve(path)
<1>1. TreeTypes /\ n \in Live \cup {Null}
  BY ResolveLive DEF TreeInv
<1> HIDE DEF n
<1>2. UNCHANGED << used, isDir, children, entries, root >>
  BY DEF Mount, tree
<1>3. Live' = Live
  BY <1>2 DEF Live
<1>4. /\ mounts' \in Seq(Live') /\ Len(mounts') <= MaxMounts
      /\ mountedOn' \in [RamNode -> 0 .. Len(mounts')]
  <2>1. CASE Len(mounts) < MaxMounts /\ n[1] = Ram /\ IsDirectory(n)
    <3>1. /\ mounts' = Append(mounts, << f, 0 >>)
          /\ mountedOn' = [mountedOn EXCEPT ![n[2]] = Len(mounts) + 1]
      BY <2>1 DEF Mount, n
    <3>2. << f, 0 >> \in Live
      BY Sizes DEF Live
    <3>3. n[2] \in RamNode
      <4>1. n # Null
        BY <2>1 DEF Null, Ram
      <4>2. n \in Live
        BY <1>1, <4>1
      <4> QED BY <1>1, <2>1, <4>2, RamLive, Zenon
    <3>4. mounts' \in Seq(Live) /\ Len(mounts') = Len(mounts) + 1 /\ Len(mounts) \in Nat
      BY <1>1, <3>1, <3>2 DEF TreeTypes
    <3>5. Len(mounts') <= MaxMounts
      BY <2>1, <3>4, Sizes
    <3>6. 0 .. Len(mounts) \subseteq 0 .. Len(mounts') /\ Len(mounts) + 1 \in 0 .. Len(mounts')
      BY <3>4
    <3>7. mountedOn' \in [RamNode -> 0 .. Len(mounts')]
      BY <1>1, <3>1, <3>3, <3>6 DEF TreeTypes
    <3> QED BY <1>3, <3>4, <3>5, <3>7
  <2>2. CASE ~(Len(mounts) < MaxMounts /\ n[1] = Ram /\ IsDirectory(n))
    <3>1. UNCHANGED << mounts, mountedOn >>
      BY <2>2 DEF Mount, n
    <3> QED BY <1>1, <1>3, <3>1 DEF TreeTypes
  <2> QED BY <2>1, <2>2
<1>5. TreeTypes'
  BY <1>1, <1>2, <1>3, <1>4 DEF TreeTypes
<1>6. RootFirst'
  BY <1>1, <1>2 DEF TreeInv, RootFirst, TreeTypes
<1>7. OneTree'
  BY <1>2 DEF TreeInv, OneTree, Holds
<1>8. Grows
  <2>1. \A i \in 1 .. used : isDir'[i] = isDir[i] /\ Prefix(children[i], children'[i])
    <3>1. \A i \in RamNode : Prefix(children[i], children[i])
      BY <1>1, PrefixSame DEF TreeTypes
    <3>2. 1 .. used \subseteq RamNode
      BY <1>1, Sizes DEF TreeTypes, RamNode
    <3> QED BY <1>2, <3>1, <3>2
  <2>2. \A g \in Flat : Prefix(entries[g], entries'[g])
    BY <1>1, <1>2, PrefixSame DEF TreeTypes
  <2>3. used <= used'
    BY <1>1, <1>2 DEF TreeTypes
  <2> QED BY <1>1, <1>5, <2>1, <2>2, <2>3, GrowsFrom
<1> QED BY <1>5, <1>6, <1>7, <1>8 DEF TreeInv

\* devfs_add_device and procfs_add_entry.
LEMMA AddEntryKeeps ==
  ASSUME TreeInv, NEW f \in Flat, NEW name \in Component, AddEntry(f, name),
         step > 1, step' = step + 1
  PROVE  TreeInv' /\ Grows
<1> USE VfsAssumption
<1>1. TreeTypes
  BY DEF TreeInv
<1>2. UNCHANGED << used, isDir, children, mounts, mountedOn, root >>
  BY DEF AddEntry, tree
<1>3. Live' = Live
  BY <1>2 DEF Live
<1>4. /\ entries' \in [Flat -> Seq(Component)]
      /\ \A g \in Flat : Len(entries'[g]) <= MaxEntries /\ Prefix(entries[g], entries'[g])
  <2>1. CASE Len(entries[f]) < MaxEntries
    <3>1. entries' = [entries EXCEPT ![f] = Append(entries[f], Cut(name))]
      BY <2>1 DEF AddEntry
    <3>2. Cut(name) \in Component /\ entries[f] \in Seq(Component)
      BY <1>1 DEF TreeTypes
    <3>3. /\ Prefix(entries[f], Append(entries[f], Cut(name)))
          /\ Append(entries[f], Cut(name)) \in Seq(Component)
          /\ Len(Append(entries[f], Cut(name))) = Len(entries[f]) + 1
      BY <3>2, PrefixAppend
    <3>4. /\ entries' \in [Flat -> Seq(Component)]
          /\ entries'[f] = Append(entries[f], Cut(name))
          /\ \A g \in Flat : g # f => entries'[g] = entries[g]
      BY <1>1, <3>1, <3>3 DEF TreeTypes
    <3>5. Len(entries'[f]) <= MaxEntries
      <4>1. Len(entries[f]) \in Nat
        BY <3>2
      <4> QED BY <2>1, <3>3, <3>4, <4>1, Sizes
    <3>6. \A g \in Flat : g # f => Len(entries'[g]) <= MaxEntries /\ Prefix(entries[g], entries'[g])
      BY <1>1, <3>4, PrefixSame DEF TreeTypes
    <3> QED BY <3>3, <3>4, <3>5, <3>6
  <2>2. CASE ~(Len(entries[f]) < MaxEntries)
    <3>1. entries' = entries
      BY <2>2 DEF AddEntry
    <3> QED BY <1>1, <3>1, PrefixSame DEF TreeTypes
  <2> QED BY <2>1, <2>2
<1>5. TreeTypes'
  BY <1>1, <1>2, <1>3, <1>4 DEF TreeTypes
<1>6. RootFirst'
  BY <1>1, <1>2 DEF TreeInv, RootFirst, TreeTypes
<1>7. OneTree'
  BY <1>2 DEF TreeInv, OneTree, Holds
<1>8. Grows
  <2>1. \A i \in 1 .. used : isDir'[i] = isDir[i] /\ Prefix(children[i], children'[i])
    <3>1. \A i \in RamNode : Prefix(children[i], children[i])
      BY <1>1, PrefixSame DEF TreeTypes
    <3>2. 1 .. used \subseteq RamNode
      BY <1>1, Sizes DEF TreeTypes, RamNode
    <3> QED BY <1>2, <3>1, <3>2
  <2>2. used <= used'
    BY <1>1, <1>2 DEF TreeTypes
  <2> QED BY <1>1, <1>4, <1>5, <2>1, <2>2, GrowsFrom
<1> QED BY <1>5, <1>6, <1>7, <1>8 DEF TreeInv

\* Directories and last components of a path are a path and a component.
LEMMA PathParts ==
  ASSUME NEW path \in Seq(Component)
  PROVE  Dirname(path) \in Seq(Component) /\ Basename(path) \in Component
<1>1. CASE path = <<>>
  BY <1>1 DEF Dirname, Basename, Component
<1>2. CASE path # <<>>
  <2>1. Len(path) \in Nat \ {0}
    BY <1>2
  <2>2. path[Len(path)] \in Component
    BY <2>1
  <2>3. SubSeq(path, 1, Len(path) - 1) \in Seq(Component)
    BY <2>1
  <2> QED BY <1>2, <2>2, <2>3 DEF Dirname, Basename
<1> QED BY <1>1, <1>2

\* A step of the boot sequence.
LEMMA BootKeeps ==
  ASSUME TreeInv, Boot
  PROVE  TreeInv' /\ Grows
<1> USE VfsAssumption
<1> DEFINE s == BootScript[step]
<1>1. step \in Nat \ {0} /\ step' = step + 1 /\ step \in DOMAIN BootScript
  BY DEF TreeInv, TreeTypes, Boot, Booted
<1>2. s \in BootStep /\ (s.op = "root" <=> step = 1)
  BY <1>1
<1>3. CASE s.op = "root"
  <2>1. MountRoot
    BY <1>3 DEF Boot
  <2> QED BY <1>1, <1>2, <1>3, <2>1, MountRootKeeps
<1>4. CASE s.op = "mkdir"
  <2>1. Mkdir(s.path) /\ UNCHANGED << entries, mounts, mountedOn, root >>
    BY <1>4 DEF Boot
  <2>2. s.path \in Seq(Component) /\ step > 1
    BY <1>1, <1>2, <1>4 DEF BootStep
  <2>3. Resolve(Dirname(s.path)) \in Live \cup {Null} /\ Basename(s.path) \in Component
    BY <2>2, PathParts, ResolveLive
  <2>4. step' \in Nat \ {0} /\ (step' > 1 <=> step > 1)
    BY <1>1, <2>2
  <2>5. Create(Resolve(Dirname(s.path)), Basename(s.path), TRUE)
    BY <2>1 DEF Mkdir
  <2> HIDE DEF s
  <2> QED BY <2>1, <2>3, <2>4, <2>5, CreateKeeps
<1>5. CASE s.op = "mount"
  <2>1. Mount(s.path, s.fs)
    BY <1>5 DEF Boot
  <2>2. s.path \in Seq(Component) /\ s.fs \in Flat /\ step > 1
    BY <1>1, <1>2, <1>5 DEF BootStep
  <2> QED BY <1>1, <2>1, <2>2, MountKeeps
<1>6. CASE s.op = "entry"
  <2>1. AddEntry(s.fs, s.name)
    BY <1>6 DEF Boot
  <2>2. s.name \in Component /\ s.fs \in Flat /\ step > 1
    BY <1>1, <1>2, <1>6 DEF BootStep
  <2> QED BY <1>1, <2>1, <2>2, AddEntryKeeps
<1> QED BY <1>2, <1>3, <1>4, <1>5, <1>6 DEF BootStep

\* Nothing changes.
LEMMA SameKeeps ==
  ASSUME TreeInv, UNCHANGED << tree, fsys >>
  PROVE  TreeInv' /\ Grows
<1>1. UNCHANGED << used, isDir, children, entries, mounts, mountedOn, root, step >>
  BY DEF tree, fsys
<1>2. Live' = Live
  BY <1>1 DEF Live
<1>3. TreeInv'
  BY <1>1, <1>2 DEF TreeInv, TreeTypes, RootFirst, OneTree, Holds
<1>4. Grows
  BY <1>1, <1>2 DEF Grows, IsDirectory, Count, NameIn, NodeIn, TreeInv, TreeTypes, Live, RamNode
<1> QED BY <1>3, <1>4

\* Every step of the program.
LEMMA TreeStep ==
  ASSUME TreeInv, [Next]_vars
  PROVE  TreeInv' /\ Grows
<1> USE VfsAssumption
<1>1. CASE Boot
  BY <1>1, BootKeeps
<1>2. ASSUME NEW path \in Paths, NEW directory \in BOOLEAN,
             Create(Resolve(Dirname(path)), Basename(path), directory), UNCHANGED fsys
      PROVE  TreeInv' /\ Grows
  <2>1. Resolve(Dirname(path)) \in Live \cup {Null} /\ Basename(path) \in Component
    BY PathParts, ResolveLive
  <2>2. UNCHANGED << entries, mounts, mountedOn, root, step >>
    BY <1>2 DEF fsys
  <2>3. step' \in Nat \ {0} /\ (step' > 1 <=> step > 1)
    BY <2>2 DEF TreeInv, TreeTypes
  <2> QED BY <1>2, <2>1, <2>2, <2>3, CreateKeeps
<1>3. ASSUME NEW path \in Paths, VfsMkdir(path)
      PROVE  TreeInv' /\ Grows
  BY <1>2, <1>3 DEF VfsMkdir, Mkdir
<1>4. ASSUME NEW path \in Paths, VfsOpenCreate(path)
      PROVE  TreeInv' /\ Grows
  BY <1>2, <1>4 DEF VfsOpenCreate
<1>5. ASSUME NEW path \in Paths, VfsOpen(path) \/ VfsOpenAppend(path)
      PROVE  TreeInv' /\ Grows
  BY <1>5, SameKeeps DEF VfsOpen, VfsOpenAppend
<1>6. ASSUME NEW d \in Fds, VfsClose(d) \/ VfsReaddir(d) \/ VfsRead(d)
      PROVE  TreeInv' /\ Grows
  BY <1>6, SameKeeps DEF VfsClose, VfsReaddir, VfsRead
<1>7. CASE UNCHANGED vars
  BY <1>7, SameKeeps DEF vars
<1> QED BY <1>1, <1>3, <1>4, <1>5, <1>6, <1>7 DEF Next

LEMMA TreeInit ==
  Init => TreeInv
<1> SUFFICES ASSUME Init PROVE TreeInv
  OBVIOUS
<1>1. TreeTypes
  BY Sizes DEF Init, TreeTypes, RamNode
<1>2. RootFirst /\ OneTree
  BY DEF Init, RootFirst, OneTree, Holds
<1> QED BY <1>1, <1>2 DEF TreeInv

-----------------------------------------------------------------------------
(* Nodes are never lost.                                                   *)

LEMMA TreeHasAll ==
  TreeInv => NoNodeLost
<1>1. SUFFICES ASSUME TreeInv, NEW i \in RamNode
               PROVE  LET places == { q \in RamNode \X (1 .. MaxChildren) :
                            q[2] \in DOMAIN children[q[1]] /\ children[q[1]][q[2]].node = i }
                      IN /\ Cardinality(places) = IF i <= used /\ << Ram, i >> # root THEN 1 ELSE 0
                         /\ \A q \in places : q[1] < i /\ isDir[q[1]]
  BY DEF NoNodeLost
<1> DEFINE places == { q \in RamNode \X (1 .. MaxChildren) :
                        q[2] \in DOMAIN children[q[1]] /\ children[q[1]][q[2]].node = i }
<1>2. \A q \in places : Holds(q[1], q[2], i)
  BY <1>1 DEF Holds, TreeInv, TreeTypes
<1>3. \A a, k : Holds(a, k, i) => << a, k >> \in places
  <2>1. SUFFICES ASSUME NEW a, NEW k, Holds(a, k, i) PROVE << a, k >> \in places
    OBVIOUS
  <2>2. a \in RamNode /\ k \in 1 .. Len(children[a]) /\ children[a][k].node = i
    BY <2>1 DEF Holds
  <2>3. children[a] \in Seq(Slot) /\ Len(children[a]) <= MaxChildren
    BY <1>1, <2>2 DEF TreeInv, TreeTypes
  <2>4. k \in 1 .. MaxChildren /\ k \in DOMAIN children[a]
    BY <2>2, <2>3, Sizes
  <2> QED BY <2>2, <2>4
<1>4. \A q \in places : q = << q[1], q[2] >> /\ q[1] \in RamNode
  OBVIOUS
<1> HIDE DEF places
<1>5. \A q \in places : q[1] < i /\ isDir[q[1]]
  BY <1>1, <1>2 DEF TreeInv, OneTree
<1>6. CASE i <= used /\ << Ram, i >> # root
  <2>1. i \in 2 .. used
    <3>1. used \in Nat /\ i \in Nat \ {0} /\ step \in Nat \ {0}
      BY <1>1, Sizes DEF TreeInv, TreeTypes, RamNode
    <3>2. step > 1
      BY <1>1, <1>6, <3>1 DEF TreeInv, RootFirst
    <3>3. i # 1
      BY <1>1, <1>6, <3>2 DEF TreeInv, RootFirst
    <3> QED BY <1>6, <3>1, <3>3
  <2>2. PICK a, k : Holds(a, k, i)
    BY <1>1, <2>1 DEF TreeInv, OneTree
  <2>3. \A q \in places : q = << a, k >>
    <3>1. SUFFICES ASSUME NEW q \in places PROVE q = << a, k >>
      OBVIOUS
    <3>2. q[1] = a /\ q[2] = k
      BY <1>1, <1>2, <2>2 DEF TreeInv, OneTree
    <3> QED BY <1>4, <3>2
  <2>4. places = { << a, k >> }
    BY <1>3, <2>2, <2>3
  <2>5. Cardinality(places) = 1
    BY <2>4, FS_Singleton
  <2> QED BY <1>5, <1>6, <2>5 DEF places
<1>7. CASE ~(i <= used /\ << Ram, i >> # root)
  <2>1. \A a, k : ~Holds(a, k, i)
    <3>1. SUFFICES ASSUME NEW a, NEW k, Holds(a, k, i) PROVE FALSE
      OBVIOUS
    <3>2. a \in RamNode /\ a < i /\ i <= used
      BY <1>1, <3>1 DEF TreeInv, OneTree, Holds
    <3>3. root = << Ram, i >>
      BY <1>7, <3>2
    <3>4. i = 1
      <4>1. step \in Nat \ {0}
        BY <1>1 DEF TreeInv, TreeTypes
      <4>2. step # 1
        BY <1>1, <3>3 DEF TreeInv, RootFirst, Null, Ram
      <4> QED BY <1>1, <3>3, <4>1, <4>2 DEF TreeInv, RootFirst
    <3> QED BY <3>2, <3>4, Sizes DEF RamNode
  <2>2. places = {}
    BY <1>2, <2>1
  <2>3. Cardinality(places) = 0
    BY <2>2, FS_EmptySet
  <2> QED BY <1>5, <1>7, <2>3 DEF places
<1> QED BY <1>6, <1>7

-----------------------------------------------------------------------------
(* What a path resolves to stays.                                          *)

\* A directory holds no more than its file system can give it.
LEMMA Counts ==
  TreeTypes => \A n \in Live : Count(n) \in Nat /\ Count(n) <= MaxChildren + MaxEntries
<1>1. SUFFICES ASSUME TreeTypes, NEW n \in Live
               PROVE  Count(n) \in Nat /\ Count(n) <= MaxChildren + MaxEntries
  OBVIOUS
<1>2. CASE n[1] = Ram
  <2>1. n[2] \in RamNode
    BY <1>1, <1>2, RamLive
  <2>2. children[n[2]] \in Seq(Slot) /\ Len(children[n[2]]) <= MaxChildren
    BY <1>1, <2>1 DEF TreeTypes
  <2>3. Len(children[n[2]]) \in Nat
    BY <2>2
  <2> QED BY <1>2, <2>2, <2>3, Sizes DEF Count
<1>3. CASE n[1] # Ram
  <2>1. n[1] \in Flat
    BY <1>3 DEF Live
  <2>2. entries[n[1]] \in Seq(Component) /\ Len(entries[n[1]]) <= MaxEntries
    BY <1>1, <2>1 DEF TreeTypes
  <2>3. Len(entries[n[1]]) \in Nat
    BY <2>2
  <2> QED BY <1>3, <2>2, <2>3, Sizes DEF Count
<1> QED BY <1>2, <1>3

LEMMA CountsPrime ==
  (TreeTypes => \A n \in Live : Count(n) \in Nat /\ Count(n) <= MaxChildren + MaxEntries)'
<1>1. TreeTypes => \A n \in Live : Count(n) \in Nat /\ Count(n) <= MaxChildren + MaxEntries
  BY Counts
<1> QED BY <1>1, PTL

\* A name found in a directory is found there as the same node ever after.
LEMMA FoundStill ==
  ASSUME TreeInv, TreeInv', Grows, NEW n \in Live, NEW name, FindDir(n, name) # {}
  PROVE  FindDir(n, name)' = FindDir(n, name)
<1>1. PICK i \in Matches(n, name) : \A k \in Matches(n, name) : i <= k
  BY DEF FindDir
<1>2. /\ IsDirectory(n)' = IsDirectory(n) /\ Count(n) <= Count(n)'
      /\ \A k \in 1 .. Count(n) :
           NameIn(n, k)' = NameIn(n, k) /\ NodeIn(n, k)' = NodeIn(n, k)
  BY DEF Grows
<1>3. Count(n) \in Nat /\ Count(n)' \in Nat
  <2>1. n \in Live'
    BY DEF Grows
  <2> QED BY <2>1, Counts, CountsPrime DEF TreeInv
<1>4. IsDirectory(n) /\ i \in 1 .. Count(n) /\ NameIn(n, i) = name
  BY <1>1 DEF Matches
<1>5. \A k : k \in Matches(n, name) <=> k \in 1 .. Count(n) /\ NameIn(n, k) = name
  BY <1>4 DEF Matches
<1>6. \A k : k \in Matches(n, name)' <=> k \in 1 .. Count(n)' /\ NameIn(n, k)' = name
  BY <1>2, <1>4 DEF Matches
<1>7. i \in Matches(n, name)' /\ \A k \in Matches(n, name)' : i <= k
  <2>1. i \in Matches(n, name)'
    BY <1>2, <1>3, <1>4, <1>6
  <2>2. ASSUME NEW k \in Matches(n, name)', ~(i <= k) PROVE FALSE
    <3>1. k \in 1 .. Count(n)' /\ NameIn(n, k)' = name
      BY <1>6, <2>2
    <3>2. k \in 1 .. Count(n)
      BY <1>3, <1>4, <2>2, <3>1
    <3>3. k \in Matches(n, name)
      BY <1>2, <1>5, <3>1, <3>2
    <3> QED BY <1>1, <2>2, <3>3
  <2> QED BY <2>1, <2>2
<1>8. \A j \in Matches(n, name) : (\A k \in Matches(n, name) : j <= k) <=> j = i
  BY <1>1, <1>3, <1>5
<1>9. \A j \in Matches(n, name)' : (\A k \in Matches(n, name)' : j <= k) <=> j = i
  BY <1>3, <1>6, <1>7
<1>10. FindDir(n, name) = { NodeIn(n, i) }
  BY <1>1, <1>8 DEF FindDir
<1>11. FindDir(n, name)' = { NodeIn(n, i)' }
  BY <1>7, <1>9 DEF FindDir
<1> QED BY <1>2, <1>4, <1>10, <1>11

LEMMA WalkExistsPrime ==
  (\A path \in Seq(Component) :
    \E f : /\ WalksTo(f, path, Len(path))
           /\ Resolve(path) = IF f[Len(path)] = {} THEN Null
                              ELSE CHOOSE n \in f[Len(path)] : TRUE)'
<1>1. \A path \in Seq(Component) :
        \E f : /\ WalksTo(f, path, Len(path))
               /\ Resolve(path) = IF f[Len(path)] = {} THEN Null
                                  ELSE CHOOSE n \in f[Len(path)] : TRUE
  BY ResolveWalks
<1> QED BY <1>1, PTL

LEMMA PathKept ==
  ASSUME TreeInv, TreeInv', Grows, UNCHANGED << mounts, mountedOn, root >>,
         NEW path \in Seq(Component), Resolve(path) # Null
  PROVE  Resolve(path)' = Resolve(path)
<1>1. PICK f : /\ WalksTo(f, path, Len(path))
               /\ Resolve(path) = IF f[Len(path)] = {} THEN Null
                                  ELSE CHOOSE n \in f[Len(path)] : TRUE
  BY ResolveWalks
<1>2. PICK g : /\ WalksTo(g, path, Len(path))'
               /\ Resolve(path)' = IF g[Len(path)] = {} THEN Null
                                   ELSE CHOOSE n \in g[Len(path)] : TRUE
  BY WalkExistsPrime
<1>3. Len(path) \in Nat
  OBVIOUS
<1>4. \A k \in 0 .. Len(path) :
        f[k] = IF k = 0 THEN {root} \ {Null} ELSE Walk(f[k - 1], path[k])
  BY <1>1 DEF WalksTo
<1>5. \A k \in 0 .. Len(path) :
        g[k] = IF k = 0 THEN {root'} \ {Null} ELSE Walk(g[k - 1], path[k])'
  BY <1>2 DEF WalksTo
<1>6. \A k \in 0 .. Len(path) : f[k] \in Spots
  BY <1>1, WalkSpots
<1> DEFINE T == { k \in 0 .. Len(path) : f[k] = {} \/ g[k] = f[k] }
<1>7. 0 \in T
  <2>1. 0 \in 0 .. Len(path)
    BY <1>3
  <2>2. f[0] = {root} \ {Null} /\ g[0] = {root'} \ {Null}
    BY <1>4, <1>5, <2>1
  <2> QED BY <2>1, <2>2
<1>8. ASSUME NEW k \in 0 .. Len(path) - 1, k \in T
      PROVE  k + 1 \in T
  <2>1. k \in 0 .. Len(path) /\ k + 1 \in 0 .. Len(path) /\ (k + 1) - 1 = k /\ k + 1 # 0
    BY <1>3
  <2>2. f[k + 1] = Walk(f[k], path[k + 1])
    BY <1>4, <2>1
  <2>3. g[k + 1] = Walk(g[k], path[k + 1])'
    BY <1>5, <2>1
  <2>4. CASE f[k] = {}
    <3>1. f[k + 1] = {}
      BY <2>2, <2>4 DEF Walk
    <3> QED BY <2>1, <3>1
  <2>5. CASE f[k] # {} /\ path[k + 1] = Empty
    <3>1. f[k + 1] = f[k] /\ g[k + 1] = g[k]
      BY <2>2, <2>3, <2>5 DEF Walk
    <3>2. g[k] = f[k]
      BY <1>8, <2>5
    <3> QED BY <2>1, <3>1, <3>2
  <2>6. CASE f[k] # {} /\ path[k + 1] # Empty
    <3>1. PICK n \in Live : f[k] = {n}
      BY <1>6, <2>1, <2>6 DEF Spots
    <3>2. g[k] = {n}
      BY <1>8, <2>6, <3>1
    <3> DEFINE found == FindDir(n, path[k + 1])
    <3>3. f[k + 1] = { Entered(m) : m \in found }
      BY <2>2, <2>6, <3>1 DEF Walk
    <3>4. g[k + 1] = { Entered(m)' : m \in found' }
      BY <2>3, <2>6, <3>2 DEF Walk
    <3>5. \A m : Entered(m)' = Entered(m)
      BY DEF Entered
    <3>6. CASE found = {}
      BY <2>1, <3>3, <3>6
    <3>7. CASE found # {}
      <4>1. found' = found
        BY <3>7, FoundStill
      <4>2. g[k + 1] = f[k + 1]
        BY <3>3, <3>4, <3>5, <4>1
      <4> QED BY <2>1, <4>2
    <3> QED BY <3>6, <3>7
  <2> QED BY <2>4, <2>5, <2>6
<1> HIDE DEF T
<1>9. \A k \in 0 .. Len(path) : k \in T
  BY <1>3, <1>7, <1>8, UpTo
<1>10. f[Len(path)] = {} \/ g[Len(path)] = f[Len(path)]
  BY <1>3, <1>9 DEF T
<1> QED BY <1>1, <1>2, <1>10

-----------------------------------------------------------------------------
(* Descriptors.                                                            *)

Entry == [node : Live \cup {Null}, offset : Nat]
MaxOffset == Size + MaxChildren + MaxEntries

\* What descriptor entry r may hold when l has been listed through it.
Describes(r, l) ==
  /\ r \in Entry
  /\ r.offset <= MaxOffset
  /\ l \in Seq(Node)
  /\ r.node # Null /\ IsDirectory(r.node) =>
       /\ r.offset = Len(l)
       /\ Len(l) <= Count(r.node)
       /\ \A i \in DOMAIN l : l[i] = NodeIn(r.node, i)

Descriptors ==
  /\ fds \in [Fds -> Entry]
  /\ listed \in [Fds -> Seq(Node)]
  /\ \A d \in Fds : Describes(fds[d], listed[d])

VfsInv == TreeInv /\ Descriptors

LEMMA NullNotLive ==
  /\ Null \notin Live
  /\ \A n \in Live : n # Null
BY VfsAssumption DEF Null, Live, Ram

LEMMA LiveNodes ==
  TreeTypes => Live \subseteq Node
<1>1. SUFFICES ASSUME TreeTypes PROVE Live \subseteq Node
  OBVIOUS
<1>2. 1 .. used \subseteq RamNode
  BY <1>1, Sizes DEF TreeTypes, RamNode
<1> QED BY <1>2 DEF Live, Node

\* What is said of a descriptor that a call leaves alone stays true.
LEMMA DescribesStill ==
  ASSUME TreeInv, TreeInv', Grows, NEW r, NEW l, Describes(r, l)
  PROVE  Describes(r, l)'
<1>1. Live \subseteq Live'
  BY DEF Grows
<1>2. r \in Entry /\ r.offset <= MaxOffset /\ l \in Seq(Node)
  BY DEF Describes
<1>3. r \in Entry'
  BY <1>1, <1>2 DEF Entry
<1>4. ASSUME r.node # Null, IsDirectory(r.node)'
      PROVE  /\ r.offset = Len(l)
             /\ Len(l) <= Count(r.node)'
             /\ \A i \in DOMAIN l : l[i] = NodeIn(r.node, i)'
  <2>1. PICK n : n = r.node /\ n \in Live
    BY <1>2, <1>4 DEF Entry
  <2>2. /\ IsDirectory(n)' = IsDirectory(n) /\ Count(n) <= Count(n)'
        /\ \A i \in 1 .. Count(n) : NodeIn(n, i)' = NodeIn(n, i)
    BY <2>1 DEF Grows
  <2>3. IsDirectory(n)
    BY <1>4, <2>1, <2>2
  <2>4. /\ r.offset = Len(l) /\ Len(l) <= Count(n)
        /\ \A i \in DOMAIN l : l[i] = NodeIn(n, i)
    BY <1>4, <2>1, <2>3 DEF Describes
  <2>5. Count(n) \in Nat /\ Count(n)' \in Nat
    BY <1>1, <2>1, Counts, CountsPrime DEF TreeInv
  <2>6. Len(l) \in Nat /\ DOMAIN l = 1 .. Len(l)
    BY <1>2
  <2>7. Len(l) <= Count(n)' /\ \A i \in DOMAIN l : i \in 1 .. Count(n)
    BY <2>2, <2>4, <2>5, <2>6
  <2>8. \A i \in DOMAIN l : l[i] = NodeIn(n, i)'
    BY <2>2, <2>4, <2>7
  <2> QED BY <2>1, <2>4, <2>7, <2>8
<1> QED BY <1>2, <1>3, <1>4 DEF Describes

\* A descriptor keeps its node, and its offset does not move back.
Kept ==
  \A d \in Fds : InUse(d) /\ InUse(d)' =>
    /\ fds'[d].node = fds[d].node
    /\ fds'[d].offset >= fds[d].offset

\* The descriptors after a call that changes at most one of them.
LEMMA OneChanges ==
  ASSUME VfsInv, TreeInv', Grows,
         NEW d \in Fds, NEW r, NEW l, Describes(r, l)',
         fds' = [fds EXCEPT ![d] = r],
         listed' = [listed EXCEPT ![d] = l],
         fds[d].node # Null /\ r.node # Null => r.node = fds[d].node /\ r.offset >= fds[d].offset
  PROVE  Descriptors' /\ Kept
<1>1. fds \in [Fds -> Entry] /\ listed \in [Fds -> Seq(Node)]
  BY DEF VfsInv, Descriptors
<1>2. Live \subseteq Live'
  BY DEF Grows
<1>3. Entry \subseteq Entry'
  BY <1>2 DEF Entry
<1>4. r \in Entry' /\ l \in Seq(Node)
  BY DEF Describes, Node, RamNode
<1>5. fds' \in [Fds -> Entry']
  BY <1>1, <1>3, <1>4
<1>6. listed' \in [Fds -> Seq(Node)]
  BY <1>1, <1>4
<1>7. /\ fds'[d] = r /\ listed'[d] = l
      /\ \A e \in Fds : e # d => fds'[e] = fds[e] /\ listed'[e] = listed[e]
  BY <1>1
<1>8. ASSUME NEW e \in Fds PROVE Describes(fds[e], listed[e])'
  <2>1. CASE e = d
    BY <1>7, <2>1 DEF Describes
  <2>2. CASE e # d
    <3>1. PICK q, m : q = fds[e] /\ m = listed[e]
      OBVIOUS
    <3>2. Describes(q, m)
      BY <3>1 DEF VfsInv, Descriptors
    <3>3. Describes(q, m)'
      BY <3>2, DescribesStill DEF VfsInv
    <3>4. q = fds'[e] /\ m = listed'[e]
      BY <1>7, <2>2, <3>1
    <3> QED BY <3>3, <3>4 DEF Describes
  <2> QED BY <2>1, <2>2
<1>9. Descriptors'
  BY <1>5, <1>6, <1>8 DEF Descriptors, Node, RamNode
<1>10. Kept
  <2>1. SUFFICES ASSUME NEW e \in Fds, fds[e].node # Null, fds'[e].node # Null
                 PROVE  fds'[e].node = fds[e].node /\ fds'[e].offset >= fds[e].offset
    BY DEF Kept, InUse
  <2>2. fds[e].offset \in Nat
    BY <1>1 DEF Entry
  <2>3. CASE e = d
    BY <1>7, <2>1, <2>3
  <2>4. CASE e # d
    BY <1>7, <2>2, <2>4
  <2> QED BY <2>3, <2>4
<1> QED BY <1>9, <1>10

LEMMA NoneChanges ==
  ASSUME VfsInv, TreeInv', Grows, UNCHANGED << fds, listed >>
  PROVE  Descriptors' /\ Kept
<1>1. PICK d : d \in Fds
  BY VfsAssumption
<1>2. PICK r, l : r = fds[d] /\ l = listed[d]
  OBVIOUS
<1>3. fds \in [Fds -> Entry] /\ listed \in [Fds -> Seq(Node)]
  BY DEF VfsInv, Descriptors
<1>4. fds' = [fds EXCEPT ![d] = r] /\ listed' = [listed EXCEPT ![d] = l]
  BY <1>1, <1>2, <1>3
<1>5. Describes(r, l)
  BY <1>1, <1>2 DEF VfsInv, Descriptors
<1>6. Describes(r, l)'
  BY <1>5, DescribesStill DEF VfsInv
<1>7. r.offset \in Nat
  BY <1>1, <1>2, <1>3 DEF Entry
<1>8. r.offset >= fds[d].offset
  BY <1>2, <1>7
<1> QED BY <1>1, <1>2, <1>4, <1>6, <1>8, OneChanges

\* The end of vfs_open.
LEMMA OpenedKeeps ==
  ASSUME VfsInv, TreeInv', Grows, NEW n \in Live' \cup {Null}, NEW start \in {0, Size},
         OpenedAt(n, start), (n # Null /\ IsDirectory(n) => start = 0)'
  PROVE  Descriptors' /\ Kept
<1>1. CASE n = Null \/ FreeFds = {}
  BY <1>1, NoneChanges DEF OpenedAt
<1>2. CASE ~(n = Null \/ FreeFds = {})
  <2> DEFINE d == CHOOSE e \in FreeFds : \A g \in FreeFds : e <= g
  <2>1. FreeFds \in SUBSET Nat
    BY VfsAssumption DEF FreeFds
  <2>2. \E e \in FreeFds : \A g \in FreeFds : e <= g
    BY <1>2, <2>1, Least
  <2>3. d \in FreeFds
    BY <2>2
  <2>4. /\ fds' = [fds EXCEPT ![d] = [node |-> n, offset |-> start]]
        /\ listed' = [listed EXCEPT ![d] = <<>>]
    BY <1>2 DEF OpenedAt
  <2> HIDE DEF d
  <2>5. PICK e \in Fds : e = d /\ fds[e].node = Null
    BY <2>3 DEF FreeFds, InUse
  <2>6. n \in Live'
    BY <1>2
  <2>7. Count(n)' \in Nat
    BY <2>6, CountsPrime DEF TreeInv
  <2>8. Describes([node |-> n, offset |-> start], <<>>)'
    BY <2>6, <2>7, Sizes DEF Describes, Entry, MaxOffset
  <2>9. PICK r, l : r = [node |-> n, offset |-> start] /\ l = <<>>
    OBVIOUS
  <2>10. Describes(r, l)'
    BY <2>8, <2>9
  <2> QED BY <2>4, <2>5, <2>9, <2>10, OneChanges
<1> QED BY <1>1, <1>2

LEMMA CloseKeeps ==
  ASSUME VfsInv, TreeInv', Grows, NEW d \in Fds, VfsClose(d)
  PROVE  Descriptors' /\ Kept
<1>1. PICK r, l : r = Closed /\ l = <<>>
  OBVIOUS
<1>2. Describes(r, l)'
  BY <1>1, Sizes DEF Closed, Describes, Entry, MaxOffset
<1>3. r.node = Null
  BY <1>1 DEF Closed
<1> QED BY <1>1, <1>2, <1>3, OneChanges DEF VfsClose

LEMMA ReaddirKeeps ==
  ASSUME VfsInv, TreeInv', Grows, NEW d \in Fds, VfsReaddir(d)
  PROVE  Descriptors' /\ Kept
<1>1. PICK n, o, l : n = fds[d].node /\ o = fds[d].offset /\ l = listed[d]
  OBVIOUS
<1>2. /\ fds \in [Fds -> Entry] /\ fds[d] \in Entry
      /\ Describes(fds[d], listed[d])
  BY DEF VfsInv, Descriptors
<1>3. n \in Live /\ o \in Nat /\ l \in Seq(Node) /\ n # Null
  BY <1>1, <1>2 DEF Entry, Describes, VfsReaddir, InUse
<1>4. IsDirectory(n) /\ o + 1 <= Count(n)
  BY <1>1 DEF VfsReaddir, ReadDirIndex
<1>5. /\ o = Len(l) /\ \A i \in DOMAIN l : l[i] = NodeIn(n, i)
  BY <1>1, <1>2, <1>3, <1>4 DEF Describes
<1>6. PICK r, e, m : r = [node |-> n, offset |-> o + 1] /\ e = NodeIn(n, o + 1) /\ m = Append(l, e)
  OBVIOUS
<1>7. fds' = [fds EXCEPT ![d] = r]
  <2>1. fds[d] = [node |-> n, offset |-> o]
    BY <1>1, <1>2 DEF Entry
  <2>2. r = [fds[d] EXCEPT !.offset = o + 1]
    BY <1>6, <2>1
  <2>3. fds' = [fds EXCEPT ![d] = [fds[d] EXCEPT !.offset = fds[d].offset + 1]]
    BY DEF VfsReaddir
  <2> QED BY <1>1, <2>2, <2>3
<1>8. listed' = [listed EXCEPT ![d] = m]
  BY <1>1, <1>6 DEF VfsReaddir, ReadDirIndex
<1>9. e \in Node
  <2>1. Count(n) \in Nat /\ o + 1 \in 1 .. Count(n)
    BY <1>3, <1>4, Counts DEF VfsInv, TreeInv
  <2>2. CASE n[1] = Ram
    <3>1. n[2] \in RamNode
      BY <1>3, <2>2, RamLive DEF VfsInv, TreeInv
    <3>2. children[n[2]] \in Seq(Slot) /\ o + 1 \in 1 .. Len(children[n[2]])
      BY <2>1, <2>2, <3>1 DEF VfsInv, TreeInv, TreeTypes, Count
    <3>3. children[n[2]][o + 1] \in Slot
      BY <3>2
    <3> QED BY <1>6, <2>2, <3>3 DEF NodeIn, Node, Slot
  <2>3. CASE n[1] # Ram
    <3>1. n[1] \in Flat
      BY <1>3, <2>3 DEF Live
    <3>2. Len(entries[n[1]]) <= MaxEntries /\ Count(n) = Len(entries[n[1]])
      BY <2>3, <3>1 DEF VfsInv, TreeInv, TreeTypes, Count
    <3>3. o + 1 \in 0 .. MaxEntries
      BY <2>1, <3>2, Sizes
    <3> QED BY <1>6, <2>3, <3>1, <3>3 DEF NodeIn, Node
  <2> QED BY <2>2, <2>3
<1>10. /\ m \in Seq(Node) /\ Len(m) = o + 1 /\ DOMAIN m = 1 .. o + 1
       /\ \A i \in 1 .. o + 1 : m[i] = NodeIn(n, i)
  <2>1. m \in Seq(Node) /\ Len(m) = o + 1 /\ DOMAIN m = 1 .. o + 1 /\ DOMAIN l = 1 .. o
    BY <1>3, <1>5, <1>6, <1>9
  <2>2. m[o + 1] = e /\ \A i \in 1 .. o : m[i] = l[i]
    BY <1>3, <1>5, <1>6, <1>9
  <2>3. \A i \in 1 .. o : m[i] = NodeIn(n, i)
    BY <1>5, <2>1, <2>2
  <2>4. \A i \in 1 .. o + 1 : i = o + 1 \/ i \in 1 .. o
    BY <1>3
  <2> QED BY <1>6, <2>1, <2>2, <2>3, <2>4
<1>11. Describes(r, m)
  <2>1. o + 1 <= MaxOffset
    BY <1>3, <1>4, Counts, Sizes DEF MaxOffset, VfsInv, TreeInv
  <2>2. r \in Entry /\ r.node = n /\ r.offset = o + 1
    BY <1>3, <1>6 DEF Entry
  <2> QED BY <1>4, <1>10, <2>1, <2>2 DEF Describes
<1>12. Describes(r, m)'
  BY <1>11, DescribesStill DEF VfsInv
<1>13. r.node = fds[d].node /\ r.offset >= fds[d].offset
  BY <1>1, <1>3, <1>6
<1> QED BY <1>7, <1>8, <1>12, <1>13, OneChanges

LEMMA ReadKeeps ==
  ASSUME VfsInv, TreeInv', Grows, NEW d \in Fds, VfsRead(d)
  PROVE  Descriptors' /\ Kept
<1>1. PICK n, o, l : n = fds[d].node /\ o = fds[d].offset /\ l = listed[d]
  OBVIOUS
<1>2. /\ fds \in [Fds -> Entry] /\ fds[d] \in Entry /\ listed \in [Fds -> Seq(Node)]
      /\ Describes(fds[d], listed[d])
  BY DEF VfsInv, Descriptors
<1>3. n \in Live /\ o \in Nat /\ l \in Seq(Node) /\ n # Null
  BY <1>1, <1>2 DEF Entry, Describes, VfsRead, InUse
<1>4. PICK c : c = ReadCount(o)
  OBVIOUS
<1>5. c \in Nat /\ o + c <= Size
  <2>1. c > 0
    BY <1>1, <1>4 DEF VfsRead
  <2> QED BY <1>3, <1>4, <2>1, Sizes DEF ReadCount
<1>6. PICK r : r = [node |-> n, offset |-> o + c]
  OBVIOUS
<1>7. fds' = [fds EXCEPT ![d] = r]
  <2>1. fds[d] = [node |-> n, offset |-> o]
    BY <1>1, <1>2 DEF Entry
  <2>2. r = [fds[d] EXCEPT !.offset = o + c]
    BY <1>6, <2>1
  <2>3. fds' = [fds EXCEPT ![d] = [fds[d] EXCEPT !.offset = fds[d].offset + ReadCount(fds[d].offset)]]
    BY DEF VfsRead
  <2> QED BY <1>1, <1>4, <2>2, <2>3
<1>8. listed' = [listed EXCEPT ![d] = l]
  BY <1>1, <1>2 DEF VfsRead
<1>9. ~IsDirectory(n)
  <2>1. n[1] \in Flat /\ n[2] # 0
    BY <1>1, VfsAssumption DEF VfsRead
  <2> QED BY <2>1, VfsAssumption DEF IsDirectory
<1>10. Describes(r, l)
  <2>1. r \in Entry /\ r.node = n /\ r.offset = o + c
    BY <1>3, <1>5, <1>6 DEF Entry
  <2>2. o + c <= MaxOffset
    BY <1>3, <1>5, Sizes DEF MaxOffset
  <2> QED BY <1>3, <1>9, <2>1, <2>2 DEF Describes
<1>11. Describes(r, l)'
  BY <1>10, DescribesStill DEF VfsInv
<1>12. r.node = fds[d].node /\ r.offset >= fds[d].offset
  BY <1>1, <1>3, <1>5, <1>6
<1> QED BY <1>7, <1>8, <1>11, <1>12, OneChanges

-----------------------------------------------------------------------------
(* The invariant is inductive.                                             *)

LEMMA VfsInit ==
  Init => VfsInv
<1> SUFFICES ASSUME Init PROVE VfsInv
  OBVIOUS
<1>1. TreeInv
  BY TreeInit
<1>2. fds \in [Fds -> Entry] /\ listed \in [Fds -> Seq(Node)]
  BY DEF Init, Closed, Entry
<1>3. \A d \in Fds : Describes(fds[d], listed[d])
  BY Sizes DEF Init, Closed, Describes, Entry, MaxOffset
<1> QED BY <1>1, <1>2, <1>3 DEF VfsInv, Descriptors

LEMMA VfsStep ==
  ASSUME VfsInv, [Next]_vars
  PROVE  VfsInv' /\ Kept
<1> USE VfsAssumption
<1>1. TreeInv' /\ Grows
  BY TreeStep DEF VfsInv
<1>2. SUFFICES Descriptors' /\ Kept
  BY <1>1 DEF VfsInv
<1>3. CASE Boot
  BY <1>1, <1>3, NoneChanges DEF Boot
<1>4. ASSUME NEW path \in Paths, VfsMkdir(path)
      PROVE  Descriptors' /\ Kept
  BY <1>1, <1>4, NoneChanges DEF VfsMkdir
<1>5. ASSUME NEW path \in Paths, VfsOpen(path)
      PROVE  Descriptors' /\ Kept
  <2>1. PICK n : n = Resolve(path)
    OBVIOUS
  <2>2. n \in Live \cup {Null}
    BY <2>1, ResolveLive DEF VfsInv
  <2>3. n \in Live' \cup {Null}
    BY <1>1, <2>2 DEF Grows
  <2>4. OpenedAt(n, 0)
    BY <1>5, <2>1 DEF VfsOpen, Opened
  <2> QED BY <1>1, <2>3, <2>4, OpenedKeeps
<1>6. ASSUME NEW path \in Paths, VfsOpenCreate(path)
      PROVE  Descriptors' /\ Kept
  <2>1. PICK n : n = Resolve(path)'
    OBVIOUS
  <2>2. n \in Live' \cup {Null}
    BY <1>1, <2>1, ResolveLivePrime
  <2>3. OpenedAt(n, 0)
    BY <1>6, <2>1 DEF VfsOpenCreate, Opened
  <2> QED BY <1>1, <2>2, <2>3, OpenedKeeps
<1>9. ASSUME NEW path \in Paths, VfsOpenAppend(path)
      PROVE  Descriptors' /\ Kept
  <2> DEFINE text(n) == n[1] \in Readable /\ n[2] # 0
  <2>1. PICK n : n = Resolve(path)
    OBVIOUS
  <2>2. n \in Live \cup {Null}
    BY <2>1, ResolveLive DEF VfsInv
  <2>3. n \in Live' \cup {Null}
    BY <1>1, <2>2 DEF Grows
  <2>4. PICK start : start = IF text(n) THEN Size ELSE 0
    OBVIOUS
  <2>5. OpenedAt(n, start)
    BY <1>9, <2>1, <2>4 DEF VfsOpenAppend
  <2>6. (IsDirectory(n) => ~ text(n))'
    BY DEF IsDirectory
  <2>7. start \in {0, Size} /\ (n # Null /\ IsDirectory(n) => start = 0)'
    BY <2>4, <2>6
  <2> QED BY <1>1, <2>3, <2>5, <2>7, OpenedKeeps
<1>7. ASSUME NEW d \in Fds, VfsClose(d) \/ VfsReaddir(d) \/ VfsRead(d)
      PROVE  Descriptors' /\ Kept
  BY <1>1, <1>7, CloseKeeps, ReaddirKeeps, ReadKeeps
<1>8. CASE UNCHANGED vars
  BY <1>1, <1>8, NoneChanges DEF vars
<1> QED BY <1>3, <1>4, <1>5, <1>6, <1>7, <1>8, <1>9 DEF Next

LEMMA VfsInvariant ==
  Spec => []VfsInv
<1>1. VfsInv /\ [Next]_vars => VfsInv'
  BY VfsStep
<1> QED BY <1>1, VfsInit, PTL DEF Spec

LEMMA TypesFollow ==
  VfsInv => TypeOK
<1>1. SUFFICES ASSUME VfsInv PROVE TypeOK
  OBVIOUS
<1>2. TreeTypes /\ Live \subseteq Node
  BY <1>1, LiveNodes DEF VfsInv, TreeInv
<1>3. mountedOn \in [RamNode -> 0 .. MaxMounts]
  <2>1. 0 .. Len(mounts) \subseteq 0 .. MaxMounts
    BY <1>2, Sizes DEF TreeTypes
  <2> QED BY <1>2, <2>1 DEF TreeTypes
<1>4. \A i \in RamNode : children[i] \in Seq([name : Component, node : RamNode])
  BY <1>2 DEF TreeTypes, Slot
<1>5. \A d \in Fds : /\ fds[d].node \in Node \cup {Null}
                    /\ fds[d].offset \in 0 .. Size + MaxChildren + MaxEntries
  BY <1>1, <1>2, Sizes DEF VfsInv, Descriptors, Describes, Entry, MaxOffset
<1> QED BY <1>2, <1>3, <1>4, <1>5 DEF TypeOK, TreeTypes

-----------------------------------------------------------------------------
(* The theorems.                                                           *)

\* Every variable keeps its type: the pools, slots and mounts stay within
\* their capacities, and mounts, slots and descriptors name nodes.
THEOREM VfsTypeCorrect == Spec => []TypeOK
BY TypesFollow, VfsInvariant, PTL

\* ramfs loses no node: each one taken from the pool is the root or stands in
\* exactly one slot of one older directory.
THEOREM NoNodeIsLost == Spec => []NoNodeLost
<1>1. VfsInv => NoNodeLost
  BY TreeHasAll DEF VfsInv
<1> QED BY <1>1, VfsInvariant, PTL

\* vfs_readdir lists every entry once, in order, whatever is created meanwhile.
THEOREM ListingsComplete == Spec => []ListsEveryEntry
<1>1. VfsInv => ListsEveryEntry
  BY DEF VfsInv, Descriptors, Describes, ListsEveryEntry, InUse
<1> QED BY <1>1, VfsInvariant, PTL

\* A descriptor keeps the node it was opened on, and its offset never moves
\* back, until vfs_close.
THEOREM DescriptorsKept == Spec => DescriptorKept
<1>1. VfsInv /\ [Next]_vars => Kept
  BY VfsStep
<1>2. Kept =>
        [ \A d \in Fds : InUse(d) /\ InUse(d)' =>
            /\ fds'[d].node = fds[d].node
            /\ fds'[d].offset >= fds[d].offset ]_vars
  BY DEF Kept
<1> QED BY <1>1, <1>2, VfsInvariant, PTL DEF Spec, DescriptorKept

\* A path that resolves keeps resolving to the same node once the boot
\* sequence is over.
THEOREM PathsKeepMeaning == Spec => PathsKeepTheirMeaning
<1>1. VfsInv /\ [Next]_vars =>
        [ Booted => \A p \in Paths : Resolve(p) # Null => Resolve(p)' = Resolve(p) ]_vars
  <2>1. SUFFICES ASSUME VfsInv, [Next]_vars, Booted, NEW p \in Paths, Resolve(p) # Null
                 PROVE  Resolve(p)' = Resolve(p)
    OBVIOUS
  <2>2. TreeInv /\ TreeInv' /\ Grows
    BY <2>1, TreeStep DEF VfsInv
  <2>3. UNCHANGED fsys
    BY <2>1 DEF Next, vars, Boot, VfsMkdir, VfsOpen, VfsOpenAppend,
       VfsOpenCreate, VfsClose, VfsReaddir, VfsRead
  <2>4. UNCHANGED << mounts, mountedOn, root >>
    BY <2>3 DEF fsys
  <2>5. p \in Seq(Component)
    BY VfsAssumption
  <2> QED BY <2>1, <2>2, <2>4, <2>5, PathKept
<1> QED BY <1>1, VfsInvariant, PTL DEF Spec, PathsKeepTheirMeaning

=============================================================================
