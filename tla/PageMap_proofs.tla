---------------------------- MODULE PageMap_proofs ----------------------------
(***************************************************************************)
(* What is proved about PageMap, for tables of every size, every set of    *)
(* frames and regions and every number of calls: types, that windows stay  *)
(* mapped, and that the four levels are one function from pages to what    *)
(* they show.                                                              *)
(***************************************************************************)
EXTENDS PageMap, TLAPS

-----------------------------------------------------------------------------
(* Constants.                                                              *)

LEMMA Constants ==
  /\ Fanout \in Nat \ {0} /\ PageSize \in Nat \ {0} /\ PagesCap \in Nat \ {0}
  /\ DeviceTop \in Nat /\ CallCap \in Nat
  /\ Frames \subseteq Target /\ Target \subseteq Nat /\ 0 \notin Target /\ 0 \notin Frames
  /\ Page \subseteq Nat /\ 0 \in Page
  /\ KernelPage \in Page /\ KernelFrame \in Target /\ WindowBase \in Page /\ Dirt \in Target
<1>1. ConstantsOK
  BY PageMapAssumption
<1>2. 0 \in Page
  <2>1. Fanout \in Nat \ {0}
    BY <1>1 DEF ConstantsOK
  <2>2. \A a, b \in Nat \ {0} : a * b \in Nat \ {0}
    OBVIOUS
  <2>3. Fanout * Fanout * Fanout * Fanout \in Nat \ {0}
    BY <2>1, <2>2
  <2> QED
    BY <2>3 DEF Page
<1> QED
  BY <1>1, <1>2 DEF ConstantsOK, Target, Page

LEMMA PagesBelow ==
  ASSUME NEW a \in Nat, NEW b \in Page, a <= b
  PROVE  a \in Page
<1> DEFINE top == Fanout * Fanout * Fanout * Fanout
<1>1. top \in Nat
  <2>1. Fanout \in Nat
    BY Constants
  <2>2. \A x, y \in Nat : x * y \in Nat
    OBVIOUS
  <2> QED
    BY <2>1, <2>2
<1>2. Page = 0 .. top - 1
  BY DEF Page
<1> HIDE DEF top
<1> QED
  BY <1>1, <1>2

LEMMA Boot ==
  /\ Root \in Frames /\ BootFrames \subseteq Frames
  /\ \A l \in Level : BootTable[l] \in Frames
  /\ \A k, l \in Level : BootTable[k] = BootTable[l] => k = l
BY PageMapAssumption DEF ConstantsOK, Root, BootFrames, Level

-----------------------------------------------------------------------------
(* Indices: the four indices of a page lie in a table, and name the page.  *)

\* Division of natural numbers: quotient, rest, and that they are the only ones.
LEMMA Quotient ==
  ASSUME NEW a \in Nat, NEW b \in Nat, b > 0, NEW q, q = a \div b
  PROVE  q \in Nat
<1>1. a \div b \in Int
  OBVIOUS
<1>2. PICK p \in Int : p = a \div b
  BY <1>1
<1>3. p >= 0
  BY <1>2
<1> QED BY <1>2, <1>3

LEMMA Rest ==
  ASSUME NEW a \in Nat, NEW b \in Nat, b > 0, NEW r, r = a % b
  PROVE  r \in 0 .. b - 1
OBVIOUS

LEMMA Division ==
  ASSUME NEW a \in Int, NEW b \in Int, b > 0, NEW q \in Int, NEW r \in Int,
         q = a \div b, r = a % b
  PROVE  a = b * q + r
OBVIOUS

LEMMA QuotientIs ==
  ASSUME NEW a \in Int, NEW b \in Int, b > 0, NEW q \in Int,
         NEW r \in 0 .. b - 1, a = b * q + r
  PROVE  q = a \div b
OBVIOUS

LEMMA Product == ASSUME NEW a \in Nat, NEW b \in Nat PROVE a * b \in Nat
OBVIOUS
LEMMA Grows == ASSUME NEW a \in Nat, NEW b \in Nat, NEW m \in Nat, a <= b
               PROVE m * a <= m * b
OBVIOUS
LEMMA Spread == ASSUME NEW m \in Int, NEW a \in Int, NEW b \in Int
               PROVE m * (a + b) = m * a + m * b
OBVIOUS
LEMMA Assoc == ASSUME NEW a \in Int, NEW b \in Int, NEW c \in Int PROVE a * (b * c) = (a * b) * c
OBVIOUS

\* Dividing by b and then by c is dividing by their product.
LEMMA Twice ==
  ASSUME NEW v \in Nat, NEW b \in Nat, b > 0, NEW c \in Nat, c > 0
  PROVE  v \div (b * c) = (v \div b) \div c
<1>1. PICK q \in Nat : q = v \div b
  BY Quotient
<1>2. PICK r \in 0 .. b - 1 : r = v % b
  BY Rest
<1>3. v = b * q + r
  BY <1>1, <1>2, Division
<1>4. PICK p \in Nat : p = q \div c
  BY Quotient
<1>5. PICK s \in 0 .. c - 1 : s = q % c
  BY Rest
<1>6. q = c * p + s
  BY <1>4, <1>5, Division
<1>7. b * q = b * (c * p) + b * s
  <2>1. PICK x \in Nat : x = c * p
    BY Product
  <2> QED BY <1>6, <2>1, Spread
<1>8. b * (c * p) = (b * c) * p
  BY Assoc
<1>9. PICK m \in Nat : m = b * c
  BY Product
<1>10. b * s <= b * (c - 1)
  BY <1>5, Grows
<1>11. b * (c - 1) + b = b * c
  <2>1. b * ((c - 1) + 1) = b * (c - 1) + b * 1
    BY Spread
  <2> QED BY <2>1
<1>12. PICK y \in Nat : y = b * s
  BY Product
<1>13. PICK z \in Nat : z = b * (c - 1)
  BY Product
<1>14. y + r \in 0 .. m - 1
  BY <1>10, <1>11, <1>9, <1>12, <1>13
<1>15. m > 0
  BY <1>14
<1>16. PICK w \in Nat : w = m * p
  BY Product
<1>17. v = w + (y + r)
  BY <1>3, <1>7, <1>8, <1>9, <1>12, <1>16
<1>18. v = m * p + (y + r)
  BY <1>16, <1>17
<1>19. p = v \div m
  BY <1>14, <1>15, <1>18, QuotientIs
<1> QED BY <1>19, <1>9, <1>4, <1>1

LEMMA Bounded ==
  ASSUME NEW v \in Nat, NEW m \in Nat, m > 0, NEW c \in Nat, v < m * c,
         NEW q \in Nat, q = v \div m
  PROVE  q < c
<1>1. PICK r \in 0 .. m - 1 : r = v % m
  BY Rest
<1>2. v = m * q + r
  BY <1>1, Division
<1>3. SUFFICES ASSUME c <= q PROVE FALSE
  OBVIOUS
<1>4. m * c <= m * q
  BY <1>3, Grows
<1>5. PICK x \in Nat : x = m * c
  BY Product
<1>6. PICK y \in Nat : y = m * q
  BY Product
<1> QED BY <1>2, <1>4, <1>5, <1>6

\* The four indices are the digits of a page number.
LEMMA PageDigits ==
  ASSUME NEW v \in Page
  PROVE  \E q1 \in Nat, q2 \in Nat :
           /\ PageIndex(v, 1) = q2 \div Fanout
           /\ PageIndex(v, 1) \in Index
           /\ PageIndex(v, 2) = q2 % Fanout
           /\ q2 = q1 \div Fanout
           /\ PageIndex(v, 3) = q1 % Fanout
           /\ q1 = v \div Fanout
           /\ PageIndex(v, 4) = v % Fanout
<1>1. Fanout \in Nat /\ Fanout > 0
  BY Constants
<1>2. PICK f2 \in Nat : f2 = Fanout * Fanout
  BY <1>1, Product
<1>3. PICK f3 \in Nat : f3 = f2 * Fanout
  BY <1>1, Product
<1>4. PICK f4 \in Nat : f4 = f3 * Fanout
  BY <1>1, Product
<1>5. v \in Nat /\ v < f4
  BY <1>2, <1>3, <1>4 DEF Page
<1>6. f2 > 0 /\ f3 > 0
  <2>1. ASSUME NEW a \in Nat, a > 0 PROVE a * Fanout > 0
    BY <2>1, <1>1
  <2> QED BY <2>1, <1>1, <1>2, <1>3
<1>7. PICK q1 \in Nat : q1 = v \div Fanout
  BY <1>1, <1>5, Quotient
<1>8. PICK q2 \in Nat : q2 = q1 \div Fanout
  BY <1>1, Quotient
<1>9. PICK q3 \in Nat : q3 = q2 \div Fanout
  BY <1>1, Quotient
<1>10. v \div f2 = q2
  BY <1>1, <1>2, <1>5, <1>7, <1>8, Twice
<1>11. v \div f3 = q3
  BY <1>1, <1>3, <1>5, <1>6, <1>9, <1>10, Twice
<1>12. q3 < Fanout
  BY <1>1, <1>4, <1>5, <1>6, <1>11, Bounded
<1>13. q3 % Fanout = q3
  BY <1>12, <1>1
<1>14. PageIndex(v, 1) = (v \div f3) % Fanout /\ PageIndex(v, 2) = (v \div f2) % Fanout
       /\ PageIndex(v, 3) = (v \div Fanout) % Fanout /\ PageIndex(v, 4) = v % Fanout
  BY <1>2, <1>3 DEF PageIndex
<1>15. PageIndex(v, 1) = q3 /\ PageIndex(v, 2) = q2 % Fanout /\ PageIndex(v, 3) = q1 % Fanout
  BY <1>7, <1>10, <1>11, <1>13, <1>14
<1>16. q3 \in Index
  BY <1>1, <1>12 DEF Index
<1> QED BY <1>7, <1>8, <1>9, <1>14, <1>15, <1>16

\* A number is known from its quotient and its rest.
LEMMA Rebuild ==
  ASSUME NEW a \in Nat, NEW b \in Nat, a \div Fanout = b \div Fanout, a % Fanout = b % Fanout
  PROVE  a = b
<1>1. Fanout \in Nat /\ Fanout > 0
  BY Constants
<1>2. PICK q \in Nat : q = a \div Fanout
  BY <1>1, Quotient
<1>3. PICK r \in 0 .. Fanout - 1 : r = a % Fanout
  BY <1>1, Rest
<1>4. a = Fanout * q + r
  BY <1>1, <1>2, <1>3, Division
<1>5. b = Fanout * q + r
  BY <1>1, <1>2, <1>3, Division
<1> QED BY <1>4, <1>5

LEMMA IndicesInTable ==
  ASSUME NEW v \in Page, NEW l \in Level
  PROVE  PageIndex(v, l) \in Index
<1>1. Fanout \in Nat /\ Fanout > 0 /\ v \in Nat
  <2>1. Fanout \in Nat /\ Fanout > 0
    BY Constants
  <2> QED BY <2>1 DEF Page
<1>2. ASSUME NEW a \in Nat PROVE a % Fanout \in Index
  BY <1>1, Rest DEF Index
<1>3. PICK q1 \in Nat, q2 \in Nat :
        /\ PageIndex(v, 1) \in Index
        /\ PageIndex(v, 2) = q2 % Fanout
        /\ PageIndex(v, 3) = q1 % Fanout
        /\ PageIndex(v, 4) = v % Fanout
  BY PageDigits
<1>4. PageIndex(v, 2) \in Index /\ PageIndex(v, 3) \in Index /\ PageIndex(v, 4) \in Index
  BY <1>1, <1>2, <1>3
<1> QED BY <1>3, <1>4 DEF Level

LEMMA IndicesNamePage ==
  ASSUME NEW u \in Page, NEW v \in Page,
         \A l \in Level : PageIndex(u, l) = PageIndex(v, l)
  PROVE  u = v
<1>1. /\ PageIndex(u, 1) = PageIndex(v, 1) /\ PageIndex(u, 2) = PageIndex(v, 2)
      /\ PageIndex(u, 3) = PageIndex(v, 3) /\ PageIndex(u, 4) = PageIndex(v, 4)
  BY DEF Level
<1>2. u \in Nat /\ v \in Nat
  BY DEF Page
<1>3. PICK a1 \in Nat, a2 \in Nat :
        /\ PageIndex(u, 1) = a2 \div Fanout
        /\ PageIndex(u, 2) = a2 % Fanout
        /\ a2 = a1 \div Fanout
        /\ PageIndex(u, 3) = a1 % Fanout
        /\ a1 = u \div Fanout
        /\ PageIndex(u, 4) = u % Fanout
  BY PageDigits
<1>4. PICK b1 \in Nat, b2 \in Nat :
        /\ PageIndex(v, 1) = b2 \div Fanout
        /\ PageIndex(v, 2) = b2 % Fanout
        /\ b2 = b1 \div Fanout
        /\ PageIndex(v, 3) = b1 % Fanout
        /\ b1 = v \div Fanout
        /\ PageIndex(v, 4) = v % Fanout
  BY PageDigits
<1>5. a2 = b2
  BY <1>1, <1>3, <1>4, Rebuild
<1>6. a1 = b1
  BY <1>1, <1>3, <1>4, <1>5, Rebuild
<1> QED BY <1>1, <1>2, <1>3, <1>4, <1>6, Rebuild

LEMMA Indices ==
  /\ \A v \in Page, l \in Level : PageIndex(v, l) \in Index
  /\ \A u, v \in Page :
       (\A l \in Level : PageIndex(u, l) = PageIndex(v, l)) => u = v
BY IndicesInTable, IndicesNamePage

-----------------------------------------------------------------------------
(* Regions and boot tables.                                                *)

\* A region is mapped as at least one page, and its pages are device pages.
LEMMA RegionPages ==
  ASSUME NEW r \in Regions
  PROVE  /\ PagesNeeded(r) \in Nat
         /\ r.addr \div PageSize \in Target
         /\ r.addr \div PageSize + PagesNeeded(r) \in Target
<1>1. /\ r.addr \in Nat /\ r.size \in Nat /\ r.addr \div PageSize \in Target
      /\ r.addr \div PageSize + PagesNeeded(r) \in Target
  BY PageMapAssumption DEF ConstantsOK
<1>2. PageSize \in Nat \ {0} /\ PagesCap \in Nat
  BY Constants
<1>3. r.size + (r.addr % PageSize) + PageSize - 1 \in Nat
  BY <1>1, <1>2
<1>4. (r.size + (r.addr % PageSize) + PageSize - 1) \div PageSize \in Nat
  BY <1>2, <1>3
<1> QED
  BY <1>1, <1>2, <1>4 DEF PagesNeeded

-----------------------------------------------------------------------------
(* The tree of tables.                                                     *)

Types ==
  /\ up \in BOOLEAN /\ avail \in SUBSET Frames /\ inUse \in SUBSET Frames
  /\ reply \in Frames \cup Strays \cup {0}
  /\ tables \in [Frames -> [Index -> Nat]]
  /\ kind \in [Frames -> 0 .. 4]

\* Who owns the frames, until one of the boot loader's tables is given away.
Books ==
  /\ ~up => avail = {} /\ inUse = {} /\ windows = {} /\ ~running /\ nextMmio = 0
  /\ avail \cap inUse = {}
  /\ BootFrames \cap inUse = {}
  /\ \A f \in Frames \ BootFrames : kind[f] # 0 => f \in inUse

\* A table of the first three levels holds tables of the next, each of which
\* is held once.
BootKinds == \A l \in Level : kind[BootTable[l]] = l

Levels ==
  \A f \in Frames, i \in Index : kind[f] \in 1 .. 3 =>
    \/ tables[f][i] = 0
    \/ tables[f][i] \in Frames /\ kind[tables[f][i]] = kind[f] + 1

HeldOnce ==
  \A f \in Frames, g \in Frames, i \in Index, j \in Index :
    (kind[f] \in 1 .. 3 /\ kind[g] \in 1 .. 3
       /\ tables[f][i] # 0 /\ tables[f][i] = tables[g][j]) => f = g /\ i = j

Shape == BootKinds /\ Levels /\ HeldOnce

\* The table of one level leads to that of the next.
LEMMA TableBelow ==
  ASSUME NEW v
  PROVE  /\ TableAt(v, 1) = Root
         /\ \A l \in 1 .. 3 : TableAt(v, l + 1) = Down(TableAt(v, l), PageIndex(v, l))
         /\ Translate(v) = Down(TableAt(v, 4), PageIndex(v, 4))
<1>1. TableAt(v, 1) = Root
  BY DEF TableAt
<1>2. TableAt(v, 2) = Down(Root, PageIndex(v, 1))
  BY DEF TableAt
<1>3. TableAt(v, 3) = Down(Down(Root, PageIndex(v, 1)), PageIndex(v, 2))
  BY DEF TableAt
<1>4. TableAt(v, 4) = Down(Down(Down(Root, PageIndex(v, 1)), PageIndex(v, 2)), PageIndex(v, 3))
  BY DEF TableAt
<1>5. \A l \in 1 .. 3 : l = 1 \/ l = 2 \/ l = 3
  OBVIOUS
<1>6. 1 + 1 = 2 /\ 2 + 1 = 3 /\ 3 + 1 = 4
  OBVIOUS
<1> QED
  BY <1>1, <1>2, <1>3, <1>4, <1>5, <1>6 DEF Translate

LEMMA TableBelowNext ==
  ASSUME NEW v
  PROVE  \A l \in 1 .. 3 : TableAt(v, l + 1)' = Down(TableAt(v, l), PageIndex(v, l))'
<1>1. TableAt(v, 1)' = Root
  BY DEF TableAt
<1>2. TableAt(v, 2)' = Down(Root, PageIndex(v, 1))'
  BY DEF TableAt
<1>3. TableAt(v, 3)' = Down(Down(Root, PageIndex(v, 1)), PageIndex(v, 2))'
  BY DEF TableAt
<1>4. TableAt(v, 4)' =
        Down(Down(Down(Root, PageIndex(v, 1)), PageIndex(v, 2)), PageIndex(v, 3))'
  BY DEF TableAt
<1>5. \A l \in 1 .. 3 : l = 1 \/ l = 2 \/ l = 3
  OBVIOUS
<1>6. 1 + 1 = 2 /\ 2 + 1 = 3 /\ 3 + 1 = 4
  OBVIOUS
<1> QED
  BY <1>1, <1>2, <1>3, <1>4, <1>5, <1>6 DEF Down

LEMMA FromLevelOne ==
  ASSUME NEW S, 1 \in S, \A l \in 1 .. 3 : l \in S => l + 1 \in S
  PROVE  \A l \in Level : l \in S
<1>1. 2 \in S
  <2>1. 1 + 1 \in S
    OBVIOUS
  <2> QED
    BY <2>1
<1>2. 3 \in S
  <2>1. 2 + 1 \in S
    BY <1>1
  <2> QED
    BY <2>1
<1>3. 4 \in S
  <2>1. 3 + 1 \in S
    BY <1>2
  <2> QED
    BY <2>1
<1>4. \A l \in Level : l = 1 \/ l = 2 \/ l = 3 \/ l = 4
  BY DEF Level
<1> QED
  BY <1>1, <1>2, <1>3, <1>4

\* Every table the processor reaches for a page is a table of that level.
LEMMA TablesAreTables ==
  ASSUME Types, Shape, NEW v \in Page
  PROVE  \A l \in Level : \/ TableAt(v, l) = 0
                          \/ TableAt(v, l) \in Frames /\ kind[TableAt(v, l)] = l
<1> DEFINE S == { l \in Level : \/ TableAt(v, l) = 0
                                \/ TableAt(v, l) \in Frames /\ kind[TableAt(v, l)] = l }
<1>1. 1 \in S
  BY TableBelow, Boot DEF Shape, BootKinds, Levels, HeldOnce, Root, Level
<1>2. ASSUME NEW l \in 1 .. 3, l \in S PROVE l + 1 \in S
  <2>1. TableAt(v, l + 1) = Down(TableAt(v, l), PageIndex(v, l))
    BY TableBelow
  <2>2. PageIndex(v, l) \in Index /\ l + 1 \in Level
    BY Indices DEF Level
  <2>3. CASE TableAt(v, l) = 0
    BY <2>1, <2>2, <2>3, Constants DEF Down
  <2>4. CASE TableAt(v, l) \in Frames /\ kind[TableAt(v, l)] = l
    BY <2>1, <2>2, <2>4 DEF Down, Shape, Levels
  <2> QED
    BY <1>2, <2>3, <2>4
<1> HIDE DEF S
<1>3. \A l \in Level : l \in S
  BY <1>1, <1>2, FromLevelOne
<1> QED
  BY <1>3 DEF S

\* Pages that share a table share all indices above it.
LEMMA SharedTable ==
  ASSUME Types, Shape, NEW u \in Page, NEW v \in Page
  PROVE  \A l \in Level : (TableAt(u, l) = TableAt(v, l) /\ TableAt(u, l) # 0) =>
           \A k \in Level : k < l => PageIndex(u, k) = PageIndex(v, k)
<1> DEFINE S == { l \in Level :
                    (TableAt(u, l) = TableAt(v, l) /\ TableAt(u, l) # 0) =>
                       \A k \in Level : k < l => PageIndex(u, k) = PageIndex(v, k) }
<1>1. 1 \in S
  BY DEF Level
<1>2. ASSUME NEW l \in 1 .. 3, l \in S PROVE l + 1 \in S
  <2>1. l \in Level /\ l + 1 \in Level /\ l \in Nat
    BY DEF Level
  <2> SUFFICES ASSUME TableAt(u, l + 1) = TableAt(v, l + 1), TableAt(u, l + 1) # 0
               PROVE  \A k \in Level : k < l + 1 => PageIndex(u, k) = PageIndex(v, k)
    BY <2>1
  <2>2. /\ TableAt(u, l + 1) = Down(TableAt(u, l), PageIndex(u, l))
        /\ TableAt(v, l + 1) = Down(TableAt(v, l), PageIndex(v, l))
    BY TableBelow
  <2>3. TableAt(u, l) \in Frames /\ TableAt(v, l) \in Frames
    BY <2>2 DEF Down
  <2>4. TableAt(u, l) # 0 /\ TableAt(v, l) # 0
    BY <2>3, Constants
  <2>5. kind[TableAt(u, l)] = l /\ kind[TableAt(v, l)] = l
    BY <2>1, <2>4, TablesAreTables
  <2>6. PageIndex(u, l) \in Index /\ PageIndex(v, l) \in Index
    BY <2>1, Indices
  <2>7. tables[TableAt(u, l)][PageIndex(u, l)] = tables[TableAt(v, l)][PageIndex(v, l)]
        /\ tables[TableAt(u, l)][PageIndex(u, l)] # 0
    BY <2>2, <2>3 DEF Down
  <2>8. TableAt(u, l) = TableAt(v, l) /\ PageIndex(u, l) = PageIndex(v, l)
    BY <2>3, <2>5, <2>6, <2>7 DEF Shape, BootKinds, Levels, HeldOnce
  <2>9. \A k \in Level : k < l => PageIndex(u, k) = PageIndex(v, k)
    BY <1>2, <2>4, <2>8
  <2>10. \A k \in Level : k < l + 1 => k < l \/ k = l
    BY <2>1 DEF Level
  <2> QED
    BY <2>8, <2>9, <2>10
<1> HIDE DEF S
<1>3. \A l \in Level : l \in S
  BY <1>1, <1>2, FromLevelOne
<1> QED
  BY <1>3 DEF S

\* No two pages meet in the same entry of a last-level table.
LEMMA OneLeaf ==
  ASSUME Types, Shape, NEW u \in Page, NEW v \in Page,
         TableAt(u, 4) = TableAt(v, 4), TableAt(u, 4) # 0,
         PageIndex(u, 4) = PageIndex(v, 4)
  PROVE  u = v
<1>1. \A k \in Level : k < 4 => PageIndex(u, k) = PageIndex(v, k)
  BY SharedTable DEF Level
<1>2. \A k \in Level : k < 4 \/ k = 4
  BY DEF Level
<1> QED
  BY <1>1, <1>2, Indices

-----------------------------------------------------------------------------
(* What the changes of the tables do to the pages.                         *)

\* A cleared frame that becomes a table shows nothing new.
LEMMA LinkShowsNothing ==
  ASSUME Types, Shape, NEW p \in Frames, kind[p] = 0, p \notin BootFrames,
         NEW t \in Frames, kind[t] \in 1 .. 3, NEW i \in Index, tables[t][i] = 0,
         tables' = [[tables EXCEPT ![p] = Empty] EXCEPT ![t][i] = p],
         kind' = [kind EXCEPT ![p] = kind[t] + 1]
  PROVE  /\ tables' \in [Frames -> [Index -> Nat]] /\ kind' \in [Frames -> 0 .. 4]
         /\ Shape'
         /\ \A v \in Page : Translate(v)' = Translate(v)
         /\ \A v \in Page, l \in Level : TableAt(v, l) # 0 => TableAt(v, l)' = TableAt(v, l)
<1>1. p # t /\ p \in Nat /\ p # 0
  BY Constants
<1>2. Empty \in [Index -> Nat] /\ \A j \in Index : Empty[j] = 0
  BY DEF Empty
<1>3. \A f \in Frames, j \in Index :
        tables'[f][j] = IF f = t /\ j = i THEN p ELSE IF f = p THEN 0 ELSE tables[f][j]
  BY <1>1, <1>2 DEF Types
<1>4. tables' \in [Frames -> [Index -> Nat]]
  BY <1>1, <1>2 DEF Types
<1>5. \A f \in Frames : kind'[f] = IF f = p THEN kind[t] + 1 ELSE kind[f]
  BY DEF Types
<1>6. kind' \in [Frames -> 0 .. 4]
  BY DEF Types
<1>7. Shape'
  <2>1. \A l \in Level : kind'[BootTable[l]] = l
    BY <1>5, Boot DEF Shape, BootKinds, Levels, HeldOnce, BootFrames
  <2>2. ASSUME NEW f \in Frames, NEW j \in Index, kind'[f] \in 1 .. 3
        PROVE  \/ tables'[f][j] = 0
               \/ tables'[f][j] \in Frames /\ kind'[tables'[f][j]] = kind'[f] + 1
    <3>1. CASE f = t /\ j = i
      BY <1>1, <1>3, <1>5, <3>1
    <3>2. CASE f = p
      BY <1>1, <1>3, <3>2
    <3>3. CASE f # p /\ ~(f = t /\ j = i)
      <4>1. tables'[f][j] = tables[f][j] /\ kind'[f] = kind[f]
        <5>1. tables'[f][j] = IF f = t /\ j = i THEN p
                              ELSE IF f = p THEN 0 ELSE tables[f][j]
          BY <1>3
        <5> QED
          BY <1>5, <3>3, <5>1
      <4>2. tables[f][j] = 0 \/ (tables[f][j] \in Frames /\ kind[tables[f][j]] = kind[f] + 1)
        BY <2>2, <4>1 DEF Shape, BootKinds, Levels, HeldOnce
      <4>3. CASE tables[f][j] # 0
        <5>1. kind[tables[f][j]] # 0
          BY <2>2, <4>1, <4>2, <4>3
        <5> QED
          BY <1>5, <4>1, <4>2, <4>3, <5>1
      <4> QED
        BY <4>1, <4>3
    <3> QED
      BY <3>1, <3>2, <3>3
  <2>3. ASSUME NEW f \in Frames, NEW g \in Frames, NEW j \in Index, NEW k \in Index,
               kind'[f] \in 1 .. 3, kind'[g] \in 1 .. 3,
               tables'[f][j] # 0, tables'[f][j] = tables'[g][k]
        PROVE  f = g /\ j = k
    <3>1. \A h \in Frames, m \in Index : (kind[h] \in 1 .. 3) => tables[h][m] # p
      <4> SUFFICES ASSUME NEW h \in Frames, NEW m \in Index, kind[h] \in 1 .. 3,
                          tables[h][m] = p
                   PROVE  FALSE
        OBVIOUS
      <4>1. kind[p] = kind[h] + 1
        BY <1>1 DEF Shape, BootKinds, Levels, HeldOnce
      <4> QED
        BY <4>1
    <3>2. f # p \/ (f = t /\ j = i)
      BY <1>3, <2>3
    <3>3. g # p \/ (g = t /\ k = i)
      BY <1>3, <2>3
    <3>4. f # p /\ g # p
      BY <1>1, <3>2, <3>3
    <3>5. kind[f] \in 1 .. 3 /\ kind[g] \in 1 .. 3
      BY <1>5, <2>3, <3>4
    <3>6. CASE f = t /\ j = i
      BY <1>3, <2>3, <3>1, <3>4, <3>5, <3>6
    <3>7. CASE g = t /\ k = i
      BY <1>3, <2>3, <3>1, <3>4, <3>5, <3>7
    <3>8. CASE ~(f = t /\ j = i) /\ ~(g = t /\ k = i)
      <4>1. tables[f][j] # 0 /\ tables[f][j] = tables[g][k]
        BY <1>3, <2>3, <3>4, <3>8
      <4> QED
        BY <3>5, <4>1 DEF Shape, BootKinds, Levels, HeldOnce
    <3> QED
      BY <3>6, <3>7, <3>8
  <2>4. BootKinds'
    BY <2>1 DEF BootKinds
  <2>5. Levels'
    BY <2>2 DEF Levels
  <2>6. HeldOnce'
    BY <2>3 DEF HeldOnce
  <2> QED
    BY <2>4, <2>5, <2>6 DEF Shape
<1>8. \A v \in Page : \A l \in Level :
        \/ TableAt(v, l)' = TableAt(v, l)
        \/ TableAt(v, l) = 0 /\ TableAt(v, l)' = p
  <2> SUFFICES ASSUME NEW v \in Page
               PROVE  \A l \in Level : \/ TableAt(v, l)' = TableAt(v, l)
                                       \/ TableAt(v, l) = 0 /\ TableAt(v, l)' = p
    OBVIOUS
  <2> DEFINE S == { l \in Level : \/ TableAt(v, l)' = TableAt(v, l)
                                  \/ TableAt(v, l) = 0 /\ TableAt(v, l)' = p }
  <2>1. 1 \in S
    BY DEF TableAt, Level
  <2>2. ASSUME NEW l \in 1 .. 3, l \in S PROVE l + 1 \in S
    <3>1. l \in Level /\ l + 1 \in Level /\ PageIndex(v, l) \in Index
      BY Indices DEF Level
    <3>2. TableAt(v, l + 1) = Down(TableAt(v, l), PageIndex(v, l))
      BY TableBelow
    <3>3. TableAt(v, l + 1)' = Down(TableAt(v, l), PageIndex(v, l))'
      BY TableBelowNext
    <3>4. CASE TableAt(v, l)' = TableAt(v, l)
      <4>1. CASE TableAt(v, l) = 0
        BY <3>1, <3>2, <3>3, <3>4, <4>1, Constants DEF Down
      <4>2. CASE TableAt(v, l) # 0
        <5>1. TableAt(v, l) \in Frames /\ TableAt(v, l) # p
          BY <3>1, <4>2, TablesAreTables DEF Level
        <5> QED
          BY <1>3, <3>1, <3>2, <3>3, <3>4, <5>1 DEF Down
      <4> QED
        BY <4>1, <4>2
    <3>5. CASE TableAt(v, l) = 0 /\ TableAt(v, l)' = p
      <4>1. Down(TableAt(v, l), PageIndex(v, l)) = 0
        BY <3>5, Constants DEF Down
      <4>2. Down(TableAt(v, l), PageIndex(v, l))' = 0
        BY <1>1, <1>3, <3>1, <3>5 DEF Down
      <4> QED
        BY <3>1, <3>2, <3>3, <4>1, <4>2
    <3> QED
      BY <2>2, <3>4, <3>5
  <2> HIDE DEF S
  <2>3. \A l \in Level : l \in S
    BY <2>1, <2>2, FromLevelOne
  <2> QED
    BY <2>3 DEF S
<1>9. \A v \in Page : Translate(v)' = Translate(v)
  <2> SUFFICES ASSUME NEW v \in Page PROVE Translate(v)' = Translate(v)
    OBVIOUS
  <2>1. 4 \in Level /\ PageIndex(v, 4) \in Index
    BY Indices DEF Level
  <2>2. Translate(v) = Down(TableAt(v, 4), PageIndex(v, 4))
    BY DEF Translate
  <2>3. Translate(v)' = Down(TableAt(v, 4), PageIndex(v, 4))'
    BY DEF Translate
  <2>4. CASE TableAt(v, 4)' = TableAt(v, 4)
    <3>1. CASE TableAt(v, 4) = 0
      BY <2>2, <2>3, <2>4, <3>1, Constants DEF Down
    <3>2. CASE TableAt(v, 4) # 0
      <4>1. TableAt(v, 4) \in Frames /\ kind[TableAt(v, 4)] = 4
        BY <2>1, <3>2, TablesAreTables
      <4>2. TableAt(v, 4) # p /\ TableAt(v, 4) # t
        BY <4>1
      <4> DEFINE a == TableAt(v, 4)
                 x == PageIndex(v, 4)
      <4>3. Translate(v) = tables[a][x]
        BY <2>2, <4>1 DEF Down
      <4>4. Translate(v)' = tables'[a][x]
        BY <2>3, <2>4, <4>1 DEF Down
      <4> HIDE DEF a, x
      <4>5. a \in Frames /\ x \in Index /\ a # p /\ a # t
        BY <2>1, <4>1, <4>2 DEF a, x
      <4>6. tables'[a][x] = tables[a][x]
        <5>1. tables'[a][x] = IF a = t /\ x = i THEN p
                              ELSE IF a = p THEN 0 ELSE tables[a][x]
          BY <1>3, <4>5, Zenon
        <5> QED
          BY <4>5, <5>1, Zenon
      <4> QED
        BY <4>3, <4>4, <4>6 DEF a, x
    <3> QED
      BY <3>1, <3>2
  <2>5. CASE TableAt(v, 4) = 0 /\ TableAt(v, 4)' = p
    BY <1>1, <1>3, <2>1, <2>2, <2>3, <2>5, Constants DEF Down
  <2> QED
    BY <1>8, <2>1, <2>4, <2>5
<1> QED
  BY <1>4, <1>6, <1>7, <1>8, <1>9
\* Writing an entry of a last-level table changes the page it belongs to.
LEMMA LeafShowsOne ==
  ASSUME Types, Shape, NEW v \in Page, TableAt(v, 4) \in Frames, NEW x \in Nat,
         tables' = [tables EXCEPT ![TableAt(v, 4)][PageIndex(v, 4)] = x],
         kind' = kind
  PROVE  /\ tables' \in [Frames -> [Index -> Nat]]
         /\ Shape'
         /\ Translate(v)' = x
         /\ \A u \in Page \ {v} : Translate(u)' = Translate(u)
<1> DEFINE t == TableAt(v, 4)
           i == PageIndex(v, 4)
<1>1. 4 \in Level /\ i \in Index
  BY Indices DEF Level
<1>2. t # 0 /\ t \in Frames
  BY Constants
<1>3. kind[t] = 4
  BY <1>1, <1>2, TablesAreTables
<1>t. tables' = [tables EXCEPT ![t][i] = x]
  OBVIOUS
<1> HIDE DEF t, i
<1>4. tables' \in [Frames -> [Index -> Nat]]
  <2>1. [tables[t] EXCEPT ![i] = x] \in [Index -> Nat]
    BY <1>1, <1>2 DEF Types
  <2>2. tables' = [tables EXCEPT ![t] = [tables[t] EXCEPT ![i] = x]]
    BY <1>2, <1>t DEF Types
  <2> QED
    BY <2>1, <2>2 DEF Types
<1>5. \A f \in Frames, j \in Index :
        tables'[f][j] = IF f = t /\ j = i THEN x ELSE tables[f][j]
  BY <1>1, <1>2, <1>t DEF Types
<1>6. \A f \in Frames, j \in Index : kind[f] \in 1 .. 3 => tables'[f][j] = tables[f][j]
  <2> SUFFICES ASSUME NEW f \in Frames, NEW j \in Index, kind[f] \in 1 .. 3
               PROVE  tables'[f][j] = tables[f][j]
    OBVIOUS
  <2>1. f # t
    BY <1>3
  <2> QED
    BY <1>5, <2>1
<1>7. Shape'
  <2>1. BootKinds'
    BY DEF Shape, BootKinds
  <2>2. Levels'
    BY <1>6 DEF Shape, Levels
  <2>3. HeldOnce'
    BY <1>6 DEF Shape, HeldOnce
  <2> QED
    BY <2>1, <2>2, <2>3 DEF Shape
<1>8. \A u \in Page : TableAt(u, 4)' = TableAt(u, 4)
  <2> SUFFICES ASSUME NEW u \in Page PROVE TableAt(u, 4)' = TableAt(u, 4)
    OBVIOUS
  <2> DEFINE S == { l \in Level : TableAt(u, l)' = TableAt(u, l) }
  <2>1. 1 \in S
    BY DEF TableAt, Level
  <2>2. ASSUME NEW l \in 1 .. 3, l \in S PROVE l + 1 \in S
    <3>1. l \in Level /\ l + 1 \in Level /\ PageIndex(u, l) \in Index
      BY Indices DEF Level
    <3>2. TableAt(u, l + 1) = Down(TableAt(u, l), PageIndex(u, l))
      BY TableBelow
    <3>3. TableAt(u, l + 1)' = Down(TableAt(u, l), PageIndex(u, l))'
      BY TableBelowNext
    <3>4. TableAt(u, l) = 0 \/ (TableAt(u, l) \in Frames /\ kind[TableAt(u, l)] \in 1 .. 3)
      BY <3>1, TablesAreTables
    <3> QED
      BY <1>6, <2>2, <3>1, <3>2, <3>3, <3>4, Constants DEF Down
  <2> HIDE DEF S
  <2>3. 4 \in S
    BY <1>1, <2>1, <2>2, FromLevelOne
  <2> QED
    BY <2>3 DEF S
<1>9. ASSUME NEW u \in Page PROVE Translate(u)' = IF u = v THEN x ELSE Translate(u)
  <2>1. PageIndex(u, 4) \in Index
    BY <1>1, Indices
  <2>2. Translate(u)' = IF TableAt(u, 4) \in Frames
                        THEN tables'[TableAt(u, 4)][PageIndex(u, 4)] ELSE 0
    BY <1>8 DEF Translate, Down
  <2>3. Translate(u) = IF TableAt(u, 4) \in Frames
                       THEN tables[TableAt(u, 4)][PageIndex(u, 4)] ELSE 0
    BY DEF Translate, Down
  <2>4. CASE u = v
    BY <1>1, <1>2, <1>5, <2>2, <2>4 DEF t, i
  <2>5. CASE u # v
    <3>1. ~(TableAt(u, 4) = t /\ PageIndex(u, 4) = i)
      BY <1>2, <2>5, OneLeaf DEF t, i
    <3> QED
      BY <1>5, <2>1, <2>2, <2>3, <2>5, <3>1
  <2> QED
    BY <2>4, <2>5
<1> QED
  BY <1>4, <1>7, <1>9

\* What a driver does with a frame that is no table shows nowhere.
LEMMA OthersShowNothing ==
  ASSUME Types, Shape, NEW p \in Frames, kind[p] = 0, NEW e \in [Index -> Nat],
         tables' = [tables EXCEPT ![p] = e], kind' = kind
  PROVE  /\ Shape'
         /\ \A v \in Page : Translate(v)' = Translate(v)
<1>1. \A f \in Frames : kind[f] # 0 => tables'[f] = tables[f]
  BY DEF Types
<1>2. Shape'
  <2>1. BootKinds'
    BY DEF Shape, BootKinds
  <2>2. Levels'
    BY <1>1 DEF Shape, Levels
  <2>3. HeldOnce'
    BY <1>1 DEF Shape, HeldOnce
  <2> QED
    BY <2>1, <2>2, <2>3 DEF Shape
<1>3. ASSUME NEW v \in Page PROVE Translate(v)' = Translate(v)
  <2> DEFINE S == { l \in Level : TableAt(v, l)' = TableAt(v, l) }
  <2>a. 4 \in Level
    BY DEF Level
  <2>1. 1 \in S
    BY DEF TableAt, Level
  <2>2. ASSUME NEW l \in 1 .. 3, l \in S PROVE l + 1 \in S
    <3>1. l \in Level /\ l + 1 \in Level
      BY DEF Level
    <3>2. TableAt(v, l + 1) = Down(TableAt(v, l), PageIndex(v, l))
      BY TableBelow
    <3>3. TableAt(v, l + 1)' = Down(TableAt(v, l), PageIndex(v, l))'
      BY TableBelowNext
    <3>4. TableAt(v, l) = 0 \/ (TableAt(v, l) \in Frames /\ kind[TableAt(v, l)] # 0)
      BY <3>1, TablesAreTables
    <3> QED
      BY <1>1, <2>2, <3>1, <3>2, <3>3, <3>4, Constants DEF Down
  <2> HIDE DEF S
  <2>3. TableAt(v, 4)' = TableAt(v, 4)
    <3>1. 4 \in S
      BY <2>a, <2>1, <2>2, FromLevelOne
    <3> QED
      BY <3>1 DEF S
  <2>4. TableAt(v, 4) = 0 \/ (TableAt(v, 4) \in Frames /\ kind[TableAt(v, 4)] # 0)
    BY <2>a, TablesAreTables
  <2> QED
    BY <1>1, <2>3, <2>4, Constants DEF Translate, Down
<1> QED
  BY <1>2, <1>3
-----------------------------------------------------------------------------
(* The invariant.                                                          *)

Locals ==
  /\ nextMmio \in Page /\ running \in BOOLEAN /\ damaged \in BOOLEAN
  /\ page \in Nat /\ phys \in Nat /\ left \in Nat
  /\ level \in Level /\ table \in Nat
  /\ region \in [pages : Nat, whole : BOOLEAN]
  /\ \A w \in windows : w \in [virt : Page, phys : Nat, pages : Nat, whole : BOOLEAN]

\* map_page stands at the table of the page it maps.
Walking ==
  left > 0 => running /\ page \in Page /\ table \in Frames /\ table = TableAt(page, level)

\* mmio_remap goes through its pages and those of the device together.
Progress ==
  running => /\ left <= region.pages
             /\ page = nextMmio + (region.pages - left)
             /\ nextMmio + region.pages \in Page
             /\ phys - (region.pages - left) \in Target
             /\ phys + left \in Target

\* The pages mapped so far by the running call show the device.
RegionShown ==
  (running /\ region.whole) =>
    \A i \in 0 .. (region.pages - left) - 1 :
      Translate(nextMmio + i) = phys - (region.pages - left) + i

WindowsShown ==
  \A w \in windows :
    /\ w.virt + w.pages <= nextMmio
    /\ w.whole => \A i \in 0 .. w.pages - 1 : Translate(w.virt + i) = w.phys + i

KernelShown == WindowEnd <= KernelPage => Translate(KernelPage) = KernelFrame

Shown == RegionShown /\ WindowsShown /\ KernelShown

Intact == Books /\ Shape /\ Walking /\ Progress /\ Shown

PmInv == Types /\ Locals /\ (~damaged => Intact)

\* In the boot loader's tables the processor finds the kernel image, or nothing.
LEMMA BootShows ==
  ASSUME PmInit
  PROVE  /\ Types /\ Shape
         /\ \A v \in Page : Translate(v) \in {0, KernelFrame}
         /\ Translate(KernelPage) = KernelFrame
<1> DEFINE L(f) == CHOOSE k \in Level : BootTable[k] = f
<1>1. \A l \in Level : L(BootTable[l]) = l
  BY Boot
<1>2. \A f \in BootFrames : L(f) \in Level /\ BootTable[L(f)] = f
  BY DEF BootFrames
<1>3. tables = [f \in Frames |-> [i \in Index |->
        IF f \notin BootFrames THEN Dirt
        ELSE IF i # PageIndex(KernelPage, L(f)) THEN 0
             ELSE IF L(f) = 4 THEN KernelFrame ELSE BootTable[L(f) + 1]]]
  BY DEF PmInit
<1>4. kind = [f \in Frames |-> IF f \in BootFrames THEN L(f) ELSE 0]
  BY DEF PmInit
<1> HIDE DEF L
<1>5. \A l \in Level : l \in 0 .. 4 /\ l \in Nat /\ (l # 4 => l + 1 \in Level /\ l \in 1 .. 3)
  BY DEF Level
<1>6. \A l \in Level : BootTable[l] \in BootFrames /\ BootTable[l] \in Frames /\ BootTable[l] \in Nat
  BY Boot, Constants DEF BootFrames
<1>7. Types
  <2>1. \A f \in BootFrames : L(f) # 4 => BootTable[L(f) + 1] \in Nat
    BY <1>2, <1>5, <1>6
  <2>2. Dirt \in Nat /\ KernelFrame \in Nat
    BY Constants
  <2>3. tables \in [Frames -> [Index -> Nat]]
    BY <1>3, <2>1, <2>2
  <2>4. kind \in [Frames -> 0 .. 4]
    BY <1>2, <1>4, <1>5
  <2> QED
    BY <2>3, <2>4 DEF PmInit, Types, Pool!Init
<1>8. \A l \in Level, i \in Index :
        tables[BootTable[l]][i] = IF i # PageIndex(KernelPage, l) THEN 0
                                  ELSE IF l = 4 THEN KernelFrame ELSE BootTable[l + 1]
  BY <1>1, <1>3, <1>6
<1>9. \A f \in Frames : kind[f] \in 1 .. 3 => \E l \in Level : l # 4 /\ f = BootTable[l] /\ kind[f] = l
  BY <1>2, <1>4, <1>5
<1>10. Shape
  <2>1. BootKinds
    BY <1>1, <1>4, <1>6 DEF BootKinds
  <2>2. Levels
    <3> SUFFICES ASSUME NEW f \in Frames, NEW i \in Index, kind[f] \in 1 .. 3,
                        tables[f][i] # 0
                 PROVE  tables[f][i] \in Frames /\ kind[tables[f][i]] = kind[f] + 1
      BY DEF Levels
    <3>1. PICK l \in Level : l # 4 /\ f = BootTable[l] /\ kind[f] = l
      BY <1>9
    <3>2. tables[f][i] = BootTable[l + 1] /\ l + 1 \in Level
      BY <1>5, <1>8, <3>1
    <3> QED
      BY <1>6, <2>1, <3>1, <3>2 DEF BootKinds
  <2>3. HeldOnce
    <3> SUFFICES ASSUME NEW f \in Frames, NEW g \in Frames, NEW i \in Index, NEW j \in Index,
                        kind[f] \in 1 .. 3, kind[g] \in 1 .. 3,
                        tables[f][i] # 0, tables[f][i] = tables[g][j]
                 PROVE  f = g /\ i = j
      BY DEF HeldOnce
    <3>1. PICK l \in Level : l # 4 /\ f = BootTable[l]
      BY <1>9
    <3>2. PICK m \in Level : m # 4 /\ g = BootTable[m]
      BY <1>9
    <3>3. /\ tables[f][i] = BootTable[l + 1] /\ l + 1 \in Level
          /\ tables[g][j] = BootTable[m + 1] /\ m + 1 \in Level
          /\ i = PageIndex(KernelPage, l) /\ j = PageIndex(KernelPage, m)
      BY <1>5, <1>8, <3>1, <3>2
    <3>4. l + 1 = m + 1
      BY <3>3, Boot
    <3>5. l = m
      BY <1>5, <3>4
    <3> QED
      BY <3>1, <3>2, <3>3, <3>5
  <2> QED
    BY <2>1, <2>2, <2>3 DEF Shape
<1>11. ASSUME NEW v \in Page
       PROVE  \A l \in Level : \/ TableAt(v, l) = 0 /\ v # KernelPage
                               \/ TableAt(v, l) = BootTable[l]
  <2> DEFINE S == { l \in Level : \/ TableAt(v, l) = 0 /\ v # KernelPage
                                  \/ TableAt(v, l) = BootTable[l] }
  <2>1. 1 \in S
    BY TableBelow DEF Level, Root
  <2>2. ASSUME NEW l \in 1 .. 3, l \in S PROVE l + 1 \in S
    <3>1. l \in Level /\ l + 1 \in Level /\ PageIndex(v, l) \in Index /\ l # 4
      BY Indices DEF Level
    <3>2. TableAt(v, l + 1) = Down(TableAt(v, l), PageIndex(v, l))
      BY TableBelow
    <3>3. CASE TableAt(v, l) = 0 /\ v # KernelPage
      BY <3>1, <3>2, <3>3, Constants DEF Down
    <3>4. CASE TableAt(v, l) = BootTable[l]
      BY <1>6, <1>8, <3>1, <3>2, <3>4 DEF Down
    <3> QED
      BY <2>2, <3>3, <3>4
  <2> HIDE DEF S
  <2>3. \A l \in Level : l \in S
    BY <2>1, <2>2, FromLevelOne
  <2> QED
    BY <2>3 DEF S
<1>12. ASSUME NEW v \in Page
       PROVE  Translate(v) \in {0, KernelFrame} /\ (v = KernelPage => Translate(v) = KernelFrame)
  <2>1. 4 \in Level /\ PageIndex(v, 4) \in Index
    BY Indices DEF Level
  <2>2. Translate(v) = Down(TableAt(v, 4), PageIndex(v, 4))
    BY DEF Translate
  <2>3. CASE TableAt(v, 4) = 0 /\ v # KernelPage
    BY <2>2, <2>3, Constants DEF Down
  <2>4. CASE TableAt(v, 4) = BootTable[4]
    BY <1>6, <1>8, <2>1, <2>2, <2>4 DEF Down
  <2> QED
    BY <1>11, <2>1, <2>3, <2>4
<1> QED
  BY <1>7, <1>10, <1>12, Constants

LEMMA PmInvInit == PmInit => PmInv
<1> SUFFICES ASSUME PmInit PROVE PmInv
  OBVIOUS
<1>1. Types /\ Shape /\ Translate(KernelPage) = KernelFrame
  BY BootShows
<1>2. Locals
  <2>1. /\ nextMmio \in Page /\ page \in Nat /\ phys \in Nat /\ left \in Nat
        /\ level \in Level /\ table \in Nat
    BY Boot, Constants DEF PmInit, Level
  <2>2. running \in BOOLEAN /\ damaged \in BOOLEAN /\ windows = {}
    BY DEF PmInit
  <2>3. region \in [pages : Nat, whole : BOOLEAN]
    BY DEF PmInit
  <2> QED
    BY <2>1, <2>2, <2>3 DEF Locals
<1>3. Books
  <2>1. \A f \in Frames \ BootFrames : kind[f] = 0
    BY DEF PmInit
  <2> QED
    BY <2>1 DEF PmInit, Books, Pool!Init
<1>4. Walking /\ Progress
  BY DEF PmInit, Walking, Progress
<1>5. Shown
  BY <1>1 DEF PmInit, Shown, RegionShown, WindowsShown, KernelShown
<1> QED
  BY <1>1, <1>2, <1>3, <1>4, <1>5 DEF PmInv, Intact
-----------------------------------------------------------------------------
(* Every step keeps the invariant.                                         *)

\* The pages the invariant speaks of are pages.
LEMMA ShownPages ==
  ASSUME Locals, Progress, Shown
  PROVE  /\ \A w \in windows, i \in Nat : i \in 0 .. w.pages - 1 =>
              w.virt + i \in Page /\ w.virt + i < nextMmio
         /\ running => \A i \in 0 .. (region.pages - left) - 1 : nextMmio + i \in Page
<1>1. \A w \in windows, i \in Nat : i \in 0 .. w.pages - 1 =>
        w.virt + i \in Page /\ w.virt + i < nextMmio
  <2> SUFFICES ASSUME NEW w \in windows, NEW i \in Nat, i \in 0 .. w.pages - 1
               PROVE  w.virt + i \in Page /\ w.virt + i < nextMmio
    OBVIOUS
  <2>1. w.virt \in Page /\ w.pages \in Nat /\ nextMmio \in Page
    BY DEF Locals
  <2>2. w.virt + w.pages <= nextMmio
    BY DEF Shown, WindowsShown
  <2>3. w.virt \in Nat /\ nextMmio \in Nat
    BY <2>1, Constants
  <2>4. w.virt + i \in Nat /\ w.virt + i < nextMmio
    BY <2>1, <2>2, <2>3
  <2> QED
    BY <2>1, <2>3, <2>4, PagesBelow
<1>2. ASSUME running, NEW i \in 0 .. (region.pages - left) - 1
      PROVE  nextMmio + i \in Page
  <2>1. region.pages \in Nat /\ left \in Nat /\ nextMmio \in Page
    BY DEF Locals
  <2>2. nextMmio + region.pages \in Page
    BY <1>2 DEF Progress
  <2>3. nextMmio \in Nat /\ nextMmio + region.pages \in Nat
    BY <2>1, <2>2, Constants
  <2>4. nextMmio + i \in Nat /\ nextMmio + i < nextMmio + region.pages
    BY <1>2, <2>1, <2>3
  <2> QED
    BY <2>2, <2>3, <2>4, PagesBelow
<1> QED
  BY <1>1, <1>2

\* A step that leaves every page as it is keeps what is shown.
LEMMA ShownKept ==
  ASSUME Locals, Progress, Shown, \A v \in Page : Translate(v)' = Translate(v),
         UNCHANGED << nextMmio, running, page, phys, left, region, windows >>
  PROVE  Shown' /\ Progress'
<1>1. RegionShown'
  <2> SUFFICES ASSUME running, region.whole, NEW i \in 0 .. (region.pages - left) - 1
               PROVE  Translate(nextMmio + i)' = phys - (region.pages - left) + i
    BY DEF RegionShown
  <2>1. nextMmio + i \in Page
    BY ShownPages
  <2>2. Translate(nextMmio + i) = phys - (region.pages - left) + i
    BY DEF Shown, RegionShown
  <2> QED
    BY <2>1, <2>2
<1>2. WindowsShown'
  <2> SUFFICES ASSUME NEW w \in windows
               PROVE  /\ w.virt + w.pages <= nextMmio
                      /\ w.whole => \A i \in 0 .. w.pages - 1 :
                                      Translate(w.virt + i)' = w.phys + i
    BY DEF WindowsShown
  <2>1. w.virt + w.pages <= nextMmio
    BY DEF Shown, WindowsShown
  <2>2. ASSUME w.whole, NEW i \in 0 .. w.pages - 1
        PROVE  Translate(w.virt + i)' = w.phys + i
    <3>1. w.pages \in Nat /\ i \in Nat
      BY DEF Locals
    <3>2. w.virt + i \in Page
      BY <3>1, ShownPages
    <3>3. Translate(w.virt + i) = w.phys + i
      BY <2>2 DEF Shown, WindowsShown
    <3> QED
      BY <3>2, <3>3
  <2> QED
    BY <2>1, <2>2
<1>3. KernelShown'
  BY Constants DEF Shown, KernelShown, WindowEnd
<1>4. Progress'
  BY DEF Progress
<1> QED
  BY <1>1, <1>2, <1>3, <1>4 DEF Shown

LEMMA MmInitStep ==
  ASSUME PmInv, ~damaged, MmInit
  PROVE  PmInv' /\ \A v \in Page : Translate(v)' = Translate(v)
<1>1. /\ ~up /\ up' = TRUE /\ avail' = Frames /\ UNCHANGED << inUse, reply >>
      /\ nextMmio' = WindowBase
      /\ UNCHANGED << tables, kind, running, region, windows, damaged >>
      /\ UNCHANGED << page, phys, left, level, table >>
  BY DEF MmInit, Pool!Fill, walk
<1>2. Types /\ Locals /\ Books /\ Shape /\ Walking /\ Progress /\ Shown
  BY DEF PmInv, Intact
<1>3. inUse = {} /\ windows = {} /\ ~running
  BY <1>1, <1>2 DEF Books
<1>4. \A v \in Page : Translate(v)' = Translate(v)
  BY <1>1 DEF Translate, TableAt, Down
<1>5. Types'
  BY <1>1, <1>2 DEF Types
<1>6. Locals'
  BY <1>1, <1>2, Constants DEF Locals
<1>7. Books'
  BY <1>1, <1>2, <1>3 DEF Books
<1>8. Shape'
  BY <1>1, <1>2 DEF Shape, BootKinds, Levels, HeldOnce
<1>9. Walking' /\ Progress'
  BY <1>1, <1>2, <1>3 DEF Walking, Progress, Locals
<1>10. Shown'
  <2>1. RegionShown' /\ WindowsShown'
    BY <1>1, <1>3 DEF RegionShown, WindowsShown
  <2>2. KernelShown'
    <3>1. nextMmio = 0 /\ WindowEnd = 0
      BY <1>1, <1>2, <1>3 DEF Books, WindowEnd
    <3>2. Translate(KernelPage) = KernelFrame
      BY <1>2, <3>1, Constants DEF Shown, KernelShown
    <3> QED
      BY <1>4, <3>2, Constants DEF KernelShown
  <2> QED
    BY <2>1, <2>2 DEF Shown
<1> QED
  BY <1>4, <1>5, <1>6, <1>7, <1>8, <1>9, <1>10 DEF PmInv, Intact
LEMMA MmioRemapStep ==
  ASSUME PmInv, ~damaged, NEW r \in Regions, MmioRemap(r)
  PROVE  PmInv' /\ \A v \in Page : Translate(v)' = Translate(v)
<1> DEFINE n == PagesNeeded(r)
           first == r.addr \div PageSize
<1>1. /\ up /\ ~running /\ nextMmio + n \in Page
      /\ running' = TRUE /\ page' = nextMmio /\ phys' = first /\ left' = n
      /\ level' = 1 /\ table' = Root /\ region' = [pages |-> n, whole |-> TRUE]
      /\ UNCHANGED << up, avail, inUse, reply, tables, kind, nextMmio, windows, damaged >>
  BY DEF MmioRemap, pool
<1>2. Types /\ Locals /\ Books /\ Shape /\ Walking /\ Progress /\ Shown
  BY DEF PmInv, Intact
<1>3. n \in Nat /\ first \in Target /\ first + n \in Target
  BY RegionPages
<1> HIDE DEF n, first
<1>4. \A v \in Page : Translate(v)' = Translate(v)
  BY <1>1 DEF Translate, TableAt, Down
<1>5. Types' /\ Books'
  BY <1>1, <1>2 DEF Types, Books
<1>6. Locals'
  <2>1. /\ nextMmio \in Nat /\ first \in Nat /\ 1 \in Level /\ Root \in Nat
    BY <1>2, <1>3, Constants, Boot DEF Locals, Level
  <2>2. region' \in [pages : Nat, whole : BOOLEAN]
    BY <1>1, <1>3
  <2>3. running' \in BOOLEAN /\ damaged' \in BOOLEAN
    BY <1>1, <1>2 DEF Locals
  <2> QED
    BY <1>1, <1>2, <1>3, <2>1, <2>2, <2>3 DEF Locals
<1>7. Shape'
  BY <1>1, <1>2 DEF Shape, BootKinds, Levels, HeldOnce
<1>8. Walking'
  <2>1. TableAt(page, level)' = Root
    BY <1>1 DEF TableAt
  <2> QED
    BY <1>1, <1>2, <2>1, Boot DEF Walking, Locals
<1>9. Progress'
  <2>1. nextMmio \in Nat /\ first \in Nat
    BY <1>2, <1>3, Constants DEF Locals
  <2> QED
    BY <1>1, <1>3, <2>1 DEF Progress
<1>10. Shown'
  <2>1. RegionShown'
    BY <1>1, <1>3 DEF RegionShown
  <2>2. WindowsShown'
    <3> SUFFICES ASSUME NEW w \in windows
                 PROVE  /\ w.virt + w.pages <= nextMmio
                        /\ w.whole => \A i \in 0 .. w.pages - 1 :
                                        Translate(w.virt + i)' = w.phys + i
      BY <1>1 DEF WindowsShown
    <3>1. w.virt + w.pages <= nextMmio
      BY <1>2 DEF Shown, WindowsShown
    <3>2. ASSUME w.whole, NEW i \in 0 .. w.pages - 1
          PROVE  Translate(w.virt + i)' = w.phys + i
      <4>1. w.virt + i \in Page
        BY <1>2, ShownPages DEF Locals
      <4>2. Translate(w.virt + i) = w.phys + i
        BY <1>2, <3>2 DEF Shown, WindowsShown
      <4> QED
        BY <1>4, <4>1, <4>2
    <3> QED
      BY <3>1, <3>2
  <2>3. KernelShown'
    <3>1. WindowEnd = nextMmio /\ WindowEnd' = nextMmio + n
      BY <1>1, <1>2, Constants DEF WindowEnd, Locals
    <3>2. WindowEnd' <= KernelPage => WindowEnd <= KernelPage
      BY <1>2, <1>3, <3>1, Constants DEF Locals
    <3> QED
      BY <1>2, <1>4, <3>2, Constants DEF Shown, KernelShown
  <2> QED
    BY <2>1, <2>2, <2>3 DEF Shown
<1> QED
  BY <1>4, <1>5, <1>6, <1>7, <1>8, <1>9, <1>10 DEF PmInv, Intact

LEMMA DescendStep ==
  ASSUME PmInv, ~damaged, Descend
  PROVE  PmInv' /\ \A v \in Page : Translate(v)' = Translate(v)
<1>1. /\ left > 0 /\ level < 4 /\ Entry # 0 /\ level' = level + 1 /\ table' = Entry
      /\ UNCHANGED << up, avail, inUse, reply, tables, kind, nextMmio, running, page, phys,
                      left, region, windows, damaged >>
  BY DEF Descend, pool
<1>2. Types /\ Locals /\ Books /\ Shape /\ Walking /\ Progress /\ Shown
  BY DEF PmInv, Intact
<1>3. \A v \in Page : Translate(v)' = Translate(v)
  BY <1>1 DEF Translate, TableAt, Down
<1>4. page \in Page /\ table \in Frames /\ table = TableAt(page, level)
  BY <1>1, <1>2 DEF Walking
<1>5. level \in 1 .. 3 /\ level + 1 \in Level /\ level \in Level
  BY <1>1, <1>2 DEF Locals, Level
<1>6. kind[table] = level /\ PageIndex(page, level) \in Index
  BY <1>2, <1>4, <1>5, TablesAreTables, Indices, Constants
<1>7. Entry \in Frames /\ Entry \in Nat
  BY <1>1, <1>2, <1>4, <1>5, <1>6, Constants DEF Entry, Shape, Levels
<1>8. TableAt(page, level + 1) = Entry
  <2>1. TableAt(page, level + 1) = Down(TableAt(page, level), PageIndex(page, level))
    BY <1>5, TableBelow
  <2> QED
    BY <1>4, <2>1 DEF Down, Entry
<1>9. Walking'
  <2>1. TableAt(page, level)' = TableAt(page, level + 1)
    BY <1>1 DEF TableAt, Down
  <2> QED
    BY <1>1, <1>2, <1>7, <1>8, <2>1 DEF Walking
<1>10. Types' /\ Books' /\ Locals'
  BY <1>1, <1>2, <1>5, <1>7 DEF Types, Books, Locals
<1>11. Shape'
  BY <1>1, <1>2 DEF Shape, BootKinds, Levels, HeldOnce
<1>12. Shown' /\ Progress'
  BY <1>1, <1>2, <1>3, ShownKept
<1> QED
  BY <1>3, <1>9, <1>10, <1>11, <1>12 DEF PmInv, Intact

\* A frame is taken from the pool: a boot table, or one that is no table.
LEMMA AcquireFresh ==
  ASSUME Types, Books, Pool!Acquire
  PROVE  /\ reply' \in Frames
         /\ reply' \notin BootFrames => kind[reply'] = 0
         /\ up /\ up' = up
         /\ avail' = avail \ {reply'} /\ inUse' = inUse \cup {reply'}
BY DEF Types, Books, Pool!Acquire

LEMMA NewTableStep ==
  ASSUME PmInv, ~damaged, NewTable
  PROVE  PmInv' /\ (~damaged' => \A v \in Page : Translate(v)' = Translate(v))
<1> DEFINE p == reply'
           ix == PageIndex(page, level)
<1>1. /\ left > 0 /\ level < 4 /\ Entry = 0 /\ Pool!Acquire
      /\ tables' = [[tables EXCEPT ![p] = Empty] EXCEPT ![table][ix] = p]
      /\ kind' = [kind EXCEPT ![p] = level + 1]
      /\ damaged' = (damaged \/ p \in BootFrames)
      /\ level' = level + 1 /\ table' = p
      /\ UNCHANGED << nextMmio, running, page, phys, left, region, windows >>
  BY DEF NewTable, Linked
<1>2. Types /\ Locals /\ Books /\ Shape /\ Walking /\ Progress /\ Shown
  BY DEF PmInv, Intact
<1>3. /\ p \in Frames /\ (p \notin BootFrames => kind[p] = 0) /\ up /\ up' = up
      /\ avail' = avail \ {p} /\ inUse' = inUse \cup {p}
  BY <1>1, <1>2, AcquireFresh
<1> HIDE DEF p, ix
<1>4. page \in Page /\ table \in Frames /\ table = TableAt(page, level)
  BY <1>1, <1>2 DEF Walking
<1>5. level \in 1 .. 3 /\ level + 1 \in Level /\ level \in Level /\ level + 1 \in 0 .. 4
  BY <1>1, <1>2 DEF Locals, Level
<1>6. kind[table] = level /\ ix \in Index
  BY <1>2, <1>4, <1>5, TablesAreTables, Indices, Constants DEF ix
<1>7. p \in Nat /\ p # 0
  BY <1>3, Constants
<1>8. tables' \in [Frames -> [Index -> Nat]] /\ kind' \in [Frames -> 0 .. 4]
  <2>1. Empty \in [Index -> Nat]
    BY DEF Empty
  <2>2. [tables EXCEPT ![p] = Empty] \in [Frames -> [Index -> Nat]]
    BY <1>2, <2>1 DEF Types
  <2> DEFINE T == [tables EXCEPT ![p] = Empty]
  <2>3. [T[table] EXCEPT ![ix] = p] \in [Index -> Nat]
    BY <1>4, <1>6, <1>7, <2>2
  <2>4. tables' = [T EXCEPT ![table] = [T[table] EXCEPT ![ix] = p]]
    BY <1>1, <1>4, <2>2
  <2>5. tables' \in [Frames -> [Index -> Nat]]
    <3> HIDE DEF T
    <3> QED
      BY <2>2, <2>3, <2>4 DEF T
  <2>6. kind' \in [Frames -> 0 .. 4]
    BY <1>1, <1>2, <1>3, <1>5 DEF Types
  <2> QED
    BY <2>5, <2>6
<1>9. Types'
  <2>1. up' \in BOOLEAN
    BY <1>2, <1>3 DEF Types
  <2>2. avail' \in SUBSET Frames /\ inUse' \in SUBSET Frames /\ reply' \in Frames \cup Strays \cup {0}
    BY <1>2, <1>3 DEF Types, p
  <2> QED
    BY <1>8, <2>1, <2>2 DEF Types
<1>10. Locals'
  <2>1. damaged' \in BOOLEAN
    BY <1>1
  <2> QED
    BY <1>1, <1>2, <1>5, <1>7, <2>1 DEF Locals
<1>11. ASSUME ~damaged'
       PROVE  Intact' /\ \A v \in Page : Translate(v)' = Translate(v)
  <2>1. p \notin BootFrames /\ kind[p] = 0
    BY <1>1, <1>3, <1>11
  <2>2. tables[table][ix] = 0
    BY <1>1 DEF Entry, ix
  <2>3. /\ Shape'
        /\ \A v \in Page : Translate(v)' = Translate(v)
        /\ \A v \in Page, l \in Level : TableAt(v, l) # 0 => TableAt(v, l)' = TableAt(v, l)
    <3>1. kind' = [kind EXCEPT ![p] = kind[table] + 1] /\ kind[table] \in 1 .. 3
      BY <1>1, <1>5, <1>6
    <3>2. tables' = [[tables EXCEPT ![p] = Empty] EXCEPT ![table][ix] = p]
      BY <1>1
    <3>3. Types /\ Shape /\ p \in Frames /\ table \in Frames /\ ix \in Index
      BY <1>2, <1>3, <1>4, <1>6
    <3> QED
      BY <2>1, <2>2, <3>1, <3>2, <3>3, LinkShowsNothing
  <2>4. Books'
    <3>1. BootFrames \cap inUse' = {} /\ avail' \cap inUse' = {}
      BY <1>2, <1>3, <2>1 DEF Books
    <3>2. ASSUME NEW f \in Frames \ BootFrames, kind'[f] # 0 PROVE f \in inUse'
      BY <1>1, <1>2, <1>3, <3>2 DEF Books, Types
    <3> QED
      BY <1>3, <3>1, <3>2 DEF Books
  <2>5. Shown' /\ Progress'
    BY <1>1, <1>2, <2>3, ShownKept
  <2>6. Walking'
    <3>1. PICK l \in 1 .. 3 : l = level
      BY <1>5
    <3>2. PICK v \in Page : v = page
      BY <1>4
    <3>a. TableAt(v, l)' = table /\ PageIndex(v, l) = ix
      BY <1>4, <1>5, <2>3, <3>1, <3>2, Constants DEF ix
    <3>3. tables'[table][ix] = p
      <4>1. table # p
        BY <1>5, <1>6, <2>1
      <4>2. ix \in DOMAIN tables[table]
        BY <1>2, <1>4, <1>6 DEF Types
      <4> QED
        BY <1>1, <1>2, <1>3, <1>4, <1>6, <4>1, <4>2 DEF Types
    <3>4. TableAt(v, l + 1)' = Down(TableAt(v, l), PageIndex(v, l))'
      BY TableBelowNext
    <3>5. Down(TableAt(v, l), PageIndex(v, l))' = p
      BY <1>4, <3>a, <3>3 DEF Down
    <3>6. TableAt(page, level)' = TableAt(v, l + 1)'
      BY <1>1, <3>1, <3>2
    <3> QED
      BY <1>1, <1>2, <1>3, <1>4, <3>4, <3>5, <3>6 DEF Walking
  <2> QED
    BY <2>3, <2>4, <2>5, <2>6 DEF Intact
<1> QED
  BY <1>9, <1>10, <1>11 DEF PmInv
\* The running call goes to its next page, or is done.
LEMMA NextPageWalks ==
  ASSUME PmInv, ~damaged, left > 0, NextPage, Shape',
         UNCHANGED << nextMmio, running, windows, damaged >>,
         region'.pages = region.pages, region' \in [pages : Nat, whole : BOOLEAN]
  PROVE  Locals' /\ Walking' /\ Progress'
<1>1. /\ page' = page + 1 /\ phys' = phys + 1 /\ left' = left - 1
      /\ level' = 1 /\ table' = Root
  BY DEF NextPage
<1>2. Locals /\ Walking /\ Progress
  BY DEF PmInv, Intact
<1>3. Root \in Nat /\ Root \in Frames /\ 1 \in Level
  BY Boot, Constants DEF Level
<1>4. page \in Nat /\ phys \in Nat /\ left \in Nat /\ region.pages \in Nat /\ nextMmio \in Nat
  BY <1>2, Constants DEF Locals
<1>5. Locals'
  BY <1>1, <1>2, <1>3, <1>4 DEF Locals
<1>6. running
  BY <1>2 DEF Walking
<1>7. Progress'
  <2>1. /\ left <= region.pages /\ page = nextMmio + (region.pages - left)
        /\ nextMmio + region.pages \in Page
        /\ phys - (region.pages - left) \in Target /\ phys + left \in Target
    BY <1>2, <1>6 DEF Progress
  <2>2. /\ left - 1 <= region.pages /\ page + 1 = nextMmio + (region.pages - (left - 1))
        /\ (phys + 1) - (region.pages - (left - 1)) = phys - (region.pages - left)
        /\ (phys + 1) + (left - 1) = phys + left
    BY <1>4, <2>1
  <2> QED
    BY <1>1, <2>1, <2>2 DEF Progress
<1>8. Walking'
  <2>1. TableAt(page, level)' = Root
    BY <1>1 DEF TableAt
  <2>2. ASSUME left - 1 > 0 PROVE page + 1 \in Page
    <3>1. page + 1 <= nextMmio + region.pages /\ nextMmio + region.pages \in Page
      BY <1>2, <1>4, <1>6, <2>2 DEF Progress
    <3> QED
      BY <1>4, <3>1, PagesBelow
  <2> QED
    BY <1>1, <1>3, <1>6, <2>1, <2>2 DEF Walking
<1> QED
  BY <1>5, <1>7, <1>8

LEMMA OutOfFramesStep ==
  ASSUME PmInv, ~damaged, OutOfFrames
  PROVE  PmInv' /\ \A v \in Page : Translate(v)' = Translate(v)
<1>1. /\ left > 0 /\ up /\ avail = {} /\ reply' = 0 /\ UNCHANGED << up, avail, inUse >>
      /\ NextPage /\ region' = [region EXCEPT !.whole = FALSE]
      /\ UNCHANGED << tables, kind, nextMmio, running, windows, damaged >>
  BY DEF OutOfFrames, Pool!Exhausted
<1>2. Types /\ Locals /\ Books /\ Shape /\ Walking /\ Progress /\ Shown
  BY DEF PmInv, Intact
<1>3. \A v \in Page : Translate(v)' = Translate(v)
  BY <1>1 DEF Translate, TableAt, Down
<1>4. /\ region'.pages = region.pages /\ ~region'.whole
      /\ region' \in [pages : Nat, whole : BOOLEAN]
  BY <1>1, <1>2 DEF Locals
<1>5. Shape'
  BY <1>1, <1>2 DEF Shape, BootKinds, Levels, HeldOnce
<1>6. Locals' /\ Walking' /\ Progress'
  BY <1>1, <1>4, <1>5, NextPageWalks
<1>7. Types' /\ Books'
  BY <1>1, <1>2 DEF Types, Books
<1>8. Shown'
  <2>1. RegionShown'
    BY <1>4 DEF RegionShown
  <2>2. WindowsShown'
    <3> SUFFICES ASSUME NEW w \in windows
                 PROVE  /\ w.virt + w.pages <= nextMmio
                        /\ w.whole => \A i \in 0 .. w.pages - 1 :
                                        Translate(w.virt + i)' = w.phys + i
      BY <1>1 DEF WindowsShown
    <3>1. w.virt + w.pages <= nextMmio
      BY <1>2 DEF Shown, WindowsShown
    <3>2. ASSUME w.whole, NEW i \in 0 .. w.pages - 1
          PROVE  Translate(w.virt + i)' = w.phys + i
      <4>1. w.virt + i \in Page
        BY <1>2, ShownPages DEF Locals
      <4>2. Translate(w.virt + i) = w.phys + i
        BY <1>2, <3>2 DEF Shown, WindowsShown
      <4> QED
        BY <1>3, <4>1, <4>2
    <3> QED
      BY <3>1, <3>2
  <2>3. KernelShown'
    BY <1>1, <1>2, <1>3, <1>4, Constants DEF Shown, KernelShown, WindowEnd
  <2> QED
    BY <2>1, <2>2, <2>3 DEF Shown
<1> QED
  BY <1>3, <1>5, <1>6, <1>7, <1>8 DEF PmInv, Intact

\* A table beyond 4 GiB ends what is promised; the types remain.
LEMMA StrayTableStep ==
  ASSUME PmInv, ~damaged, StrayTable
  PROVE  PmInv' /\ damaged'
<1> DEFINE p == reply'
           ix == PageIndex(page, level)
<1>1. /\ left > 0 /\ level < 4 /\ up' = up /\ avail' = avail /\ inUse' = inUse
      /\ p \in {0} \cup Strays
      /\ tables' = [tables EXCEPT ![table][ix] = p]
      /\ level' = level + 1 /\ table' = p /\ damaged' = TRUE
      /\ UNCHANGED << kind, nextMmio, running, page, phys, left, region, windows >>
  BY DEF StrayTable, Pool!Exhausted
<1> HIDE DEF p, ix
<1>2. Types /\ Locals /\ Shape /\ Walking
  BY DEF PmInv, Intact
<1>3. p \in Nat
  BY <1>1, Constants, PageMapAssumption DEF ConstantsOK
<1>4. page \in Page /\ table \in Frames /\ table = TableAt(page, level)
  BY <1>1, <1>2 DEF Walking
<1>5. level \in Level /\ level + 1 \in Level
  BY <1>1, <1>2 DEF Locals, Level
<1>6. ix \in Index
  BY <1>4, <1>5, Indices DEF ix
<1>7. tables' \in [Frames -> [Index -> Nat]]
  <2>1. [tables[table] EXCEPT ![ix] = p] \in [Index -> Nat]
    BY <1>2, <1>3, <1>4, <1>6 DEF Types
  <2>2. tables' = [tables EXCEPT ![table] = [tables[table] EXCEPT ![ix] = p]]
    BY <1>1, <1>2, <1>4 DEF Types
  <2> QED
    BY <1>2, <2>1, <2>2 DEF Types
<1>8. Types'
  <2>1. reply' \in Frames \cup Strays \cup {0}
    BY <1>1 DEF p
  <2> QED
    BY <1>1, <1>2, <1>7, <2>1 DEF Types
<1>9. Locals'
  <2>1. damaged' \in BOOLEAN
    BY <1>1
  <2> QED
    BY <1>1, <1>2, <1>3, <1>5, <2>1 DEF Locals
<1> QED
  BY <1>1, <1>8, <1>9 DEF PmInv

LEMMA MapLeafStep ==
  ASSUME PmInv, ~damaged, MapLeaf
  PROVE  /\ PmInv'
         /\ \E v \in Page : /\ Translate(v)' \in Target
                           /\ \A u \in Page \ {v} : Translate(u)' = Translate(u)
<1>1. /\ left > 0 /\ level = 4
      /\ tables' = [tables EXCEPT ![table][PageIndex(page, 4)] = phys]
      /\ NextPage
      /\ UNCHANGED << up, avail, inUse, reply, kind, nextMmio, running, region, windows,
                      damaged >>
  BY DEF MapLeaf, pool
<1>2. Types /\ Locals /\ Books /\ Shape /\ Walking /\ Progress /\ Shown
  BY DEF PmInv, Intact
<1>3. running /\ page \in Page /\ table \in Frames /\ table = TableAt(page, 4)
  BY <1>1, <1>2 DEF Walking
<1>4. /\ page \in Nat /\ phys \in Nat /\ left \in Nat /\ region.pages \in Nat
      /\ nextMmio \in Nat /\ KernelPage \in Nat
  BY <1>2, Constants DEF Locals
<1>5. /\ left <= region.pages /\ page = nextMmio + (region.pages - left)
      /\ phys - (region.pages - left) \in Target /\ phys + left \in Target
  BY <1>2, <1>3 DEF Progress
<1>6. phys \in Target
  BY <1>4, <1>5, Constants DEF Target
<1>7. PICK v \in Page : v = page
  BY <1>3
<1>8. /\ tables' \in [Frames -> [Index -> Nat]] /\ Shape'
      /\ Translate(v)' = phys
      /\ \A u \in Page \ {v} : Translate(u)' = Translate(u)
  <2>1. tables' = [tables EXCEPT ![TableAt(v, 4)][PageIndex(v, 4)] = phys]
    BY <1>1, <1>3, <1>7
  <2>2. TableAt(v, 4) \in Frames /\ kind' = kind /\ Types /\ Shape
    BY <1>1, <1>2, <1>3, <1>7
  <2> QED
    BY <1>4, <2>1, <2>2, LeafShowsOne
<1>9. Locals' /\ Walking' /\ Progress'
  <2>1. region'.pages = region.pages /\ region' \in [pages : Nat, whole : BOOLEAN]
    BY <1>1, <1>2 DEF Locals
  <2> QED
    BY <1>1, <1>8, <2>1, NextPageWalks
<1>10. Types' /\ Books'
  BY <1>1, <1>2, <1>8 DEF Types, Books
<1>11. Shown'
  <2>1. RegionShown'
    <3> SUFFICES ASSUME region.whole, NEW i \in 0 .. (region.pages - (left - 1)) - 1,
                        NEW u, u = nextMmio + i
                 PROVE  Translate(u)' = (phys + 1) - (region.pages - (left - 1)) + i
      BY <1>1 DEF RegionShown, NextPage
    <3>1. CASE i = region.pages - left
      <4>1. u = v
        BY <1>5, <1>7, <3>1
      <4>2. phys = (phys + 1) - (region.pages - (left - 1)) + i
        BY <1>4, <3>1
      <4> QED
        BY <1>8, <4>1, <4>2
    <3>2. CASE i # region.pages - left
      <4>1. i \in 0 .. (region.pages - left) - 1
        BY <1>4, <1>5, <3>2
      <4>2. u \in Page /\ u # v
        BY <1>2, <1>3, <1>4, <1>5, <1>7, <4>1, ShownPages
      <4>3. Translate(u) = phys - (region.pages - left) + i
        BY <1>2, <1>3, <4>1 DEF Shown, RegionShown
      <4>4. phys - (region.pages - left) + i = (phys + 1) - (region.pages - (left - 1)) + i
        BY <1>4, <4>1
      <4> QED
        BY <1>8, <4>2, <4>3, <4>4
    <3> QED
      BY <3>1, <3>2
  <2>2. WindowsShown'
    <3> SUFFICES ASSUME NEW w \in windows
                 PROVE  /\ w.virt + w.pages <= nextMmio
                        /\ w.whole => \A i \in 0 .. w.pages - 1 :
                                        Translate(w.virt + i)' = w.phys + i
      BY <1>1 DEF WindowsShown
    <3>1. w.virt + w.pages <= nextMmio
      BY <1>2 DEF Shown, WindowsShown
    <3>2. ASSUME w.whole, NEW i \in 0 .. w.pages - 1
          PROVE  Translate(w.virt + i)' = w.phys + i
      <4>1. w.virt + i \in Page /\ w.virt + i < nextMmio
        BY <1>2, ShownPages DEF Locals
      <4>2. w.virt + i # v
        BY <1>4, <1>5, <1>7, <4>1, Constants
      <4>3. Translate(w.virt + i) = w.phys + i
        BY <1>2, <3>2 DEF Shown, WindowsShown
      <4> QED
        BY <1>8, <4>1, <4>2, <4>3
    <3> QED
      BY <3>1, <3>2
  <2>3. KernelShown'
    <3> SUFFICES ASSUME nextMmio + region.pages <= KernelPage
                 PROVE  Translate(KernelPage)' = KernelFrame
      BY <1>1, <1>3, Constants DEF KernelShown, WindowEnd
    <3>1. Translate(KernelPage) = KernelFrame
      BY <1>2, <1>3 DEF Shown, KernelShown, WindowEnd
    <3>2. KernelPage # v
      BY <1>1, <1>4, <1>5, <1>7
    <3> QED
      BY <1>8, <3>1, <3>2, Constants
  <2> QED
    BY <2>1, <2>2, <2>3 DEF Shown
<1> QED
  BY <1>3, <1>6, <1>8, <1>9, <1>10, <1>11 DEF PmInv, Intact

LEMMA MmioReturnStep ==
  ASSUME PmInv, ~damaged, MmioReturn
  PROVE  PmInv' /\ \A v \in Page : Translate(v)' = Translate(v)
<1> DEFINE new == [virt |-> nextMmio, phys |-> phys - region.pages,
                   pages |-> region.pages, whole |-> region.whole]
<1>1. /\ running /\ left = 0 /\ running' = FALSE /\ nextMmio' = nextMmio + region.pages
      /\ windows' = windows \cup {new}
      /\ UNCHANGED << up, avail, inUse, reply, tables, kind, page, phys, left, level, table,
                      region, damaged >>
  BY DEF MmioReturn, pool, walk
<1>2. Types /\ Locals /\ Books /\ Shape /\ Walking /\ Progress /\ Shown
  BY DEF PmInv, Intact
<1>3. \A v \in Page : Translate(v)' = Translate(v)
  BY <1>1 DEF Translate, TableAt, Down
<1>4. /\ phys \in Nat /\ region.pages \in Nat /\ nextMmio \in Nat /\ region.whole \in BOOLEAN
      /\ nextMmio + region.pages \in Page /\ phys - region.pages \in Nat /\ nextMmio \in Page
  <2>1. phys - (region.pages - 0) \in Target /\ nextMmio + region.pages \in Page
    BY <1>1, <1>2 DEF Progress
  <2>2. phys \in Nat /\ region.pages \in Nat /\ nextMmio \in Nat /\ nextMmio \in Page
    BY <1>2, Constants DEF Locals
  <2>3. region.whole \in BOOLEAN
    BY <1>2 DEF Locals
  <2> QED
    BY <2>1, <2>2, <2>3, Constants
<1>5. Types' /\ Books'
  <2>1. up
    BY <1>1, <1>2 DEF Books
  <2> QED
    BY <1>1, <1>2, <2>1 DEF Types, Books
<1>6. Locals'
  <2>1. new \in [virt : Page, phys : Nat, pages : Nat, whole : BOOLEAN]
    BY <1>4
  <2> QED
    BY <1>1, <1>2, <1>4, <2>1 DEF Locals
<1>7. Shape'
  BY <1>1, <1>2 DEF Shape, BootKinds, Levels, HeldOnce
<1>8. Walking' /\ Progress'
  BY <1>1, <1>4 DEF Walking, Progress
<1>9. Shown'
  <2>1. RegionShown'
    BY <1>1 DEF RegionShown
  <2>2. WindowsShown'
    <3> SUFFICES ASSUME NEW w \in windows'
                 PROVE  /\ w.virt + w.pages <= nextMmio + region.pages
                        /\ w.whole => \A i \in 0 .. w.pages - 1 :
                                        Translate(w.virt + i)' = w.phys + i
      BY <1>1 DEF WindowsShown
    <3>1. CASE w \in windows
      <4>1. w.virt \in Nat /\ w.pages \in Nat
        BY <1>2, <3>1, Constants DEF Locals
      <4>2. w.virt + w.pages <= nextMmio
        BY <1>2, <3>1 DEF Shown, WindowsShown
      <4>3. ASSUME w.whole, NEW i \in 0 .. w.pages - 1
            PROVE  Translate(w.virt + i)' = w.phys + i
        <5>1. w.virt + i \in Page
          BY <1>2, <3>1, <4>1, ShownPages
        <5>2. Translate(w.virt + i) = w.phys + i
          BY <1>2, <3>1, <4>3 DEF Shown, WindowsShown
        <5> QED
          BY <1>3, <5>1, <5>2
      <4> QED
        BY <1>4, <4>1, <4>2, <4>3
    <3>2. CASE w = new
      <4>1. w.virt + w.pages <= nextMmio + region.pages
        BY <1>4, <3>2
      <4>2. ASSUME w.whole, NEW i \in 0 .. w.pages - 1, NEW u, u = w.virt + i
            PROVE  Translate(u)' = w.phys + i
        <5>1. i \in 0 .. (region.pages - left) - 1 /\ u = nextMmio + i /\ region.whole
          BY <1>1, <1>4, <3>2, <4>2
        <5>2. u \in Page
          BY <1>1, <1>2, <5>1, ShownPages
        <5>3. Translate(u) = phys - (region.pages - left) + i
          BY <1>1, <1>2, <5>1 DEF Shown, RegionShown
        <5>4. phys - (region.pages - left) + i = w.phys + i
          BY <1>1, <1>4, <3>2
        <5> QED
          BY <1>3, <5>2, <5>3, <5>4
      <4> QED
        BY <4>1, <4>2
    <3> QED
      BY <1>1, <3>1, <3>2
  <2>3. KernelShown'
    <3>1. WindowEnd' = nextMmio + region.pages + 0 /\ WindowEnd = nextMmio + region.pages
      BY <1>1, <1>4 DEF WindowEnd
    <3>2. WindowEnd' = WindowEnd
      BY <1>4, <3>1
    <3> QED
      BY <1>2, <1>3, <3>2, Constants DEF Shown, KernelShown
  <2> QED
    BY <2>1, <2>2, <2>3 DEF Shown
<1> QED
  BY <1>3, <1>5, <1>6, <1>7, <1>8, <1>9 DEF PmInv, Intact

LEMMA DriverTakesStep ==
  ASSUME PmInv, ~damaged, DriverTakes
  PROVE  PmInv' /\ (~damaged' => \A v \in Page : Translate(v)' = Translate(v))
<1> DEFINE p == reply'
           e == [i \in Index |-> Dirt]
<1>1. /\ ~running /\ Pool!Acquire
      /\ tables' = [tables EXCEPT ![p] = e] /\ kind' = [kind EXCEPT ![p] = 0]
      /\ damaged' = (damaged \/ p \in BootFrames)
      /\ UNCHANGED << nextMmio, running, page, phys, left, level, table, region, windows >>
  BY DEF DriverTakes, walk
<1>2. Types /\ Locals /\ Books /\ Shape /\ Walking /\ Progress /\ Shown
  BY DEF PmInv, Intact
<1>3. /\ p \in Frames /\ (p \notin BootFrames => kind[p] = 0) /\ up /\ up' = up
      /\ avail' = avail \ {p} /\ inUse' = inUse \cup {p}
  BY <1>1, <1>2, AcquireFresh
<1>4. e \in [Index -> Nat]
  BY Constants
<1>5. Types'
  <2>1. up' \in BOOLEAN
    BY <1>2, <1>3 DEF Types
  <2>2. avail' \in SUBSET Frames /\ inUse' \in SUBSET Frames /\ reply' \in Frames \cup Strays \cup {0}
    BY <1>2, <1>3 DEF Types
  <2>3. tables' \in [Frames -> [Index -> Nat]] /\ kind' \in [Frames -> 0 .. 4]
    <3> HIDE DEF e, p
    <3>1. tables' \in [Frames -> [Index -> Nat]]
      BY <1>1, <1>2, <1>4 DEF Types
    <3>2. 0 \in 0 .. 4
      OBVIOUS
    <3>3. kind' \in [Frames -> 0 .. 4]
      BY <1>1, <1>2, <3>2 DEF Types
    <3> QED
      BY <3>1, <3>3
  <2> QED
    BY <2>1, <2>2, <2>3 DEF Types
<1> HIDE DEF p, e
<1>6. Locals'
  <2>1. damaged' \in BOOLEAN
    BY <1>1
  <2> QED
    BY <1>1, <1>2, <2>1 DEF Locals
<1>7. ASSUME ~damaged'
      PROVE  Intact' /\ \A v \in Page : Translate(v)' = Translate(v)
  <2>1. p \notin BootFrames /\ kind[p] = 0
    BY <1>1, <1>3, <1>7
  <2>2. kind' = kind
    BY <1>1, <1>2, <2>1 DEF Types
  <2>3. Shape' /\ \A v \in Page : Translate(v)' = Translate(v)
    BY <1>1, <1>2, <1>3, <1>4, <2>1, <2>2, OthersShowNothing
  <2>4. Books'
    <3>1. BootFrames \cap inUse' = {} /\ avail' \cap inUse' = {}
      BY <1>2, <1>3, <2>1 DEF Books
    <3> QED
      BY <1>2, <1>3, <2>2, <3>1 DEF Books
  <2>5. Shown' /\ Progress'
    BY <1>1, <1>2, <2>3, ShownKept
  <2>6. Walking'
    BY <1>1, <1>2 DEF Walking
  <2> QED
    BY <2>3, <2>4, <2>5, <2>6 DEF Intact
<1> QED
  BY <1>5, <1>6, <1>7 DEF PmInv

LEMMA DriverReturnsStep ==
  ASSUME PmInv, ~damaged, NEW f \in Frames, DriverReturns(f)
  PROVE  PmInv' /\ \A v \in Page : Translate(v)' = Translate(v)
<1>1. /\ ~running /\ kind[f] = 0 /\ up /\ f \in inUse
      /\ inUse' = inUse \ {f} /\ avail' = avail \cup {f}
      /\ UNCHANGED << up, reply, tables, kind, nextMmio, running, page, phys, left, level,
                      table, region, windows, damaged >>
  BY DEF DriverReturns, Pool!Release, walk
<1>2. Types /\ Locals /\ Books /\ Shape /\ Walking /\ Progress /\ Shown
  BY DEF PmInv, Intact
<1>3. \A v \in Page : Translate(v)' = Translate(v)
  BY <1>1 DEF Translate, TableAt, Down
<1>4. Types' /\ Books'
  BY <1>1, <1>2 DEF Types, Books
<1>5. Locals' /\ Walking'
  BY <1>1, <1>2 DEF Locals, Walking
<1>6. Shape'
  BY <1>1, <1>2 DEF Shape, BootKinds, Levels, HeldOnce
<1>7. Shown' /\ Progress'
  BY <1>1, <1>2, <1>3, ShownKept
<1> QED
  BY <1>3, <1>4, <1>5, <1>6, <1>7 DEF PmInv, Intact
LEMMA PmInvStep ==
  ASSUME PmInv, [PmNext]_pmVars
  PROVE  PmInv'
<1>1. CASE UNCHANGED pmVars
  <2>1. \A v \in Page : Translate(v)' = Translate(v)
    BY <1>1 DEF pmVars, Translate, TableAt, Down
  <2>2. Types' /\ Locals'
    BY <1>1 DEF PmInv, Types, Locals, pmVars, pool, walk
  <2>3. ASSUME ~damaged PROVE Intact'
    <3>1. Types /\ Locals /\ Books /\ Shape /\ Walking /\ Progress /\ Shown
      BY <2>3 DEF PmInv, Intact
    <3>2. Books' /\ Shape'
      BY <1>1, <3>1 DEF Books, Shape, BootKinds, Levels, HeldOnce, pmVars, pool
    <3>3. Walking'
      BY <1>1, <3>1 DEF Walking, TableAt, Down, pmVars, walk
    <3>4. Shown' /\ Progress'
      BY <1>1, <2>1, <3>1, ShownKept DEF pmVars, walk
    <3> QED
      BY <3>2, <3>3, <3>4 DEF Intact
  <2> QED
    BY <1>1, <2>2, <2>3 DEF PmInv, pmVars
<1>2. CASE PmNext
  <2>1. ~damaged
    BY <1>2 DEF PmNext
  <2> QED
    BY <1>2, <2>1, MmInitStep, MmioRemapStep, DescendStep, NewTableStep, OutOfFramesStep,
       StrayTableStep, MapLeafStep, MmioReturnStep, DriverTakesStep, DriverReturnsStep DEF PmNext
<1> QED
  BY <1>1, <1>2

LEMMA PmInvHolds == PmSpec => []PmInv
<1>1. PmInv /\ [PmNext]_pmVars => PmInv'
  BY PmInvStep
<1> QED
  BY <1>1, PmInvInit, PTL DEF PmSpec

LEMMA PmTypesFollow == PmInv => PmTypeOK
BY DEF PmInv, Types, Locals, PmTypeOK

\* The page tables, the walk of map_page and the window keep their types.
THEOREM PageMapTypeCorrect == PmSpec => []PmTypeOK
<1> QED
  BY PmTypesFollow, PmInvHolds, PTL

LEMMA WindowsFollow == PmInv => WindowsStayMapped
<1> SUFFICES ASSUME PmInv, ~damaged
             PROVE  /\ \A w \in windows : w.whole =>
                         \A i \in 0 .. w.pages - 1 : Translate(w.virt + i) = w.phys + i
                    /\ WindowEnd <= KernelPage => Translate(KernelPage) = KernelFrame
  BY DEF WindowsStayMapped
<1> QED
  BY DEF PmInv, Intact, Shown, WindowsShown, KernelShown

\* Whatever is mapped later and wherever frames run out, a window that
\* mmio_remap filled shows its device, and the kernel image stays in place
\* until the window reaches it - as long as no boot table is given away and
\* no table is put beyond 4 GiB.
THEOREM WindowsNeverLost == PmSpec => []WindowsStayMapped
<1> QED
  BY WindowsFollow, PmInvHolds, PTL

\* The four levels behave as one function from pages to what they show, of
\* which each step of map_page changes at most the page it maps.
THEOREM TablesAreOneFunction == PmSpec => AddressSpaceSpec
<1> DEFINE space == [v \in Page |-> Translate(v)]
<1>1. PmInit => AS!Init
  <2> SUFFICES ASSUME PmInit PROVE AS!Init
    OBVIOUS
  <2>1. \A v \in Page : Translate(v) \in Target \cup {0}
    BY BootShows, Constants
  <2>2. space \in [Page -> Target \cup {0}]
    BY <2>1
  <2>3. (~damaged) = TRUE
    BY DEF PmInit
  <2> QED
    BY <2>2, <2>3 DEF AS!Init
<1>2. PmInv /\ [PmNext]_pmVars => [AS!Next]_(AS!vars)
  <2> SUFFICES ASSUME PmInv, [PmNext]_pmVars PROVE AS!Next \/ UNCHANGED AS!vars
    OBVIOUS
  <2>1. CASE PmNext /\ damaged'
    <3>1. (~damaged)' = FALSE
      BY <2>1
    <3> QED
      BY <3>1 DEF AS!Next, AS!Damage
  <2>2. CASE PmNext /\ ~damaged' /\ ~MapLeaf
    <3>1. ~damaged
      BY <2>2 DEF PmNext
    <3>2. \A v \in Page : Translate(v)' = Translate(v)
      BY <2>2, <3>1, MmInitStep, MmioRemapStep, DescendStep, NewTableStep, OutOfFramesStep,
         StrayTableStep, MmioReturnStep, DriverTakesStep, DriverReturnsStep DEF PmNext
    <3>3. space' = space /\ (~damaged)' = (~damaged)
      BY <2>2, <3>1, <3>2
    <3> QED
      BY <3>3 DEF AS!vars
  <2>3. CASE PmNext /\ ~damaged' /\ MapLeaf
    <3>1. ~damaged
      BY <2>3 DEF PmNext
    <3>2. PICK v \in Page : /\ Translate(v)' \in Target
                           /\ \A u \in Page \ {v} : Translate(u)' = Translate(u)
      BY <2>3, <3>1, MapLeafStep
    <3>3. space'[v] \in Target /\ \A u \in Page \ {v} : space'[u] = space[u]
      BY <3>2
    <3>4. (~damaged)' = (~damaged) /\ ~damaged
      BY <2>3, <3>1
    <3>5. CASE space'[v] = space[v]
      <4>1. space' = space
        BY <3>2, <3>5
      <4> QED
        BY <3>4, <4>1 DEF AS!vars
    <3>6. CASE space'[v] # space[v]
      <4>1. AS!MapPage(v)
        BY <3>3, <3>4, <3>6 DEF AS!MapPage
      <4> QED
        BY <4>1 DEF AS!Next
    <3> QED
      BY <3>5, <3>6
  <2>4. CASE UNCHANGED pmVars
    <3>1. space' = space /\ (~damaged)' = (~damaged)
      BY <2>4 DEF pmVars, Translate, TableAt, Down
    <3> QED
      BY <3>1 DEF AS!vars
  <2> QED
    BY <2>1, <2>2, <2>3, <2>4
<1> QED
  BY <1>1, <1>2, PmInvHolds, PTL DEF PmSpec, AddressSpaceSpec, AS!Spec
=============================================================================
