---------------------------- MODULE PagingProofs ----------------------------
(***************************************************************************)
(* Proofs about Paging.tla, for every size of table and of memory, every   *)
(* tree the boot loader may have built, and every set of requests.         *)
(***************************************************************************)
EXTENDS Paging, TLAPS, FiniteSetTheorems

(***************************************************************************)
(* Walks.  The table that the walk of v through memory m visits at level   *)
(* l, the entry it reads there, and whether the walk gets that far.        *)
(***************************************************************************)
T3(m, v) == m[cr3][v[4]].frame
T2(m, v) == m[T3(m, v)][v[3]].frame
T1(m, v) == m[T2(m, v)][v[2]].frame
TableAt(m, v, l) == IF l = 4 THEN cr3 ELSE IF l = 3 THEN T3(m, v)
                    ELSE IF l = 2 THEN T2(m, v) ELSE T1(m, v)
EntryAt(m, v, l) == m[TableAt(m, v, l)][v[l]]
Reaches(m, v, l) == \A q \in l + 1 .. 4 : IsTable(EntryAt(m, v, q))

LEMMA WalkSteps ==
    ASSUME NEW m, NEW v
    PROVE  /\ TableAt(m, v, 4) = cr3 /\ Reaches(m, v, 4)
           /\ TableAt(m, v, 3) = EntryAt(m, v, 4).frame
           /\ TableAt(m, v, 2) = EntryAt(m, v, 3).frame
           /\ TableAt(m, v, 1) = EntryAt(m, v, 2).frame
           /\ Reaches(m, v, 3) <=> IsTable(EntryAt(m, v, 4))
           /\ Reaches(m, v, 2) <=> Reaches(m, v, 3) /\ IsTable(EntryAt(m, v, 3))
           /\ Reaches(m, v, 1) <=> Reaches(m, v, 2) /\ IsTable(EntryAt(m, v, 2))
<1>1. /\ TableAt(m, v, 4) = cr3 /\ TableAt(m, v, 3) = EntryAt(m, v, 4).frame
      /\ TableAt(m, v, 2) = EntryAt(m, v, 3).frame
      /\ TableAt(m, v, 1) = EntryAt(m, v, 2).frame
  BY DEF TableAt, EntryAt, T1, T2, T3
<1>2. 4 + 1 .. 4 = {} /\ 3 + 1 .. 4 = {4} /\ 2 + 1 .. 4 = {3, 4} /\ 1 + 1 .. 4 = {2, 3, 4}
  OBVIOUS
<1>3. Reaches(m, v, 4)
  BY <1>2 DEF Reaches
<1>4. Reaches(m, v, 3) <=> IsTable(EntryAt(m, v, 4))
  BY <1>2 DEF Reaches
<1>5. Reaches(m, v, 2) <=> IsTable(EntryAt(m, v, 4)) /\ IsTable(EntryAt(m, v, 3))
  BY <1>2 DEF Reaches
<1>6. Reaches(m, v, 1) <=> /\ IsTable(EntryAt(m, v, 4)) /\ IsTable(EntryAt(m, v, 3))
                           /\ IsTable(EntryAt(m, v, 2))
  BY <1>2 DEF Reaches
<1> QED BY <1>1, <1>3, <1>4, <1>5, <1>6

(* The same, level by level.                                               *)
LEMMA WalkStep ==
    ASSUME NEW m, NEW v, NEW l \in 1 .. 3
    PROVE  /\ TableAt(m, v, l) = EntryAt(m, v, l + 1).frame
           /\ Reaches(m, v, l) <=> Reaches(m, v, l + 1) /\ IsTable(EntryAt(m, v, l + 1))
<1>1. /\ l = 1 \/ l = 2 \/ l = 3
      /\ 1 + 1 = 2 /\ 2 + 1 = 3 /\ 3 + 1 = 4
  OBVIOUS
<1> QED BY <1>1, WalkSteps

(* A walk that gets to a level got to the levels above.                    *)
LEMMA ReachesAbove ==
    ASSUME NEW m, NEW v, NEW l \in 1 .. 4, NEW k \in l .. 4, Reaches(m, v, l)
    PROVE  /\ Reaches(m, v, k) /\ k > l => IsTable(EntryAt(m, v, k))
BY DEF Reaches

(* The page walk of the model, in these words.                             *)
LeadsTo(m, v) ==
    IF Reaches(m, v, 1) /\ Present(EntryAt(m, v, 1)) THEN EntryAt(m, v, 1).frame
    ELSE IF Reaches(m, v, 2) /\ IsLarge(EntryAt(m, v, 2)) /\ EntryAt(m, v, 2).frame % ENTRIES = 0
         THEN EntryAt(m, v, 2).frame + v[1]
    ELSE IF /\ Reaches(m, v, 3) /\ IsLarge(EntryAt(m, v, 3))
            /\ EntryAt(m, v, 3).frame % (ENTRIES * ENTRIES) = 0
         THEN EntryAt(m, v, 3).frame + v[2] * ENTRIES + v[1]
    ELSE Fault

LEMMA Entries ==
    ASSUME NEW v
    PROVE  /\ E4(v) = EntryAt(mem, v, 4) /\ E3(v) = EntryAt(mem, v, 3)
           /\ E2(v) = EntryAt(mem, v, 2) /\ E1(v) = EntryAt(mem, v, 1)
BY DEF E4, E3, E2, E1, EntryAt, TableAt, T1, T2, T3

LEMMA Leads ==
    ASSUME NEW v
    PROVE  /\ Small(v) <=> Reaches(mem, v, 1) /\ Present(EntryAt(mem, v, 1))
           /\ Big(v) <=> /\ Reaches(mem, v, 2) /\ IsLarge(EntryAt(mem, v, 2))
                         /\ EntryAt(mem, v, 2).frame % ENTRIES = 0
           /\ Giant(v) <=> /\ Reaches(mem, v, 3) /\ IsLarge(EntryAt(mem, v, 3))
                           /\ EntryAt(mem, v, 3).frame % (ENTRIES * ENTRIES) = 0
           /\ Translate(v) = LeadsTo(mem, v)
<1>1. Small(v) <=> Reaches(mem, v, 1) /\ Present(EntryAt(mem, v, 1))
  BY Entries, WalkSteps DEF Small
<1>2. Big(v) <=> /\ Reaches(mem, v, 2) /\ IsLarge(EntryAt(mem, v, 2))
                 /\ EntryAt(mem, v, 2).frame % ENTRIES = 0
  BY Entries, WalkSteps DEF Big, IsLarge
<1>3. Giant(v) <=> /\ Reaches(mem, v, 3) /\ IsLarge(EntryAt(mem, v, 3))
                   /\ EntryAt(mem, v, 3).frame % (ENTRIES * ENTRIES) = 0
  BY Entries, WalkSteps DEF Giant, IsLarge
<1> QED BY <1>1, <1>2, <1>3, Entries DEF Translate, LeadsTo

(* The same after a step.                                                  *)
LEMMA LeadsNext ==
    ASSUME NEW v PROVE Translate(v)' = LeadsTo(mem', v)
<1>1. /\ E4(v)' = EntryAt(mem', v, 4) /\ E3(v)' = EntryAt(mem', v, 3)
      /\ E2(v)' = EntryAt(mem', v, 2) /\ E1(v)' = EntryAt(mem', v, 1)
  BY DEF E4, E3, E2, E1, EntryAt, TableAt, T1, T2, T3
<1>2. Small(v)' <=> Reaches(mem', v, 1) /\ Present(EntryAt(mem', v, 1))
  BY <1>1, WalkSteps DEF Small
<1>3. Big(v)' <=> /\ Reaches(mem', v, 2) /\ IsLarge(EntryAt(mem', v, 2))
                  /\ EntryAt(mem', v, 2).frame % ENTRIES = 0
  BY <1>1, WalkSteps DEF Big, IsLarge
<1>4. Giant(v)' <=> /\ Reaches(mem', v, 3) /\ IsLarge(EntryAt(mem', v, 3))
                    /\ EntryAt(mem', v, 3).frame % (ENTRIES * ENTRIES) = 0
  BY <1>1, WalkSteps DEF Giant, IsLarge
<1> QED BY <1>1, <1>2, <1>3, <1>4 DEF Translate, LeadsTo

(* Pages that agree from level l upwards are walked alike down to there.   *)
LEMMA WalkSame ==
    ASSUME NEW m, NEW v, NEW w, NEW l \in 1 .. 4, \A q \in l .. 4 : w[q] = v[q]
    PROVE  \A k \in l .. 4 : /\ TableAt(m, w, k) = TableAt(m, v, k)
                             /\ EntryAt(m, w, k) = EntryAt(m, v, k)
                             /\ Reaches(m, w, k) <=> Reaches(m, v, k)
<1> DEFINE P(k) == /\ TableAt(m, w, k) = TableAt(m, v, k)
                   /\ EntryAt(m, w, k) = EntryAt(m, v, k)
                   /\ Reaches(m, w, k) <=> Reaches(m, v, k)
<1>1. P(4)
  BY WalkSteps DEF EntryAt
<1>2. ASSUME NEW k \in 1 .. 3, l <= k, P(k + 1) PROVE P(k)
  <2>1. w[k] = v[k]
    BY <1>2
  <2>2. /\ TableAt(m, v, k) = EntryAt(m, v, k + 1).frame
        /\ Reaches(m, v, k) <=> Reaches(m, v, k + 1) /\ IsTable(EntryAt(m, v, k + 1))
        /\ TableAt(m, w, k) = EntryAt(m, w, k + 1).frame
        /\ Reaches(m, w, k) <=> Reaches(m, w, k + 1) /\ IsTable(EntryAt(m, w, k + 1))
    BY WalkStep
  <2> QED BY <2>1, <2>2, <1>2 DEF EntryAt
<1> HIDE DEF P
<1>3. l <= 3 => P(3)
  BY <1>1, <1>2
<1>4. l <= 2 => P(2)
  BY <1>2, <1>3
<1>5. l <= 1 => P(1)
  BY <1>2, <1>4
<1>6. \A k \in l .. 4 : k = 4 \/ (k = 3 /\ l <= 3) \/ (k = 2 /\ l <= 2) \/ (k = 1 /\ l <= 1)
  OBVIOUS
<1>7. \A k \in l .. 4 : P(k)
  BY <1>1, <1>3, <1>4, <1>5, <1>6
<1> QED BY <1>7 DEF P

(* In a tree a walk visits a table of level l at level l.                  *)
LEMMA WalkInTree ==
    ASSUME NEW m, NEW T, NEW lv, IsTree(m, T, lv), NEW v \in Virt, NEW l \in 1 .. 4,
           Reaches(m, v, l)
    PROVE  TableAt(m, v, l) \in T /\ lv[TableAt(m, v, l)] = l
<1> DEFINE P(k) == Reaches(m, v, k) => TableAt(m, v, k) \in T /\ lv[TableAt(m, v, k)] = k
<1>1. P(4)
  BY WalkSteps DEF IsTree
<1>2. ASSUME NEW k \in 1 .. 3, P(k + 1) PROVE P(k)
  <2> SUFFICES ASSUME Reaches(m, v, k)
               PROVE  TableAt(m, v, k) \in T /\ lv[TableAt(m, v, k)] = k
    OBVIOUS
  <2> DEFINE t == TableAt(m, v, k + 1)
  <2>1. /\ Reaches(m, v, k + 1) /\ IsTable(EntryAt(m, v, k + 1))
        /\ TableAt(m, v, k) = EntryAt(m, v, k + 1).frame
    BY WalkStep
  <2>2. t \in T /\ lv[t] = k + 1 /\ v[k + 1] \in Index
    BY <2>1, <1>2 DEF Virt
  <2>3. LinksAt(m, lv, t, v[k + 1]) /\ m[t][v[k + 1]].frame = TableAt(m, v, k)
    BY <2>1, <2>2 DEF LinksAt, EntryAt
  <2> HIDE DEF t
  <2>4. TableAt(m, v, k) \in T /\ lv[TableAt(m, v, k)] = lv[t] - 1
    BY <2>2, <2>3 DEF IsTree
  <2> QED BY <2>2, <2>4
<1> HIDE DEF P
<1>3. P(3) /\ P(2) /\ P(1)
  BY <1>1, <1>2
<1>4. l = 1 \/ l = 2 \/ l = 3 \/ l = 4
  OBVIOUS
<1> QED BY <1>1, <1>3, <1>4 DEF P

(* In a tree two walks meet only if they came the same way.                *)
LEMMA WalkUnique ==
    ASSUME NEW m, NEW T, NEW lv, IsTree(m, T, lv), NEW v \in Virt, NEW w \in Virt,
           NEW l \in 1 .. 4, NEW k \in 1 .. 4, Reaches(m, v, l), Reaches(m, w, k),
           TableAt(m, v, l) = TableAt(m, w, k)
    PROVE  l = k /\ \A q \in l + 1 .. 4 : w[q] = v[q]
<1>1. l = k
  BY WalkInTree
<1> DEFINE P(n) == /\ Reaches(m, v, n) /\ Reaches(m, w, n) /\ TableAt(m, v, n) = TableAt(m, w, n)
                   => \A q \in n + 1 .. 4 : w[q] = v[q]
<1>2. P(4)
  OBVIOUS
<1>3. ASSUME NEW n \in 1 .. 3, P(n + 1) PROVE P(n)
  <2> SUFFICES ASSUME Reaches(m, v, n), Reaches(m, w, n), TableAt(m, v, n) = TableAt(m, w, n)
               PROVE  \A q \in n + 1 .. 4 : w[q] = v[q]
    OBVIOUS
  <2> DEFINE t == TableAt(m, v, n + 1)
             u == TableAt(m, w, n + 1)
  <2>1. /\ Reaches(m, v, n + 1) /\ IsTable(EntryAt(m, v, n + 1))
        /\ TableAt(m, v, n) = EntryAt(m, v, n + 1).frame
        /\ Reaches(m, w, n + 1) /\ IsTable(EntryAt(m, w, n + 1))
        /\ TableAt(m, w, n) = EntryAt(m, w, n + 1).frame
    BY WalkStep
  <2>2. /\ t \in T /\ lv[t] = n + 1 /\ v[n + 1] \in Index
        /\ u \in T /\ lv[u] = n + 1 /\ w[n + 1] \in Index
    <3>1. n + 1 \in 1 .. 4
      OBVIOUS
    <3> QED BY <3>1, <2>1, WalkInTree DEF Virt
  <2>3. /\ LinksAt(m, lv, t, v[n + 1]) /\ LinksAt(m, lv, u, w[n + 1])
        /\ m[t][v[n + 1]].frame = m[u][w[n + 1]].frame
    <3>1. EntryAt(m, v, n + 1) = m[t][v[n + 1]] /\ EntryAt(m, w, n + 1) = m[u][w[n + 1]]
      BY DEF EntryAt
    <3>2. lv[t] > 1 /\ lv[u] > 1
      BY <2>2
    <3> QED BY <2>1, <3>1, <3>2 DEF LinksAt
  <2> HIDE DEF t, u
  <2>4. t = u /\ v[n + 1] = w[n + 1]
    BY <2>2, <2>3 DEF IsTree
  <2>5. \A q \in (n + 1) + 1 .. 4 : w[q] = v[q]
    BY <2>1, <2>4, <1>3 DEF t, u
  <2>6. \A q \in n + 1 .. 4 : q = n + 1 \/ q \in (n + 1) + 1 .. 4
    OBVIOUS
  <2> QED BY <2>4, <2>5, <2>6
<1> HIDE DEF P
<1>4. P(3) /\ P(2) /\ P(1)
  BY <1>2, <1>3
<1>5. l = 1 \/ l = 2 \/ l = 3 \/ l = 4
  OBVIOUS
<1>6. P(l)
  BY <1>2, <1>4, <1>5
<1> QED BY <1>1, <1>6 DEF P

(* The walk of v is the same in n as in m, down to what is read at level   *)
(* k + 1.                                                                  *)
SameWalk(m, n, v, k) ==
    \A l \in 1 .. 4 :
        /\ l >= k => /\ Reaches(n, v, l) <=> Reaches(m, v, l)
                     /\ Reaches(m, v, l) => TableAt(n, v, l) = TableAt(m, v, l)
        /\ l > k /\ Reaches(m, v, l) => EntryAt(n, v, l) = EntryAt(m, v, l)

(* A walk that reads no entry that a write changed, down to level k, still *)
(* goes the same way.                                                      *)
LEMMA WalkKept ==
    ASSUME NEW m, NEW n, NEW v, NEW k \in 0 .. 4,
           \A q \in 1 .. 4 : q > k /\ Reaches(m, v, q) =>
                n[TableAt(m, v, q)][v[q]] = EntryAt(m, v, q)
    PROVE  SameWalk(m, n, v, k)
<1> DEFINE P(l) == /\ l >= k => /\ Reaches(n, v, l) <=> Reaches(m, v, l)
                                /\ Reaches(m, v, l) => TableAt(n, v, l) = TableAt(m, v, l)
                   /\ l > k /\ Reaches(m, v, l) => EntryAt(n, v, l) = EntryAt(m, v, l)
<1>1. P(4)
  BY WalkSteps DEF EntryAt
<1>2. ASSUME NEW l \in 1 .. 3, P(l + 1) PROVE P(l)
  <2>1. /\ TableAt(m, v, l) = EntryAt(m, v, l + 1).frame
        /\ Reaches(m, v, l) <=> Reaches(m, v, l + 1) /\ IsTable(EntryAt(m, v, l + 1))
        /\ TableAt(n, v, l) = EntryAt(n, v, l + 1).frame
        /\ Reaches(n, v, l) <=> Reaches(n, v, l + 1) /\ IsTable(EntryAt(n, v, l + 1))
    BY WalkStep
  <2>2. l >= k => l + 1 > k /\ l + 1 >= k
    OBVIOUS
  <2>3. l >= k => /\ Reaches(n, v, l) <=> Reaches(m, v, l)
                  /\ Reaches(m, v, l) => TableAt(n, v, l) = TableAt(m, v, l)
    BY <2>1, <2>2, <1>2
  <2>4. l > k /\ Reaches(m, v, l) => EntryAt(n, v, l) = EntryAt(m, v, l)
    BY <2>3 DEF EntryAt
  <2> QED BY <2>3, <2>4
<1> HIDE DEF P
<1>3. P(3) /\ P(2) /\ P(1)
  BY <1>1, <1>2
<1>4. \A l \in 1 .. 4 : l = 1 \/ l = 2 \/ l = 3 \/ l = 4
  OBVIOUS
<1>5. \A l \in 1 .. 4 : P(l)
  BY <1>1, <1>3, <1>4
<1> QED BY <1>5 DEF P, SameWalk

-----------------------------------------------------------------------------
(***************************************************************************)
(* Types.                                                                  *)
(***************************************************************************)
LEMMA RootIsFrame == cr3 \in Frames /\ BootTables \subseteq Frames /\ cr3 \in BootTables
BY BootAssumption DEF IsTree

LEMMA WalkTyped ==
    ASSUME NEW m \in [Frames -> [Index -> Entry]], NEW v \in Virt, NEW l \in 1 .. 4
    PROVE  /\ TableAt(m, v, l) \in Frames /\ EntryAt(m, v, l) \in Entry
           /\ EntryAt(m, v, l).frame \in Frames
<1>1. \A t \in Frames, q \in 1 .. 4 : m[t][v[q]] \in Entry /\ m[t][v[q]].frame \in Frames
  <2>1. \A t \in Frames, x \in Index : m[t][x] \in Entry
    OBVIOUS
  <2>2. \A e \in Entry : e.frame \in Frames
    BY DEF Entry
  <2>3. \A q \in 1 .. 4 : v[q] \in Index
    BY DEF Virt
  <2> QED BY <2>1, <2>2, <2>3
<1>2. 1 \in 1 .. 4 /\ 2 \in 1 .. 4 /\ 3 \in 1 .. 4 /\ 4 \in 1 .. 4
  OBVIOUS
<1>3. T3(m, v) \in Frames
  BY <1>1, <1>2, RootIsFrame DEF T3
<1>4. T2(m, v) \in Frames
  BY <1>1, <1>2, <1>3 DEF T2
<1>5. T1(m, v) \in Frames
  BY <1>1, <1>2, <1>4 DEF T1
<1>6. TableAt(m, v, l) \in Frames
  BY <1>3, <1>4, <1>5, RootIsFrame DEF TableAt
<1> QED BY <1>1, <1>6 DEF EntryAt

(* Where a page leads is memory: a large page has all of its frames.       *)
LEMMA LeadsToFrame ==
    ASSUME NEW m \in [Frames -> [Index -> Entry]], NEW v \in Virt, LeadsTo(m, v) # Fault
    PROVE  LeadsTo(m, v) \in Frames
<1> DEFINE E == ENTRIES
           f2 == EntryAt(m, v, 2).frame
           f3 == EntryAt(m, v, 3).frame
<1>1. /\ EntryAt(m, v, 1).frame \in Frames /\ f2 \in Frames /\ f3 \in Frames
      /\ f2 \in Nat /\ f3 \in Nat /\ E \in Nat \ {0}
  <2>1. \A l \in 1 .. 4 : EntryAt(m, v, l).frame \in Frames
    BY WalkTyped
  <2>2. \A f \in Frames : f \in Nat
    BY FrameAssumption
  <2>3. E \in Nat \ {0}
    BY FrameAssumption
  <2>4. EntryAt(m, v, 1).frame \in Frames /\ f2 \in Frames /\ f3 \in Frames
    BY <2>1
  <2> QED BY <2>2, <2>3, <2>4
<1>2. v[1] \in 0 .. E - 1 /\ v[2] \in 0 .. E - 1
  BY DEF Virt, Index
<1>3. f2 % E = 0 => f2 .. f2 + E - 1 \subseteq Frames
  BY <1>1, FrameAssumption
<1>4. f3 % (E * E) = 0 => f3 .. f3 + E * E - 1 \subseteq Frames
  BY <1>1, FrameAssumption
<1> HIDE DEF E, f2, f3
<1>5. f2 + v[1] \in f2 .. f2 + E - 1
  BY <1>1, <1>2
<1>6. f3 + v[2] * E + v[1] \in f3 .. f3 + E * E - 1
  <2>1. \A a, b, e \in Nat : a <= e - 1 /\ b <= e - 1 => a * e + b <= e * e - 1 /\ 0 <= a * e
    <3> SUFFICES ASSUME NEW a \in Nat, NEW b \in Nat, NEW e \in Nat, a <= e - 1, b <= e - 1
                 PROVE  a * e + b <= e * e - 1 /\ 0 <= a * e
      OBVIOUS
    <3>1. (e - 1 - a) * e >= 0
      OBVIOUS
    <3>2. (e - 1 - a) * e = e * e - e - a * e
      OBVIOUS
    <3>3. a * e \in Nat /\ e * e \in Nat
      OBVIOUS
    <3> QED BY <3>1, <3>2, <3>3
  <2>2. v[2] * E + v[1] <= E * E - 1 /\ 0 <= v[2] * E /\ v[2] * E \in Int /\ E * E \in Int
    BY <2>1, <1>1, <1>2
  <2> HIDE DEF E
  <2>3. v[1] \in Int /\ 0 <= v[1] /\ f3 \in Int
    BY <1>1, <1>2
  <2> QED BY <2>2, <2>3
<1> QED BY <1>1, <1>3, <1>4, <1>5, <1>6 DEF LeadsTo, E, f2, f3

LEMMA TargetFrame ==
    ASSUME NEW r \in Requests
    PROVE  /\ Target(r) \in Frames /\ Leaf(r) \in 1 .. 2
           /\ r.virt \in Virt /\ r.flags \subseteq Flags /\ r.phys \in Frames
           /\ "PRESENT" \in r.flags
<1>1. r.virt \in Virt /\ r.flags \subseteq Flags /\ r.phys \in Frames /\ "PRESENT" \in r.flags
  BY RequestAssumption
<1>2. r.phys - (r.phys % ENTRIES) \in 0 .. r.phys
  <2>1. r.phys \in Nat /\ ENTRIES \in Nat \ {0}
    BY <1>1, FrameAssumption
  <2>2. \A p \in Nat, e \in Nat \ {0} : p - (p % e) \in 0 .. p
    OBVIOUS
  <2> QED BY <2>1, <2>2
<1>3. Target(r) \in Frames
  BY <1>1, <1>2, FrameAssumption DEF Target
<1> QED BY <1>1, <1>3 DEF Leaf

(* The allocator: a page of the pool that is nobody's.                     *)
LEMMA Allocated ==
    ASSUME TypeOK, NEW f, AllocPage(f)
    PROVE  /\ f \in Pool /\ f \in Frames /\ f \notin BootTables /\ f \notin Tables
           /\ usable' = usable /\ held' = held \cup {[base |-> f, count |-> 1]}
           /\ Tables' = Tables \cup {f}
<1> DEFINE b == [base |-> f, count |-> 1]
<1>1. f \in Pool /\ f \in Frames /\ f \notin BootTables /\ f \in Int
  BY BootAssumption, FrameAssumption DEF AllocPage, TypeOK
<1>2. /\ \A h \in held : PA!Extent(h) \cap PA!Extent(b) = {}
      /\ held' = held \cup {b} /\ usable' = usable
  BY DEF AllocPage, PA!Alloc
<1>3. \A h \in held : h.base # f
  <2> SUFFICES ASSUME NEW h \in held, h.base = f PROVE FALSE
    OBVIOUS
  <2>1. h.count = 1
    BY DEF TypeOK
  <2>2. f \in PA!Extent(h) /\ f \in PA!Extent(b)
    BY <1>1, <2>1 DEF PA!Extent
  <2> QED BY <1>2, <2>2
<1>4. f \notin Tables
  BY <1>1, <1>3 DEF Tables
<1>5. Tables' = Tables \cup {f}
  BY <1>2 DEF Tables
<1> QED BY <1>1, <1>2, <1>4, <1>5

(* Pages of one leaf are walked to the same leaf.                          *)
LEMMA SameLeaf ==
    ASSUME TypeOK, NEW v \in Virt, Translate(v) # Fault, NEW w \in Block(v, PageLevel(v))
    PROVE  /\ w \in Virt /\ PageLevel(v) \in 1 .. 3 /\ PageLevel(w) = PageLevel(v)
           /\ Translate(w) # Fault /\ Translate(w) \in Frames
<1>1. /\ w \in Virt /\ PageLevel(v) \in 1 .. 3
      /\ \A q \in PageLevel(v) .. 4 : w[q] = v[q]
  BY DEF Block, PageLevel
<1>2. \A k \in PageLevel(v) .. 4 : /\ EntryAt(mem, w, k) = EntryAt(mem, v, k)
                                   /\ Reaches(mem, w, k) <=> Reaches(mem, v, k)
  BY <1>1, WalkSame
<1>3. Small(v) => Small(w) /\ PageLevel(w) = 1
  <2>1. Small(v) => 1 \in PageLevel(v) .. 4
    BY DEF PageLevel
  <2> QED BY <2>1, <1>2, Leads DEF PageLevel
<1>4. ~Small(v) /\ Big(v) => ~Small(w) /\ Big(w) /\ PageLevel(w) = 2
  <2>1. ~Small(v) /\ Big(v) => 2 \in PageLevel(v) .. 4
    BY DEF PageLevel
  <2>2. ~Small(v) /\ Big(v) => Big(w)
    BY <2>1, <1>2, Leads
  <2>3. ~(Big(w) /\ Small(w))
    BY DEF Big, Small, IsTable
  <2> QED BY <2>2, <2>3 DEF PageLevel
<1>5. ~Small(v) /\ ~Big(v) => ~Small(w) /\ ~Big(w) /\ Giant(w) /\ PageLevel(w) = 3
  <2>1. ~Small(v) /\ ~Big(v) => 3 \in PageLevel(v) .. 4 /\ Giant(v)
    BY DEF PageLevel, Translate
  <2>2. ~Small(v) /\ ~Big(v) => Giant(w)
    BY <2>1, <1>2, Leads
  <2>3. ~(Giant(w) /\ Small(w)) /\ ~(Giant(w) /\ Big(w))
    BY DEF Big, Small, Giant, IsTable
  <2> QED BY <2>2, <2>3 DEF PageLevel
<1>6. Small(w) \/ Big(w) \/ Giant(w)
  BY <1>3, <1>4, <1>5
<1>7. PageLevel(w) = PageLevel(v)
  BY <1>3, <1>4, <1>5 DEF PageLevel
<1>8. Translate(w) # Fault
  <2>0. mem \in [Frames -> [Index -> Entry]]
    BY DEF TypeOK
  <2>1. E1(w).frame \in Nat /\ E2(w).frame \in Nat /\ E3(w).frame \in Nat
    <3>1. \A l \in 1 .. 4 : EntryAt(mem, w, l).frame \in Frames
      BY <2>0, <1>1, WalkTyped
    <3>2. E1(w).frame \in Frames /\ E2(w).frame \in Frames /\ E3(w).frame \in Frames
      BY <3>1, Entries
    <3> QED BY <3>2, FrameAssumption
  <2>2. w[1] \in Nat /\ w[2] \in Nat /\ ENTRIES \in Nat
    BY <1>1, FrameAssumption DEF Virt, Index
  <2>3. E2(w).frame + w[1] \in Nat /\ w[2] * ENTRIES \in Nat
    BY <2>1, <2>2
  <2>4. E3(w).frame + w[2] * ENTRIES + w[1] \in Nat
    BY <2>1, <2>2, <2>3
  <2>5. Translate(w) \in Nat
    BY <1>6, <2>1, <2>3, <2>4 DEF Translate
  <2> QED BY <2>5 DEF Fault
<1>9. Translate(w) \in Frames
  BY <1>1, <1>8, Leads, LeadsToFrame DEF TypeOK
<1> QED BY <1>1, <1>7, <1>8, <1>9

(* Writing an entry, or a whole frame, keeps the type of memory.           *)
LEMMA MemTyped ==
    ASSUME NEW m \in [Frames -> [Index -> Entry]], NEW f \in Frames, NEW x \in Index,
           NEW e \in Entry
    PROVE  /\ Zeroed \in [Index -> Entry]
           /\ [m EXCEPT ![f] = Zeroed] \in [Frames -> [Index -> Entry]]
           /\ [m EXCEPT ![f][x] = e] \in [Frames -> [Index -> Entry]]
<1>1. Zeroed \in [Index -> Entry]
  BY FrameAssumption DEF Zeroed, Entry
<1>2. [m[f] EXCEPT ![x] = e] \in [Index -> Entry]
  OBVIOUS
<1> QED BY <1>1, <1>2

(* The types are preserved by every step.                                  *)
LEMMA TypeStep == TypeOK /\ [Next]_vars => TypeOK'
<1> SUFFICES ASSUME TypeOK, [Next]_vars PROVE TypeOK'
  OBVIOUS
<1> DEFINE M == [Frames -> [Index -> Entry]]
           C == [request : Requests, level : 0 .. 4, table : Frames]
<1>1. mem \in M /\ usable = Pool /\ phase \in {"init", "run", "halted"}
  BY DEF TypeOK
<1>c. ASSUME call # NoCall
      PROVE  /\ call \in C /\ call.request \in Requests /\ call.level \in 0 .. 4
             /\ call.table \in Frames /\ call.request.virt \in Virt
  BY <1>c, TargetFrame DEF TypeOK
<1>s. ASSUME call # NoCall, call.level \in 1 .. 4
      PROVE  Slot \in Index
  BY <1>c, <1>s DEF Slot, Virt
<1>d. ASSUME NEW c \in C, c.level \in 1 .. 4, NEW t \in Frames
      PROVE  [c EXCEPT !.level = @ - 1, !.table = t] \in C
  <2>1. c.level - 1 \in 0 .. 4
    BY <1>d
  <2> QED BY <2>1
<1>2. CASE InitAllocates
  <2>1. PICK f \in usable : AllocPage(f) /\ mem' = [mem EXCEPT ![f] = Zeroed]
    BY <1>2 DEF InitAllocates, Fresh
  <2>2. mem' \in M
    <3>1. 0 \in Index /\ [frame |-> 0, flags |-> {}] \in Entry
      BY FrameAssumption DEF Index, Entry
    <3>2. f \in Frames
      BY <2>1, Allocated
    <3> QED BY <1>1, <2>1, <3>1, <3>2, MemTyped
  <2>3. usable' = Pool /\ held' \subseteq [base : Pool, count : {1}]
    BY <1>1, <2>1, Allocated DEF TypeOK
  <2> QED BY <1>2, <2>2, <2>3 DEF InitAllocates, TypeOK
<1>3. CASE InitHalts
  BY <1>3 DEF InitHalts, TypeOK
<1>4. ASSUME NEW r \in Requests, MapPage(r) PROVE TypeOK'
  BY <1>4, RootIsFrame DEF MapPage, TypeOK
<1>5. CASE Descend
  <2>1. call # NoCall /\ call.level \in 1 .. 4
    BY <1>5, <1>c, TargetFrame DEF Descend, AboveLeaf
  <2>2. mem[call.table][Slot].frame \in Frames
    BY <1>1, <1>c, <1>s, <2>1 DEF Entry
  <2>3. call' \in C
    BY <1>5, <1>c, <1>d, <2>1, <2>2 DEF Descend
  <2> QED BY <1>5, <2>3 DEF Descend, TypeOK
<1>6. CASE CreateTable
  <2>1. call # NoCall /\ call.level \in 1 .. 4
    BY <1>6, <1>c, TargetFrame DEF CreateTable, AboveLeaf
  <2>2. PICK f \in usable :
           /\ AllocPage(f)
           /\ mem' = [mem EXCEPT ![f] = Zeroed, ![call.table][Slot] = Link(f)]
           /\ call' = [call EXCEPT !.level = @ - 1, !.table = f]
    BY <1>6 DEF CreateTable, Fresh
  <2>3. f \in Frames /\ f \in Pool /\ Link(f) \in Entry
    BY <2>2, <2>1, <1>c, Allocated, TargetFrame DEF Link, Entry
  <2>4. mem' \in M
    BY <1>1, <1>c, <1>s, <2>1, <2>2, <2>3, MemTyped
  <2>5. call' \in C
    BY <1>c, <1>d, <2>1, <2>2, <2>3
  <2>6. usable' = Pool /\ held' \subseteq [base : Pool, count : {1}]
    BY <1>1, <2>2, Allocated DEF TypeOK
  <2> QED BY <1>6, <2>4, <2>5, <2>6 DEF CreateTable, TypeOK
<1>7. CASE OutOfMemory
  BY <1>7 DEF OutOfMemory, TypeOK
<1>8. CASE StoreLeaf
  <2>1. call # NoCall /\ call.level \in 1 .. 4
    BY <1>8, <1>c, TargetFrame DEF StoreLeaf
  <2>2. [frame |-> Target(call.request), flags |-> call.request.flags] \in Entry
    BY <2>1, <1>c, TargetFrame DEF Entry
  <2>3. mem' \in M
    BY <1>8, <1>1, <1>c, <1>s, <2>1, <2>2, MemTyped DEF StoreLeaf
  <2>4. call' \in C
    BY <1>8, <1>c, <2>1 DEF StoreLeaf
  <2> QED BY <1>8, <2>3, <2>4 DEF StoreLeaf, TypeOK
<1>9. CASE FlushTlb
  BY <1>9 DEF FlushTlb, Invlpg, TypeOK
<1>10. ASSUME NEW r \in Requests, Touch(r.virt) PROVE TypeOK'
  <2>1. r.virt \in Virt /\ Translate(r.virt) # Fault
    BY <1>10, TargetFrame DEF Touch
  <2>2. Cached(r.virt) \subseteq [page : Virt, level : 1 .. 3, frame : Frames]
    BY <2>1, SameLeaf DEF Cached
  <2> QED BY <1>10, <2>2 DEF Touch, TypeOK
<1>11. CASE UNCHANGED vars
  BY <1>11 DEF vars, TypeOK
<1> QED BY <1>2, <1>3, <1>4, <1>5, <1>6, <1>7, <1>8, <1>9, <1>10, <1>11 DEF Next

LEMMA TypeInit == Init => TypeOK
BY BootAssumption DEF Init, TypeOK

(* Whatever is asked of map_page, what it writes are page table entries of *)
(* frames of memory, its walk stays within memory, and the translations    *)
(* the processor caches lead to memory (mem_impl.cpp, map_page).           *)
THEOREM TypeCorrect == Spec => []TypeOK
<1> QED BY TypeInit, TypeStep, PTL DEF Spec

-----------------------------------------------------------------------------
(***************************************************************************)
(* What a write does to the tree and to the walks.                         *)
(***************************************************************************)
LEMMA SameLeads ==
    ASSUME NEW m, NEW n, NEW v, SameWalk(m, n, v, 0)
    PROVE  LeadsTo(n, v) = LeadsTo(m, v)
<1>1. \A l \in 1 .. 4 : /\ Reaches(n, v, l) <=> Reaches(m, v, l)
                        /\ Reaches(m, v, l) => EntryAt(n, v, l) = EntryAt(m, v, l)
  BY DEF SameWalk
<1>2. /\ Reaches(n, v, 1) <=> Reaches(m, v, 1)
      /\ Reaches(n, v, 2) <=> Reaches(m, v, 2)
      /\ Reaches(n, v, 3) <=> Reaches(m, v, 3)
      /\ Reaches(m, v, 1) => EntryAt(n, v, 1) = EntryAt(m, v, 1)
      /\ Reaches(m, v, 2) => EntryAt(n, v, 2) = EntryAt(m, v, 2)
      /\ Reaches(m, v, 3) => EntryAt(n, v, 3) = EntryAt(m, v, 3)
  BY <1>1
<1> QED BY <1>2 DEF LeadsTo

(* A walk that meets an absent entry faults, and gets no further.          *)
LEMMA DeadEnd ==
    ASSUME NEW m, NEW v, NEW l \in 1 .. 4, Reaches(m, v, l), ~Present(EntryAt(m, v, l))
    PROVE  /\ LeadsTo(m, v) = Fault
           /\ \A k \in 1 .. 4 : Reaches(m, v, k) => k >= l
<1>1. ~IsTable(EntryAt(m, v, l)) /\ ~IsLarge(EntryAt(m, v, l))
  BY DEF IsTable, IsLarge
<1>2. \A k \in 1 .. 4 : Reaches(m, v, k) => k >= l
  <2> SUFFICES ASSUME NEW k \in 1 .. 4, Reaches(m, v, k), k < l PROVE FALSE
    OBVIOUS
  <2> QED BY <1>1 DEF Reaches
<1>3. \A k \in l + 1 .. 4 : IsTable(EntryAt(m, v, k)) /\ ~IsLarge(EntryAt(m, v, k))
  BY DEF Reaches, IsTable, IsLarge
<1>4. l = 1 \/ l = 2 \/ l = 3 \/ l = 4
  OBVIOUS
<1>5. /\ ~(Reaches(m, v, 1) /\ Present(EntryAt(m, v, 1)))
      /\ ~(Reaches(m, v, 2) /\ IsLarge(EntryAt(m, v, 2)))
      /\ ~(Reaches(m, v, 3) /\ IsLarge(EntryAt(m, v, 3)))
  BY <1>1, <1>2, <1>3, <1>4
<1> QED BY <1>2, <1>5 DEF LeadsTo

(* A zeroed frame outside the tree may join it: no walk notices.           *)
LEMMA ZeroJoins ==
    ASSUME NEW m \in [Frames -> [Index -> Entry]], NEW T, T \subseteq Frames, NEW lv,
           IsTree(m, T, lv), NEW f \in Frames, f \notin T, NEW k \in 1 .. 4
    PROVE  LET n  == [m EXCEPT ![f] = Zeroed]
               lf == [t \in T \cup {f} |-> IF t = f THEN k ELSE lv[t]]
           IN  /\ IsTree(n, T \cup {f}, lf)
               /\ \A t \in T, x \in Index : LinksAt(n, lf, t, x) => n[t][x].frame \in T
               /\ \A x \in Index : ~LinksAt(n, lf, f, x)
               /\ \A v \in Virt : SameWalk(m, n, v, 0)
<1> DEFINE n  == [m EXCEPT ![f] = Zeroed]
           lf == [t \in T \cup {f} |-> IF t = f THEN k ELSE lv[t]]
<1>1. /\ lv \in [T -> 1 .. 4] /\ cr3 \in T /\ lv[cr3] = 4
      /\ \A t \in T, x \in Index :
            LinksAt(m, lv, t, x) => m[t][x].frame \in T /\ lv[m[t][x].frame] = lv[t] - 1
      /\ \A t, u \in T, x, y \in Index :
            LinksAt(m, lv, t, x) /\ LinksAt(m, lv, u, y) /\ m[t][x].frame = m[u][y].frame
                => t = u /\ x = y
  BY DEF IsTree
<1>2. /\ lf \in [T \cup {f} -> 1 .. 4] /\ \A t \in T : lf[t] = lv[t]
      /\ \A t \in T : n[t] = m[t]
      /\ n[f] = Zeroed
  BY <1>1
<1>3. \A x \in Index : ~IsTable(n[f][x])
  BY <1>2 DEF Zeroed, IsTable, Present
<1>4. \A t \in T, x \in Index : LinksAt(n, lf, t, x) <=> LinksAt(m, lv, t, x)
  BY <1>2 DEF LinksAt
<1>5. \A x \in Index : ~LinksAt(n, lf, f, x)
  BY <1>3 DEF LinksAt
<1>6. ASSUME NEW v \in Virt PROVE SameWalk(m, n, v, 0)
  <2>1. \A q \in 1 .. 4 : Reaches(m, v, q) => TableAt(m, v, q) \in T
    BY WalkInTree
  <2>2. \A q \in 1 .. 4 : Reaches(m, v, q) => n[TableAt(m, v, q)] = m[TableAt(m, v, q)]
    BY <2>1, <1>2
  <2>3. \A q \in 1 .. 4 : q > 0 /\ Reaches(m, v, q) =>
                              n[TableAt(m, v, q)][v[q]] = EntryAt(m, v, q)
    BY <2>2 DEF EntryAt
  <2>4. 0 \in 0 .. 4
    OBVIOUS
  <2> HIDE DEF n
  <2> QED BY <2>3, <2>4, WalkKept
<1>7. \A t \in T, x \in Index : LinksAt(n, lf, t, x) => n[t][x].frame \in T
  BY <1>1, <1>2, <1>4
<1>8. IsTree(n, T \cup {f}, lf)
  <2> HIDE DEF n, lf
  <2>1. lf[cr3] = 4
    BY <1>1, <1>2
  <2>2. \A t \in T \cup {f}, x \in Index :
           LinksAt(n, lf, t, x) => n[t][x].frame \in T /\ lf[n[t][x].frame] = lf[t] - 1
    BY <1>1, <1>2, <1>4, <1>5
  <2>3. \A t, u \in T \cup {f}, x, y \in Index :
            LinksAt(n, lf, t, x) /\ LinksAt(n, lf, u, y) /\ n[t][x].frame = n[u][y].frame
                => t = u /\ x = y
    BY <1>1, <1>2, <1>4, <1>5
  <2> QED BY <1>1, <1>2, <2>1, <2>2, <2>3 DEF IsTree
<1> QED BY <1>5, <1>6, <1>7, <1>8

(* Writing entry x of table t, which linked no table, with an entry that   *)
(* links none, or one of the level below that nothing links.               *)
LEMMA PutKeepsTree ==
    ASSUME NEW m \in [Frames -> [Index -> Entry]], NEW T, T \subseteq Frames, NEW lv,
           IsTree(m, T, lv), NEW t \in T, NEW x \in Index, NEW e \in Entry,
           \/ lv[t] = 1 \/ ~IsTable(e)
           \/ /\ e.frame \in T /\ lv[e.frame] = lv[t] - 1
              /\ \A u \in T, y \in Index : LinksAt(m, lv, u, y) => m[u][y].frame # e.frame
    PROVE  IsTree([m EXCEPT ![t][x] = e], T, lv)
<1> DEFINE n == [m EXCEPT ![t][x] = e]
<1>1. /\ lv \in [T -> 1 .. 4] /\ cr3 \in T /\ lv[cr3] = 4
      /\ \A u \in T, y \in Index :
            LinksAt(m, lv, u, y) => m[u][y].frame \in T /\ lv[m[u][y].frame] = lv[u] - 1
      /\ \A u, w \in T, y, z \in Index :
            LinksAt(m, lv, u, y) /\ LinksAt(m, lv, w, z) /\ m[u][y].frame = m[w][z].frame
                => u = w /\ y = z
  BY DEF IsTree
<1>2. /\ n[t][x] = e
      /\ \A u \in T, y \in Index : u # t \/ y # x => n[u][y] = m[u][y]
  OBVIOUS
<1> HIDE DEF n
<1>3. \A u \in T, y \in Index : u # t \/ y # x => (LinksAt(n, lv, u, y) <=> LinksAt(m, lv, u, y))
  BY <1>2 DEF LinksAt
<1>4. LinksAt(n, lv, t, x) =>
         /\ e.frame \in T /\ lv[e.frame] = lv[t] - 1
         /\ \A u \in T, y \in Index : LinksAt(m, lv, u, y) => m[u][y].frame # e.frame
  BY <1>2 DEF LinksAt
<1>5. \A u \in T, y \in Index :
         LinksAt(n, lv, u, y) => n[u][y].frame \in T /\ lv[n[u][y].frame] = lv[u] - 1
  BY <1>1, <1>2, <1>3, <1>4
<1>6. \A u, w \in T, y, z \in Index :
         LinksAt(n, lv, u, y) /\ LinksAt(n, lv, w, z) /\ n[u][y].frame = n[w][z].frame
             => u = w /\ y = z
  <2> SUFFICES ASSUME NEW u \in T, NEW w \in T, NEW y \in Index, NEW z \in Index,
                      LinksAt(n, lv, u, y), LinksAt(n, lv, w, z), n[u][y].frame = n[w][z].frame
               PROVE  u = w /\ y = z
    OBVIOUS
  <2>1. CASE (u # t \/ y # x) /\ (w # t \/ z # x)
    <3>1. /\ LinksAt(m, lv, u, y) /\ LinksAt(m, lv, w, z)
          /\ n[u][y] = m[u][y] /\ n[w][z] = m[w][z]
      BY <1>2, <1>3, <2>1
    <3> QED BY <3>1, <1>1
  <2>2. CASE u = t /\ y = x /\ (w # t \/ z # x)
    BY <1>2, <1>3, <1>4, <2>2
  <2>3. CASE w = t /\ z = x /\ (u # t \/ y # x)
    BY <1>2, <1>3, <1>4, <2>3
  <2> QED BY <2>1, <2>2, <2>3
<1>7. IsTree(n, T, lv)
  BY <1>1, <1>5, <1>6 DEF IsTree
<1> QED BY <1>7 DEF n

(* The walks that read entry x of table t, which is at level k.            *)
Reads(m, v, t, x, k) == Reaches(m, v, k) /\ TableAt(m, v, k) = t /\ v[k] = x

(* n is m with e in entry x of table t of T.                               *)
Puts(m, n, T, t, x, e) ==
    n[t][x] = e /\ \A u \in T, y \in Index : u # t \/ y # x => n[u][y] = m[u][y]

LEMMA PutWalks ==
    ASSUME NEW m, NEW T, NEW lv, IsTree(m, T, lv), NEW t \in T, lv[t] \in 1 .. 4, NEW x,
           NEW e, NEW v \in Virt, NEW n, Puts(m, n, T, t, x, e)
    PROVE  /\ SameWalk(m, n, v, lv[t])
           /\ ~Reads(m, v, t, x, lv[t]) => SameWalk(m, n, v, 0)
           /\ Reads(m, v, t, x, lv[t]) => Reaches(n, v, lv[t]) /\ EntryAt(n, v, lv[t]) = e
<1> DEFINE k == lv[t]
<1>2. /\ k \in 1 .. 4 /\ n[t][x] = e
      /\ \A u \in T, y \in Index : u # t \/ y # x => n[u][y] = m[u][y]
  BY DEF Puts
<1>0. lv[t] = k
  OBVIOUS
<1> HIDE DEF k
<1>3. \A q \in 1 .. 4 : Reaches(m, v, q) => /\ TableAt(m, v, q) \in T
                                            /\ lv[TableAt(m, v, q)] = q /\ v[q] \in Index
  BY WalkInTree DEF Virt
<1>4. \A q \in 1 .. 4 : Reaches(m, v, q) /\ (q # k \/ ~Reads(m, v, t, x, k)) =>
            n[TableAt(m, v, q)][v[q]] = EntryAt(m, v, q)
  BY <1>0, <1>2, <1>3 DEF EntryAt, Reads
<1>5. SameWalk(m, n, v, k)
  <2>1. k \in 0 .. 4
    BY <1>2
  <2>2. \A q \in 1 .. 4 : q > k /\ Reaches(m, v, q) =>
            n[TableAt(m, v, q)][v[q]] = EntryAt(m, v, q)
    BY <1>2, <1>4
  <2> QED BY <2>1, <2>2, WalkKept
<1>6. ~Reads(m, v, t, x, k) => SameWalk(m, n, v, 0)
  <2> SUFFICES ASSUME ~Reads(m, v, t, x, k) PROVE SameWalk(m, n, v, 0)
    OBVIOUS
  <2>1. 0 \in 0 .. 4
    OBVIOUS
  <2>2. \A q \in 1 .. 4 : q > 0 /\ Reaches(m, v, q) =>
            n[TableAt(m, v, q)][v[q]] = EntryAt(m, v, q)
    BY <1>4
  <2> QED BY <2>1, <2>2, WalkKept
<1>7. Reads(m, v, t, x, k) => Reaches(n, v, k) /\ EntryAt(n, v, k) = e
  <2> SUFFICES ASSUME Reads(m, v, t, x, k) PROVE Reaches(n, v, k) /\ EntryAt(n, v, k) = e
    OBVIOUS
  <2>1. Reaches(n, v, k) /\ TableAt(n, v, k) = t /\ v[k] = x
    BY <1>2, <1>5 DEF SameWalk, Reads
  <2> QED BY <1>2, <2>1 DEF EntryAt
<1> QED BY <1>5, <1>6, <1>7 DEF k

-----------------------------------------------------------------------------
(***************************************************************************)
(* The invariant.                                                          *)
(***************************************************************************)
(* The boot loader's tables and those map_page was given are a tree.       *)
Shape == \E lv \in [Tables -> 1 .. 4] : IsTree(mem, Tables, lv)

(* Of the pages map_page was given, all but the one mem::init took are on  *)
(* some walk.                                                              *)
OnWalk(m, f) == \E v \in Virt, l \in 1 .. 3 : Reaches(m, v, l) /\ TableAt(m, v, l) = f
HeldLinked ==
    /\ phase # "run" => held = {} /\ call = NoCall
    /\ phase = "run" =>
          \E spare \in Pool : /\ [base |-> spare, count |-> 1] \in held
                              /\ \A a \in held : OnWalk(mem, a.base) <=> a.base # spare

(* A call is on the walk of the page it maps, and the entry it stored is   *)
(* the leaf of that walk until it returns.                                 *)
CallInv ==
    call # NoCall =>
        LET r == call.request
        IN  /\ call.level = 0 \/ call.level >= Leaf(r)
            /\ call.level > 0 => /\ Reaches(mem, r.virt, call.level)
                                 /\ call.table = TableAt(mem, r.virt, call.level)
            /\ call.level = 0 => /\ Reaches(mem, r.virt, Leaf(r))
                                 /\ EntryAt(mem, r.virt, Leaf(r))
                                      = [frame |-> Target(r), flags |-> r.flags]

(* No request meets a large page half way.                                 *)
RequestInv ==
    \A r \in Requests :
        IF "HUGE" \in r.flags
        THEN Reaches(mem, r.virt, 2) /\ ~IsTable(EntryAt(mem, r.virt, 2))
        ELSE \A l \in 2 .. 4 : Reaches(mem, r.virt, l) => ~IsLarge(EntryAt(mem, r.virt, l))

(* Inside the 2MB pages that are asked for, no 4KB page is cached, so that *)
(* one invlpg is enough.                                                   *)
CachedLarge ==
    \A t \in tlb, r \in Requests :
        "HUGE" \in r.flags /\ t.page \in Block(r.virt, 2) => t.level >= 2

PInv == /\ TypeOK /\ Shape /\ HeldLinked /\ CallInv /\ RequestInv
        /\ NoStaleTranslation /\ CachedLarge

LEMMA SameTwice ==
    ASSUME NEW m, NEW p, NEW n, NEW v, NEW k \in 0 .. 4, SameWalk(m, p, v, 0), SameWalk(p, n, v, k)
    PROVE  SameWalk(m, n, v, k)
<1>1. ASSUME NEW l \in 1 .. 4
      PROVE  /\ l >= k => /\ Reaches(n, v, l) <=> Reaches(m, v, l)
                          /\ Reaches(m, v, l) => TableAt(n, v, l) = TableAt(m, v, l)
             /\ l > k /\ Reaches(m, v, l) => EntryAt(n, v, l) = EntryAt(m, v, l)
  <2>1. /\ Reaches(p, v, l) <=> Reaches(m, v, l)
        /\ Reaches(m, v, l) => /\ TableAt(p, v, l) = TableAt(m, v, l)
                               /\ EntryAt(p, v, l) = EntryAt(m, v, l)
    BY DEF SameWalk
  <2>2. /\ l >= k => /\ Reaches(n, v, l) <=> Reaches(p, v, l)
                     /\ Reaches(p, v, l) => TableAt(n, v, l) = TableAt(p, v, l)
        /\ l > k /\ Reaches(p, v, l) => EntryAt(n, v, l) = EntryAt(p, v, l)
    BY DEF SameWalk
  <2> QED BY <2>1, <2>2
<1> QED BY <1>1 DEF SameWalk

(* The entry a call is about to look at: the walks that read it are those  *)
(* of the pages that share it with the page of the request.                *)
LEMMA AtSlot ==
    ASSUME PInv, call # NoCall, call.level > 0
    PROVE  /\ call.request \in Requests /\ call.level \in 1 .. 4 /\ call.table \in Frames
           /\ call.level >= Leaf(call.request)
           /\ Slot \in Index /\ call.table \in Tables /\ phase = "run"
           /\ \A lv : IsTree(mem, Tables, lv) => lv[call.table] = call.level
           /\ Reaches(mem, call.request.virt, call.level)
           /\ call.table = TableAt(mem, call.request.virt, call.level)
           /\ mem[call.table][Slot] = EntryAt(mem, call.request.virt, call.level)
           /\ Reads(mem, call.request.virt, call.table, Slot, call.level)
           /\ \A v \in Virt : Reads(mem, v, call.table, Slot, call.level) =>
                                 /\ v \in Block(call.request.virt, call.level)
                                 /\ EntryAt(mem, v, call.level) = mem[call.table][Slot]
<1> DEFINE r == call.request
           k == call.level
<1>1. r \in Requests /\ k \in 1 .. 4 /\ call.table \in Frames /\ r.virt \in Virt
  BY TargetFrame DEF PInv, TypeOK
<1>2. /\ k >= Leaf(r) /\ Reaches(mem, r.virt, k) /\ call.table = TableAt(mem, r.virt, k)
      /\ phase = "run"
  BY DEF PInv, CallInv, HeldLinked, TypeOK
<1>3. Slot = r.virt[k] /\ Slot \in Index
  BY <1>1 DEF Slot, Virt
<1>4. PICK lv : IsTree(mem, Tables, lv)
  BY DEF PInv, Shape
<1>5. \A l : IsTree(mem, Tables, l) => l[call.table] = k /\ call.table \in Tables
  BY <1>1, <1>2, WalkInTree
<1>6. mem[call.table][Slot] = EntryAt(mem, r.virt, k)
  BY <1>2, <1>3 DEF EntryAt
<1>7. Reads(mem, r.virt, call.table, Slot, k)
  BY <1>2, <1>3 DEF Reads
<1>8. ASSUME NEW v \in Virt, Reads(mem, v, call.table, Slot, k)
      PROVE  v \in Block(r.virt, k) /\ EntryAt(mem, v, k) = mem[call.table][Slot]
  <2>1. Reaches(mem, v, k) /\ TableAt(mem, v, k) = TableAt(mem, r.virt, k) /\ v[k] = Slot
    BY <1>2, <1>8 DEF Reads
  <2> HIDE DEF r, k
  <2>2. \A q \in k + 1 .. 4 : v[q] = r.virt[q]
    BY <1>1, <1>2, <1>4, <2>1, WalkUnique
  <2>3. \A q \in k .. 4 : v[q] = r.virt[q]
    <3>1. \A q \in k .. 4 : q = k \/ q \in k + 1 .. 4
      BY <1>1
    <3> QED BY <3>1, <2>1, <2>2, <1>3
  <2>4. EntryAt(mem, v, k) = mem[call.table][Slot]
    BY <2>1, <1>2 DEF EntryAt
  <2> QED BY <2>3, <2>4 DEF Block
<1> QED BY <1>1, <1>2, <1>3, <1>4, <1>5, <1>6, <1>7, <1>8

(* Only a 4KB page ever needs a table.                                     *)
LEMMA OnlySmallDescend ==
    ASSUME PInv, AboveLeaf
    PROVE  /\ call # NoCall /\ call.level \in 2 .. 4
           /\ Present(mem[call.table][Slot]) => IsTable(mem[call.table][Slot])
           /\ ~Present(mem[call.table][Slot]) => "HUGE" \notin call.request.flags
<1> DEFINE r == call.request
           k == call.level
<1>1. call # NoCall /\ call.level > Leaf(call.request) /\ r \in Requests
  BY DEF AboveLeaf, PInv, TypeOK
<1>2. Leaf(r) \in 1 .. 2 /\ call.level \in 0 .. 4
  BY <1>1, TargetFrame DEF PInv, TypeOK
<1>3. call.level \in 2 .. 4 /\ call.level > 0
  BY <1>1, <1>2
<1>4. mem[call.table][Slot] = EntryAt(mem, r.virt, k) /\ Reaches(mem, r.virt, k)
  BY <1>1, <1>3, AtSlot
<1>5. "HUGE" \in r.flags => IsTable(EntryAt(mem, r.virt, k))
  <2>1. "HUGE" \in r.flags => k \in 2 + 1 .. 4 /\ Reaches(mem, r.virt, 2)
    BY <1>1, <1>3 DEF Leaf, PInv, RequestInv
  <2> QED BY <2>1 DEF Reaches
<1>6. "HUGE" \notin r.flags => ~IsLarge(EntryAt(mem, r.virt, k))
  BY <1>1, <1>3, <1>4 DEF PInv, RequestInv
<1> QED BY <1>1, <1>3, <1>4, <1>5, <1>6 DEF IsLarge, IsTable

-----------------------------------------------------------------------------
(***************************************************************************)
(* What the two writes of map_page do.                                     *)
(***************************************************************************)
(* Frame f has become the table below the entry.                           *)
Created(f) ==
    LET k == call.level
    IN  /\ f \in Pool /\ f \in Frames /\ f \notin Tables /\ Tables' = Tables \cup {f}
        /\ held' = held \cup {[base |-> f, count |-> 1]}
        /\ call' = [call EXCEPT !.level = k - 1, !.table = f]
        /\ Shape'
        /\ \A g \in Frames : mem'[g] # mem[g] => g = f \/ g = call.table
        /\ \A v \in Virt :
              IF Reads(mem, v, call.table, Slot, k)
              THEN /\ SameWalk(mem, mem', v, k) /\ ~Present(EntryAt(mem, v, k))
                   /\ Reaches(mem', v, k) /\ EntryAt(mem', v, k) = Link(f)
                   /\ Reaches(mem', v, k - 1) /\ TableAt(mem', v, k - 1) = f
                   /\ ~Present(EntryAt(mem', v, k - 1))
              ELSE SameWalk(mem, mem', v, 0)

LEMMA Creates ==
    ASSUME PInv, CreateTable
    PROVE  \E f \in Pool : Created(f)
<1> DEFINE r == call.request
           k == call.level
           t == call.table
           x == Slot
<1>1. /\ AboveLeaf /\ ~Present(mem[t][x]) /\ call # NoCall /\ k \in 2 .. 4 /\ k > 0
      /\ "HUGE" \notin r.flags
  BY OnlySmallDescend DEF CreateTable
<1>2. /\ r \in Requests /\ t \in Frames /\ x \in Index /\ t \in Tables
      /\ \A lv : IsTree(mem, Tables, lv) => lv[t] = k
      /\ \A v \in Virt : Reads(mem, v, t, x, k) =>
                            v \in Block(r.virt, k) /\ EntryAt(mem, v, k) = mem[t][x]
  BY <1>1, AtSlot
<1>3. PICK f \in usable :
         /\ AllocPage(f)
         /\ mem' = [mem EXCEPT ![f] = Zeroed, ![t][x] = Link(f)]
         /\ call' = [call EXCEPT !.level = k - 1, !.table = f]
  BY DEF CreateTable, Fresh
<1>4. /\ f \in Pool /\ f \in Frames /\ f \notin Tables /\ Tables' = Tables \cup {f}
      /\ held' = held \cup {[base |-> f, count |-> 1]}
  BY <1>3, Allocated DEF PInv
<1>5. PICK lv : IsTree(mem, Tables, lv)
  BY DEF PInv, Shape
<1> DEFINE p  == [mem EXCEPT ![f] = Zeroed]
           lf == [u \in Tables \cup {f} |-> IF u = f THEN k - 1 ELSE lv[u]]
           n  == [p EXCEPT ![t][x] = Link(f)]
<1>6. /\ mem \in [Frames -> [Index -> Entry]] /\ Tables \subseteq Frames
      /\ k - 1 \in 1 .. 4 /\ Link(f) \in Entry
      /\ IsTable(Link(f)) /\ Link(f).frame = f
  <2>1. Tables \subseteq Frames
    BY RootIsFrame, BootAssumption DEF PInv, TypeOK, Tables
  <2>2. r.flags \subseteq Flags /\ "PRESENT" \in r.flags
    BY <1>2, TargetFrame
  <2>3. Link(f) \in Entry /\ IsTable(Link(f)) /\ Link(f).frame = f
    BY <1>1, <1>4, <2>2 DEF Link, Entry, IsTable, Present, Huge
  <2> QED BY <1>1, <2>1, <2>3 DEF PInv, TypeOK
<1>7. mem' = n
  BY <1>3
<1>8. /\ IsTree(p, Tables \cup {f}, lf)
      /\ \A u \in Tables, y \in Index : LinksAt(p, lf, u, y) => p[u][y].frame \in Tables
      /\ \A y \in Index : ~LinksAt(p, lf, f, y)
      /\ \A v \in Virt : SameWalk(mem, p, v, 0)
  BY <1>4, <1>5, <1>6, ZeroJoins
<1>9. p \in [Frames -> [Index -> Entry]] /\ Zeroed \in [Index -> Entry]
  <2>1. 0 \in Index /\ [frame |-> 0, flags |-> {}] \in Entry
    BY FrameAssumption DEF Index, Entry
  <2> QED BY <2>1, <1>4, <1>6, MemTyped
<1>10. lf[t] = k /\ lf[f] = k - 1 /\ t # f /\ t \in Tables \cup {f} /\ f \in Tables \cup {f}
  BY <1>2, <1>4, <1>5
<1>11. n[f] = Zeroed /\ \A g \in Frames : g # f /\ g # t => n[g] = mem[g]
  BY <1>2, <1>4, <1>6, <1>10
<1>12. Tables \cup {f} \subseteq Frames
  BY <1>4, <1>6
<1> HIDE DEF p, lf, n, t, x, k, r
<1>13. IsTree(n, Tables \cup {f}, lf)
  <2>1. \A u \in Tables \cup {f}, y \in Index : LinksAt(p, lf, u, y) => p[u][y].frame # f
    BY <1>4, <1>8
  <2>2. \/ lf[t] = 1 \/ ~IsTable(Link(f))
        \/ /\ Link(f).frame \in Tables \cup {f} /\ lf[Link(f).frame] = lf[t] - 1
           /\ \A u \in Tables \cup {f}, y \in Index : LinksAt(p, lf, u, y) => p[u][y].frame # Link(f).frame
    BY <1>6, <1>10, <2>1
  <2>3. x \in Index /\ Link(f) \in Entry /\ t \in Tables \cup {f}
    BY <1>2, <1>6, <1>10
  <2> DEFINE T == Tables \cup {f}
             e == Link(f)
  <2> HIDE DEF T, e
  <2>4. IsTree([p EXCEPT ![t][x] = e], T, lf)
    <3>1. p \in [Frames -> [Index -> Entry]] /\ T \subseteq Frames /\ IsTree(p, T, lf)
      BY <1>8, <1>9, <1>12 DEF T
    <3>2. t \in T /\ x \in Index /\ e \in Entry
      BY <2>3 DEF T, e
    <3>3. \/ lf[t] = 1 \/ ~IsTable(e)
          \/ /\ e.frame \in T /\ lf[e.frame] = lf[t] - 1
             /\ \A u \in T, y \in Index : LinksAt(p, lf, u, y) => p[u][y].frame # e.frame
      BY <2>2 DEF T, e
    <3> QED BY <3>1, <3>2, <3>3, PutKeepsTree
  <2> QED BY <2>4 DEF n, T, e
<1>14. Shape'
  <2>1. IsTree(mem', Tables', lf)
    BY <1>4, <1>7, <1>13
  <2>2. lf \in [Tables' -> 1 .. 4]
    BY <2>1 DEF IsTree
  <2> QED BY <2>1, <2>2 DEF Shape
<1>15. ASSUME NEW v \in Virt
       PROVE  IF Reads(mem, v, t, x, k)
              THEN /\ SameWalk(mem, n, v, k) /\ ~Present(EntryAt(mem, v, k))
                   /\ Reaches(n, v, k) /\ EntryAt(n, v, k) = Link(f)
                   /\ Reaches(n, v, k - 1) /\ TableAt(n, v, k - 1) = f
                   /\ ~Present(EntryAt(n, v, k - 1))
              ELSE SameWalk(mem, n, v, 0)
  <2>1. SameWalk(mem, p, v, 0) /\ v \in Virt
    BY <1>8, <1>15
  <2>2. /\ SameWalk(p, n, v, k)
        /\ ~Reads(p, v, t, x, k) => SameWalk(p, n, v, 0)
        /\ Reads(p, v, t, x, k) => Reaches(n, v, k) /\ EntryAt(n, v, k) = Link(f)
    <3> DEFINE T == Tables \cup {f}
               e == Link(f)
    <3> HIDE DEF T, e
    <3>1. p \in [Frames -> [Index -> Entry]] /\ T \subseteq Frames /\ IsTree(p, T, lf)
      BY <1>8, <1>9, <1>12 DEF T
    <3>2. t \in T /\ x \in Index /\ k = lf[t] /\ v \in Virt
      BY <1>2, <1>10, <2>1 DEF T, k, x, t
    <3>3. Puts(p, n, T, t, x, e)
      BY <3>1, <3>2 DEF n, e, Puts
    <3>4. lf[t] \in 1 .. 4
      BY <1>1, <3>2 DEF k
    <3>5. /\ SameWalk(p, n, v, lf[t])
          /\ ~Reads(p, v, t, x, lf[t]) => SameWalk(p, n, v, 0)
          /\ Reads(p, v, t, x, lf[t]) => Reaches(n, v, lf[t]) /\ EntryAt(n, v, lf[t]) = e
      BY <3>1, <3>2, <3>3, <3>4, PutWalks
    <3> QED BY <3>2, <3>5 DEF e
  <2>3. Reads(p, v, t, x, k) <=> Reads(mem, v, t, x, k)
    BY <1>1, <2>1 DEF SameWalk, Reads, k
  <2>4. SameWalk(mem, n, v, k) /\ (~Reads(mem, v, t, x, k) => SameWalk(mem, n, v, 0))
    <3>1. k \in 0 .. 4 /\ 0 \in 0 .. 4
      BY <1>1 DEF k
    <3>2. SameWalk(mem, n, v, k)
      BY <3>1, <2>1, <2>2, SameTwice
    <3>3. ~Reads(mem, v, t, x, k) => SameWalk(mem, n, v, 0)
      BY <3>1, <2>1, <2>2, <2>3, SameTwice
    <3> QED BY <3>2, <3>3
  <2>5. ASSUME Reads(mem, v, t, x, k)
        PROVE  /\ Reaches(n, v, k - 1) /\ TableAt(n, v, k - 1) = f
               /\ ~Present(EntryAt(n, v, k - 1)) /\ ~Present(EntryAt(mem, v, k))
    <3>1. Reaches(n, v, k) /\ EntryAt(n, v, k) = Link(f)
      BY <2>2, <2>3, <2>5
    <3>2. k - 1 \in 1 .. 3 /\ (k - 1) + 1 = k
      BY <1>1 DEF k
    <3>3. /\ TableAt(n, v, k - 1) = EntryAt(n, v, k).frame
          /\ Reaches(n, v, k - 1) <=> Reaches(n, v, k) /\ IsTable(EntryAt(n, v, k))
      <4>1. \A j \in 1 .. 3 : /\ TableAt(n, v, j) = EntryAt(n, v, j + 1).frame
                              /\ Reaches(n, v, j) <=> Reaches(n, v, j + 1) /\ IsTable(EntryAt(n, v, j + 1))
        BY WalkStep
      <4> QED BY <4>1, <3>2
    <3>4. Reaches(n, v, k - 1) /\ TableAt(n, v, k - 1) = f
      BY <1>6, <3>1, <3>3
    <3>5. v[k - 1] \in Index
      BY <3>2 DEF Virt
    <3>6. ~Present(EntryAt(n, v, k - 1))
      BY <1>11, <3>4, <3>5 DEF EntryAt, Zeroed, Present
    <3>7. ~Present(EntryAt(mem, v, k))
      BY <1>1, <1>2, <2>5 DEF t, x, k
    <3> QED BY <3>4, <3>6, <3>7
  <2> QED BY <2>2, <2>3, <2>4, <2>5
<1>16. \A g \in Frames : mem'[g] # mem[g] => g = f \/ g = t
  BY <1>7, <1>11
<1> QED BY <1>3, <1>4, <1>7, <1>14, <1>15, <1>16 DEF Created, t, x, k

(* The leaf is written: nothing else changes, and no walk gets further or  *)
(* less far than it did.                                                   *)
Stored ==
    LET k == Leaf(call.request)
    IN  /\ Tables' = Tables /\ held' = held /\ call.level = k
        /\ call' = [call EXCEPT !.level = 0]
        /\ Shape'
        /\ \A g \in Frames : mem'[g] # mem[g] => g = call.table
        /\ \A v \in Virt :
              /\ SameWalk(mem, mem', v, k)
              /\ IF Reads(mem, v, call.table, Slot, k)
                 THEN /\ Reaches(mem', v, k)
                      /\ EntryAt(mem', v, k) = [frame |-> Target(call.request),
                                                flags |-> call.request.flags]
                 ELSE SameWalk(mem, mem', v, 0)
              /\ \A l \in 1 .. 4 : /\ Reaches(mem', v, l) <=> Reaches(mem, v, l)
                                   /\ Reaches(mem, v, l) => TableAt(mem', v, l) = TableAt(mem, v, l)

LEMMA Stores == ASSUME PInv, StoreLeaf PROVE Stored
<1> DEFINE r == call.request
           k == call.level
           t == call.table
           x == Slot
           e == [frame |-> Target(r), flags |-> r.flags]
           n == [mem EXCEPT ![t][x] = e]
<1>1. /\ call # NoCall /\ k = Leaf(r) /\ mem' = n /\ call' = [call EXCEPT !.level = 0]
      /\ held' = held
  BY DEF StoreLeaf
<1>2. r \in Requests
  BY <1>1 DEF PInv, TypeOK
<1>3. k \in 1 .. 2 /\ k > 0 /\ Target(r) \in Frames /\ r.flags \subseteq Flags /\ "PRESENT" \in r.flags
  BY <1>1, <1>2, TargetFrame
<1>4. /\ t \in Frames /\ x \in Index /\ t \in Tables
      /\ \A lv : IsTree(mem, Tables, lv) => lv[t] = k
      /\ Reaches(mem, r.virt, k) /\ mem[t][x] = EntryAt(mem, r.virt, k)
      /\ \A v \in Virt : Reads(mem, v, t, x, k) => EntryAt(mem, v, k) = mem[t][x]
  BY <1>1, <1>3, AtSlot
<1>5. PICK lv : IsTree(mem, Tables, lv)
  BY DEF PInv, Shape
<1>6. /\ mem \in [Frames -> [Index -> Entry]] /\ Tables \subseteq Frames /\ e \in Entry
  BY <1>3, RootIsFrame, BootAssumption DEF PInv, TypeOK, Tables, Entry
<1>7. k = 2 => ~IsTable(e) /\ ~IsTable(mem[t][x])
  <2> SUFFICES ASSUME k = 2 PROVE ~IsTable(e) /\ ~IsTable(mem[t][x])
    OBVIOUS
  <2>1. "HUGE" \in r.flags
    BY <1>1 DEF Leaf
  <2>2. ~IsTable(EntryAt(mem, r.virt, 2))
    BY <1>2, <2>1 DEF PInv, RequestInv
  <2>3. ~IsTable(e)
    BY <2>1 DEF IsTable, Huge
  <2> QED BY <2>2, <2>3, <1>4
<1>8. \A g \in Frames : g # t => n[g] = mem[g]
  BY <1>4, <1>6
<1> HIDE DEF n, e, t, x, k, r
<1>9. lv[t] = k
  BY <1>4, <1>5
<1>10. IsTree(n, Tables, lv)
  <2>1. lv[t] = 1 \/ ~IsTable(e)
    BY <1>3, <1>7, <1>9
  <2> QED BY <2>1, <1>4, <1>5, <1>6, PutKeepsTree DEF n
<1>11. Tables' = Tables /\ Shape'
  <2>1. Tables' = Tables
    BY <1>1 DEF Tables
  <2>2. IsTree(mem', Tables', lv) /\ lv \in [Tables' -> 1 .. 4]
    BY <1>1, <1>10, <2>1 DEF IsTree
  <2> QED BY <2>1, <2>2 DEF Shape
<1>12. ASSUME NEW v \in Virt
       PROVE  /\ SameWalk(mem, n, v, k)
              /\ IF Reads(mem, v, t, x, k) THEN Reaches(n, v, k) /\ EntryAt(n, v, k) = e
                 ELSE SameWalk(mem, n, v, 0)
              /\ \A l \in 1 .. 4 : /\ Reaches(n, v, l) <=> Reaches(mem, v, l)
                                   /\ Reaches(mem, v, l) => TableAt(n, v, l) = TableAt(mem, v, l)
  <2>1. /\ SameWalk(mem, n, v, k)
        /\ IF Reads(mem, v, t, x, k) THEN Reaches(n, v, k) /\ EntryAt(n, v, k) = e
           ELSE SameWalk(mem, n, v, 0)
    <3>1. mem \in [Frames -> [Index -> Entry]] /\ Tables \subseteq Frames /\ x \in Index /\ t \in Tables
      BY <1>4, <1>6
    <3>2. k = lv[t] /\ v \in Virt
      BY <1>9, <1>12
    <3> DEFINE T == Tables
    <3>3. Puts(mem, n, T, t, x, e) /\ IsTree(mem, T, lv) /\ t \in T
      BY <1>5, <3>1 DEF n, Puts
    <3>4. lv[t] \in 1 .. 4
      BY <1>3, <3>2 DEF k
    <3> HIDE DEF T
    <3>5. /\ SameWalk(mem, n, v, lv[t])
          /\ ~Reads(mem, v, t, x, lv[t]) => SameWalk(mem, n, v, 0)
          /\ Reads(mem, v, t, x, lv[t]) => Reaches(n, v, lv[t]) /\ EntryAt(n, v, lv[t]) = e
      BY <3>2, <3>3, <3>4, PutWalks
    <3> QED BY <3>2, <3>5
  <2>2. ASSUME NEW l \in 1 .. 4
        PROVE  /\ Reaches(n, v, l) <=> Reaches(mem, v, l)
               /\ Reaches(mem, v, l) => TableAt(n, v, l) = TableAt(mem, v, l)
    <3>1. CASE l >= k
      BY <2>1, <3>1 DEF SameWalk
    <3>2. CASE ~Reads(mem, v, t, x, k)
      <4>1. SameWalk(mem, n, v, 0) /\ l >= 0
        BY <2>1, <3>2
      <4> QED BY <4>1 DEF SameWalk
    <3>3. CASE l < k /\ Reads(mem, v, t, x, k)
      <4>1. k = 2 /\ l = 1 /\ 1 + 1 = 2 /\ 1 \in 1 .. 3
        BY <1>3, <3>3
      <4>2. ~IsTable(EntryAt(n, v, 2)) /\ ~IsTable(EntryAt(mem, v, 2))
        BY <1>4, <1>7, <2>1, <3>3, <4>1
      <4>3. ~Reaches(n, v, 1) /\ ~Reaches(mem, v, 1)
        BY <4>1, <4>2, WalkStep
      <4> QED BY <4>1, <4>3
    <3>4. l >= k \/ l < k
      BY <1>3
    <3> QED BY <3>1, <3>2, <3>3, <3>4
  <2> QED BY <2>1, <2>2
<1> QED BY <1>1, <1>8, <1>11, <1>12 DEF Stored, n, e, t, x, k, r

-----------------------------------------------------------------------------
(***************************************************************************)
(* The invariant is inductive.                                             *)
(***************************************************************************)
(* What the separate requests give at the start.                           *)
LEMMA RequestInit ==
    ASSUME Separate(Requests), Init PROVE RequestInv
<1> SUFFICES ASSUME NEW r \in Requests
             PROVE  IF "HUGE" \in r.flags
                    THEN Reaches(mem, r.virt, 2) /\ ~IsTable(EntryAt(mem, r.virt, 2))
                    ELSE \A l \in 2 .. 4 : Reaches(mem, r.virt, l) => ~IsLarge(EntryAt(mem, r.virt, l))
  BY DEF RequestInv
<1> DEFINE v == r.virt
<1>1. /\ EntryAt(mem, v, 4) = Boot4(v) /\ EntryAt(mem, v, 3) = Boot3(v)
      /\ EntryAt(mem, v, 2) = Boot2(v)
  BY DEF Init, EntryAt, TableAt, T1, T2, T3, Boot4, Boot3, Boot2
<1>2. /\ Reaches(mem, v, 3) <=> IsTable(EntryAt(mem, v, 4))
      /\ Reaches(mem, v, 2) <=> Reaches(mem, v, 3) /\ IsTable(EntryAt(mem, v, 3))
  BY WalkSteps
<1>3. IF "HUGE" \in r.flags
      THEN IsTable(Boot4(v)) /\ IsTable(Boot3(v)) /\ ~IsTable(Boot2(v))
      ELSE /\ ~IsLarge(Boot4(v))
           /\ IsTable(Boot4(v)) => /\ ~IsLarge(Boot3(v))
                                   /\ IsTable(Boot3(v)) => ~IsLarge(Boot2(v))
  BY DEF Separate
<1> HIDE DEF v
<1>4. CASE "HUGE" \in r.flags
  BY <1>1, <1>2, <1>3, <1>4 DEF v
<1>5. CASE "HUGE" \notin r.flags
  <2>1. /\ Reaches(mem, v, 4) => ~IsLarge(EntryAt(mem, v, 4))
        /\ Reaches(mem, v, 3) => ~IsLarge(EntryAt(mem, v, 3))
        /\ Reaches(mem, v, 2) => ~IsLarge(EntryAt(mem, v, 2))
    BY <1>1, <1>2, <1>3, <1>5
  <2>2. \A l \in 2 .. 4 : l = 2 \/ l = 3 \/ l = 4
    OBVIOUS
  <2>3. \A l \in 2 .. 4 : Reaches(mem, v, l) => ~IsLarge(EntryAt(mem, v, l))
    BY <2>1, <2>2
  <2> QED BY <2>3, <1>5 DEF v
<1> QED BY <1>4, <1>5

LEMMA PInvInit == ASSUME Separate(Requests), Init PROVE PInv
<1>1. TypeOK /\ RequestInv
  BY TypeInit, RequestInit
<1>2. Tables = BootTables
  BY DEF Init, Tables
<1>3. Shape
  BY <1>2, BootAssumption DEF Init, Shape
<1>4. HeldLinked /\ CallInv /\ NoStaleTranslation /\ CachedLarge
  BY DEF Init, HeldLinked, CallInv, NoStaleTranslation, CachedLarge
<1> QED BY <1>1, <1>3, <1>4 DEF PInv

(* A step that changes no translation leaves the cache fresh.              *)
LEMMA StaysFresh ==
    ASSUME PInv, tlb' = tlb, call = NoCall \/ call.level # 0,
           \A v \in Virt : LeadsTo(mem', v) = LeadsTo(mem, v)
    PROVE  NoStaleTranslation' /\ CachedLarge'
<1>1. \A t \in tlb : t.frame = Translate(t.page) /\ t.page \in Virt
  BY DEF PInv, TypeOK, NoStaleTranslation
<1>2. \A v \in Virt : Translate(v)' = Translate(v)
  BY Leads, LeadsNext
<1>3. NoStaleTranslation'
  BY <1>1, <1>2 DEF NoStaleTranslation
<1>4. CachedLarge'
  BY DEF PInv, CachedLarge
<1> QED BY <1>3, <1>4

(* A new table changes no translation, and every table is still found.     *)
LEMMA CreateLeads ==
    ASSUME PInv, CreateTable, NEW f \in Pool, Created(f), NEW v \in Virt
    PROVE  LeadsTo(mem', v) = LeadsTo(mem, v)
<1>1. call.level \in 2 .. 4
  BY OnlySmallDescend DEF CreateTable
<1> DEFINE k == call.level
<1>2. CASE ~Reads(mem, v, call.table, Slot, k)
  BY <1>2, SameLeads DEF Created
<1>3. CASE Reads(mem, v, call.table, Slot, k)
  <2>1. /\ Reaches(mem, v, k) /\ ~Present(EntryAt(mem, v, k))
        /\ Reaches(mem', v, k - 1) /\ ~Present(EntryAt(mem', v, k - 1))
    BY <1>3 DEF Created, Reads
  <2>2. k \in 1 .. 4 /\ k - 1 \in 1 .. 4
    BY <1>1
  <2> HIDE DEF k
  <2>3. LeadsTo(mem, v) = Fault
    BY <2>1, <2>2, DeadEnd
  <2>4. LeadsTo(mem', v) = Fault
    BY <2>1, <2>2, DeadEnd
  <2> QED BY <2>3, <2>4
<1> QED BY <1>2, <1>3

LEMMA CreateReaches ==
    ASSUME PInv, CreateTable, NEW f \in Pool, Created(f), NEW v \in Virt, NEW l \in 1 .. 4
    PROVE  /\ Reaches(mem', v, l) <=>
                  \/ Reaches(mem, v, l)
                  \/ Reads(mem, v, call.table, Slot, call.level) /\ l = call.level - 1
           /\ Reaches(mem, v, l) => TableAt(mem', v, l) = TableAt(mem, v, l)
           /\ Reaches(mem', v, l) /\ ~Reaches(mem, v, l) => TableAt(mem', v, l) = f
<1> DEFINE k == call.level
<1>1. k \in 2 .. 4
  BY OnlySmallDescend DEF CreateTable
<1>2. CASE ~Reads(mem, v, call.table, Slot, k)
  <2>1. SameWalk(mem, mem', v, 0)
    BY <1>2 DEF Created
  <2> QED BY <2>1, <1>2 DEF SameWalk
<1>3. CASE Reads(mem, v, call.table, Slot, k)
  <2>1. /\ SameWalk(mem, mem', v, k)
        /\ Reaches(mem, v, k) /\ ~Present(EntryAt(mem, v, k))
        /\ Reaches(mem', v, k - 1) /\ ~Present(EntryAt(mem', v, k - 1))
        /\ TableAt(mem', v, k - 1) = f
    BY <1>3 DEF Created, Reads
  <2>2. k \in 1 .. 4 /\ k - 1 \in 1 .. 4
    BY <1>1
  <2> HIDE DEF k
  <2>3. Reaches(mem, v, l) => l >= k
    BY <2>1, <2>2, DeadEnd
  <2>4. Reaches(mem', v, l) => l >= k - 1
    BY <2>1, <2>2, DeadEnd
  <2>5. l >= k => /\ Reaches(mem', v, l) <=> Reaches(mem, v, l)
                  /\ Reaches(mem, v, l) => TableAt(mem', v, l) = TableAt(mem, v, l)
    BY <2>1 DEF SameWalk
  <2>6. l = k - 1 \/ l >= k \/ l < k - 1
    BY <2>2
  <2>7. l >= k => l # k - 1
    BY <2>2
  <2>8. l < k - 1 => ~(l >= k - 1)
    BY <2>2
  <2> QED BY <1>3, <2>1, <2>3, <2>4, <2>5, <2>6, <2>7, <2>8 DEF k
<1> QED BY <1>2, <1>3

LEMMA CreateRequests ==
    ASSUME Separate(Requests), PInv, CreateTable, NEW f \in Pool, Created(f) PROVE RequestInv'
<1> SUFFICES ASSUME NEW r \in Requests
             PROVE  IF "HUGE" \in r.flags
                    THEN Reaches(mem', r.virt, 2) /\ ~IsTable(EntryAt(mem', r.virt, 2))
                    ELSE \A l \in 2 .. 4 : Reaches(mem', r.virt, l) => ~IsLarge(EntryAt(mem', r.virt, l))
  BY DEF RequestInv
<1> DEFINE k == call.level
           v == r.virt
           reads == Reads(mem, v, call.table, Slot, k)
<1>1. /\ k \in 2 .. 4 /\ k > 0 /\ call # NoCall /\ "HUGE" \notin call.request.flags
      /\ v \in Virt /\ call.request \in Requests
  BY OnlySmallDescend, TargetFrame DEF CreateTable, PInv, TypeOK
<1>2. IF "HUGE" \in r.flags
      THEN Reaches(mem, v, 2) /\ ~IsTable(EntryAt(mem, v, 2))
      ELSE \A l \in 2 .. 4 : Reaches(mem, v, l) => ~IsLarge(EntryAt(mem, v, l))
  BY DEF PInv, RequestInv
<1>3. IF reads
      THEN /\ SameWalk(mem, mem', v, k) /\ ~Present(EntryAt(mem, v, k))
           /\ Reaches(mem', v, k) /\ EntryAt(mem', v, k) = Link(f)
           /\ Reaches(mem', v, k - 1) /\ TableAt(mem', v, k - 1) = f
           /\ ~Present(EntryAt(mem', v, k - 1))
      ELSE SameWalk(mem, mem', v, 0)
  BY <1>1 DEF Created
<1>4. reads => v \in Block(call.request.virt, k)
  BY <1>1, AtSlot
<1> HIDE DEF v, k, reads
<1>5. CASE ~reads
  <2>1. \A l \in 1 .. 4 : /\ Reaches(mem', v, l) <=> Reaches(mem, v, l)
                          /\ Reaches(mem, v, l) => EntryAt(mem', v, l) = EntryAt(mem, v, l)
    BY <1>3, <1>5 DEF SameWalk
  <2>2. 2 \in 1 .. 4 /\ \A l \in 2 .. 4 : l \in 1 .. 4
    OBVIOUS
  <2> QED BY <2>1, <2>2, <1>2 DEF v
<1>6. CASE reads /\ "HUGE" \in r.flags
  (* A 4KB request inside this large page.                                 *)
  <2>1. k = 2
    <3>1. Reaches(mem, v, 2) /\ ~Present(EntryAt(mem, v, k))
      BY <1>2, <1>3, <1>6
    <3>2. k > 2 => IsTable(EntryAt(mem, v, k))
      BY <1>1, <3>1 DEF Reaches, k
    <3> QED BY <1>1, <3>1, <3>2 DEF IsTable, k
  <2>2. \A l \in 2 .. 4 : v[l] = call.request.virt[l]
    BY <1>4, <1>6, <2>1 DEF Block
  <2>3. call.request.virt \in Block(v, 2)
    BY <1>1, <2>2, TargetFrame DEF Block
  <2> QED BY <1>1, <1>6, <2>3 DEF Separate, v
<1>7. CASE reads /\ "HUGE" \notin r.flags
  <2> SUFFICES ASSUME NEW l \in 2 .. 4, Reaches(mem', v, l)
               PROVE  ~IsLarge(EntryAt(mem', v, l))
    BY <1>7 DEF v
  <2>1. CASE l > k
    <3>1. Reaches(mem, v, l) /\ EntryAt(mem', v, l) = EntryAt(mem, v, l)
      BY <1>1, <1>3, <1>7, <2>1 DEF SameWalk, k
    <3> QED BY <3>1, <1>2, <1>7
  <2>2. CASE l = k
    <3>1. EntryAt(mem', v, l) = Link(f)
      BY <1>3, <1>7, <2>2
    <3> QED BY <3>1, <1>1 DEF IsLarge, Huge, Link
  <2>3. CASE l < k
    <3>1. k - 1 \in 1 .. 4 /\ l \in 1 .. 4
      BY <1>1 DEF k
    <3>2. l >= k - 1
      BY <1>3, <1>7, <3>1, DeadEnd
    <3>3. l = k - 1
      BY <1>1, <2>3, <3>2 DEF k
    <3> QED BY <3>3, <1>3, <1>7 DEF IsLarge
  <2> QED BY <1>1, <2>1, <2>2, <2>3 DEF k
<1> QED BY <1>5, <1>6, <1>7

LEMMA CreateHeld ==
    ASSUME PInv, CreateTable, NEW f \in Pool, Created(f) PROVE HeldLinked'
<1> DEFINE k == call.level
           w == call.request.virt
<1>1. k \in 2 .. 4 /\ k > 0 /\ call # NoCall /\ w \in Virt
  BY OnlySmallDescend, TargetFrame DEF CreateTable, PInv, TypeOK
<1>2. phase = "run" /\ phase' = phase /\ Reads(mem, w, call.table, Slot, k)
  BY <1>1, AtSlot DEF CreateTable
<1>3. PICK spare \in Pool : /\ [base |-> spare, count |-> 1] \in held
                            /\ \A a \in held : OnWalk(mem, a.base) <=> a.base # spare
  BY <1>2 DEF PInv, HeldLinked
<1>4. /\ held' = held \cup {[base |-> f, count |-> 1]} /\ f \notin Tables
      /\ Reaches(mem', w, k - 1) /\ TableAt(mem', w, k - 1) = f
  BY <1>1, <1>2 DEF Created
<1>5. k - 1 \in 1 .. 3
  BY <1>1
<1>6. OnWalk(mem', f) /\ spare # f
  <2>1. OnWalk(mem', f)
    BY <1>1, <1>4, <1>5 DEF OnWalk
  <2>2. spare \in Tables
    BY <1>3 DEF Tables
  <2> QED BY <2>1, <2>2, <1>4
<1>7. ASSUME NEW a \in held PROVE OnWalk(mem', a.base) <=> OnWalk(mem, a.base)
  <2>1. a.base # f
    BY <1>4 DEF Tables
  <2>2. ASSUME NEW v \in Virt, NEW l \in 1 .. 3
        PROVE  /\ Reaches(mem, v, l) => Reaches(mem', v, l) /\ TableAt(mem', v, l) = TableAt(mem, v, l)
               /\ Reaches(mem', v, l) => \/ TableAt(mem', v, l) = f
                                         \/ Reaches(mem, v, l) /\ TableAt(mem', v, l) = TableAt(mem, v, l)
    <3>1. l \in 1 .. 4
      OBVIOUS
    <3> QED BY <3>1, CreateReaches
  <2> QED BY <2>1, <2>2 DEF OnWalk
<1> QED BY <1>1, <1>2, <1>3, <1>4, <1>6, <1>7 DEF HeldLinked

(* The write of a leaf changes the translation of its own pages only.      *)
LEMMA StoreLeads ==
    ASSUME PInv, StoreLeaf, Stored, NEW v \in Virt
    PROVE  LeadsTo(mem', v) # LeadsTo(mem, v) => v \in Block(call.request.virt, call.level)
<1>1. call # NoCall /\ call.level > 0
  BY TargetFrame DEF StoreLeaf, PInv, TypeOK
<1>2. ~Reads(mem, v, call.table, Slot, call.level) => SameWalk(mem, mem', v, 0)
  BY DEF Stored
<1>3. ~Reads(mem, v, call.table, Slot, call.level) => LeadsTo(mem', v) = LeadsTo(mem, v)
  BY <1>2, SameLeads
<1>4. Reads(mem, v, call.table, Slot, call.level) => v \in Block(call.request.virt, call.level)
  BY <1>1, AtSlot
<1> QED BY <1>3, <1>4

LEMMA StoreRequests ==
    ASSUME Separate(Requests), PInv, StoreLeaf, Stored PROVE RequestInv'
<1> SUFFICES ASSUME NEW r \in Requests
             PROVE  IF "HUGE" \in r.flags
                    THEN Reaches(mem', r.virt, 2) /\ ~IsTable(EntryAt(mem', r.virt, 2))
                    ELSE \A l \in 2 .. 4 : Reaches(mem', r.virt, l) => ~IsLarge(EntryAt(mem', r.virt, l))
  BY DEF RequestInv
<1> DEFINE c == call.request
           k == Leaf(c)
           v == r.virt
           reads == Reads(mem, v, call.table, Slot, k)
<1>1. /\ call # NoCall /\ call.level = k /\ c \in Requests /\ v \in Virt /\ c.virt \in Virt
      /\ k \in 1 .. 2 /\ call.level > 0
      /\ k = 2 => "HUGE" \in c.flags
  BY TargetFrame DEF StoreLeaf, PInv, TypeOK, Leaf
<1>2. IF "HUGE" \in r.flags
      THEN Reaches(mem, v, 2) /\ ~IsTable(EntryAt(mem, v, 2))
      ELSE \A l \in 2 .. 4 : Reaches(mem, v, l) => ~IsLarge(EntryAt(mem, v, l))
  BY DEF PInv, RequestInv
<1>3. /\ SameWalk(mem, mem', v, k)
      /\ reads => EntryAt(mem', v, k) = [frame |-> Target(c), flags |-> c.flags]
      /\ ~reads => SameWalk(mem, mem', v, 0)
  BY <1>1 DEF Stored
<1>4. reads => v \in Block(c.virt, k)
  BY <1>1, AtSlot
<1> HIDE DEF v, k, c, reads
<1>5. \A l \in 2 .. 4 : /\ Reaches(mem', v, l) <=> Reaches(mem, v, l)
                        /\ Reaches(mem, v, l) /\ (l > k \/ ~reads) =>
                              EntryAt(mem', v, l) = EntryAt(mem, v, l)
  <2>1. \A l \in 2 .. 4 : l \in 1 .. 4 /\ l >= k
    BY <1>1
  <2> QED BY <2>1, <1>3 DEF SameWalk
<1>6. CASE k = 1 \/ ~reads
  <2>1. \A l \in 2 .. 4 : Reaches(mem, v, l) => EntryAt(mem', v, l) = EntryAt(mem, v, l)
    <3>1. k = 1 => \A l \in 2 .. 4 : l > k
      OBVIOUS
    <3> QED BY <3>1, <1>5, <1>6
  <2>2. 2 \in 2 .. 4
    OBVIOUS
  <2> QED BY <2>1, <2>2, <1>2, <1>5 DEF v
<1>7. CASE k = 2 /\ reads /\ "HUGE" \in r.flags
  <2>1. Reaches(mem', v, 2)
    <3>1. 2 \in 2 .. 4
      OBVIOUS
    <3> QED BY <3>1, <1>2, <1>5, <1>7
  <2>2. EntryAt(mem', v, 2) = [frame |-> Target(c), flags |-> c.flags] /\ "HUGE" \in c.flags
    BY <1>1, <1>3, <1>7
  <2>3. ~IsTable(EntryAt(mem', v, 2))
    BY <2>2 DEF IsTable, Huge
  <2> QED BY <2>1, <2>3, <1>7 DEF v
<1>8. CASE k = 2 /\ reads /\ "HUGE" \notin r.flags
  BY <1>1, <1>4, <1>8 DEF Separate, v
<1> QED BY <1>1, <1>6, <1>7, <1>8

LEMMA StoreFresh ==
    ASSUME PInv, StoreLeaf, Stored PROVE NoStaleTranslation' /\ CachedLarge'
<1>1. /\ call # NoCall /\ call.level = Leaf(call.request) /\ call.level > 0
      /\ call' = [call EXCEPT !.level = 0] /\ tlb' = tlb
      /\ call \in [request : Requests, level : 0 .. 4, table : Frames]
  BY TargetFrame DEF StoreLeaf, PInv, TypeOK
<1>2. call' # NoCall /\ call'.level = 0 /\ call'.request = call.request
  <2>1. call' \in [request : Requests, level : 0 .. 4, table : Frames]
    BY <1>1
  <2> QED BY <1>1, <2>1, RequestAssumption
<1>3. ASSUME NEW t \in tlb
      PROVE  t.frame = Translate(t.page)' \/ t.page \in Block(call.request.virt, Leaf(call.request))
  <2>1. t.frame = Translate(t.page) /\ t.page \in Virt
    BY <1>1 DEF PInv, TypeOK, NoStaleTranslation
  <2>2. Translate(t.page)' = LeadsTo(mem', t.page) /\ Translate(t.page) = LeadsTo(mem, t.page)
    BY Leads, LeadsNext
  <2>3. LeadsTo(mem', t.page) # LeadsTo(mem, t.page) => t.page \in Block(call.request.virt, call.level)
    BY <2>1, StoreLeads
  <2> QED BY <1>1, <2>1, <2>2, <2>3
<1>4. NoStaleTranslation'
  <2>1. \A t \in tlb' :
           \/ t.frame = Translate(t.page)'
           \/ /\ call' # NoCall /\ call'.level = 0
              /\ t.page \in Block(call'.request.virt, Leaf(call'.request))
    BY <1>1, <1>2, <1>3
  <2> QED BY <2>1 DEF NoStaleTranslation, Block, Leaf
<1>5. CachedLarge'
  BY <1>1 DEF PInv, CachedLarge, Block
<1> QED BY <1>4, <1>5

LEMMA StoreHeld ==
    ASSUME PInv, StoreLeaf, Stored PROVE HeldLinked'
<1>1. call # NoCall /\ held' = held /\ phase' = phase
  BY DEF StoreLeaf
<1>2. phase = "run"
  BY <1>1 DEF PInv, HeldLinked
<1>3. ASSUME NEW f PROVE OnWalk(mem', f) <=> OnWalk(mem, f)
  <2>1. \A v \in Virt, l \in 1 .. 3 :
           /\ Reaches(mem', v, l) <=> Reaches(mem, v, l)
           /\ Reaches(mem, v, l) => TableAt(mem', v, l) = TableAt(mem, v, l)
    <3>1. \A l \in 1 .. 3 : l \in 1 .. 4
      OBVIOUS
    <3> QED BY <3>1 DEF Stored
  <2> QED BY <2>1 DEF OnWalk
<1>4. PICK spare \in Pool : /\ [base |-> spare, count |-> 1] \in held
                            /\ \A a \in held : OnWalk(mem, a.base) <=> a.base # spare
  BY <1>2 DEF PInv, HeldLinked
<1>5. /\ [base |-> spare, count |-> 1] \in held'
      /\ \A a \in held' : OnWalk(mem', a.base) <=> a.base # spare
  BY <1>1, <1>3, <1>4
<1> QED BY <1>1, <1>2, <1>5 DEF HeldLinked

LEMMA StoreCall ==
    ASSUME PInv, StoreLeaf, Stored PROVE CallInv'
<1> DEFINE r == call.request
           k == Leaf(r)
<1>1. /\ call # NoCall /\ call.level = k /\ call.level > 0
      /\ call' = [call EXCEPT !.level = 0]
      /\ call \in [request : Requests, level : 0 .. 4, table : Frames]
      /\ k \in 1 .. 4 /\ r.virt \in Virt
  BY TargetFrame DEF StoreLeaf, PInv, TypeOK
<1>2. call'.level = 0 /\ call'.request = r
  BY <1>1
<1>3. Reads(mem, r.virt, call.table, Slot, k)
  BY <1>1, AtSlot
<1>4. Reaches(mem', r.virt, k) /\ EntryAt(mem', r.virt, k) = [frame |-> Target(r), flags |-> r.flags]
  BY <1>1, <1>3 DEF Stored
<1> QED BY <1>2, <1>4 DEF CallInv, Leaf, Target

(* mem::init takes a page, which is in no table.                           *)
LEMMA InitTakes ==
    ASSUME PInv, InitAllocates
    PROVE  /\ Shape' /\ HeldLinked' /\ phase = "init" /\ call = NoCall /\ call' = NoCall
           /\ \A g \in Frames : mem'[g] # mem[g] => g \in Tables'
           /\ \A v \in Virt : SameWalk(mem, mem', v, 0)
<1>1. phase = "init" /\ phase' = "run" /\ call' = call /\ call = NoCall /\ held = {}
  BY DEF InitAllocates, PInv, HeldLinked
<1>2. PICK f \in usable : AllocPage(f) /\ mem' = [mem EXCEPT ![f] = Zeroed]
  BY DEF InitAllocates, Fresh
<1>3. /\ f \in Pool /\ f \in Frames /\ f \notin Tables /\ Tables' = Tables \cup {f}
      /\ held' = {[base |-> f, count |-> 1]}
  BY <1>1, <1>2, Allocated DEF PInv
<1>4. PICK lv : IsTree(mem, Tables, lv)
  BY DEF PInv, Shape
<1> DEFINE n  == [mem EXCEPT ![f] = Zeroed]
           k  == 1
           lf == [u \in Tables \cup {f} |-> IF u = f THEN k ELSE lv[u]]
<1>5. mem \in [Frames -> [Index -> Entry]] /\ Tables \subseteq Frames /\ k \in 1 .. 4
  BY RootIsFrame, BootAssumption DEF PInv, TypeOK, Tables
<1> HIDE DEF k
<1>6. /\ IsTree(n, Tables \cup {f}, lf)
      /\ \A v \in Virt : SameWalk(mem, n, v, 0)
  <2>1. /\ IsTree(n, Tables \cup {f}, lf)
        /\ \A u \in Tables, y \in Index : LinksAt(n, lf, u, y) => n[u][y].frame \in Tables
        /\ \A y \in Index : ~LinksAt(n, lf, f, y)
        /\ \A v \in Virt : SameWalk(mem, n, v, 0)
    BY <1>3, <1>4, <1>5, ZeroJoins
  <2> QED BY <2>1
<1>7. Shape'
  <2>1. IsTree(mem', Tables', lf)
    BY <1>2, <1>3, <1>6
  <2>2. lf \in [Tables' -> 1 .. 4]
    BY <2>1 DEF IsTree
  <2> QED BY <2>1, <2>2 DEF Shape
<1>8. ~OnWalk(mem', f)
  <2> SUFFICES ASSUME NEW v \in Virt, NEW l \in 1 .. 3, Reaches(mem', v, l), TableAt(mem', v, l) = f
               PROVE  FALSE
    BY DEF OnWalk
  <2>0. SameWalk(mem, mem', v, 0)
    BY <1>2, <1>6
  <2>1. l \in 1 .. 4 /\ l >= 0
    OBVIOUS
  <2>2. Reaches(mem, v, l) /\ TableAt(mem, v, l) = f
    BY <2>0, <2>1 DEF SameWalk
  <2> QED BY <2>1, <2>2, <1>3, <1>4, WalkInTree
<1>9. HeldLinked'
  BY <1>1, <1>3, <1>8 DEF HeldLinked
<1>10. \A g \in Frames : mem'[g] # mem[g] => g \in Tables'
  BY <1>2, <1>3, <1>5
<1> QED BY <1>1, <1>2, <1>6, <1>7, <1>9, <1>10

(* invlpg is enough: a translation it keeps is not of the page mapped.     *)
LEMMA FlushFresh ==
    ASSUME PInv, FlushTlb PROVE NoStaleTranslation' /\ CachedLarge'
<1> DEFINE r == call.request
<1>1. /\ call # NoCall /\ call.level = 0 /\ call' = NoCall /\ r \in Requests
      /\ mem' = mem /\ tlb' = Invlpg(r.virt)
  BY DEF FlushTlb, PInv, TypeOK
<1>2. ASSUME NEW t \in tlb' PROVE t.frame = Translate(t.page)
  <2>1. t \in tlb /\ r.virt \notin Block(t.page, t.level) /\ r.virt \in Virt /\ t.level \in 1 .. 3
    BY <1>1, TargetFrame DEF Invlpg, PInv, TypeOK
  <2>2. SUFFICES ASSUME t.page \in Block(r.virt, Leaf(r)) PROVE FALSE
    BY <1>1, <2>1 DEF PInv, NoStaleTranslation
  <2>3. \A l \in Leaf(r) .. 4 : r.virt[l] = t.page[l]
    BY <2>2 DEF Block
  <2>4. t.level >= Leaf(r)
    <3>1. "HUGE" \in r.flags => t.level >= 2
      BY <1>1, <2>1, <2>2 DEF PInv, CachedLarge, Leaf
    <3> QED BY <3>1, <2>1 DEF Leaf
  <2>5. \A l \in t.level .. 4 : l \in Leaf(r) .. 4
    BY <2>1, <2>4 DEF Leaf
  <2> QED BY <2>1, <2>3, <2>5 DEF Block
<1>3. \A v \in Virt : Translate(v)' = Translate(v)
  BY <1>1, Leads, LeadsNext
<1>4. tlb' \subseteq tlb
  BY <1>1 DEF Invlpg
<1>5. \A t \in tlb' : t.frame = Translate(t.page)'
  BY <1>2, <1>3, <1>4 DEF PInv, TypeOK
<1>6. NoStaleTranslation'
  BY <1>5 DEF NoStaleTranslation
<1>7. CachedLarge'
  BY <1>4 DEF PInv, CachedLarge
<1> QED BY <1>6, <1>7

(* What the processor caches is what the tables give.                      *)
LEMMA TouchFresh ==
    ASSUME PInv, NEW r \in Requests, Touch(r.virt) PROVE NoStaleTranslation' /\ CachedLarge'
<1> DEFINE v == r.virt
<1>1. /\ mem' = mem /\ call' = call /\ tlb' = tlb \cup Cached(v) /\ v \in Virt
      /\ Translate(v) # Fault
  BY TargetFrame DEF Touch
<1> HIDE DEF v
<1>2. \A u : Translate(u)' = Translate(u)
  BY <1>1, Leads, LeadsNext
<1>3. ASSUME NEW t \in Cached(v)
      PROVE  /\ t.frame = Translate(t.page)
             /\ \A s \in Requests : "HUGE" \in s.flags /\ t.page \in Block(s.virt, 2) => t.level >= 2
  <2>1. PICK w \in Block(v, PageLevel(v)) :
           t = [page |-> w, level |-> PageLevel(v), frame |-> Translate(w)]
    BY DEF Cached
  <2>2. ASSUME NEW s \in Requests, "HUGE" \in s.flags, w \in Block(s.virt, 2), PageLevel(v) = 1
        PROVE  FALSE
    <3>1. Reaches(mem, s.virt, 2) /\ ~IsTable(EntryAt(mem, s.virt, 2))
      BY <2>2 DEF PInv, RequestInv
    <3>2. \A l \in 2 .. 4 : v[l] = s.virt[l]
      <4>1. \A l \in 2 .. 4 : l \in 1 .. 4
        OBVIOUS
      <4>2. \A l \in 1 .. 4 : w[l] = v[l]
        BY <2>2 DEF Block
      <4>3. \A l \in 2 .. 4 : w[l] = s.virt[l]
        BY <2>2 DEF Block
      <4> QED BY <4>1, <4>2, <4>3
    <3>3. 2 \in 1 .. 4 /\ 2 \in 2 .. 4
      OBVIOUS
    <3>4. EntryAt(mem, v, 2) = EntryAt(mem, s.virt, 2)
      BY <3>2, <3>3, WalkSame
    <3>5. IsTable(EntryAt(mem, v, 2))
      BY <2>2, WalkSteps, Leads DEF PageLevel
    <3> QED BY <3>1, <3>4, <3>5
  <2>3. PageLevel(v) = 1 \/ PageLevel(v) >= 2
    BY DEF PageLevel
  <2> QED BY <2>1, <2>2, <2>3
<1>4. NoStaleTranslation'
  <2>1. \A t \in tlb' :
           \/ t.frame = Translate(t.page)'
           \/ /\ call' # NoCall /\ call'.level = 0
              /\ t.page \in Block(call'.request.virt, Leaf(call'.request))
    BY <1>1, <1>2, <1>3 DEF PInv, NoStaleTranslation
  <2> QED BY <2>1 DEF NoStaleTranslation, Block, Leaf
<1>5. CachedLarge'
  BY <1>1, <1>3 DEF PInv, CachedLarge, Block
<1> QED BY <1>4, <1>5

LEMMA PInvStep ==
    ASSUME Separate(Requests), PInv, [Next]_vars PROVE PInv'
<1>1. TypeOK'
  BY TypeStep DEF PInv
<1> SUFFICES /\ Shape' /\ HeldLinked' /\ CallInv' /\ RequestInv'
             /\ NoStaleTranslation' /\ CachedLarge'
  BY <1>1 DEF PInv
<1>t. ASSUME held' = held PROVE Tables' = Tables
  BY <1>t DEF Tables
<1>s. ASSUME held' = held, mem' = mem PROVE Shape'
  <2>1. PICK lv \in [Tables -> 1 .. 4] : IsTree(mem, Tables, lv)
    BY DEF PInv, Shape
  <2>2. Tables' = Tables
    BY <1>s, <1>t
  <2>3. lv \in [Tables' -> 1 .. 4]
    BY <2>1, <2>2
  <2>4. IsTree(mem', Tables', lv)
    BY <1>s, <2>1, <2>2
  <2> QED BY <2>3, <2>4 DEF Shape
<1>r. ASSUME mem' = mem PROVE RequestInv'
  BY <1>r DEF PInv, RequestInv
<1>h. ASSUME held' = held, mem' = mem, phase = "run", phase' = phase PROVE HeldLinked'
  <2>1. PICK spare \in Pool : /\ [base |-> spare, count |-> 1] \in held
                              /\ \A a \in held : OnWalk(mem, a.base) <=> a.base # spare
    BY <1>h DEF PInv, HeldLinked
  <2>2. /\ [base |-> spare, count |-> 1] \in held'
        /\ \A a \in held' : OnWalk(mem', a.base) <=> a.base # spare
    BY <1>h, <2>1
  <2> QED BY <1>h, <2>2 DEF HeldLinked
<1>f. ASSUME mem' = mem, tlb' = tlb, call = NoCall \/ call.level # 0
      PROVE  NoStaleTranslation' /\ CachedLarge'
  BY <1>f, StaysFresh
<1>c. ASSUME call # NoCall
      PROVE  /\ call \in [request : Requests, level : 0 .. 4, table : Frames] /\ phase = "run"
             /\ call.request \in Requests /\ call.level \in 0 .. 4
  BY <1>c DEF PInv, TypeOK, HeldLinked
<1>2. CASE InitAllocates
  <2>1. /\ Shape' /\ HeldLinked' /\ call = NoCall /\ call' = NoCall /\ tlb' = tlb
        /\ \A v \in Virt : SameWalk(mem, mem', v, 0)
    BY <1>2, InitTakes DEF InitAllocates
  <2>2. NoStaleTranslation' /\ CachedLarge'
    BY <2>1, SameLeads, StaysFresh
  <2>3. \A v \in Virt, l \in 2 .. 4 : /\ Reaches(mem', v, l) <=> Reaches(mem, v, l)
                                      /\ Reaches(mem, v, l) => EntryAt(mem', v, l) = EntryAt(mem, v, l)
    <3>1. \A l \in 2 .. 4 : l \in 1 .. 4 /\ l > 0 /\ l >= 0
      OBVIOUS
    <3> QED BY <3>1, <2>1 DEF SameWalk
  <2>4. RequestInv'
    <3>1. 2 \in 2 .. 4 /\ \A r \in Requests : r.virt \in Virt
      BY TargetFrame
    <3> QED BY <3>1, <2>3 DEF PInv, RequestInv
  <2>5. CallInv'
    BY <2>1 DEF CallInv
  <2> QED BY <2>1, <2>2, <2>4, <2>5
<1>3. CASE InitHalts
  <2>1. /\ mem' = mem /\ held' = held /\ call' = call /\ tlb' = tlb /\ phase' = "halted"
        /\ call = NoCall /\ held = {}
    BY <1>3 DEF InitHalts, PInv, HeldLinked
  <2>2. HeldLinked' /\ CallInv'
    BY <2>1 DEF HeldLinked, CallInv
  <2> QED BY <2>1, <2>2, <1>s, <1>r, <1>f
<1>4. ASSUME NEW r \in Requests, MapPage(r)
      PROVE  /\ Shape' /\ HeldLinked' /\ CallInv' /\ RequestInv'
             /\ NoStaleTranslation' /\ CachedLarge'
  <2>1. /\ mem' = mem /\ held' = held /\ tlb' = tlb /\ phase' = phase /\ phase = "run"
        /\ call = NoCall /\ call' = [request |-> r, level |-> 4, table |-> cr3]
    BY <1>4 DEF MapPage
  <2>2. Leaf(r) <= 4 /\ Reaches(mem, r.virt, 4) /\ cr3 = TableAt(mem, r.virt, 4)
    BY WalkSteps DEF Leaf
  <2>3. CallInv'
    <3>1. /\ call'.request = r /\ call'.level = 4 /\ call'.table = cr3 /\ 4 >= Leaf(r)
      BY <2>1, <2>2 DEF Leaf
    <3> QED BY <3>1, <2>1, <2>2 DEF CallInv, Leaf
  <2> QED BY <2>1, <2>3, <1>s, <1>r, <1>h, <1>f
<1>5. CASE Descend
  <2> DEFINE r == call.request
             k == call.level
  <2>1. /\ mem' = mem /\ held' = held /\ tlb' = tlb /\ phase' = phase
        /\ AboveLeaf /\ Present(mem[call.table][Slot])
        /\ call' = [call EXCEPT !.level = @ - 1, !.table = mem[call.table][Slot].frame]
    BY <1>5 DEF Descend
  <2>2. /\ call # NoCall /\ k \in 2 .. 4 /\ IsTable(mem[call.table][Slot]) /\ k > 0 /\ k > Leaf(r)
    BY <2>1, OnlySmallDescend DEF AboveLeaf
  <2>3. Reaches(mem, r.virt, k) /\ mem[call.table][Slot] = EntryAt(mem, r.virt, k)
    BY <2>2, AtSlot
  <2>4. k - 1 \in 1 .. 3 /\ (k - 1) + 1 = k /\ k - 1 >= Leaf(r) /\ k - 1 > 0 /\ k - 1 # 0
    BY <2>2 DEF Leaf
  <2>5. Reaches(mem, r.virt, k - 1) /\ TableAt(mem, r.virt, k - 1) = mem[call.table][Slot].frame
    <3>1. \A j \in 1 .. 3 : /\ TableAt(mem, r.virt, j) = EntryAt(mem, r.virt, j + 1).frame
                            /\ Reaches(mem, r.virt, j) <=>
                                  Reaches(mem, r.virt, j + 1) /\ IsTable(EntryAt(mem, r.virt, j + 1))
      BY WalkStep
    <3> QED BY <3>1, <2>2, <2>3, <2>4
  <2>6. /\ call'.request = r /\ call'.level = k - 1 /\ call'.table = mem[call.table][Slot].frame
    BY <1>c, <2>1, <2>2
  <2>7. CallInv'
    BY <2>1, <2>4, <2>5, <2>6 DEF CallInv, Leaf
  <2> QED BY <1>c, <2>1, <2>2, <2>7, <1>s, <1>r, <1>h, <1>f
<1>6. CASE CreateTable
  <2>1. PICK f \in Pool : Created(f)
    BY <1>6, Creates
  <2>2. call # NoCall /\ call.level \in 2 .. 4 /\ call.level # 0 /\ call.level > Leaf(call.request)
    BY <1>6, OnlySmallDescend DEF CreateTable, AboveLeaf
  <2>3. NoStaleTranslation' /\ CachedLarge'
    <3>1. \A v \in Virt : LeadsTo(mem', v) = LeadsTo(mem, v)
      BY <1>6, <2>1, CreateLeads
    <3>2. tlb' = tlb
      BY <1>6 DEF CreateTable
    <3> QED BY <2>2, <3>1, <3>2, StaysFresh
  <2>4. CallInv'
    <3> DEFINE r == call.request
               k == call.level
    <3>1. r.virt \in Virt /\ Reads(mem, r.virt, call.table, Slot, k) /\ k > 0
      BY <1>c, <2>2, AtSlot, TargetFrame
    <3>2. Reaches(mem', r.virt, k - 1) /\ TableAt(mem', r.virt, k - 1) = f
      BY <2>1, <3>1 DEF Created
    <3>3. call'.request = r /\ call'.level = k - 1 /\ call'.table = f
      BY <1>c, <2>1, <2>2 DEF Created
    <3>4. k - 1 >= Leaf(r) /\ k - 1 # 0
      BY <2>2 DEF Leaf
    <3> QED BY <3>2, <3>3, <3>4 DEF CallInv, Leaf
  <2>5. RequestInv' /\ HeldLinked' /\ Shape'
    BY <1>6, <2>1, CreateRequests, CreateHeld DEF Created
  <2> QED BY <2>3, <2>4, <2>5
<1>7. CASE OutOfMemory
  <2>1. /\ mem' = mem /\ held' = held /\ tlb' = tlb /\ phase' = phase /\ call # NoCall /\ call' = NoCall
    BY <1>7 DEF OutOfMemory, AboveLeaf
  <2>2. call.level # 0
    BY <1>7, OnlySmallDescend DEF OutOfMemory
  <2>3. CallInv'
    BY <2>1 DEF CallInv
  <2> QED BY <1>c, <2>1, <2>2, <2>3, <1>s, <1>r, <1>h, <1>f
<1>8. CASE StoreLeaf
  <2>1. Stored
    BY <1>8, Stores
  <2>2. Shape'
    BY <2>1 DEF Stored
  <2> QED BY <1>8, <2>1, <2>2, StoreHeld, StoreCall, StoreRequests, StoreFresh
<1>9. CASE FlushTlb
  <2>1. /\ mem' = mem /\ held' = held /\ phase' = phase /\ call # NoCall /\ call' = NoCall
    BY <1>9 DEF FlushTlb
  <2>2. CallInv'
    BY <2>1 DEF CallInv
  <2> QED BY <1>9, <1>c, <2>1, <2>2, <1>s, <1>r, <1>h, FlushFresh
<1>10. ASSUME NEW r \in Requests, Touch(r.virt)
       PROVE  /\ Shape' /\ HeldLinked' /\ CallInv' /\ RequestInv'
              /\ NoStaleTranslation' /\ CachedLarge'
  <2>1. /\ mem' = mem /\ held' = held /\ phase' = phase /\ phase = "run" /\ call' = call
    BY <1>10 DEF Touch
  <2>2. CallInv'
    BY <2>1 DEF CallInv, PInv, Leaf, Target
  <2> QED BY <1>10, <2>1, <2>2, <1>s, <1>r, <1>h, TouchFresh
<1>11. CASE UNCHANGED vars
  <2>1. /\ mem' = mem /\ held' = held /\ phase' = phase /\ call' = call /\ tlb' = tlb
    BY <1>11 DEF vars
  <2>2. CallInv' /\ HeldLinked'
    <3>1. CallInv'
      BY <2>1 DEF CallInv, PInv, Leaf, Target
    <3>2. phase # "run" => HeldLinked'
      BY <2>1 DEF PInv, HeldLinked
    <3> QED BY <2>1, <3>1, <3>2, <1>h
  <2>3. NoStaleTranslation' /\ CachedLarge'
    <3>1. \A v : Translate(v)' = Translate(v)
      BY <2>1, Leads, LeadsNext
    <3>2. \A t \in tlb' :
             \/ t.frame = Translate(t.page)'
             \/ /\ call' # NoCall /\ call'.level = 0
                /\ t.page \in Block(call'.request.virt, Leaf(call'.request))
      BY <2>1, <3>1 DEF PInv, NoStaleTranslation
    <3>3. NoStaleTranslation'
      BY <3>2 DEF NoStaleTranslation, Block, Leaf
    <3>4. CachedLarge'
      BY <2>1 DEF PInv, CachedLarge, Block
    <3> QED BY <3>3, <3>4
  <2> QED BY <2>1, <2>2, <2>3, <1>s, <1>r
<1> QED BY <1>2, <1>3, <1>4, <1>5, <1>6, <1>7, <1>8, <1>9, <1>10, <1>11 DEF Next

(* The invariant the theorems rest on: the tables are a tree, the call is  *)
(* on the walk of its page, no request meets a large page half way, and    *)
(* the cache is fresh but for the page whose flush is next.                *)
THEOREM PInvHolds == Separate(Requests) => (Spec => []PInv)
<1> SUFFICES ASSUME Separate(Requests) PROVE Spec => []PInv
  OBVIOUS
<1>1. Init => PInv
  BY PInvInit
<1>2. PInv /\ [Next]_vars => PInv'
  BY PInvStep
<1> QED BY <1>1, <1>2, PTL DEF Spec

-----------------------------------------------------------------------------
(***************************************************************************)
(* The properties.                                                         *)
(***************************************************************************)
LEMMA InstallsInv == ASSUME PInv PROVE MapInstalls
<1> SUFFICES ASSUME call # NoCall, call.level = 0
             PROVE  LET r == call.request
                    IN  Translate(r.virt) = IF "HUGE" \notin r.flags THEN r.phys
                                            ELSE (r.phys \div ENTRIES) * ENTRIES + r.virt[1]
  BY DEF MapInstalls
<1> DEFINE r == call.request
           v == r.virt
<1>1. /\ r \in Requests /\ r.phys \in Frames /\ "PRESENT" \in r.flags
      /\ Reaches(mem, v, Leaf(r))
      /\ EntryAt(mem, v, Leaf(r)) = [frame |-> Target(r), flags |-> r.flags]
  BY TargetFrame DEF PInv, TypeOK, CallInv
<1>2. Translate(v) = LeadsTo(mem, v)
  BY Leads
<1> HIDE DEF r, v
<1>3. CASE "HUGE" \notin r.flags
  <2>1. Reaches(mem, v, 1) /\ EntryAt(mem, v, 1) = [frame |-> r.phys, flags |-> r.flags]
    BY <1>1, <1>3 DEF Leaf, Target
  <2>2. LeadsTo(mem, v) = r.phys
    BY <1>1, <2>1 DEF LeadsTo, Present
  <2> QED BY <1>2, <1>3, <2>2 DEF r, v
<1>4. CASE "HUGE" \in r.flags
  <2>1. /\ Reaches(mem, v, 2)
        /\ EntryAt(mem, v, 2) = [frame |-> r.phys - (r.phys % ENTRIES), flags |-> r.flags]
    BY <1>1, <1>4 DEF Leaf, Target
  <2>2. ~IsTable(EntryAt(mem, v, 2)) /\ IsLarge(EntryAt(mem, v, 2))
    BY <1>1, <1>4, <2>1 DEF IsTable, IsLarge, Present, Huge
  <2>3. ~Reaches(mem, v, 1)
    BY <2>2, WalkSteps
  <2>4. /\ (r.phys - (r.phys % ENTRIES)) % ENTRIES = 0
        /\ r.phys - (r.phys % ENTRIES) = (r.phys \div ENTRIES) * ENTRIES
    <3>1. r.phys \in Nat /\ ENTRIES \in Nat \ {0}
      BY <1>1, FrameAssumption
    <3>2. \A p \in Nat, e \in Nat \ {0} : p - (p % e) = (p \div e) * e
      OBVIOUS
    <3>3. \A q \in Int, e \in Nat \ {0} : (q * e) % e = 0
      OBVIOUS
    <3>4. r.phys - (r.phys % ENTRIES) = (r.phys \div ENTRIES) * ENTRIES
      BY <3>1, <3>2
    <3>5. r.phys \div ENTRIES \in Int
      BY <3>1
    <3>6. ((r.phys \div ENTRIES) * ENTRIES) % ENTRIES = 0
      BY <3>1, <3>3, <3>5
    <3> QED BY <3>4, <3>6
  <2>5. LeadsTo(mem, v) = (r.phys \div ENTRIES) * ENTRIES + v[1]
    BY <2>1, <2>2, <2>3, <2>4 DEF LeadsTo
  <2> QED BY <1>2, <1>4, <2>5 DEF r, v
<1> QED BY <1>3, <1>4 DEF r

(* What map_page installs is what was asked for: when its leaf is stored,  *)
(* the page leads to the frame, or to its place in the 2MB page around it  *)
(* (mem_impl.cpp, map_page).                                               *)
THEOREM Installs == Separate(Requests) => (Spec => []MapInstalls)
<1> SUFFICES ASSUME Separate(Requests) PROVE Spec => []MapInstalls
  OBVIOUS
<1>1. Spec => []PInv
  BY PInvHolds
<1>2. PInv => MapInstalls
  BY InstallsInv
<1> QED BY <1>1, <1>2, PTL

(* The cache never keeps a translation the tables no longer give, but for  *)
(* the page whose invlpg is the next step: one invlpg per map_page is      *)
(* enough, large pages included (mem_impl.cpp, map_page's last line).      *)
THEOREM CacheFresh == Separate(Requests) => (Spec => []NoStaleTranslation)
<1> SUFFICES ASSUME Separate(Requests) PROVE Spec => []NoStaleTranslation
  OBVIOUS
<1>1. Spec => []PInv
  BY PInvHolds
<1>2. PInv => NoStaleTranslation
  BY DEF PInv
<1> QED BY <1>1, <1>2, PTL

LEMMA OthersStep ==
    ASSUME PInv, [Next]_vars, NEW v \in Virt, Translate(v)' # Translate(v)
    PROVE  /\ call # NoCall /\ call.level = Leaf(call.request)
           /\ v \in Block(call.request.virt, call.level)
<1>1. Translate(v)' = LeadsTo(mem', v) /\ Translate(v) = LeadsTo(mem, v)
  BY Leads, LeadsNext
<1>2. ASSUME mem' = mem PROVE FALSE
  BY <1>1, <1>2
<1>3. CASE InitAllocates
  <2>1. SameWalk(mem, mem', v, 0)
    BY <1>3, InitTakes
  <2> QED BY <1>1, <2>1, SameLeads
<1>4. CASE CreateTable
  BY <1>1, <1>4, Creates, CreateLeads
<1>5. CASE StoreLeaf
  <2>1. v \in Block(call.request.virt, call.level)
    BY <1>1, <1>5, Stores, StoreLeads
  <2> QED BY <1>5, <2>1 DEF StoreLeaf
<1>6. CASE \/ InitHalts \/ Descend \/ OutOfMemory \/ FlushTlb \/ UNCHANGED vars
           \/ \E r \in Requests : MapPage(r) \/ Touch(r.virt)
  BY <1>2, <1>6 DEF InitHalts, Descend, OutOfMemory, FlushTlb, vars, MapPage, Touch
<1> QED BY <1>3, <1>4, <1>5, <1>6 DEF Next

(* No step of map_page, a failed allocation half way included, changes     *)
(* what a page outside the request leads to (mem_impl.cpp, map_page).      *)
THEOREM OthersKept == Separate(Requests) => (Spec => OthersUntouched)
<1> SUFFICES ASSUME Separate(Requests) PROVE Spec => OthersUntouched
  OBVIOUS
<1>1. Spec => []PInv
  BY PInvHolds
<1>2. PInv /\ [Next]_vars =>
         [\A v \in Virt :
             Translate(v)' # Translate(v) =>
                 call # NoCall /\ call.level = Leaf(call.request)
                               /\ v \in Block(call.request.virt, call.level)]_vars
  BY OthersStep
<1> QED BY <1>1, <1>2, PTL DEF Spec, OthersUntouched

LEMMA WritesStep ==
    ASSUME PInv, [Next]_vars, NEW f \in Frames, mem'[f] # mem[f] PROVE f \in Tables'
<1>1. CASE InitAllocates
  BY <1>1, InitTakes
<1>2. CASE CreateTable
  <2>1. PICK g \in Pool : Created(g)
    BY <1>2, Creates
  <2>2. call.table \in Tables
    BY <1>2, AtSlot, OnlySmallDescend DEF CreateTable
  <2> QED BY <2>1, <2>2 DEF Created
<1>3. CASE StoreLeaf
  <2>1. call # NoCall /\ call.level > 0
    BY <1>3, TargetFrame DEF StoreLeaf, PInv, TypeOK
  <2>2. call.table \in Tables
    BY <2>1, AtSlot
  <2> QED BY <1>3, <2>2, Stores DEF Stored
<1>4. CASE \/ InitHalts \/ Descend \/ OutOfMemory \/ FlushTlb \/ UNCHANGED vars
           \/ \E r \in Requests : MapPage(r) \/ Touch(r.virt)
  BY <1>4 DEF InitHalts, Descend, OutOfMemory, FlushTlb, vars, MapPage, Touch
<1> QED BY <1>1, <1>2, <1>3, <1>4 DEF Next

(* The only memory map_page and mem::init write is page tables: the boot   *)
(* loader's, and pages the allocator gave (mem_impl.cpp, map_page and      *)
(* init).                                                                  *)
THEOREM TablesOnly == Separate(Requests) => (Spec => WritesTablesOnly)
<1> SUFFICES ASSUME Separate(Requests) PROVE Spec => WritesTablesOnly
  OBVIOUS
<1>1. Spec => []PInv
  BY PInvHolds
<1>2. PInv /\ [Next]_vars => [\A f \in Frames : mem'[f] # mem[f] => f \in Tables']_vars
  BY WritesStep
<1> QED BY <1>1, <1>2, PTL DEF Spec, WritesTablesOnly

(* A table on some walk at level l, and what such tables link.             *)
At(f, l) == \E v \in Virt : Reaches(mem, v, l) /\ TableAt(mem, v, l) = f

LEMMA LinkedIs ==
    ASSUME NEW T, NEW g
    PROVE  g \in LinkedFrom(T) <=>
              \E t \in T, x \in Index : IsTable(mem[t][x]) /\ mem[t][x].frame = g
<1>1. g \in LinkedFrom(T) => \E t \in T, x \in Index : IsTable(mem[t][x]) /\ mem[t][x].frame = g
  <2> SUFFICES ASSUME g \in LinkedFrom(T)
               PROVE  \E t \in T, x \in Index : IsTable(mem[t][x]) /\ mem[t][x].frame = g
    OBVIOUS
  <2>1. PICK p \in T \X Index : IsTable(mem[p[1]][p[2]]) /\ g = mem[p[1]][p[2]].frame
    BY DEF LinkedFrom
  <2> QED BY <2>1
<1>2. ASSUME NEW t \in T, NEW x \in Index, IsTable(mem[t][x]), mem[t][x].frame = g
      PROVE  g \in LinkedFrom(T)
  <2> DEFINE p == <<t, x>>
  <2>1. p \in T \X Index /\ p[1] = t /\ p[2] = x
    OBVIOUS
  <2>2. p \in {q \in T \X Index : IsTable(mem[q[1]][q[2]])} /\ g = mem[p[1]][p[2]].frame
    BY <1>2, <2>1
  <2> HIDE DEF p
  <2> QED BY <2>2 DEF LinkedFrom
<1> QED BY <1>1, <1>2

LEMMA NextLevel ==
    ASSUME NEW l \in 1 .. 3, NEW T, \A t : t \in T <=> At(t, l + 1), NEW g
    PROVE  g \in LinkedFrom(T) <=> At(g, l)
<1>1. ASSUME NEW t \in T, NEW x \in Index, IsTable(mem[t][x]), mem[t][x].frame = g
      PROVE  At(g, l)
  <2>1. PICK v \in Virt : Reaches(mem, v, l + 1) /\ TableAt(mem, v, l + 1) = t
    BY DEF At
  <2> DEFINE w == [v EXCEPT ![l + 1] = x]
  <2>2. /\ w \in Virt /\ w[l + 1] = x /\ l + 1 \in 1 .. 4
        /\ \A q \in (l + 1) + 1 .. 4 : w[q] = v[q]
    BY DEF Virt
  <2> HIDE DEF w
  <2>3. Reaches(mem, w, l + 1) /\ TableAt(mem, w, l + 1) = t
    <3>1. CASE l = 3
      BY <2>1, <3>1, WalkSteps
    <3>2. CASE l # 3
      <4>1. (l + 1) + 1 \in 1 .. 4 /\ l + 1 \in 1 .. 3 /\ (l + 1) + 1 \in (l + 1) + 1 .. 4
        BY <3>2
      <4> DEFINE k == (l + 1) + 1
                 j == l + 1
      <4>2. k \in 1 .. 4 /\ j \in 1 .. 3 /\ k = j + 1 /\ k \in k .. 4 /\ \A q \in k .. 4 : w[q] = v[q]
        BY <2>2, <4>1
      <4>0. j = l + 1
        OBVIOUS
      <4> HIDE DEF k, j
      <4>3. /\ EntryAt(mem, w, k) = EntryAt(mem, v, k)
            /\ Reaches(mem, w, k) <=> Reaches(mem, v, k)
        BY <4>2, WalkSame
      <4>4. /\ TableAt(mem, v, j) = EntryAt(mem, v, k).frame
            /\ Reaches(mem, v, j) <=> Reaches(mem, v, k) /\ IsTable(EntryAt(mem, v, k))
            /\ TableAt(mem, w, j) = EntryAt(mem, w, k).frame
            /\ Reaches(mem, w, j) <=> Reaches(mem, w, k) /\ IsTable(EntryAt(mem, w, k))
        BY <4>2, WalkStep
      <4>5. Reaches(mem, w, j) /\ TableAt(mem, w, j) = t
        BY <2>1, <4>0, <4>3, <4>4
      <4> QED BY <4>0, <4>5
    <3> QED BY <3>1, <3>2
  <2>4. EntryAt(mem, w, l + 1) = mem[t][x]
    BY <2>2, <2>3 DEF EntryAt
  <2>5. Reaches(mem, w, l) /\ TableAt(mem, w, l) = g
    BY <1>1, <2>3, <2>4, WalkStep
  <2> QED BY <2>2, <2>5 DEF At
<1>2. ASSUME NEW v \in Virt, Reaches(mem, v, l), TableAt(mem, v, l) = g
      PROVE  \E t \in T, x \in Index : IsTable(mem[t][x]) /\ mem[t][x].frame = g
  <2> DEFINE t == TableAt(mem, v, l + 1)
             x == v[l + 1]
  <2>1. /\ Reaches(mem, v, l + 1) /\ IsTable(EntryAt(mem, v, l + 1))
        /\ g = EntryAt(mem, v, l + 1).frame
    BY <1>2, WalkStep
  <2>2. t \in T /\ x \in Index
    BY <2>1 DEF At, Virt
  <2>3. EntryAt(mem, v, l + 1) = mem[t][x]
    BY DEF EntryAt
  <2> HIDE DEF t, x
  <2> QED BY <2>1, <2>2, <2>3
<1> QED BY <1>1, <1>2, LinkedIs DEF At

LEMMA DirectoriesAre ==
    ASSUME PInv
    PROVE  /\ \A t \in Directories : At(t, 2) \/ At(t, 3) \/ At(t, 4)
           /\ \A f : OnWalk(mem, f) <=>
                        \E t \in Directories, x \in Index : IsTable(mem[t][x]) /\ mem[t][x].frame = f
<1> DEFINE D4 == {cr3}
           D3 == LinkedFrom(D4)
           D2 == LinkedFrom(D3)
<1>1. 3 + 1 = 4 /\ 2 + 1 = 3 /\ 1 + 1 = 2
  OBVIOUS
<1>2. \A t : t \in D4 <=> At(t, 4)
  <2>1. \A v : Reaches(mem, v, 4) /\ TableAt(mem, v, 4) = cr3
    BY WalkSteps
  <2>2. [q \in 1 .. 4 |-> 0] \in Virt
    BY FrameAssumption DEF Virt, Index
  <2> QED BY <2>1, <2>2 DEF At
<1> HIDE DEF D4
<1>3. \A t : t \in D3 <=> At(t, 3)
  <2>1. 3 \in 1 .. 3 /\ \A t : t \in D4 <=> At(t, 3 + 1)
    BY <1>1, <1>2
  <2> QED BY <2>1, NextLevel
<1> HIDE DEF D3
<1>4. \A t : t \in D2 <=> At(t, 2)
  <2>1. 2 \in 1 .. 3 /\ \A t : t \in D3 <=> At(t, 2 + 1)
    BY <1>1, <1>3
  <2> QED BY <2>1, NextLevel
<1> HIDE DEF D2
<1>5. \A f : f \in LinkedFrom(D2) <=> At(f, 1)
  <2>1. 1 \in 1 .. 3 /\ \A t : t \in D2 <=> At(t, 1 + 1)
    BY <1>1, <1>4
  <2> QED BY <2>1, NextLevel
<1>6. Directories = D4 \cup D3 \cup D2
  BY DEF Directories, D4, D3, D2
<1>7. \A f : OnWalk(mem, f) <=> At(f, 1) \/ At(f, 2) \/ At(f, 3)
  <2>1. \A l \in 1 .. 3 : l = 1 \/ l = 2 \/ l = 3
    OBVIOUS
  <2>2. 1 \in 1 .. 3 /\ 2 \in 1 .. 3 /\ 3 \in 1 .. 3
    OBVIOUS
  <2> QED BY <2>1, <2>2 DEF OnWalk, At
<1>8. D3 = LinkedFrom(D4) /\ D2 = LinkedFrom(D3)
  BY DEF D3, D2
<1>9. \A f : OnWalk(mem, f) <=> f \in LinkedFrom(D2) \/ f \in LinkedFrom(D3) \/ f \in LinkedFrom(D4)
  BY <1>3, <1>4, <1>5, <1>7, <1>8
<1>10. \A f : (f \in LinkedFrom(D2) \/ f \in LinkedFrom(D3) \/ f \in LinkedFrom(D4)) <=>
              \E t \in Directories, x \in Index : IsTable(mem[t][x]) /\ mem[t][x].frame = f
  BY <1>6, LinkedIs
<1> QED BY <1>2, <1>3, <1>4, <1>6, <1>9, <1>10

LEMMA LinksAre ==
    ASSUME PInv, NEW f
    PROVE  Links(f) # {} <=> OnWalk(mem, f)
<1>1. Links(f) # {} <=> \E t \in Directories, x \in Index : IsTable(mem[t][x]) /\ mem[t][x].frame = f
  <2>1. ASSUME NEW p \in Links(f)
        PROVE  \E t \in Directories, x \in Index : IsTable(mem[t][x]) /\ mem[t][x].frame = f
    BY <2>1 DEF Links
  <2>2. ASSUME NEW t \in Directories, NEW x \in Index, IsTable(mem[t][x]), mem[t][x].frame = f
        PROVE  <<t, x>> \in Links(f)
    BY <2>2 DEF Links
  <2> QED BY <2>1, <2>2
<1> QED BY <1>1, DirectoriesAre

LEMMA LinkedOnce ==
    ASSUME PInv, NEW f, NEW p \in Links(f), NEW q \in Links(f)
    PROVE  p = q
<1>1. PICK lv : IsTree(mem, Tables, lv)
  BY DEF PInv, Shape
<1>2. ASSUME NEW t \in Directories PROVE t \in Tables /\ lv[t] > 1
  <2>1. PICK l \in 2 .. 4 : At(t, l)
    <3>1. 2 \in 2 .. 4 /\ 3 \in 2 .. 4 /\ 4 \in 2 .. 4
      OBVIOUS
    <3> QED BY <3>1, DirectoriesAre
  <2>2. l \in 1 .. 4 /\ l > 1
    OBVIOUS
  <2> QED BY <1>1, <2>1, <2>2, WalkInTree DEF At
<1>3. ASSUME NEW r \in Links(f)
      PROVE  /\ r[1] \in Tables /\ r[2] \in Index /\ r = <<r[1], r[2]>>
             /\ LinksAt(mem, lv, r[1], r[2]) /\ mem[r[1]][r[2]].frame = f
  <2>1. r \in Directories \X Index /\ IsTable(mem[r[1]][r[2]]) /\ mem[r[1]][r[2]].frame = f
    BY DEF Links
  <2>2. r[1] \in Directories /\ r[2] \in Index /\ r = <<r[1], r[2]>>
    BY <2>1
  <2> QED BY <2>1, <2>2, <1>2 DEF LinksAt
<1>4. p[1] = q[1] /\ p[2] = q[2]
  BY <1>1, <1>3 DEF IsTree
<1> QED BY <1>3, <1>4

LEMMA LinkedOnceInv == ASSUME PInv PROVE TablesLinkedOnce
<1>1. \A a \in held : Cardinality(Links(a.base)) <= 1
  <2> SUFFICES ASSUME NEW f PROVE Cardinality(Links(f)) <= 1
    OBVIOUS
  <2>1. CASE Links(f) = {}
    BY <2>1, FS_EmptySet
  <2>2. CASE Links(f) # {}
    <3>1. PICK p : p \in Links(f)
      BY <2>2
    <3>2. Links(f) = {p}
      BY <3>1, LinkedOnce
    <3> QED BY <3>2, FS_Singleton
  <2> QED BY <2>1, <2>2
<1> DEFINE Lost == {a \in held : Links(a.base) = {}}
<1>2. Lost = {a \in held : ~OnWalk(mem, a.base)}
  BY LinksAre
<1>3. CASE phase = "run"
  <2>1. PICK spare \in Pool : /\ [base |-> spare, count |-> 1] \in held
                              /\ \A a \in held : OnWalk(mem, a.base) <=> a.base # spare
    BY <1>3 DEF PInv, HeldLinked
  <2>2. \A a \in held : a = [base |-> a.base, count |-> 1]
    BY DEF PInv, TypeOK
  <2>3. Lost = {[base |-> spare, count |-> 1]}
    BY <1>2, <2>1, <2>2
  <2>4. Cardinality(Lost) = 1
    BY <2>3, FS_Singleton
  <2> QED BY <1>1, <1>3, <2>4 DEF TablesLinkedOnce
<1>4. CASE phase # "run"
  <2>1. held = {}
    BY <1>4 DEF PInv, HeldLinked
  <2>2. Cardinality(Lost) = 0
    BY <2>1, FS_EmptySet
  <2> QED BY <1>1, <1>4, <2>2 DEF TablesLinkedOnce
<1> QED BY <1>3, <1>4

(* No page the allocator gave to map_page is lost, and none is linked      *)
(* twice: only the page mem::init takes is in no table (mem_impl.cpp,      *)
(* map_page, whose failure half way leaves its tables linked).             *)
THEOREM NoTableLost == Separate(Requests) => (Spec => []TablesLinkedOnce)
<1> SUFFICES ASSUME Separate(Requests) PROVE Spec => []TablesLinkedOnce
  OBVIOUS
<1>1. Spec => []PInv
  BY PInvHolds
<1>2. PInv => TablesLinkedOnce
  BY LinkedOnceInv
<1> QED BY <1>1, <1>2, PTL
====
