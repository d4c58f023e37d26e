------------------------------ MODULE PMMProofs ------------------------------
(***************************************************************************)
(* Proofs about PMM.tla, for every memory map the Limine protocol allows,  *)
(* every table size, page size and set of page counts.                     *)
(***************************************************************************)
EXTENDS PMM, Induction, TLAPS

(***************************************************************************)
(* Arithmetic.                                                             *)
(***************************************************************************)
(* A request is a positive number of bytes, and requests of different page *)
(* counts differ in size.                                                  *)
LEMMA SizePositive == \A c \in Counts : Size(c) \in Nat \ {0}
BY PageAssumption, CallAssumption DEF Size

LEMMA SizeInjective == \A c, d \in Counts : Size(c) = Size(d) => c = d
BY PageAssumption, CallAssumption DEF Size

(* The entries of a map are entries.                                       *)
LEMMA MapEntries ==
    ASSUME NEW map \in Seq(Entry)
    PROVE  /\ DOMAIN map = 1 .. Len(map) /\ Len(map) \in Nat
           /\ \A m \in DOMAIN map : /\ map[m] \in Entry
                                    /\ map[m].base \in Nat /\ map[m].length \in Nat
<1>1. DOMAIN map = 1 .. Len(map) /\ Len(map) \in Nat
  OBVIOUS
<1>2. \A m \in 1 .. Len(map) : map[m] \in Entry
  OBVIOUS
<1>3. \A e \in Entry : e.base \in Nat /\ e.length \in Nat
  BY DEF Entry
<1> QED BY <1>1, <1>2, <1>3

(* Rounding to pages shrinks an entry of the map inwards.                  *)
LEMMA AlignInside ==
    ASSUME NEW e \in Entry
    PROVE  /\ AlignedBase(e) \in Nat /\ AlignedBase(e) >= e.base
           /\ AlignedEnd(e) \in Nat /\ AlignedEnd(e) <= e.base + e.length
<1>1. \A a \in Nat : RoundDown(a) \in Nat /\ RoundDown(a) <= a
                     /\ a < RoundDown(a) + PAGE_SIZE
  BY PageAssumption DEF RoundDown
<1>2. \A a \in Nat : RoundUp(a) \in Nat /\ RoundUp(a) >= a
  BY <1>1, PageAssumption DEF RoundUp
<1>3. e.base \in Nat /\ e.base + e.length \in Nat
  BY DEF Entry
<1> QED BY <1>1, <1>2, <1>3 DEF AlignedBase, AlignedEnd

-----------------------------------------------------------------------------
(***************************************************************************)
(* Operations on the table.                                                *)
(***************************************************************************)
(* Every region of a table of n slots is above address 0 and not empty.    *)
Positive(tab, n) == \A m \in 0 .. n - 1 : tab[m].base > 0 /\ tab[m].len > 0

(* Slot k of a table absorbing slot k + 1 leaves a table in order.         *)
LEMMA AbsorbTable ==
    ASSUME NEW n \in Nat, NEW tab \in [0 .. n - 1 -> Region], NEW k \in 0 .. n - 2
    PROVE  /\ Absorb(tab, n, k) \in [0 .. n - 2 -> Region]
           /\ Positive(tab, n) => Positive(Absorb(tab, n, k), n - 1)
           /\ Ordered(tab, n) => Ordered(Absorb(tab, n, k), n - 1)
<1> DEFINE new == Absorb(tab, n, k)
<1>0. \A m \in 0 .. n - 1 : tab[m].base \in Nat /\ tab[m].len \in Nat
  BY DEF Region
<1>1. new \in [0 .. n - 2 -> Region]
  BY DEF Absorb, Region
<1>2. /\ \A m \in 0 .. n - 2 : m < k => /\ new[m].base = tab[m].base
                                        /\ new[m].len = tab[m].len
      /\ new[k].base = tab[k].base /\ new[k].len = tab[k].len + tab[k + 1].len
      /\ \A m \in 0 .. n - 2 : m > k => /\ new[m].base = tab[m + 1].base
                                        /\ new[m].len = tab[m + 1].len
  BY DEF Absorb
<1> HIDE DEF new
<1>3. ASSUME Positive(tab, n) PROVE Positive(new, n - 1)
  <2> SUFFICES ASSUME NEW m \in 0 .. n - 2 PROVE new[m].base > 0 /\ new[m].len > 0
    BY DEF Positive
  <2>1. \A q \in 0 .. n - 1 : tab[q].base > 0 /\ tab[q].len > 0
    BY <1>3 DEF Positive
  <2>2. CASE m < k  BY <2>1, <2>2, <1>2
  <2>3. CASE m = k
    <3>1. k \in 0 .. n - 1 /\ k + 1 \in 0 .. n - 1  OBVIOUS
    <3>2. /\ tab[k].base > 0 /\ tab[k].len > 0 /\ tab[k + 1].len > 0
          /\ tab[k].len \in Nat /\ tab[k + 1].len \in Nat
      BY <3>1, <2>1, <1>0
    <3> QED BY <3>2, <2>3, <1>2
  <2>4. CASE m > k
    <3>1. m + 1 \in 0 .. n - 1  BY <2>4
    <3> QED BY <3>1, <2>1, <2>4, <1>2
  <2> QED BY <2>2, <2>3, <2>4
<1>4. ASSUME Ordered(tab, n) PROVE Ordered(new, n - 1)
  <2> SUFFICES ASSUME NEW m \in 0 .. n - 2, NEW p \in 0 .. n - 2, m < p
               PROVE  new[m].base + new[m].len <= new[p].base
    BY DEF Ordered, End
  <2>1. \A q, r \in 0 .. n - 1 : q < r => tab[q].base + tab[q].len <= tab[r].base
    BY <1>4 DEF Ordered, End
  <2>2. CASE m = k
    <3>1. /\ tab[k].base + tab[k].len <= tab[k + 1].base
          /\ tab[k + 1].base + tab[k + 1].len <= tab[p + 1].base
      BY <2>1, <2>2
    <3>2. k + 1 \in 0 .. n - 1 /\ p + 1 \in 0 .. n - 1 /\ k \in 0 .. n - 1
      BY <2>2
    <3> QED BY <3>1, <3>2, <2>2, <1>0, <1>2
  <2>3. CASE m < k
    <3>1. /\ p < k => tab[m].base + tab[m].len <= tab[p].base
          /\ tab[m].base + tab[m].len <= tab[k].base
          /\ tab[m].base + tab[m].len <= tab[p + 1].base
      BY <2>1, <2>3
    <3> QED BY <3>1, <2>3, <1>2
  <2>4. CASE m > k
    <3>1. tab[m + 1].base + tab[m + 1].len <= tab[p + 1].base
      BY <2>1, <2>4
    <3> QED BY <3>1, <2>4, <1>2
  <2> QED BY <2>2, <2>3, <2>4
<1> QED BY <1>1, <1>3, <1>4 DEF new

(* Merging two free slots changes no used region.                          *)
LEMMA AbsorbUsed ==
    ASSUME NEW n \in Nat, NEW tab \in [0 .. n - 1 -> Region], NEW k \in 0 .. n - 2,
           tab[k].is_free, tab[k + 1].is_free, NEW b, NEW l
    PROVE  UsedAt(Absorb(tab, n, k), n - 1, b, l) <=> UsedAt(tab, n, b, l)
<1> DEFINE new == Absorb(tab, n, k)
<1>1. \A m \in 0 .. n - 2 : /\ m < k => new[m] = tab[m]
                            /\ m = k => new[m].is_free
                            /\ m > k => new[m] = tab[m + 1]
  BY DEF Absorb, Region
<1>2. ASSUME UsedAt(new, n - 1, b, l) PROVE UsedAt(tab, n, b, l)
  <2>1. PICK m \in 0 .. n - 2 : ~new[m].is_free /\ new[m].base = b /\ new[m].len = l
    BY <1>2 DEF UsedAt
  <2>2. CASE m < k  BY <1>1, <2>1, <2>2 DEF UsedAt
  <2>3. CASE m > k
    <3>1. m + 1 \in 0 .. n - 1 /\ new[m] = tab[m + 1]  BY <1>1, <2>3
    <3> QED BY <3>1, <2>1 DEF UsedAt
  <2> QED BY <1>1, <2>1, <2>2, <2>3
<1>3. ASSUME UsedAt(tab, n, b, l) PROVE UsedAt(new, n - 1, b, l)
  <2>1. PICK m \in 0 .. n - 1 : ~tab[m].is_free /\ tab[m].base = b /\ tab[m].len = l
    BY <1>3 DEF UsedAt
  <2>2. CASE m < k
    <3>1. m \in 0 .. n - 2 /\ new[m] = tab[m]  BY <1>1, <2>2
    <3> QED BY <3>1, <2>1 DEF UsedAt
  <2>3. CASE m > k + 1
    <3>1. m - 1 \in 0 .. n - 2 /\ new[m - 1] = tab[m]  BY <1>1, <2>3
    <3> QED BY <3>1, <2>1 DEF UsedAt
  <2> QED BY <2>1, <2>2, <2>3
<1> QED BY <1>2, <1>3

(* Splitting a free slot keeps the table in order; the one new used region *)
(* is the part cut off.                                                    *)
LEMMA SplitTable ==
    ASSUME NEW n \in Nat, NEW tab \in [0 .. n - 1 -> Region], NEW k \in 0 .. n - 1,
           NEW sz \in Nat, 0 < sz, sz < tab[k].len
    PROVE  /\ Split(tab, n, k, sz) \in [0 .. n -> Region]
           /\ Positive(tab, n) => Positive(Split(tab, n, k, sz), n + 1)
           /\ Ordered(tab, n) => Ordered(Split(tab, n, k, sz), n + 1)
<1> DEFINE new == Split(tab, n, k, sz)
<1>0. \A m \in 0 .. n - 1 : tab[m].base \in Nat /\ tab[m].len \in Nat
  BY DEF Region
<1>1. new \in [0 .. n -> Region]
  BY <1>0 DEF Split, Region
<1>2. /\ \A m \in 0 .. n : m < k => /\ new[m].base = tab[m].base
                                    /\ new[m].len = tab[m].len
      /\ new[k].base = tab[k].base /\ new[k].len = sz
      /\ new[k + 1].base = tab[k].base + sz /\ new[k + 1].len = tab[k].len - sz
      /\ \A m \in 0 .. n : m > k + 1 => /\ new[m].base = tab[m - 1].base
                                        /\ new[m].len = tab[m - 1].len
  BY DEF Split
<1> HIDE DEF new
<1>3. ASSUME Positive(tab, n) PROVE Positive(new, n + 1)
  <2> SUFFICES ASSUME NEW m \in 0 .. n PROVE new[m].base > 0 /\ new[m].len > 0
    BY DEF Positive
  <2>1. \A q \in 0 .. n - 1 : tab[q].base > 0 /\ tab[q].len > 0
    BY <1>3 DEF Positive
  <2>2. CASE m < k  BY <2>1, <2>2, <1>2
  <2>3. CASE m = k  BY <2>1, <2>3, <1>2
  <2>4. CASE m = k + 1  BY <2>1, <2>4, <1>0, <1>2
  <2>5. CASE m > k + 1
    <3>1. m - 1 \in 0 .. n - 1  BY <2>5
    <3> QED BY <3>1, <2>1, <2>5, <1>2
  <2> QED BY <2>2, <2>3, <2>4, <2>5
<1>4. ASSUME Ordered(tab, n) PROVE Ordered(new, n + 1)
  <2> SUFFICES ASSUME NEW m \in 0 .. n, NEW p \in 0 .. n, m < p
               PROVE  new[m].base + new[m].len <= new[p].base
    BY DEF Ordered, End
  <2>1. \A q, r \in 0 .. n - 1 : q < r => tab[q].base + tab[q].len <= tab[r].base
    BY <1>4 DEF Ordered, End
  <2>2. CASE m < k
    <3>1. /\ p < k => tab[m].base + tab[m].len <= tab[p].base
          /\ tab[m].base + tab[m].len <= tab[k].base
          /\ p > k + 1 => tab[m].base + tab[m].len <= tab[p - 1].base
      BY <2>1, <2>2
    <3>2. CASE p <= k  BY <3>1, <3>2, <2>2, <1>2
    <3>3. CASE p = k + 1
      <4>1. /\ tab[m].base \in Nat /\ tab[m].len \in Nat /\ tab[k].base \in Nat
            /\ new[m].base = tab[m].base /\ new[m].len = tab[m].len
        BY <2>2, <1>0, <1>2
      <4> QED BY <4>1, <3>1, <3>3, <2>2, <1>2
    <3>4. CASE p > k + 1  BY <3>1, <3>4, <2>2, <1>2
    <3> QED BY <3>2, <3>3, <3>4
  <2>3. CASE m = k
    <3>1. p > k + 1 => tab[k].base + tab[k].len <= tab[p - 1].base
      BY <2>1, <2>3
    <3>2. /\ new[m].base = tab[k].base /\ new[m].len = sz
          /\ tab[k].base \in Nat /\ tab[k].len \in Nat
      BY <2>3, <1>0, <1>2
    <3>3. CASE p = k + 1
      <4>1. new[p].base = tab[k].base + sz  BY <3>3, <1>2
      <4> QED BY <4>1, <3>2
    <3>4. CASE p > k + 1
      <4>1. new[p].base = tab[p - 1].base /\ tab[p - 1].base \in Nat
        <5>1. p - 1 \in 0 .. n - 1  BY <3>4
        <5> QED BY <5>1, <3>4, <1>0, <1>2
      <4> QED BY <4>1, <3>1, <3>2, <3>4
    <3> QED BY <3>3, <3>4, <2>3
  <2>4. CASE m = k + 1
    <3>1. tab[k].base + tab[k].len <= tab[p - 1].base /\ p - 1 \in 0 .. n - 1
      BY <2>1, <2>4
    <3> QED BY <3>1, <2>4, <1>0, <1>2
  <2>5. CASE m > k + 1
    <3>1. tab[m - 1].base + tab[m - 1].len <= tab[p - 1].base
      BY <2>1, <2>5
    <3> QED BY <3>1, <2>5, <1>2
  <2> QED BY <2>2, <2>3, <2>4, <2>5
<1> QED BY <1>1, <1>3, <1>4 DEF new

LEMMA SplitUsed ==
    ASSUME NEW n \in Nat, NEW tab \in [0 .. n - 1 -> Region], NEW k \in 0 .. n - 1,
           tab[k].is_free, NEW sz \in Nat, NEW b, NEW l
    PROVE  UsedAt(Split(tab, n, k, sz), n + 1, b, l)
             <=> UsedAt(tab, n, b, l) \/ (b = tab[k].base /\ l = sz)
<1> DEFINE new == Split(tab, n, k, sz)
<1>1. \A m \in 0 .. n : /\ m < k => new[m] = tab[m]
                        /\ m = k => new[m] = [base |-> tab[k].base, len |-> sz,
                                             is_free |-> FALSE]
                        /\ m = k + 1 => new[m].is_free
                        /\ m > k + 1 => new[m] = tab[m - 1]
  BY DEF Split, Region
<1>2. ASSUME UsedAt(new, n + 1, b, l)
      PROVE  UsedAt(tab, n, b, l) \/ (b = tab[k].base /\ l = sz)
  <2>1. PICK m \in 0 .. n : ~new[m].is_free /\ new[m].base = b /\ new[m].len = l
    BY <1>2 DEF UsedAt
  <2>2. CASE m < k  BY <1>1, <2>1, <2>2 DEF UsedAt
  <2>3. CASE m = k  BY <1>1, <2>1, <2>3
  <2>4. CASE m > k + 1
    <3>1. m - 1 \in 0 .. n - 1 /\ new[m] = tab[m - 1]  BY <1>1, <2>4
    <3> QED BY <3>1, <2>1 DEF UsedAt
  <2> QED BY <1>1, <2>1, <2>2, <2>3, <2>4
<1>3. ASSUME UsedAt(tab, n, b, l) PROVE UsedAt(new, n + 1, b, l)
  <2>1. PICK m \in 0 .. n - 1 : ~tab[m].is_free /\ tab[m].base = b /\ tab[m].len = l
    BY <1>3 DEF UsedAt
  <2>2. CASE m < k
    <3>1. m \in 0 .. n /\ new[m] = tab[m]  BY <1>1, <2>2
    <3> QED BY <3>1, <2>1 DEF UsedAt
  <2>3. CASE m > k
    <3>1. m + 1 \in 0 .. n /\ new[m + 1] = tab[m]  BY <1>1, <2>3
    <3> QED BY <3>1, <2>1 DEF UsedAt
  <2> QED BY <2>1, <2>2, <2>3
<1>4. UsedAt(new, n + 1, tab[k].base, sz)
  <2>1. k \in 0 .. n /\ ~new[k].is_free /\ new[k].base = tab[k].base /\ new[k].len = sz
    BY <1>1
  <2> QED BY <2>1 DEF UsedAt
<1> QED BY <1>2, <1>3, <1>4

(* In a table in order no two slots have the same base.                    *)
LEMMA BasesDiffer ==
    ASSUME NEW n \in Nat, NEW tab \in [0 .. n - 1 -> Region], Positive(tab, n),
           Ordered(tab, n), NEW m \in 0 .. n - 1, NEW p \in 0 .. n - 1, m # p
    PROVE  tab[m].base # tab[p].base
<1>1. \A q \in 0 .. n - 1 : tab[q].base \in Nat /\ tab[q].len \in Nat
  BY DEF Region
<1>2. /\ m < p => tab[m].base + tab[m].len <= tab[p].base
      /\ p < m => tab[p].base + tab[p].len <= tab[m].base
      /\ tab[m].len > 0 /\ tab[p].len > 0
  BY DEF Ordered, Positive, End
<1> QED BY <1>1, <1>2

(* Slot k alone becoming free.                                             *)
LEMMA FreedOnly ==
    ASSUME NEW n \in Nat, NEW tab \in [0 .. n - 1 -> Region], NEW k \in 0 .. n - 1,
           Positive(tab, n), Ordered(tab, n)
    PROVE  /\ Freed(tab, k) \in [0 .. n - 1 -> Region]
           /\ Positive(Freed(tab, k), n) /\ Ordered(Freed(tab, k), n)
           /\ Freed(tab, k)[k].is_free
           /\ \A b, l : UsedAt(Freed(tab, k), n, b, l)
                           <=> UsedAt(tab, n, b, l) /\ b # tab[k].base
<1> DEFINE new == Freed(tab, k)
<1>1. new \in [0 .. n - 1 -> Region]
  BY DEF Freed, Region
<1>2. \A m \in 0 .. n - 1 : /\ new[m].base = tab[m].base /\ new[m].len = tab[m].len
                            /\ m # k => new[m] = tab[m]
  BY DEF Freed, Region
<1>3. new[k].is_free
  BY DEF Freed, Region
<1> HIDE DEF new
<1>4. Positive(new, n) /\ Ordered(new, n)
  BY <1>2 DEF Positive, Ordered, End
<1>5. ASSUME NEW b, NEW l
      PROVE  UsedAt(new, n, b, l) <=> UsedAt(tab, n, b, l) /\ b # tab[k].base
  <2>1. ASSUME UsedAt(new, n, b, l) PROVE UsedAt(tab, n, b, l) /\ b # tab[k].base
    <3>1. PICK m \in 0 .. n - 1 : ~new[m].is_free /\ new[m].base = b /\ new[m].len = l
      BY <2>1 DEF UsedAt
    <3>2. m # k  BY <3>1, <1>3
    <3>3. tab[m].base # tab[k].base  BY <3>2, BasesDiffer
    <3>4. ~tab[m].is_free /\ tab[m].base = b /\ tab[m].len = l  BY <3>1, <3>2, <1>2
    <3> QED BY <3>3, <3>4 DEF UsedAt
  <2>2. ASSUME UsedAt(tab, n, b, l), b # tab[k].base PROVE UsedAt(new, n, b, l)
    <3>1. PICK m \in 0 .. n - 1 : ~tab[m].is_free /\ tab[m].base = b /\ tab[m].len = l
      BY <2>2 DEF UsedAt
    <3>2. m # k  BY <3>1, <2>2
    <3>3. ~new[m].is_free /\ new[m].base = b /\ new[m].len = l  BY <3>1, <3>2, <1>2
    <3> QED BY <3>3 DEF UsedAt
  <2> QED BY <2>1, <2>2
<1> QED BY <1>1, <1>3, <1>4, <1>5 DEF new

(* Absorbing a free neighbour: the two facts above together, with slot k   *)
(* still free.                                                             *)
LEMMA AbsorbFree ==
    ASSUME NEW n \in Nat, NEW tab \in [0 .. n - 1 -> Region], NEW k \in 0 .. n - 2,
           tab[k].is_free, tab[k + 1].is_free, Positive(tab, n), Ordered(tab, n)
    PROVE  /\ Absorb(tab, n, k) \in [0 .. n - 2 -> Region]
           /\ Positive(Absorb(tab, n, k), n - 1) /\ Ordered(Absorb(tab, n, k), n - 1)
           /\ Absorb(tab, n, k)[k].is_free
           /\ \A b, l : UsedAt(Absorb(tab, n, k), n - 1, b, l) <=> UsedAt(tab, n, b, l)
<1>1. Absorb(tab, n, k)[k].is_free
  BY DEF Absorb
<1>2. \A b, l : UsedAt(Absorb(tab, n, k), n - 1, b, l) <=> UsedAt(tab, n, b, l)
  BY AbsorbUsed
<1> QED BY <1>1, <1>2, AbsorbTable

(* What free_pages leaves: a table in order whose used regions are those   *)
(* of before, but for slot k.                                              *)
LEMMA FreedTableOK ==
    ASSUME NEW n \in Nat, NEW tab \in [0 .. n - 1 -> Region], NEW k \in 0 .. n - 1,
           Positive(tab, n), Ordered(tab, n)
    PROVE  LET res == FreedTable(tab, n, k)
           IN  /\ res.n \in 0 .. n /\ res.tab \in [0 .. res.n - 1 -> Region]
               /\ Positive(res.tab, res.n) /\ Ordered(res.tab, res.n)
               /\ \A b, l : UsedAt(res.tab, res.n, b, l)
                               <=> UsedAt(tab, n, b, l) /\ b # tab[k].base
<1> DEFINE freed == Freed(tab, k)
           prev  == k > 0 /\ freed[k - 1].is_free
           k1    == IF prev THEN k - 1 ELSE k
           n1    == IF prev THEN n - 1 ELSE n
           tab1  == IF prev THEN Absorb(freed, n, k - 1) ELSE freed
           next  == k1 < n1 - 1 /\ tab1[k1 + 1].is_free
           tab2  == IF next THEN Absorb(tab1, n1, k1) ELSE tab1
           n2    == IF next THEN n1 - 1 ELSE n1
<1>1. /\ freed \in [0 .. n - 1 -> Region]
      /\ Positive(freed, n) /\ Ordered(freed, n) /\ freed[k].is_free
      /\ \A b, l : UsedAt(freed, n, b, l) <=> UsedAt(tab, n, b, l) /\ b # tab[k].base
  BY FreedOnly
<1> HIDE DEF freed
<1>2. /\ n1 \in Nat /\ n1 <= n /\ k1 \in 0 .. n1 - 1 /\ tab1 \in [0 .. n1 - 1 -> Region]
      /\ Positive(tab1, n1) /\ Ordered(tab1, n1) /\ tab1[k1].is_free
      /\ \A b, l : UsedAt(tab1, n1, b, l) <=> UsedAt(freed, n, b, l)
  <2>1. CASE prev
    <3>1. k - 1 \in 0 .. n - 2 /\ freed[k - 1].is_free /\ freed[(k - 1) + 1].is_free
      BY <2>1, <1>1
    <3>2. n1 = n - 1 /\ k1 = k - 1 /\ tab1 = Absorb(freed, n, k - 1)
      BY <2>1
    <3>3. /\ tab1 \in [0 .. n - 2 -> Region] /\ Positive(tab1, n - 1)
          /\ Ordered(tab1, n - 1) /\ tab1[k - 1].is_free
          /\ \A b, l : UsedAt(tab1, n - 1, b, l) <=> UsedAt(freed, n, b, l)
      BY <3>1, <3>2, <1>1, AbsorbFree
    <3>4. n - 1 \in Nat /\ (n - 1) - 1 = n - 2  BY <3>1
    <3> HIDE DEF tab1, n1, k1
    <3> QED BY <3>1, <3>2, <3>3, <3>4
  <2>2. CASE ~prev
    BY <2>2, <1>1
  <2> QED BY <2>1, <2>2
<1> HIDE DEF tab1, n1, k1
<1>3. /\ n2 \in Nat /\ n2 <= n /\ tab2 \in [0 .. n2 - 1 -> Region]
      /\ Positive(tab2, n2) /\ Ordered(tab2, n2)
      /\ \A b, l : UsedAt(tab2, n2, b, l) <=> UsedAt(tab1, n1, b, l)
  <2>1. CASE next
    <3>1. k1 \in 0 .. n1 - 2 /\ tab1[k1].is_free /\ tab1[k1 + 1].is_free
      BY <2>1, <1>2
    <3>2. n2 = n1 - 1 /\ tab2 = Absorb(tab1, n1, k1)  BY <2>1
    <3>3. /\ tab2 \in [0 .. n1 - 2 -> Region] /\ Positive(tab2, n1 - 1)
          /\ Ordered(tab2, n1 - 1)
          /\ \A b, l : UsedAt(tab2, n1 - 1, b, l) <=> UsedAt(tab1, n1, b, l)
      BY <3>1, <3>2, <1>2, AbsorbFree
    <3>4. n1 - 1 \in Nat /\ (n1 - 1) - 1 = n1 - 2  BY <3>1, <1>2
    <3> HIDE DEF tab2, n2
    <3> QED BY <3>1, <3>2, <3>3, <3>4, <1>2
  <2>2. CASE ~next
    BY <2>2, <1>2
  <2> QED BY <2>1, <2>2
<1>4. FreedTable(tab, n, k).tab = tab2 /\ FreedTable(tab, n, k).n = n2
  BY DEF FreedTable, freed, tab1, n1, k1
<1> HIDE DEF tab2, n2
<1> QED BY <1>1, <1>2, <1>3, <1>4

-----------------------------------------------------------------------------
(***************************************************************************)
(* The inductive invariant.  RegionsDisjoint says nothing of the table     *)
(* before the sort is over; the sort establishes the order it speaks of,   *)
(* and can do so only because the regions it sorts share no byte.          *)
(***************************************************************************)
Apart(r, s) == End(r) <= s.base \/ End(s) <= r.base
PairwiseApart(tab, n) == \A m, p \in 0 .. n - 1 : m # p => Apart(tab[m], tab[p])

(* Region r shares no byte with a usable entry of the map above index i.   *)
ApartFromRest(r) ==
    \A m \in DOMAIN memmap :
        m > i /\ memmap[m].type = "usable" =>
            End(r) <= memmap[m].base \/ memmap[m].base + memmap[m].length <= r.base

Collecting ==
    phase = "collect" =>
        /\ j = 0
        /\ memmap = NoResponse => region_count = 0
        /\ memmap # NoResponse => \A k \in Slots : ApartFromRest(regions[k])

(* The last i slots hold the largest bases in order, and slot j the        *)
(* largest base of the slots up to it.                                     *)
Sorting ==
    phase = "sort" =>
        /\ region_count > 0 => i <= region_count - 1 /\ j <= region_count - i - 1
        /\ \A m, p \in Slots : m < p /\ p >= region_count - i
                                  => regions[m].base <= regions[p].base
        /\ \A m, p \in Slots : m < p /\ p = j => regions[m].base <= regions[p].base

IInv == /\ TypeOK
        /\ Positive(regions, region_count)
        /\ phase \in {"collect", "sort"} => PairwiseApart(regions, region_count)
        /\ Collecting
        /\ Sorting
        /\ RegionsDisjoint
        /\ phase # "ready" => held = {}
        /\ UsedIsHeld

(* The used slots of a table are the allocations in H.                     *)
Backs(tab, n, H) ==
    \A b, l : UsedAt(tab, n, b, l) <=> \E a \in H : a.base = b /\ Size(a.count) = l

LEMMA BacksFromHeld ==
    ASSUME UsedIsHeld PROVE Backs(regions, region_count, held)
BY DEF UsedIsHeld, Backs, UsedAt, Matches, Slots

LEMMA HeldFromBacks ==
    ASSUME NEW tab, NEW n, NEW H, Backs(tab, n, H)
    PROVE  /\ \A a \in H : UsedAt(tab, n, a.base, Size(a.count))
           /\ \A k \in 0 .. n - 1 : ~tab[k].is_free =>
                 \E a \in H : tab[k].base = a.base /\ tab[k].len = Size(a.count)
BY DEF Backs, UsedAt

LEMMA HeldNext ==
    ASSUME Backs(regions', region_count', held') PROVE UsedIsHeld'
BY HeldFromBacks DEF UsedIsHeld, UsedAt, Matches, Slots

(* The table is empty and nothing is held.                                 *)
LEMMA InitIInv == Init => IInv
<1> SUFFICES ASSUME Init PROVE IInv  OBVIOUS
<1>1. Slots = {} /\ 0 .. region_count - 1 = {}
  BY DEF Init, Slots
<1>2. TypeOK
  <2>1. regions \in [Slots -> Region]
    BY <1>1 DEF Init
  <2>2. dirty \subseteq Nat
    <3>1. CASE memmap = NoResponse  BY <3>1 DEF Init
    <3>2. CASE memmap # NoResponse
      <4>1. memmap \in MemMaps /\ memmap \in Seq(Entry)
        BY <3>2, MapAssumption DEF Init, ValidMap
      <4>2. \A m \in DOMAIN memmap : memmap[m].base \in Nat /\ memmap[m].length \in Nat
        BY <4>1, MapEntries
      <4> QED BY <4>2, <3>2 DEF Init, Mapped, EntryBytes
    <3> QED BY <3>1, <3>2
  <2>3. region_count \in 0 .. MAX_REGIONS
    BY PageAssumption DEF Init
  <2> QED BY <2>1, <2>2, <2>3 DEF TypeOK, Init
<1>3. Positive(regions, region_count) /\ PairwiseApart(regions, region_count)
  BY <1>1 DEF Positive, PairwiseApart
<1>4. Collecting /\ Sorting /\ RegionsDisjoint
  BY <1>1 DEF Init, Collecting, Sorting, RegionsDisjoint
<1>5. held = {} /\ UsedIsHeld
  BY <1>1 DEF Init, UsedIsHeld
<1> QED BY <1>2, <1>3, <1>4, <1>5 DEF IInv

-----------------------------------------------------------------------------
(***************************************************************************)
(* PMM::init preserves the invariant.                                      *)
(***************************************************************************)
(* Facts every step of init starts from: nothing is held, so every slot is *)
(* free; and a step that keeps it so keeps UsedIsHeld.                     *)
LEMMA AllFree ==
    ASSUME IInv, phase # "ready"
    PROVE  held = {} /\ \A k \in Slots : regions[k].is_free
BY DEF IInv, UsedIsHeld

LEMMA AllFreeNext ==
    ASSUME held' = {}, \A k \in Slots' : regions'[k].is_free
    PROVE  UsedIsHeld'
BY DEF UsedIsHeld

(* A new region lies inside its usable entry, so it shares no byte with    *)
(* the regions of earlier entries, nor with the usable entries to come.    *)
LEMMA CollectPreserves == IInv /\ CollectEntry => IInv'
<1> SUFFICES ASSUME IInv, CollectEntry PROVE IInv'  OBVIOUS
<1> DEFINE e == memmap[i + 1]
           n == region_count
           b == AlignedBase(e)
           l == AlignedEnd(e) - b
<1>1. /\ phase = "collect" /\ phase' = "collect" /\ memmap # NoResponse
      /\ memmap \in MemMaps /\ memmap' = memmap /\ n \in Nat /\ n < MAX_REGIONS
      /\ i \in Nat /\ i < Len(memmap) /\ i' = i + 1 /\ j' = 0
      /\ held' = held /\ dirty' = dirty
      /\ regions \in [0 .. n - 1 -> Region] /\ MAX_REGIONS \in Nat
  BY PageAssumption DEF IInv, TypeOK, Collecting, CollectEntry, MoreEntries, Slots
<1>2. memmap \in Seq(Entry) /\ \A m, p \in DOMAIN memmap : m # p => ~Overlap(memmap[m], memmap[p])
  BY <1>1, MapAssumption DEF ValidMap
<1>3. i + 1 \in DOMAIN memmap /\ e \in Entry /\ e.base \in Nat /\ e.length \in Nat
  BY <1>1, <1>2, MapEntries
<1>4. held = {} /\ \A k \in 0 .. n - 1 : regions[k].is_free
  BY <1>1, AllFree DEF Slots
<1>5. \A k \in 0 .. n - 1 : regions[k].base \in Nat /\ regions[k].len \in Nat
  BY <1>1 DEF Region
<1>6. \A k \in 0 .. n - 1, m \in DOMAIN memmap :
        m > i /\ memmap[m].type = "usable" =>
            \/ regions[k].base + regions[k].len <= memmap[m].base
            \/ memmap[m].base + memmap[m].length <= regions[k].base
  BY <1>1 DEF IInv, Collecting, ApartFromRest, End, Slots
<1>7. CASE UNCHANGED table
  <2>1. TypeOK'  BY <1>1, <1>7 DEF IInv, TypeOK, table, Slots
  <2>2. Collecting'
    <3>1. Collecting /\ i \in Nat /\ i' = i + 1 /\ phase = "collect" /\ UNCHANGED <<table, memmap>>
      BY <1>1, <1>7 DEF IInv
    <3>2. \A m \in DOMAIN memmap : m > i' => m > i
      BY <1>2, <3>1, MapEntries
    <3>3. \A k \in Slots : ApartFromRest(regions[k])
      BY <1>1, <3>1 DEF Collecting
    <3>4. \A k \in Slots' : ApartFromRest(regions[k])'
      BY <3>1, <3>2, <3>3 DEF ApartFromRest, End, Slots, table
    <3> QED
      BY <1>1, <3>4 DEF Collecting
  <2>3. Positive(regions', region_count') /\ PairwiseApart(regions', region_count')
    BY <1>1, <1>7 DEF IInv, table
  <2>4. UsedIsHeld'
    BY <1>1, <1>4, <1>7, AllFreeNext DEF table, Slots
  <2> QED BY <1>1, <1>4, <2>1, <2>2, <2>3, <2>4 DEF IInv, Sorting, RegionsDisjoint
<1>8. CASE ~ UNCHANGED table
  <2>1. /\ e.type = "usable" /\ AlignedEnd(e) > b /\ region_count' = n + 1
        /\ regions' = [m \in 0 .. n |->
                          IF m < n THEN regions[m] ELSE [base |-> b, len |-> l, is_free |-> TRUE]]
    BY <1>8 DEF CollectEntry
  <2>2. b \in Nat /\ b >= e.base /\ AlignedEnd(e) \in Nat /\ b + l <= e.base + e.length
        /\ l \in Nat /\ l > 0
    BY <1>3, <2>1, AlignInside
  <2>3. b > 0
    BY <1>1, <1>2, <1>3, <2>1, <2>2, MapAssumption, PageAssumption DEF ValidMap
  <2> HIDE DEF b, l
  <2>4. /\ \A k \in 0 .. n - 1 : regions'[k] = regions[k]
        /\ regions'[n].base = b /\ regions'[n].len = l /\ regions'[n].is_free
        /\ regions' \in [0 .. n -> Region]
    BY <1>1, <2>1, <2>2 DEF Region
  <2>5. Slots' = 0 .. n /\ (n + 1) - 1 = n
    BY <1>1, <2>1 DEF Slots
  <2>6. TypeOK'
    <3>1. n + 1 \in 0 .. MAX_REGIONS /\ i + 1 \in Nat  BY <1>1
    <3>2. regions' \in [Slots' -> Region]  BY <2>4, <2>5
    <3>3. held' \subseteq [base : Nat, count : Counts] /\ dirty' \subseteq Nat
      BY <1>1 DEF IInv, TypeOK
    <3> QED BY <3>1, <3>2, <3>3, <1>1, <2>1 DEF TypeOK
  <2>7. Positive(regions', n + 1)
    <3> SUFFICES ASSUME NEW m \in 0 .. n
                 PROVE  regions'[m].base > 0 /\ regions'[m].len > 0
      BY <2>5 DEF Positive
    <3>1. CASE m = n  BY <3>1, <2>2, <2>3, <2>4
    <3>2. CASE m \in 0 .. n - 1  BY <3>2, <1>1, <2>4 DEF IInv, Positive
    <3> QED BY <3>1, <3>2, <1>1
  <2>8. \A k \in 0 .. n - 1 : \/ regions[k].base + regions[k].len <= b
                              \/ b + l <= regions[k].base
    <3> SUFFICES ASSUME NEW k \in 0 .. n - 1
                 PROVE  regions[k].base + regions[k].len <= b \/ b + l <= regions[k].base
      OBVIOUS
    <3>1. i + 1 > i  BY <1>1
    <3>2. \/ regions[k].base + regions[k].len <= e.base
          \/ e.base + e.length <= regions[k].base
      BY <3>1, <1>3, <1>6, <2>1
    <3>3. regions[k].base \in Nat /\ regions[k].len \in Nat  BY <1>5
    <3> QED BY <3>2, <3>3, <1>3, <2>2
  <2>9. PairwiseApart(regions', n + 1)
    <3> SUFFICES ASSUME NEW m \in 0 .. n, NEW p \in 0 .. n, m # p
                 PROVE  \/ regions'[m].base + regions'[m].len <= regions'[p].base
                        \/ regions'[p].base + regions'[p].len <= regions'[m].base
      BY <2>5 DEF PairwiseApart, Apart, End
    <3>1. CASE m < n /\ p < n
      BY <3>1, <1>1, <2>4 DEF IInv, PairwiseApart, Apart, End
    <3>2. CASE m = n
      <4>1. p \in 0 .. n - 1  BY <3>2, <1>1
      <4> QED BY <4>1, <3>2, <2>4, <2>8
    <3>3. CASE p = n
      <4>1. m \in 0 .. n - 1  BY <3>3, <1>1
      <4> QED BY <4>1, <3>3, <2>4, <2>8
    <3> QED BY <3>1, <3>2, <3>3, <1>1
  <2>10. Collecting'
    <3> SUFFICES ASSUME NEW k \in 0 .. n, NEW m \in DOMAIN memmap,
                        m > i + 1, memmap[m].type = "usable"
                 PROVE  \/ regions'[k].base + regions'[k].len <= memmap[m].base
                        \/ memmap[m].base + memmap[m].length <= regions'[k].base
      BY <1>1, <2>5 DEF Collecting, ApartFromRest, End
    <3>1. m \in Nat /\ memmap[m].base \in Nat /\ memmap[m].length \in Nat
      BY <1>2, MapEntries
    <3>2. CASE k < n
      BY <3>1, <3>2, <1>1, <1>6, <2>4
    <3>3. CASE k = n
      <4>1. ~Overlap(e, memmap[m])  BY <1>1, <1>2, <1>3, <3>1
      <4>2. \/ e.base + e.length <= memmap[m].base
            \/ memmap[m].base + memmap[m].length <= e.base
        BY <4>1, <3>1, <1>3, <2>1 DEF Overlap
      <4> QED BY <4>2, <3>1, <3>3, <1>3, <2>2, <2>4
    <3> QED BY <3>2, <3>3, <1>1
  <2>11. UsedIsHeld'
    <3>1. \A k \in 0 .. n : regions'[k].is_free
      BY <1>1, <1>4, <2>4
    <3> QED BY <3>1, <1>1, <1>4, <2>5, AllFreeNext
  <2> QED
    BY <1>1, <1>4, <2>1, <2>6, <2>7, <2>9, <2>10, <2>11 DEF IInv, Sorting, RegionsDisjoint
<1> QED BY <1>7, <1>8

(* Once all entries are in, the counters start over.                       *)
LEMMA CollectEndPreserves == IInv /\ (InitNoResponse \/ CollectDone) => IInv'
<1> SUFFICES ASSUME IInv, InitNoResponse \/ CollectDone PROVE IInv'  OBVIOUS
<1>1. /\ phase = "collect" /\ UNCHANGED <<memmap, j, table, held, dirty>> /\ j = 0
      /\ held = {} /\ region_count \in Nat
      /\ \/ phase' = "ready" /\ i' = i /\ region_count = 0
         \/ phase' = "sort" /\ i' = 0
  BY DEF IInv, TypeOK, InitNoResponse, CollectDone, Collecting
<1>2. TypeOK'
  BY <1>1 DEF IInv, TypeOK, table, Slots
<1>3. Positive(regions', region_count') /\ PairwiseApart(regions', region_count')
  BY <1>1 DEF IInv, table
<1>4. UsedIsHeld'
  BY <1>1 DEF IInv, UsedIsHeld, UsedAt, Matches, Slots, table
<1>5. Sorting'
  BY <1>1 DEF Sorting, Slots, table
<1>6. RegionsDisjoint'
  BY <1>1 DEF RegionsDisjoint, Ordered, table
<1> QED BY <1>1, <1>2, <1>3, <1>4, <1>5, <1>6 DEF IInv, Collecting

(* Swapping two slots of a table keeps its regions apart.                  *)
LEMMA SwapTable ==
    ASSUME NEW n \in Nat, NEW tab \in [0 .. n - 1 -> Region],
           NEW k \in 0 .. n - 1, NEW q \in 0 .. n - 1, k # q
    PROVE  LET new == [tab EXCEPT ![k] = tab[q], ![q] = tab[k]]
           IN  /\ new \in [0 .. n - 1 -> Region]
               /\ new[k] = tab[q] /\ new[q] = tab[k]
               /\ \A m \in 0 .. n - 1 : m # k /\ m # q => new[m] = tab[m]
               /\ Positive(tab, n) => Positive(new, n)
               /\ PairwiseApart(tab, n) => PairwiseApart(new, n)
<1> DEFINE new == [tab EXCEPT ![k] = tab[q], ![q] = tab[k]]
<1>1. /\ new \in [0 .. n - 1 -> Region]
      /\ new[k] = tab[q] /\ new[q] = tab[k]
      /\ \A m \in 0 .. n - 1 : m # k /\ m # q => new[m] = tab[m]
  OBVIOUS
<1> HIDE DEF new
<1> DEFINE at(m) == IF m = k THEN q ELSE IF m = q THEN k ELSE m
<1>2. \A m \in 0 .. n - 1 : at(m) \in 0 .. n - 1 /\ new[m] = tab[at(m)]
  BY <1>1
<1>3. \A m, p \in 0 .. n - 1 : m # p => at(m) # at(p)
  OBVIOUS
<1> HIDE DEF at
<1>4. ASSUME Positive(tab, n) PROVE Positive(new, n)
  BY <1>2, <1>4 DEF Positive
<1>5. ASSUME PairwiseApart(tab, n) PROVE PairwiseApart(new, n)
  BY <1>2, <1>3, <1>5 DEF PairwiseApart, Apart
<1> QED BY <1>1, <1>4, <1>5 DEF new

(* The larger of slots j and j + 1 moves up: it is the largest so far.     *)
LEMMA ComparePreserves == IInv /\ SortCompare => IInv'
<1> SUFFICES ASSUME IInv, SortCompare PROVE IInv'  OBVIOUS
<1> DEFINE n == region_count
<1>1. /\ phase = "sort" /\ phase' = "sort" /\ memmap' = memmap /\ dirty' = dirty
      /\ n \in Nat /\ region_count' = n /\ i' = i /\ j' = j + 1 /\ i \in Nat /\ j \in Nat
      /\ i < n - 1 /\ j < n - i - 1
      /\ held' = held /\ held = {} /\ regions \in [0 .. n - 1 -> Region]
      /\ Slots = 0 .. n - 1 /\ Slots' = 0 .. n - 1
      /\ \A k \in 0 .. n - 1 : regions[k].is_free
  BY AllFree DEF IInv, TypeOK, SortCompare, Slots
<1>2. j \in 0 .. n - 1 /\ j + 1 \in 0 .. n - 1 /\ j # j + 1
  BY <1>1
<1>3. /\ regions' \in [0 .. n - 1 -> Region]
      /\ \/ regions' = regions /\ ~(regions[j].base > regions[j + 1].base)
         \/ /\ regions[j].base > regions[j + 1].base
            /\ regions'[j] = regions[j + 1] /\ regions'[j + 1] = regions[j]
      /\ \A m \in 0 .. n - 1 : m # j /\ m # j + 1 => regions'[m] = regions[m]
      /\ Positive(regions', n) /\ PairwiseApart(regions', n)
  <2>1. CASE regions[j].base > regions[j + 1].base
    <3>1. regions' = [regions EXCEPT ![j] = regions[j + 1], ![j + 1] = regions[j]]
      BY <2>1 DEF SortCompare
    <3> QED BY <3>1, <2>1, <1>1, <1>2, SwapTable DEF IInv
  <2>2. CASE ~(regions[j].base > regions[j + 1].base)
    BY <2>2, <1>1 DEF IInv, SortCompare
  <2> QED BY <2>1, <2>2
<1>4. \A k \in 0 .. n - 1 : regions'[k].is_free
  BY <1>1, <1>2, <1>3
<1>5. \A k \in 0 .. n - 1 : regions[k].base \in Nat /\ regions'[k].base \in Nat
  BY <1>1, <1>3 DEF Region
<1>6. /\ \A m, p \in 0 .. n - 1 : m < p /\ p >= n - i => regions[m].base <= regions[p].base
      /\ \A m \in 0 .. n - 1 : m < j => regions[m].base <= regions[j].base
  BY <1>1, <1>2 DEF IInv, Sorting
<1>7. ASSUME NEW m \in 0 .. n - 1, NEW p \in 0 .. n - 1, m < p, p >= n - i
      PROVE  regions'[m].base <= regions'[p].base
  <2>1. p # j /\ p # j + 1 /\ regions'[p] = regions[p] /\ j < p /\ j + 1 < p
    BY <1>1, <1>3, <1>7
  <2>2. regions[m].base <= regions[p].base /\ regions[j].base <= regions[p].base
        /\ regions[j + 1].base <= regions[p].base
    BY <1>2, <1>6, <1>7, <2>1
  <2> QED BY <1>3, <2>1, <2>2
<1>8. ASSUME NEW m \in 0 .. n - 1, m < j + 1
      PROVE  regions'[m].base <= regions'[j + 1].base
  <2>1. m < j => regions[m].base <= regions[j].base  BY <1>6
  <2>2. m # j + 1 /\ (m < j \/ m = j)  BY <1>1, <1>8
  <2>3. CASE regions' = regions /\ ~(regions[j].base > regions[j + 1].base)
    BY <2>1, <2>2, <2>3, <1>2, <1>5
  <2>4. CASE /\ regions[j].base > regions[j + 1].base
             /\ regions'[j] = regions[j + 1] /\ regions'[j + 1] = regions[j]
    <3>1. CASE m = j  BY <3>1, <2>4, <1>2, <1>5
    <3>2. CASE m < j
      <4>1. regions'[m] = regions[m]  BY <3>2, <2>2, <1>1, <1>3
      <4> QED BY <4>1, <3>2, <2>1, <2>4
    <3> QED BY <3>1, <3>2, <2>2
  <2> QED BY <1>3, <2>3, <2>4
<1>9. Sorting'
  <2>1. j + 1 <= n - i - 1 /\ i <= n - 1  BY <1>1
  <2> QED BY <1>1, <1>7, <1>8, <2>1 DEF Sorting
<1>10. TypeOK'
  BY <1>1, <1>3 DEF IInv, TypeOK
<1>11. UsedIsHeld'
  BY <1>1, <1>4, AllFreeNext
<1> QED BY <1>1, <1>3, <1>9, <1>10, <1>11 DEF IInv, Collecting, RegionsDisjoint

(* The pass is over: the largest base of the slots before has reached the  *)
(* sorted end, which grows by one.                                         *)
LEMMA NextPassPreserves == IInv /\ SortNextPass => IInv'
<1> SUFFICES ASSUME IInv, SortNextPass PROVE IInv'  OBVIOUS
<1> DEFINE n == region_count
<1>1. /\ phase = "sort" /\ phase' = "sort" /\ UNCHANGED <<memmap, table, held, dirty>>
      /\ n \in Nat /\ region_count' = n /\ i' = i + 1 /\ j' = 0 /\ i \in Nat /\ j \in Nat
      /\ i < n - 1 /\ j >= n - i - 1 /\ j <= n - i - 1 /\ regions' = regions
      /\ Slots = 0 .. n - 1 /\ Slots' = 0 .. n - 1 /\ held = {}
  BY DEF IInv, TypeOK, SortNextPass, Sorting, Slots, table
<1>2. ASSUME NEW m \in 0 .. n - 1, NEW p \in 0 .. n - 1, m < p, p >= n - (i + 1)
      PROVE  regions[m].base <= regions[p].base
  <2>1. CASE p >= n - i  BY <1>1, <1>2, <2>1 DEF IInv, Sorting
  <2>2. CASE p < n - i
    <3>1. p = j  BY <1>1, <1>2, <2>2
    <3> QED BY <3>1, <1>1, <1>2 DEF IInv, Sorting
  <2> QED BY <2>1, <2>2, <1>1
<1>3. Sorting'
  BY <1>1, <1>2 DEF Sorting
<1>4. TypeOK' /\ UsedIsHeld'
  BY <1>1 DEF IInv, TypeOK, UsedIsHeld, UsedAt, Matches
<1> QED BY <1>1, <1>3, <1>4 DEF IInv, Collecting, RegionsDisjoint

(* The passes are over: the table is in order.                             *)
LEMMA SortEndPreserves == IInv /\ (SortUnderflow \/ SortDone) => IInv'
<1> SUFFICES ASSUME IInv, SortUnderflow \/ SortDone PROVE IInv'  OBVIOUS
<1> DEFINE n == region_count
<1>1. /\ phase = "sort" /\ UNCHANGED <<memmap, table, held, dirty>>
      /\ n \in Nat /\ region_count' = n /\ regions' = regions /\ i \in Nat
      /\ i' \in Nat /\ j' \in Nat
      /\ Slots = 0 .. n - 1 /\ Slots' = 0 .. n - 1 /\ held = {}
      /\ \/ phase' = "overrun"
         \/ phase' = "merge" /\ n > 0 /\ i >= n - 1
  BY DEF IInv, TypeOK, SortUnderflow, SortDone, Slots, table
<1>2. \A k \in 0 .. n - 1 : regions[k].base \in Nat /\ regions[k].len \in Nat
                            /\ regions[k].len > 0
  BY <1>1 DEF IInv, TypeOK, Region, Positive
<1>3. ASSUME phase' = "merge" PROVE Ordered(regions, n)
  <2> SUFFICES ASSUME NEW m \in 0 .. n - 1, NEW p \in 0 .. n - 1, m < p
               PROVE  regions[m].base + regions[m].len <= regions[p].base
    BY DEF Ordered, End
  <2>1. p >= n - i  BY <1>1, <1>3
  <2>2. regions[m].base <= regions[p].base
    BY <2>1, <1>1 DEF IInv, Sorting
  <2>3. \/ regions[m].base + regions[m].len <= regions[p].base
        \/ regions[p].base + regions[p].len <= regions[m].base
    BY <1>1 DEF IInv, PairwiseApart, Apart, End
  <2> QED BY <2>2, <2>3, <1>2
<1>4. RegionsDisjoint'
  BY <1>1, <1>3 DEF RegionsDisjoint
<1>5. TypeOK' /\ UsedIsHeld'
  BY <1>1 DEF IInv, TypeOK, UsedIsHeld, UsedAt, Matches
<1> QED BY <1>1, <1>4, <1>5 DEF IInv, Collecting, Sorting

(* Absorbing the next slot keeps the table in order, and free.             *)
LEMMA MergePreserves == IInv /\ (MergeTouching \/ MergeSkip \/ MergeDone) => IInv'
<1> SUFFICES ASSUME IInv, MergeTouching \/ MergeSkip \/ MergeDone PROVE IInv'
  OBVIOUS
<1> DEFINE n == region_count
<1>1. /\ phase = "merge" /\ phase' \in {"merge", "ready"}
      /\ UNCHANGED <<memmap, held, dirty>> /\ i' \in Nat /\ j' \in Nat
      /\ n \in Nat /\ i \in Nat /\ Slots = 0 .. n - 1 /\ Slots' = 0 .. region_count' - 1
      /\ held = {} /\ regions \in [0 .. n - 1 -> Region] /\ Ordered(regions, n)
      /\ Positive(regions, n) /\ n <= MAX_REGIONS
      /\ \A k \in 0 .. n - 1 : regions[k].is_free
  BY AllFree DEF IInv, TypeOK, MergeTouching, MergeSkip, MergeDone, Slots, loop, RegionsDisjoint
<1>2. /\ region_count' \in 0 .. MAX_REGIONS /\ regions' \in [Slots' -> Region]
      /\ Ordered(regions', region_count') /\ Positive(regions', region_count')
      /\ \A k \in Slots' : regions'[k].is_free
  <2>1. CASE MergeTouching
    <3>1. /\ regions' = Absorb(regions, n, i) /\ region_count' = n - 1
          /\ i \in 0 .. n - 2 /\ n - 1 \in 0 .. MAX_REGIONS /\ (n - 1) - 1 = n - 2
      BY <1>1, <2>1, PageAssumption DEF MergeTouching
    <3>2. /\ regions' \in [0 .. n - 2 -> Region]
          /\ Ordered(regions', n - 1) /\ Positive(regions', n - 1)
      BY <1>1, <3>1, AbsorbTable
    <3>3. \A k \in 0 .. n - 2 : regions'[k].is_free
      BY <1>1, <3>1 DEF Absorb
    <3> QED BY <1>1, <3>1, <3>2, <3>3
  <2>2. CASE MergeSkip \/ MergeDone
    <3>1. UNCHANGED table  BY <2>2 DEF MergeSkip, MergeDone
    <3> QED BY <3>1, <1>1 DEF table, IInv, TypeOK
  <2> QED BY <2>1, <2>2
<1>3. TypeOK'
  BY <1>1, <1>2 DEF IInv, TypeOK
<1>4. UsedIsHeld'
  BY <1>1, <1>2, AllFreeNext
<1> QED BY <1>1, <1>2, <1>3, <1>4 DEF IInv, Collecting, Sorting, RegionsDisjoint

-----------------------------------------------------------------------------
(***************************************************************************)
(* alloc_pages and free_pages preserve the invariant.                      *)
(***************************************************************************)
(* In phase "ready" only the table and what it backs matter.               *)
LEMMA ReadyNext ==
    ASSUME IInv, phase = "ready", UNCHANGED <<memmap, loop>>,
           region_count' \in 0 .. MAX_REGIONS,
           regions' \in [0 .. region_count' - 1 -> Region],
           Positive(regions', region_count'), Ordered(regions', region_count'),
           held' \subseteq [base : Nat, count : Counts], dirty' \subseteq Nat,
           UsedIsHeld'
    PROVE  IInv'
<1>1. TypeOK'
  BY DEF IInv, TypeOK, Slots, loop
<1> QED BY <1>1 DEF IInv, loop, Collecting, Sorting, RegionsDisjoint

LEMMA ReadyFacts ==
    ASSUME IInv, phase = "ready"
    PROVE  /\ region_count \in Nat /\ region_count <= MAX_REGIONS
           /\ Slots = 0 .. region_count - 1
           /\ regions \in [0 .. region_count - 1 -> Region]
           /\ Positive(regions, region_count) /\ Ordered(regions, region_count)
           /\ Backs(regions, region_count, held)
           /\ held \subseteq [base : Nat, count : Counts] /\ dirty \subseteq Nat
BY BacksFromHeld DEF IInv, TypeOK, Slots, RegionsDisjoint

(* A slot handed out whole: it alone becomes used.                         *)
LEMMA TakenTable ==
    ASSUME NEW n \in Nat, NEW tab \in [0 .. n - 1 -> Region], NEW k \in 0 .. n - 1,
           tab[k].is_free, Positive(tab, n), Ordered(tab, n)
    PROVE  LET new == Taken(tab, k)
           IN  /\ new \in [0 .. n - 1 -> Region] /\ Positive(new, n) /\ Ordered(new, n)
               /\ \A b, l : UsedAt(new, n, b, l)
                     <=> UsedAt(tab, n, b, l) \/ (b = tab[k].base /\ l = tab[k].len)
<1> DEFINE new == Taken(tab, k)
<1>1. new \in [0 .. n - 1 -> Region]
  BY DEF Taken, Region
<1>2. \A m \in 0 .. n - 1 : /\ new[m].base = tab[m].base /\ new[m].len = tab[m].len
                            /\ m # k => new[m] = tab[m]
  BY DEF Taken, Region
<1>3. ~new[k].is_free
  BY DEF Taken, Region
<1> HIDE DEF new
<1>4. Positive(new, n) /\ Ordered(new, n)
  BY <1>2 DEF Positive, Ordered, End
<1>5. ASSUME NEW b, NEW l
      PROVE  UsedAt(new, n, b, l) <=> UsedAt(tab, n, b, l) \/ (b = tab[k].base /\ l = tab[k].len)
  <2>1. ASSUME UsedAt(new, n, b, l)
        PROVE  UsedAt(tab, n, b, l) \/ (b = tab[k].base /\ l = tab[k].len)
    <3>1. PICK m \in 0 .. n - 1 : ~new[m].is_free /\ new[m].base = b /\ new[m].len = l
      BY <2>1 DEF UsedAt
    <3> QED BY <3>1, <1>2 DEF UsedAt
  <2>2. ASSUME UsedAt(tab, n, b, l) PROVE UsedAt(new, n, b, l)
    <3>1. PICK m \in 0 .. n - 1 : ~tab[m].is_free /\ tab[m].base = b /\ tab[m].len = l
      BY <2>2 DEF UsedAt
    <3>2. m # k  BY <3>1
    <3> QED BY <3>1, <3>2, <1>2 DEF UsedAt
  <2>3. UsedAt(new, n, tab[k].base, tab[k].len)
    BY <1>2, <1>3 DEF UsedAt
  <2> QED BY <2>1, <2>2, <2>3
<1> QED BY <1>1, <1>4, <1>5 DEF new

(* The new allocation joins the held ones; its base is not 0.              *)
LEMMA ReturnHeld ==
    ASSUME NEW count \in Counts, NEW base \in Nat, base > 0,
           held \subseteq [base : Nat, count : Counts], dirty \subseteq Nat,
           Return(base, count)
    PROVE  /\ \A b, l : (\E h \in held' : h.base = b /\ Size(h.count) = l)
                 <=> (\E h \in held : h.base = b /\ Size(h.count) = l)
                     \/ (b = base /\ l = Size(count))
           /\ held' \subseteq [base : Nat, count : Counts] /\ dirty' \subseteq Nat
<1>1. held' = held \cup {[base |-> base, count |-> count]}
  BY DEF Return
<1>2. ASSUME NEW b, NEW l
      PROVE  (\E h \in held' : h.base = b /\ Size(h.count) = l)
                 <=> (\E h \in held : h.base = b /\ Size(h.count) = l)
                     \/ (b = base /\ l = Size(count))
  <2> DEFINE a == [base |-> base, count |-> count]
  <2>1. a.base = base /\ Size(a.count) = Size(count)  OBVIOUS
  <2> HIDE DEF a
  <2>2. \A h : h \in held' <=> h \in held \/ h = a
    BY <1>1 DEF a
  <2> QED BY <2>1, <2>2
<1>3. dirty' \subseteq Nat
  BY DEF Return
<1> QED BY <1>1, <1>2, <1>3

LEMMA AllocPreserves == ASSUME NEW count \in Counts PROVE IInv /\ Alloc(count) => IInv'
<1> SUFFICES ASSUME IInv, Alloc(count) PROVE IInv'  OBVIOUS
<1> DEFINE n == region_count
<1>1. phase = "ready"  BY DEF Alloc
<1>2. CASE AllocTableFull(count) \/ AllocNoFit(count)
  <2>1. UNCHANGED vars  BY <1>2 DEF AllocTableFull, AllocNoFit
  <2> QED BY <2>1 DEF vars, IInv, TypeOK, Slots, Collecting, Sorting, ApartFromRest,
                      RegionsDisjoint, UsedIsHeld, Matches
<1>3. CASE AllocExact(count)
  <2>1. PICK k \in Slots :
           /\ FirstFit(k, Size(count)) /\ regions[k].len = Size(count)
           /\ regions' = Taken(regions, k)
           /\ Return(regions[k].base, count)
           /\ UNCHANGED <<memmap, loop, region_count>>
    BY <1>3 DEF AllocExact
  <2>2. k \in 0 .. n - 1 /\ regions[k].is_free
    BY <2>1, <1>1, ReadyFacts DEF FirstFit, Fits
  <2>3. regions[k].base \in Nat /\ regions[k].base > 0
    BY <2>2, <1>1, ReadyFacts DEF Region, Positive
  <2>4. /\ regions' \in [0 .. n - 1 -> Region] /\ Positive(regions', n) /\ Ordered(regions', n)
        /\ \A b, l : UsedAt(regions', n, b, l)
              <=> UsedAt(regions, n, b, l) \/ (b = regions[k].base /\ l = regions[k].len)
    BY <2>1, <2>2, <1>1, ReadyFacts, TakenTable
  <2>5. \A b, l : UsedAt(regions', n, b, l)
              <=> (\E a \in held : a.base = b /\ Size(a.count) = l)
                  \/ (b = regions[k].base /\ l = Size(count))
    BY <2>1, <2>4, <1>1, ReadyFacts DEF Backs
  <2>6. /\ Backs(regions', n, held')
        /\ held' \subseteq [base : Nat, count : Counts] /\ dirty' \subseteq Nat
    <3>1. held \subseteq [base : Nat, count : Counts] /\ dirty \subseteq Nat
      BY <1>1, ReadyFacts
    <3>2. Return(regions[k].base, count)  BY <2>1
    <3>3. /\ \A b, l : (\E h \in held' : h.base = b /\ Size(h.count) = l)
                 <=> (\E h \in held : h.base = b /\ Size(h.count) = l)
                     \/ (b = regions[k].base /\ l = Size(count))
          /\ held' \subseteq [base : Nat, count : Counts] /\ dirty' \subseteq Nat
      BY <3>1, <3>2, <2>3, ReturnHeld
    <3> QED BY <3>3, <2>5 DEF Backs
  <2>7. region_count' = n /\ n \in 0 .. MAX_REGIONS /\ UNCHANGED <<memmap, loop>>
    BY <2>1, <1>1, ReadyFacts, PageAssumption
  <2>8. UsedIsHeld'  BY <2>6, <2>7, HeldNext
  <2> QED BY <2>4, <2>6, <2>7, <2>8, <1>1, ReadyNext
<1>4. CASE AllocSplit(count)
  <2>1. PICK k \in Slots :
           /\ FirstFit(k, Size(count)) /\ regions[k].len # Size(count)
           /\ n < MAX_REGIONS
           /\ regions' = Split(regions, n, k, Size(count))
           /\ region_count' = n + 1
           /\ Return(regions[k].base, count)
           /\ UNCHANGED <<memmap, loop>>
    BY <1>4 DEF AllocSplit
  <2>2. /\ k \in 0 .. n - 1 /\ regions[k].is_free /\ n \in Nat
        /\ regions \in [0 .. n - 1 -> Region] /\ (n + 1) - 1 = n
    BY <2>1, <1>1, ReadyFacts DEF FirstFit, Fits
  <2>3. regions[k].base \in Nat /\ regions[k].base > 0 /\ regions[k].len \in Nat
    BY <2>2, <1>1, ReadyFacts DEF Region, Positive
  <2>4. Size(count) \in Nat /\ 0 < Size(count) /\ Size(count) < regions[k].len
    <3>1. regions[k].len >= Size(count)  BY <2>1 DEF FirstFit, Fits
    <3> QED BY <3>1, <2>1, <2>3, SizePositive
  <2>5. /\ regions' \in [0 .. n -> Region] /\ Positive(regions', n + 1)
        /\ Ordered(regions', n + 1)
    BY <2>1, <2>2, <2>4, <1>1, ReadyFacts, SplitTable
  <2>6. \A b, l : UsedAt(regions', n + 1, b, l)
              <=> UsedAt(regions, n, b, l) \/ (b = regions[k].base /\ l = Size(count))
    <3>1. regions' = Split(regions, n, k, Size(count))  BY <2>1
    <3> HIDE DEF n
    <3>2. ASSUME NEW b, NEW l
          PROVE  UsedAt(Split(regions, n, k, Size(count)), n + 1, b, l)
                   <=> UsedAt(regions, n, b, l) \/ (b = regions[k].base /\ l = Size(count))
      BY <2>2, <2>4, SplitUsed
    <3> QED BY <3>1, <3>2
  <2>7. \A b, l : UsedAt(regions', n + 1, b, l)
              <=> (\E a \in held : a.base = b /\ Size(a.count) = l)
                  \/ (b = regions[k].base /\ l = Size(count))
    BY <2>6, <1>1, ReadyFacts DEF Backs
  <2>8. /\ Backs(regions', n + 1, held')
        /\ held' \subseteq [base : Nat, count : Counts] /\ dirty' \subseteq Nat
    <3>1. held \subseteq [base : Nat, count : Counts] /\ dirty \subseteq Nat
      BY <1>1, ReadyFacts
    <3>2. Return(regions[k].base, count)  BY <2>1
    <3>3. /\ \A b, l : (\E h \in held' : h.base = b /\ Size(h.count) = l)
                 <=> (\E h \in held : h.base = b /\ Size(h.count) = l)
                     \/ (b = regions[k].base /\ l = Size(count))
          /\ held' \subseteq [base : Nat, count : Counts] /\ dirty' \subseteq Nat
      BY <3>1, <3>2, <2>3, ReturnHeld
    <3> QED BY <3>3, <2>7 DEF Backs
  <2>9. n + 1 \in 0 .. MAX_REGIONS
    BY <2>1, <2>2, PageAssumption
  <2>10. UsedIsHeld'  BY <2>1, <2>8, HeldNext
  <2> QED BY <2>1, <2>2, <2>5, <2>8, <2>9, <2>10, <1>1, ReadyNext
<1> QED BY <1>2, <1>3, <1>4 DEF Alloc

(* Freeing a held allocation frees its slot and no other; freeing anything *)
(* else matches at most a free slot.                                       *)
LEMMA FreePreserves ==
    ASSUME NEW base \in Nat, NEW count \in Counts, IInv, Free(base, count),
           held' = held \ {[base |-> base, count |-> count]}
    PROVE  IInv'
<1> DEFINE n == region_count
           a == [base |-> base, count |-> count]
<1>1. phase = "ready"  BY DEF Free
<1>2. held' \subseteq [base : Nat, count : Counts]
  BY <1>1, ReadyFacts
<1>3. CASE FreeInvalid(base, count)
  <2>1. ~UsedAt(regions, n, base, Size(count))
    BY <1>3, <1>1, ReadyFacts DEF FreeInvalid, Matches, UsedAt
  <2>2. a \notin held
    BY <2>1, <1>1, ReadyFacts DEF Backs
  <2>3. UNCHANGED <<memmap, loop, regions, region_count, held, dirty>>
    BY <2>2, <1>3 DEF FreeInvalid, table
  <2> QED BY <2>3 DEF loop, IInv, TypeOK, Slots, Collecting, Sorting, ApartFromRest,
                      RegionsDisjoint, UsedIsHeld, Matches
<1>4. CASE FreeMatch(base, count)
  <2>1. PICK k \in Slots :
           /\ Matches(k, base, count)
           /\ regions' = FreedTable(regions, n, k).tab
           /\ region_count' = FreedTable(regions, n, k).n
           /\ UNCHANGED <<memmap, loop, dirty>>
    BY <1>4 DEF FreeMatch
  <2>2. k \in 0 .. n - 1 /\ n \in Nat /\ regions[k].base = base /\ regions[k].len = Size(count)
    BY <2>1, <1>1, ReadyFacts DEF Matches
  <2>3. /\ region_count' \in 0 .. n /\ regions' \in [0 .. region_count' - 1 -> Region]
        /\ Positive(regions', region_count') /\ Ordered(regions', region_count')
        /\ \A b, l : UsedAt(regions', region_count', b, l)
                        <=> UsedAt(regions, n, b, l) /\ b # base
    BY <2>1, <2>2, <1>1, ReadyFacts, FreedTableOK
  <2>4. \A h \in held : h.base = base => h = a
    <3> SUFFICES ASSUME NEW h \in held, h.base = base PROVE h.count = count
      BY <1>1, ReadyFacts
    <3>1. UsedAt(regions, n, base, Size(h.count))
      BY <1>1, ReadyFacts DEF Backs
    <3>2. PICK m \in 0 .. n - 1 : regions[m].base = base /\ regions[m].len = Size(h.count)
      BY <3>1 DEF UsedAt
    <3>3. m = k  BY <3>2, <2>2, <1>1, ReadyFacts, BasesDiffer
    <3>4. h.count \in Counts  BY <1>1, ReadyFacts
    <3> QED BY <3>2, <3>3, <3>4, <2>2, SizeInjective
  <2>5. Backs(regions', region_count', held')
    <3>1. ASSUME NEW b, NEW l
          PROVE  UsedAt(regions', region_count', b, l)
                   <=> \E h \in held' : h.base = b /\ Size(h.count) = l
      <4>1. UsedAt(regions, n, b, l) <=> \E h \in held : h.base = b /\ Size(h.count) = l
        BY <1>1, ReadyFacts DEF Backs
      <4>2. a.base = base  OBVIOUS
      <4> HIDE DEF a
      <4>3. \A h \in held : h \in held' <=> h.base # base
        BY <2>4, <4>2 DEF a
      <4>4. \A h \in held' : h \in held  OBVIOUS
      <4> QED BY <4>1, <4>3, <4>4, <2>3
    <3> QED BY <3>1 DEF Backs
  <2>6. region_count' \in 0 .. MAX_REGIONS /\ dirty' \subseteq Nat
    BY <2>1, <2>2, <2>3, <1>1, ReadyFacts, PageAssumption
  <2>7. UsedIsHeld'  BY <2>5, HeldNext
  <2> QED BY <2>1, <2>3, <2>6, <2>7, <1>1, <1>2, ReadyNext
<1> QED BY <1>3, <1>4 DEF Free

LEMMA UsePreserves == ASSUME NEW a \in held PROVE IInv /\ Use(a) => IInv'
<1> SUFFICES ASSUME IInv, Use(a) PROVE IInv'  OBVIOUS
<1>1. a.base \in Nat /\ Size(a.count) \in Nat
  BY SizePositive DEF IInv, TypeOK
<1>2. dirty' \subseteq Nat
  <2>1. Extent(a) \subseteq Nat  BY <1>1 DEF Extent
  <2> QED BY <2>1 DEF IInv, TypeOK, Use
<1>3. UNCHANGED <<memmap, loop, table, held>>
  BY DEF Use
<1> QED BY <1>2, <1>3 DEF loop, table, IInv, TypeOK, Slots, Collecting, Sorting, ApartFromRest,
                          RegionsDisjoint, UsedIsHeld, Matches

(* The invariant is inductive.                                             *)
THEOREM Inductive == Spec => []IInv
<1>1. ASSUME IInv, [Next]_vars PROVE IInv'
  <2>1. CASE InitStep
    BY <2>1, <1>1, CollectPreserves, CollectEndPreserves, ComparePreserves, NextPassPreserves,
       SortEndPreserves, MergePreserves DEF InitStep
  <2>2. ASSUME NEW count \in Counts, Alloc(count) PROVE IInv'
    BY <2>2, <1>1, AllocPreserves
  <2>3. ASSUME NEW a \in held, FreeHeld(a) PROVE IInv'
    <3>1. /\ a.base \in Nat /\ a.count \in Counts
          /\ a = [base |-> a.base, count |-> a.count]
      BY <1>1 DEF IInv, TypeOK
    <3>2. Free(a.base, a.count) /\ held' = held \ {[base |-> a.base, count |-> a.count]}
      BY <2>3, <3>1 DEF FreeHeld
    <3> QED BY <3>1, <3>2, <1>1, FreePreserves
  <2>4. ASSUME NEW a \in held, Use(a) PROVE IInv'
    BY <2>4, <1>1, UsePreserves
  <2>5. ASSUME NEW base \in StrayBases, NEW count \in Counts, FreeStray(base, count) PROVE IInv'
    <3>1. base \in Nat /\ Free(base, count) /\ held' = held \ {[base |-> base, count |-> count]}
      BY <2>5, CallAssumption DEF FreeStray
    <3> QED BY <3>1, <1>1, FreePreserves
  <2>6. CASE UNCHANGED vars
    BY <2>6, <1>1 DEF vars, IInv, TypeOK, Slots, Collecting, Sorting, ApartFromRest,
                      RegionsDisjoint, UsedIsHeld, Matches
  <2> QED BY <2>1, <2>2, <2>3, <2>4, <2>5, <2>6, <1>1 DEF Next, Overrun
<1> QED BY <1>1, InitIInv, PTL DEF Spec

-----------------------------------------------------------------------------
(***************************************************************************)
(* What callers of the allocator may rely on.                              *)
(***************************************************************************)
(* The table, its counters and the allocations keep their types: in        *)
(* particular the table never outgrows its MAX_REGIONS slots.              *)
THEOREM TypeCorrect == Spec => []TypeOK
<1>1. IInv => TypeOK  BY DEF IInv
<1> QED BY <1>1, Inductive, PTL

(* The regions of the table never share a byte.                            *)
THEOREM RegionsNeverOverlap == Spec => []RegionsDisjoint
<1>1. IInv => RegionsDisjoint  BY DEF IInv
<1> QED BY <1>1, Inductive, PTL

(* The used regions are the outstanding allocations, and only those.       *)
THEOREM UsedAreHeld == Spec => []UsedIsHeld
<1>1. IInv => UsedIsHeld  BY DEF IInv
<1> QED BY <1>1, Inductive, PTL

(* A held allocation is a used slot; it shares no byte with another slot.  *)
LEMMA HeldApart ==
    ASSUME IInv, phase = "ready", NEW a \in held, NEW k \in 0 .. region_count - 1,
           ~(~regions[k].is_free /\ regions[k].base = a.base
                               /\ regions[k].len = Size(a.count))
    PROVE  \/ a.base + Size(a.count) <= regions[k].base
           \/ regions[k].base + regions[k].len <= a.base
<1>1. UsedAt(regions, region_count, a.base, Size(a.count))
  BY ReadyFacts DEF Backs
<1>2. PICK m \in 0 .. region_count - 1 : /\ ~regions[m].is_free /\ regions[m].base = a.base
                                         /\ regions[m].len = Size(a.count)
  BY <1>1 DEF UsedAt
<1>3. m # k  BY <1>2
<1>4. m < k \/ k < m  BY <1>3, ReadyFacts
<1>5. /\ m < k => regions[m].base + regions[m].len <= regions[k].base
      /\ k < m => regions[k].base + regions[k].len <= regions[m].base
  BY ReadyFacts DEF Ordered, End
<1> QED BY <1>2, <1>4, <1>5

(* No byte of memory is ever owned by two callers.                         *)
THEOREM NoSharedPages == Spec => []HeldExclusive
<1>1. ASSUME IInv PROVE HeldExclusive
  <2> SUFFICES ASSUME NEW a \in held, NEW b \in held, a # b
               PROVE  Extent(a) \cap Extent(b) = {}
    BY DEF HeldExclusive
  <2>1. phase = "ready"  BY <1>1 DEF IInv
  <2>2. /\ a.base \in Nat /\ a.count \in Counts /\ a = [base |-> a.base, count |-> a.count]
        /\ b.base \in Nat /\ b.count \in Counts /\ b = [base |-> b.base, count |-> b.count]
    BY <1>1 DEF IInv, TypeOK
  <2>3. UsedAt(regions, region_count, b.base, Size(b.count))
    BY <1>1, <2>1, ReadyFacts DEF Backs
  <2>4. PICK k \in 0 .. region_count - 1 : regions[k].base = b.base /\ regions[k].len = Size(b.count)
    BY <2>3 DEF UsedAt
  <2>5. ~(regions[k].base = a.base /\ regions[k].len = Size(a.count))
    BY <2>2, <2>4, SizeInjective
  <2>6. \/ a.base + Size(a.count) <= b.base
        \/ b.base + Size(b.count) <= a.base
    BY <1>1, <2>1, <2>4, <2>5, HeldApart
  <2>7. Size(a.count) \in Nat /\ Size(b.count) \in Nat
    BY <2>2, SizePositive
  <2> QED BY <2>2, <2>6, <2>7 DEF Extent
<1> QED BY <1>1, Inductive, PTL

(* alloc_pages zeroes what it hands out, and wipes no data of another      *)
(* caller.                                                                 *)
THEOREM DataKept == Spec => HolderDataKept
<1> DEFINE Clean == \A a \in held' \ held : Extent(a) \cap dirty' = {}
           Kept == \A a \in held \cap held' : Extent(a) \cap dirty \subseteq dirty'
<1>1. ASSUME IInv, [Next]_vars PROVE [Kept]_vars
  <2>1. ASSUME NEW a \in held, NEW count \in Counts, Alloc(count)
        PROVE  Extent(a) \cap dirty \subseteq dirty'
    <3>1. phase = "ready"  BY <2>1 DEF Alloc
    <3>2. CASE AllocTableFull(count) \/ AllocNoFit(count)
      BY <3>2 DEF AllocTableFull, AllocNoFit, vars
    <3>3. ASSUME NEW k \in Slots, FirstFit(k, Size(count)), Return(regions[k].base, count)
          PROVE  Extent(a) \cap dirty \subseteq dirty'
      <4>1. /\ k \in 0 .. region_count - 1 /\ regions[k].is_free
            /\ regions[k].len >= Size(count)
        BY <3>1, <3>3, <1>1, ReadyFacts DEF FirstFit, Fits
      <4>2. regions[k].base \in Nat /\ regions[k].len \in Nat /\ Size(count) \in Nat
        BY <4>1, <3>1, <1>1, ReadyFacts, SizePositive DEF Region
      <4>3. \/ a.base + Size(a.count) <= regions[k].base
            \/ regions[k].base + regions[k].len <= a.base
        BY <4>1, <3>1, <1>1, HeldApart
      <4>4. a.base \in Nat /\ Size(a.count) \in Nat
        BY <1>1, SizePositive DEF IInv, TypeOK
      <4>5. Extent(a) \cap (regions[k].base .. regions[k].base + Size(count) - 1) = {}
        BY <4>1, <4>2, <4>3, <4>4 DEF Extent
      <4> QED BY <4>5, <3>3 DEF Return
    <3> QED BY <3>2, <3>3, <2>1 DEF Alloc, AllocExact, AllocSplit
  <2>2. ASSUME ~ \E count \in Counts : Alloc(count) PROVE dirty \subseteq dirty'
    BY <2>2, <1>1 DEF Next, InitStep, InitNoResponse, CollectEntry, CollectDone, SortUnderflow,
       SortCompare, SortNextPass, SortDone, MergeTouching, MergeSkip, MergeDone, FreeHeld,
       FreeStray, Free, FreeMatch, FreeInvalid, Use, Overrun, vars
  <2> QED BY <2>1, <2>2
<1>2. ASSUME IInv, [Next]_vars PROVE [Clean]_vars
  <2>1. ASSUME NEW count \in Counts, Alloc(count) PROVE [Clean]_vars
    <3>1. CASE AllocTableFull(count) \/ AllocNoFit(count)
      BY <3>1 DEF AllocTableFull, AllocNoFit, vars
    <3>2. ASSUME NEW base, Return(base, count) PROVE Clean
      <4>1. \A a \in held' \ held : a = [base |-> base, count |-> count]
        BY <3>2 DEF Return
      <4>2. \A a \in held' \ held : Extent(a) = base .. base + Size(count) - 1
        BY <4>1 DEF Extent
      <4> QED BY <4>2, <3>2 DEF Return
    <3> QED BY <3>1, <3>2, <2>1 DEF Alloc, AllocExact, AllocSplit
  <2>2. ASSUME ~ \E count \in Counts : Alloc(count) PROVE held' \subseteq held
    BY <2>2, <1>2 DEF Next, InitStep, InitNoResponse, CollectEntry, CollectDone, SortUnderflow,
       SortCompare, SortNextPass, SortDone, MergeTouching, MergeSkip, MergeDone, FreeHeld,
       FreeStray, Free, FreeMatch, FreeInvalid, Use, Overrun, vars
  <2> QED BY <2>1, <2>2
<1> QED BY <1>1, <1>2, Inductive, PTL DEF Spec, HolderDataKept
-----------------------------------------------------------------------------
(***************************************************************************)
(* Free regions that touch are one region.  The merge of init has dealt    *)
(* with the pairs of slots below i; a pair is named by its lower slot.     *)
(***************************************************************************)
Mergeable(tab, k) == Touch(tab[k], tab[k + 1]) /\ tab[k].is_free /\ tab[k + 1].is_free
NoneMergeable(tab, n) == \A m \in 0 .. n - 2 : ~Mergeable(tab, m)

CoalInv ==
    /\ phase = "merge" => \A m \in 0 .. region_count - 2 :
                              m < i => ~Touch(regions[m], regions[m + 1])
    /\ phase = "ready" => NoneMergeable(regions, region_count)

(* A pair of the table after Absorb was there before; a region that took   *)
(* over its neighbour, with a hole between them or not, touches no more    *)
(* than that neighbour did.                                                *)
LEMMA AbsorbPairs ==
    ASSUME NEW n \in Nat, NEW tab \in [0 .. n - 1 -> Region], NEW k \in 0 .. n - 2,
           Ordered(tab, n), tab[k + 1].is_free,
           NEW m \in 0 .. n - 3, Mergeable(Absorb(tab, n, k), m)
    PROVE  Mergeable(tab, IF m < k THEN m ELSE m + 1)
<1> DEFINE new == Absorb(tab, n, k)
<1>1. \A q \in 0 .. n - 1 : tab[q].base \in Nat /\ tab[q].len \in Nat
  BY DEF Region
<1>2. /\ \A q \in 0 .. n - 2 : q < k => new[q] = tab[q]
      /\ new[k].base = tab[k].base /\ new[k].len = tab[k].len + tab[k + 1].len
      /\ new[k].is_free = tab[k].is_free
      /\ \A q \in 0 .. n - 2 : q > k => new[q] = tab[q + 1]
  BY DEF Absorb
<1> HIDE DEF new
<1>3. new[m].base + new[m].len = new[m + 1].base /\ new[m].is_free /\ new[m + 1].is_free
  BY DEF Mergeable, Touch, End, new
<1>4. CASE m < k
  <2>1. m \in 0 .. n - 2 /\ m + 1 \in 0 .. n - 2 /\ (m + 1 < k \/ m + 1 = k)
    BY <1>4
  <2>2. new[m] = tab[m] /\ new[m + 1].base = tab[m + 1].base
        /\ new[m + 1].is_free = tab[m + 1].is_free
    BY <1>2, <1>4, <2>1
  <2> QED BY <1>3, <1>4, <2>2 DEF Mergeable, Touch, End
<1>5. CASE m > k
  <2>1. m \in 0 .. n - 2 /\ m + 1 \in 0 .. n - 2 /\ m + 1 > k
    BY <1>5
  <2>2. new[m] = tab[m + 1] /\ new[m + 1] = tab[(m + 1) + 1]
    BY <1>2, <1>5, <2>1
  <2> QED BY <1>3, <1>5, <2>2 DEF Mergeable, Touch, End
<1>6. CASE m = k
  <2>1. k + 1 \in 0 .. n - 2 /\ k + 1 > k /\ k \in 0 .. n - 1 /\ k + 1 \in 0 .. n - 1
        /\ (k + 1) + 1 \in 0 .. n - 1
    BY <1>6
  <2>2. new[k + 1] = tab[(k + 1) + 1]
    BY <1>2, <2>1
  <2>3. /\ tab[k].base + tab[k].len <= tab[k + 1].base
        /\ tab[k + 1].base + tab[k + 1].len <= tab[(k + 1) + 1].base
    BY <2>1 DEF Ordered, End
  <2>4. tab[k].base + (tab[k].len + tab[k + 1].len) = tab[(k + 1) + 1].base
    BY <1>2, <1>3, <1>6, <2>2
  <2>5. tab[k + 1].base + tab[k + 1].len = tab[(k + 1) + 1].base
    <3> DEFINE b0 == tab[k].base
               l0 == tab[k].len
               b1 == tab[k + 1].base
               l1 == tab[k + 1].len
               b2 == tab[(k + 1) + 1].base
    <3>1. /\ b0 \in Nat /\ l0 \in Nat /\ b1 \in Nat /\ l1 \in Nat /\ b2 \in Nat
          /\ b0 + l0 <= b1 /\ b1 + l1 <= b2 /\ b0 + (l0 + l1) = b2
      BY <1>1, <2>1, <2>3, <2>4
    <3> HIDE DEF b0, l0, b1, l1, b2
    <3>2. b1 + l1 = b2
      BY <3>1
    <3> QED BY <3>2 DEF b1, l1, b2
  <2>6. tab[(k + 1) + 1].is_free
    BY <1>3, <1>6, <2>2
  <2> QED BY <1>6, <2>5, <2>6 DEF Mergeable, Touch, End
<1> QED BY <1>4, <1>5, <1>6

(* free_pages leaves no pair to merge: the slot freed was the only one     *)
(* that could have made one, and both its neighbours are asked.            *)
LEMMA FreedTableCoalesced ==
    ASSUME NEW n \in Nat, NEW tab \in [0 .. n - 1 -> Region], NEW k \in 0 .. n - 1,
           Positive(tab, n), Ordered(tab, n), NoneMergeable(tab, n)
    PROVE  NoneMergeable(FreedTable(tab, n, k).tab, FreedTable(tab, n, k).n)
<1> DEFINE freed == Freed(tab, k)
           prev  == k > 0 /\ freed[k - 1].is_free
           k1    == IF prev THEN k - 1 ELSE k
           n1    == IF prev THEN n - 1 ELSE n
           tab1  == IF prev THEN Absorb(freed, n, k - 1) ELSE freed
           next  == k1 < n1 - 1 /\ tab1[k1 + 1].is_free
           tab2  == IF next THEN Absorb(tab1, n1, k1) ELSE tab1
           n2    == IF next THEN n1 - 1 ELSE n1
<1>1. /\ freed \in [0 .. n - 1 -> Region] /\ Positive(freed, n) /\ Ordered(freed, n)
      /\ freed[k].is_free
  BY FreedOnly
<1>2. ASSUME NEW m \in 0 .. n - 2, m # k - 1, m # k
      PROVE  ~Mergeable(freed, m)
  <2>1. freed[m] = tab[m] /\ freed[m + 1] = tab[m + 1]
    BY <1>2 DEF Freed
  <2> HIDE DEF freed
  <2> QED BY <2>1 DEF NoneMergeable, Mergeable
<1> HIDE DEF freed
<1>3. /\ n1 \in Nat /\ k1 \in 0 .. n1 - 1 /\ tab1 \in [0 .. n1 - 1 -> Region]
      /\ Ordered(tab1, n1) /\ \A m \in 0 .. n1 - 2 : m # k1 => ~Mergeable(tab1, m)
  <2>1. CASE prev
    <3>1. k - 1 \in 0 .. n - 2 /\ freed[k - 1].is_free /\ freed[(k - 1) + 1].is_free
          /\ n - 1 \in Nat /\ (n - 1) - 1 = n - 2 /\ (n - 1) - 2 = n - 3
      BY <2>1, <1>1
    <3>2. n1 = n - 1 /\ k1 = k - 1 /\ tab1 = Absorb(freed, n, k - 1)
      BY <2>1
    <3>3. tab1 \in [0 .. n - 2 -> Region] /\ Ordered(tab1, n - 1)
      BY <3>1, <3>2, <1>1, AbsorbFree
    <3> HIDE DEF tab1, n1, k1
    <3>4. ASSUME NEW m \in 0 .. n - 3, m # k - 1, Mergeable(tab1, m) PROVE FALSE
      <4>1. Mergeable(freed, IF m < k - 1 THEN m ELSE m + 1)
        BY <3>1, <3>2, <3>4, <1>1, AbsorbPairs
      <4>2. CASE m < k - 1
        BY <4>1, <4>2, <1>2
      <4>3. CASE m > k - 1
        <5>1. m + 1 \in 0 .. n - 2 /\ m + 1 # k - 1 /\ m + 1 # k
          BY <4>3
        <5> QED BY <4>1, <4>3, <5>1, <1>2
      <4> QED BY <3>4, <4>2, <4>3
    <3> QED BY <3>1, <3>2, <3>3, <3>4
  <2>2. CASE ~prev
    <3>1. ASSUME NEW m \in 0 .. n - 2, m # k PROVE ~Mergeable(freed, m)
      <4>1. CASE m = k - 1
        <5>1. ~freed[m].is_free  BY <2>2, <4>1
        <5> QED BY <5>1 DEF Mergeable
      <4> QED BY <3>1, <4>1, <1>2
    <3>2. n1 = n /\ k1 = k /\ tab1 = freed  BY <2>2
    <3> HIDE DEF tab1, n1, k1
    <3> QED BY <1>1, <3>1, <3>2
  <2> QED BY <2>1, <2>2
<1> HIDE DEF tab1, n1, k1
<1>4. NoneMergeable(tab2, n2)
  <2>1. CASE next
    <3>1. k1 \in 0 .. n1 - 2 /\ tab1[k1 + 1].is_free /\ (n1 - 1) - 2 = n1 - 3
      BY <2>1, <1>3
    <3>2. n2 = n1 - 1 /\ tab2 = Absorb(tab1, n1, k1)  BY <2>1
    <3> HIDE DEF tab2, n2
    <3>3. ASSUME NEW m \in 0 .. n1 - 3, Mergeable(tab2, m) PROVE FALSE
      <4>1. Mergeable(tab1, IF m < k1 THEN m ELSE m + 1)
        BY <3>1, <3>2, <3>3, <1>3, AbsorbPairs
      <4>2. (IF m < k1 THEN m ELSE m + 1) \in 0 .. n1 - 2
            /\ (IF m < k1 THEN m ELSE m + 1) # k1
        <5>1. CASE m < k1
          <6>1. m \in 0 .. n1 - 2 /\ m # k1
            BY <3>1, <5>1, <1>3
          <6> QED BY <5>1, <6>1
        <5>2. CASE ~(m < k1)
          <6>1. m + 1 \in 0 .. n1 - 2 /\ m + 1 # k1
            BY <3>1, <5>2, <1>3
          <6> QED BY <5>2, <6>1
        <5> QED BY <5>1, <5>2
      <4> QED BY <4>1, <4>2, <1>3
    <3> QED BY <3>1, <3>2, <3>3 DEF NoneMergeable
  <2>2. CASE ~next
    <3>1. n2 = n1 /\ tab2 = tab1  BY <2>2
    <3>2. k1 \in 0 .. n1 - 2 => ~Mergeable(tab1, k1)
      BY <2>2, <1>3 DEF Mergeable
    <3> HIDE DEF tab2, n2
    <3> QED BY <1>3, <3>1, <3>2 DEF NoneMergeable
  <2> QED BY <2>1, <2>2
<1>5. FreedTable(tab, n, k).tab = tab2 /\ FreedTable(tab, n, k).n = n2
  BY DEF FreedTable, freed, tab1, n1, k1
<1> HIDE DEF tab2, n2
<1> QED BY <1>4, <1>5

(* alloc_pages: the rest of a split region ends where the whole did.       *)
LEMMA SplitCoalesced ==
    ASSUME NEW n \in Nat, NEW tab \in [0 .. n - 1 -> Region], NEW k \in 0 .. n - 1,
           NEW sz \in Nat, tab[k].is_free, NoneMergeable(tab, n)
    PROVE  NoneMergeable(Split(tab, n, k, sz), n + 1)
<1> DEFINE new == Split(tab, n, k, sz)
<1>1. \A q \in 0 .. n - 1 : tab[q].base \in Nat /\ tab[q].len \in Nat
  BY DEF Region
<1>2. /\ \A q \in 0 .. n : q < k => new[q] = tab[q]
      /\ ~new[k].is_free
      /\ new[k + 1].base = tab[k].base + sz /\ new[k + 1].len = tab[k].len - sz
      /\ \A q \in 0 .. n : q > k + 1 => new[q] = tab[q - 1]
  BY DEF Split
<1> HIDE DEF new
<1>3. ASSUME NEW m \in 0 .. n - 1, Mergeable(new, m) PROVE FALSE
  <2>1. new[m].base + new[m].len = new[m + 1].base /\ new[m].is_free /\ new[m + 1].is_free
    BY <1>3 DEF Mergeable, Touch, End
  <2>2. m # k /\ m + 1 # k
    BY <1>2, <2>1
  <2>3. CASE m + 1 < k
    <3>1. new[m] = tab[m] /\ new[m + 1] = tab[m + 1] /\ m \in 0 .. n - 2
      BY <1>2, <2>3
    <3> QED BY <2>1, <3>1 DEF NoneMergeable, Mergeable, Touch, End
  <2>4. CASE m = k + 1
    <3>1. new[m + 1] = tab[k + 1] /\ k \in 0 .. n - 2
      BY <1>2, <2>4
    <3>2. tab[k].base + tab[k].len = tab[k + 1].base
      BY <1>1, <1>2, <2>1, <2>4, <3>1
    <3> QED BY <2>1, <3>1, <3>2 DEF NoneMergeable, Mergeable, Touch, End
  <2>5. CASE m > k + 1
    <3>1. new[m] = tab[m - 1] /\ new[m + 1] = tab[m] /\ m - 1 \in 0 .. n - 2 /\ (m - 1) + 1 = m
      BY <1>2, <2>5
    <3> QED BY <2>1, <3>1 DEF NoneMergeable, Mergeable, Touch, End
  <2> QED BY <2>2, <2>3, <2>4, <2>5
<1>4. (n + 1) - 2 = n - 1
  OBVIOUS
<1> QED BY <1>3, <1>4 DEF NoneMergeable, new

LEMMA TakenCoalesced ==
    ASSUME NEW n \in Nat, NEW tab \in [0 .. n - 1 -> Region], NEW k \in 0 .. n - 1,
           NoneMergeable(tab, n)
    PROVE  NoneMergeable(Taken(tab, k), n)
<1> DEFINE new == Taken(tab, k)
<1>1. \A m \in 0 .. n - 1 : /\ new[m].base = tab[m].base /\ new[m].len = tab[m].len
                            /\ new[m].is_free => tab[m].is_free
  BY DEF Taken, Region
<1> HIDE DEF new
<1>2. ASSUME NEW m \in 0 .. n - 2, Mergeable(new, m) PROVE Mergeable(tab, m)
  <2>1. m \in 0 .. n - 1 /\ m + 1 \in 0 .. n - 1
    OBVIOUS
  <2> QED BY <1>1, <1>2, <2>1 DEF Mergeable, Touch, End
<1> QED BY <1>2 DEF NoneMergeable, new

LEMMA CoalInit == IInv /\ CoalInv /\ InitStep => CoalInv'
<1> SUFFICES ASSUME IInv, CoalInv, InitStep PROVE CoalInv'  OBVIOUS
<1> DEFINE n == region_count
<1>1. n \in Nat /\ i \in Nat /\ regions \in [0 .. n - 1 -> Region]
  BY DEF IInv, TypeOK, Slots
<1>2. CASE InitNoResponse
  <2>1. phase' = "ready" /\ region_count' = 0 /\ regions' = regions
    BY <1>2 DEF InitNoResponse, table, IInv, Collecting
  <2> QED BY <2>1 DEF CoalInv, NoneMergeable
<1>3. CASE CollectEntry \/ CollectDone \/ SortUnderflow \/ SortCompare \/ SortNextPass
  <2>1. phase' \notin {"merge", "ready"}
    BY <1>3 DEF CollectEntry, CollectDone, SortUnderflow, SortCompare, SortNextPass
  <2> QED BY <2>1 DEF CoalInv
<1>4. CASE SortDone
  <2>1. phase' = "merge" /\ i' = 0 /\ regions' = regions /\ region_count' = n
    BY <1>4 DEF SortDone, table
  <2> QED BY <2>1 DEF CoalInv
<1>5. CASE MergeTouching
  <2>1. /\ phase = "merge" /\ phase' = "merge" /\ i' = i /\ i \in 0 .. n - 2
        /\ regions' = Absorb(regions, n, i) /\ region_count' = n - 1
    BY <1>1, <1>5 DEF MergeTouching, loop
  <2> HIDE DEF n
  <2>2. ASSUME NEW m \in 0 .. n - 3, m < i
        PROVE  ~Touch(regions'[m], regions'[m + 1])
    <3>1. regions'[m] = regions[m] /\ regions'[m + 1].base = regions[m + 1].base
      BY <1>1, <2>1, <2>2 DEF Absorb
    <3>2. ~Touch(regions[m], regions[m + 1])
      <4>1. m \in 0 .. n - 2
        BY <1>1, <2>2
      <4> QED BY <2>1, <2>2, <4>1 DEF CoalInv, n
    <3> QED BY <3>1, <3>2 DEF Touch, End
  <2>3. (n - 1) - 2 = n - 3
    BY <1>1
  <2> QED BY <2>1, <2>2, <2>3 DEF CoalInv
<1>6. CASE MergeSkip
  <2>1. /\ phase = "merge" /\ phase' = "merge" /\ i' = i + 1 /\ ~Touch(regions[i], regions[i + 1])
        /\ regions' = regions /\ region_count' = n
    BY <1>6 DEF MergeSkip, table
  <2>2. ASSUME NEW m \in 0 .. n - 2, m < i + 1
        PROVE  ~Touch(regions[m], regions[m + 1])
    <3>1. m < i \/ m = i
      BY <1>1, <2>2
    <3> QED BY <2>1, <3>1 DEF CoalInv
  <2> QED BY <2>1, <2>2 DEF CoalInv
<1>7. CASE MergeDone
  <2>1. /\ phase = "merge" /\ phase' = "ready" /\ i >= n - 1
        /\ regions' = regions /\ region_count' = n
    BY <1>7 DEF MergeDone, table
  <2>2. ASSUME NEW m \in 0 .. n - 2 PROVE ~Touch(regions[m], regions[m + 1])
    <3>1. m < i
      BY <1>1, <2>1
    <3> QED BY <2>1, <3>1 DEF CoalInv
  <2> QED BY <2>1, <2>2 DEF CoalInv, NoneMergeable, Mergeable
<1> QED BY <1>2, <1>3, <1>4, <1>5, <1>6, <1>7 DEF InitStep

LEMMA CoalReady ==
    ASSUME IInv, CoalInv, phase = "ready", phase' = "ready",
           \/ UNCHANGED table
           \/ \E k \in Slots :
                /\ regions' = FreedTable(regions, region_count, k).tab
                /\ region_count' = FreedTable(regions, region_count, k).n
           \/ \E k \in Slots : regions' = Taken(regions, k) /\ region_count' = region_count
           \/ \E k \in Slots, sz \in Nat :
                /\ regions[k].is_free /\ regions' = Split(regions, region_count, k, sz)
                /\ region_count' = region_count + 1
    PROVE  CoalInv'
<1> DEFINE n == region_count
<1>1. /\ n \in Nat /\ Slots = 0 .. n - 1 /\ regions \in [0 .. n - 1 -> Region]
      /\ Positive(regions, n) /\ Ordered(regions, n) /\ NoneMergeable(regions, n)
  BY ReadyFacts DEF CoalInv
<1>2. NoneMergeable(regions', region_count')
  BY <1>1, FreedTableCoalesced, TakenCoalesced, SplitCoalesced DEF table
<1> QED BY <1>2 DEF CoalInv

LEMMA CoalStep == IInv /\ CoalInv /\ [Next]_vars => CoalInv'
<1> SUFFICES ASSUME IInv, CoalInv, [Next]_vars PROVE CoalInv'  OBVIOUS
<1>1. CASE InitStep  BY <1>1, CoalInit
<1>2. ASSUME NEW count \in Counts, Alloc(count) PROVE CoalInv'
  <2>1. phase = "ready"  BY <1>2 DEF Alloc
  <2>2. Size(count) \in Nat  BY SizePositive
  <2>3. CASE AllocExact(count)
    BY <2>1, <2>3, CoalReady DEF AllocExact, loop
  <2>4. CASE AllocSplit(count)
    BY <2>1, <2>2, <2>4, CoalReady DEF AllocSplit, FirstFit, Fits, loop
  <2>5. CASE AllocTableFull(count) \/ AllocNoFit(count)
    BY <2>1, <2>5, CoalReady DEF AllocTableFull, AllocNoFit, vars, table
  <2> QED BY <1>2, <2>3, <2>4, <2>5 DEF Alloc
<1>3. ASSUME NEW base, NEW count, Free(base, count) PROVE CoalInv'
  BY <1>3, CoalReady DEF Free, FreeMatch, FreeInvalid, loop
<1>4. CASE UNCHANGED <<phase, i, regions, region_count>>
  BY <1>4 DEF CoalInv
<1>5. ASSUME NEW a \in held, FreeHeld(a) \/ Use(a) PROVE CoalInv'
  BY <1>3, <1>4, <1>5 DEF FreeHeld, Use, loop, table
<1>6. ASSUME NEW base \in StrayBases, NEW count \in Counts, FreeStray(base, count) PROVE CoalInv'
  BY <1>3, <1>6 DEF FreeStray
<1> QED BY <1>1, <1>2, <1>4, <1>5, <1>6 DEF Next, Overrun, vars

(* The pairs init has merged, and all pairs afterwards.                    *)
THEOREM CoalInductive == Spec => []CoalInv
<1>1. Init => CoalInv
  BY DEF Init, CoalInv
<1> QED BY <1>1, CoalStep, Inductive, PTL DEF Spec

(* Two free regions never touch, so that alloc_pages fails for want of     *)
(* memory only when no run is long enough: after init, and whatever        *)
(* alloc_pages splits and free_pages merges, on memory maps with holes and *)
(* after mistaken frees too.                                               *)
THEOREM FreeRegionsCoalesced == Spec => []Coalesced
<1>1. IInv /\ CoalInv => Coalesced
  <2> SUFFICES ASSUME IInv, CoalInv, phase = "ready", NEW k \in Slots, k + 1 \in Slots,
                      Touch(regions[k], regions[k + 1])
               PROVE  ~(regions[k].is_free /\ regions[k + 1].is_free)
    BY DEF Coalesced
  <2>1. k \in 0 .. region_count - 2
    BY DEF Slots, IInv, TypeOK
  <2> QED BY <2>1 DEF CoalInv, NoneMergeable, Mergeable
<1> QED BY <1>1, CoalInductive, Inductive, PTL

-----------------------------------------------------------------------------
(***************************************************************************)
(* Pages.  A byte of memory is usable when it lies between the aligned     *)
(* ends of a usable entry, which is what init makes a region of.           *)
(***************************************************************************)
LEMMA Multiples ==
    ASSUME NEW p \in Int, NEW q \in Int, p < q
    PROVE  PAGE_SIZE * p + PAGE_SIZE <= PAGE_SIZE * q
<1> DEFINE d == q - p - 1
<1>1. d \in Nat /\ q = p + 1 + d
  OBVIOUS
<1>2. PAGE_SIZE \in Nat
  BY PageAssumption
<1> HIDE DEF d
<1>3. PAGE_SIZE * d >= 0
  BY <1>1, <1>2
<1>4. PAGE_SIZE * (p + 1 + d) = PAGE_SIZE * p + PAGE_SIZE + PAGE_SIZE * d
  BY <1>1, <1>2
<1> QED BY <1>1, <1>2, <1>3, <1>4

(* RoundDown(a) is the largest multiple of the page size up to a.          *)
LEMMA RoundDownIs ==
    ASSUME NEW a \in Nat
    PROVE  /\ RoundDown(a) \in Nat /\ RoundDown(a) <= a /\ a < RoundDown(a) + PAGE_SIZE
           /\ \E q \in Nat : RoundDown(a) = PAGE_SIZE * q
           /\ \A q \in Nat : PAGE_SIZE * q <= a => PAGE_SIZE * q <= RoundDown(a)
<1>1. PAGE_SIZE \in Nat /\ PAGE_SIZE > 0
  BY PageAssumption
<1>2. RoundDown(a) \in Nat /\ RoundDown(a) <= a /\ a < RoundDown(a) + PAGE_SIZE
  BY <1>1 DEF RoundDown
<1>3. (a \div PAGE_SIZE) \in Nat /\ RoundDown(a) = PAGE_SIZE * (a \div PAGE_SIZE)
  BY <1>1 DEF RoundDown
<1>4. ASSUME NEW q \in Nat, PAGE_SIZE * q <= a PROVE PAGE_SIZE * q <= RoundDown(a)
  <2> DEFINE d == a \div PAGE_SIZE
  <2>1. d \in Nat /\ RoundDown(a) = PAGE_SIZE * d
    BY <1>3
  <2> HIDE DEF d
  <2>2. CASE d < q
    <3>1. PAGE_SIZE * d + PAGE_SIZE <= PAGE_SIZE * q
      BY <2>1, <2>2, Multiples
    <3>2. PAGE_SIZE * q \in Int /\ PAGE_SIZE * d \in Int
      BY <1>1, <2>1
    <3> QED BY <3>1, <3>2, <2>1, <1>1, <1>2, <1>4
  <2>3. CASE q <= d
    <3>1. q = d \/ q < d
      BY <2>1, <2>3
    <3>2. q < d => PAGE_SIZE * q + PAGE_SIZE <= PAGE_SIZE * d
      BY <2>1, Multiples
    <3>3. PAGE_SIZE * q \in Int /\ PAGE_SIZE * d \in Int
      BY <1>1, <2>1
    <3> QED BY <3>1, <3>2, <3>3, <2>1, <1>1
  <2> QED BY <2>1, <2>2, <2>3
<1> QED BY <1>2, <1>3, <1>4

(* The page of b lies in an entry when b lies between its aligned ends.    *)
LEMMA PageInside ==
    ASSUME NEW e \in Entry, NEW b \in Nat
    PROVE  Page(b) \subseteq EntryBytes(e) <=> AlignedBase(e) <= b /\ b < AlignedEnd(e)
<1> DEFINE P  == PAGE_SIZE
           d  == RoundDown(b)
           lo == e.base
           hi == e.base + e.length
           up == AlignedBase(e)
           dn == AlignedEnd(e)
<1>0. /\ e.base \in Nat /\ e.length \in Nat /\ e.base + e.length \in Nat
      /\ PAGE_SIZE \in Nat /\ PAGE_SIZE > 0 /\ e.base + PAGE_SIZE - 1 \in Nat
  BY PageAssumption DEF Entry
<1>1. P \in Nat /\ P > 0 /\ lo \in Nat /\ hi \in Nat /\ d \in Nat
  BY <1>0, RoundDownIs
<1>2. PICK qd \in Nat : d = P * qd
  BY RoundDownIs
<1>3. d <= b /\ b < d + P /\ \A q \in Nat : P * q <= b => P * q <= d
  BY RoundDownIs
<1>4. /\ up \in Nat /\ up <= lo + P - 1 /\ lo + P - 1 < up + P
      /\ \E q \in Nat : up = P * q
      /\ \A q \in Nat : P * q <= lo + P - 1 => P * q <= up
  <2>1. up = RoundDown(e.base + PAGE_SIZE - 1)
    BY DEF AlignedBase, RoundUp
  <2> HIDE DEF up
  <2> QED BY <2>1, <1>0, RoundDownIs
<1>5. PICK qu \in Nat : up = P * qu
  BY <1>4
<1>6. PICK qn \in Nat : dn = P * qn
  BY <1>0, RoundDownIs DEF AlignedEnd
<1>7. dn \in Nat /\ dn <= hi /\ hi < dn + P /\ \A q \in Nat : P * q <= hi => P * q <= dn
  BY <1>0, RoundDownIs DEF AlignedEnd
<1>8. Page(b) = d .. d + P - 1 /\ EntryBytes(e) = lo .. hi - 1
  BY <1>0, <1>1 DEF Page, EntryBytes
<1> HIDE DEF P, d, lo, hi, up, dn
<1>9. Page(b) \subseteq EntryBytes(e) <=> lo <= d /\ d + P <= hi
  <2>1. ASSUME Page(b) \subseteq EntryBytes(e) PROVE lo <= d /\ d + P <= hi
    <3>1. d \in d .. d + P - 1 /\ d + P - 1 \in d .. d + P - 1
      BY <1>1
    <3>2. d \in lo .. hi - 1 /\ d + P - 1 \in lo .. hi - 1
      BY <3>1, <2>1, <1>8
    <3> QED BY <3>2, <1>1
  <2>2. ASSUME lo <= d, d + P <= hi PROVE Page(b) \subseteq EntryBytes(e)
    <3>1. \A x \in d .. d + P - 1 : x \in lo .. hi - 1
      BY <2>2, <1>1
    <3> QED BY <3>1, <1>8
  <2> QED BY <2>1, <2>2
<1>10. lo <= d <=> up <= b
  <2>1. ASSUME lo <= d PROVE up <= b
    <3>1. ~(qd < qu)
      <4> SUFFICES ASSUME qd < qu PROVE FALSE
        OBVIOUS
      <4>1. P * qd + P <= P * qu
        BY Multiples DEF P
      <4> QED BY <4>1, <2>1, <1>1, <1>2, <1>5, <1>4
    <3>2. qu = qd \/ qu < qd
      BY <3>1
    <3>3. qu < qd => P * qu + P <= P * qd
      BY Multiples DEF P
    <3>4. up <= d
      BY <3>2, <3>3, <1>1, <1>2, <1>5, <1>4
    <3> QED BY <3>4, <1>1, <1>3, <1>4
  <2>2. ASSUME up <= b PROVE lo <= d
    <3>1. up <= d
      BY <2>2, <1>3, <1>5
    <3> QED BY <3>1, <1>1, <1>4
  <2> QED BY <2>1, <2>2
<1>11. d + P <= hi <=> b < dn
  <2>1. ASSUME d + P <= hi PROVE b < dn
    <3>1. P * (qd + 1) = d + P /\ qd + 1 \in Nat
      BY <1>1, <1>2
    <3>2. d + P <= dn
      BY <3>1, <2>1, <1>7
    <3> QED BY <3>2, <1>1, <1>3, <1>7
  <2>2. ASSUME b < dn PROVE d + P <= hi
    <3>1. ~(qn < qd) /\ qn # qd
      <4>1. d < dn
        BY <2>2, <1>1, <1>3, <1>7
      <4>2. qn < qd => P * qn + P <= P * qd
        BY Multiples DEF P
      <4> QED BY <4>1, <4>2, <1>1, <1>2, <1>6, <1>7
    <3>2. qd < qn
      BY <3>1
    <3>3. P * qd + P <= P * qn
      BY <3>2, Multiples DEF P
    <3> QED BY <3>3, <1>1, <1>2, <1>6, <1>7
  <2> QED BY <2>1, <2>2
<1> QED BY <1>9, <1>10, <1>11 DEF up, dn

(* Byte b lies in the region init makes of entry e.                        *)
Inside(e, b) == e.type = "usable" /\ AlignedBase(e) <= b /\ b < AlignedEnd(e)

(* Byte b is usable memory of one of the first n entries of the map.       *)
UsableUpTo(n, b) == \E m \in 1 .. n : Inside(memmap[m], b)

LEMMA UsableIs ==
    ASSUME memmap # NoResponse, memmap \in Seq(Entry)
    PROVE  /\ Usable \subseteq Nat
           /\ \A b \in Nat : b \in Usable <=> UsableUpTo(Len(memmap), b)
<1>1. DOMAIN memmap = 1 .. Len(memmap)
      /\ \A m \in DOMAIN memmap : /\ memmap[m] \in Entry
                                  /\ memmap[m].base \in Nat /\ memmap[m].length \in Nat
  BY MapEntries
<1>2. Mapped(memmap) \subseteq Nat
  BY <1>1 DEF Mapped, EntryBytes
<1>3. ASSUME NEW b \in Nat, NEW m \in DOMAIN memmap, Page(b) \subseteq EntryBytes(memmap[m])
      PROVE  b \in Mapped(memmap)
  <2>1. RoundDown(b) \in Nat /\ RoundDown(b) <= b /\ b < RoundDown(b) + PAGE_SIZE
    BY RoundDownIs
  <2>2. b \in Page(b)
    BY <2>1, PageAssumption DEF Page
  <2> QED BY <2>2, <1>3 DEF Mapped
<1>4. Usable = UsableBytes(memmap)
  BY DEF Usable
<1>5. ASSUME NEW b \in Nat
      PROVE  b \in Usable <=> \E m \in DOMAIN memmap :
                memmap[m].type = "usable" /\ Page(b) \subseteq EntryBytes(memmap[m])
  BY <1>3, <1>4 DEF UsableBytes
<1>6. \A b \in Nat, m \in DOMAIN memmap :
         Page(b) \subseteq EntryBytes(memmap[m])
            <=> AlignedBase(memmap[m]) <= b /\ b < AlignedEnd(memmap[m])
  BY <1>1, PageInside
<1>7. \A b \in Nat : b \in Usable <=> UsableUpTo(Len(memmap), b)
  BY <1>1, <1>5, <1>6 DEF UsableUpTo, Inside
<1> QED BY <1>2, <1>4, <1>7 DEF UsableBytes

-----------------------------------------------------------------------------
(***************************************************************************)
(* Which memory the table manages.  init collects exactly the usable pages *)
(* of the entries it has read, and neither the sort nor the merge gains or *)
(* loses a byte.  On a map without holes neighbouring slots touch, so that *)
(* alloc_pages and free_pages, which merges neighbours without asking      *)
(* whether they touch, do not gain or lose one either.                     *)
(***************************************************************************)
Covered(tab, n, b) == \E k \in 0 .. n - 1 : tab[k].base <= b /\ b < tab[k].base + tab[k].len

SameBytes(tab, n, new, p) == \A b \in Nat : Covered(new, p, b) <=> Covered(tab, n, b)

SpaceInv ==
    memmap # NoResponse /\ Len(memmap) <= MAX_REGIONS =>
        /\ phase = "collect" =>
              /\ i <= Len(memmap) /\ region_count <= i
              /\ \A b \in Nat : Covered(regions, region_count, b) <=> UsableUpTo(i, b)
        /\ phase \in {"sort", "merge"} \/ (phase = "ready" /\ NoHoles(memmap)) =>
              \A b \in Nat : Covered(regions, region_count, b) <=> UsableUpTo(Len(memmap), b)

(* Every slot ends where the next one begins.                              *)
Contiguous(tab, n) == \A k \in 0 .. n - 2 : Touch(tab[k], tab[k + 1])

(* A slot that absorbs a slot it touches.                                  *)
LEMMA AbsorbSpace ==
    ASSUME NEW n \in Nat, NEW tab \in [0 .. n - 1 -> Region], NEW k \in 0 .. n - 2,
           Touch(tab[k], tab[k + 1])
    PROVE  /\ SameBytes(tab, n, Absorb(tab, n, k), n - 1)
           /\ Contiguous(tab, n) => Contiguous(Absorb(tab, n, k), n - 1)
<1> DEFINE new == Absorb(tab, n, k)
<1>1. \A m \in 0 .. n - 1 : tab[m].base \in Nat /\ tab[m].len \in Nat
  BY DEF Region
<1>2. /\ \A m \in 0 .. n - 2 : m < k => new[m] = tab[m]
      /\ new[k].base = tab[k].base /\ new[k].len = tab[k].len + tab[k + 1].len
      /\ \A m \in 0 .. n - 2 : m > k => new[m] = tab[m + 1]
  BY DEF Absorb
<1>3. k \in 0 .. n - 1 /\ k + 1 \in 0 .. n - 1 /\ (n - 1) - 1 = n - 2 /\ (n - 1) - 2 = n - 3
  OBVIOUS
<1>4. tab[k].base + tab[k].len = tab[k + 1].base
  BY DEF Touch, End
<1>5. /\ tab[k].base \in Nat /\ tab[k].len \in Nat
      /\ tab[k + 1].base \in Nat /\ tab[k + 1].len \in Nat
  BY <1>1, <1>3
<1> HIDE DEF new
<1>6. ASSUME NEW b \in Nat, Covered(new, n - 1, b) PROVE Covered(tab, n, b)
  <2>1. PICK m \in 0 .. n - 2 : new[m].base <= b /\ b < new[m].base + new[m].len
    BY <1>3, <1>6 DEF Covered
  <2>2. CASE m < k
    BY <2>1, <2>2, <1>2 DEF Covered
  <2>3. CASE m > k
    <3>1. m + 1 \in 0 .. n - 1 /\ new[m] = tab[m + 1]
      BY <2>3, <1>2
    <3> QED BY <3>1, <2>1 DEF Covered
  <2>4. CASE m = k
    <3>1. tab[k].base <= b /\ b < tab[k].base + (tab[k].len + tab[k + 1].len)
      BY <2>1, <2>4, <1>2
    <3>2. \/ tab[k].base <= b /\ b < tab[k].base + tab[k].len
          \/ tab[k + 1].base <= b /\ b < tab[k + 1].base + tab[k + 1].len
      BY <3>1, <1>4, <1>5
    <3> QED BY <3>2, <1>3 DEF Covered
  <2> QED BY <2>2, <2>3, <2>4
<1>7. ASSUME NEW b \in Nat, Covered(tab, n, b) PROVE Covered(new, n - 1, b)
  <2>1. PICK m \in 0 .. n - 1 : tab[m].base <= b /\ b < tab[m].base + tab[m].len
    BY <1>7 DEF Covered
  <2>2. CASE m < k
    <3>1. m \in 0 .. n - 2 /\ new[m] = tab[m]
      BY <2>2, <1>2
    <3> QED BY <3>1, <2>1, <1>3 DEF Covered
  <2>3. CASE m > k + 1
    <3>1. m - 1 \in 0 .. n - 2 /\ m - 1 > k /\ (m - 1) + 1 = m
      BY <2>3
    <3>2. new[m - 1] = tab[m]
      BY <3>1, <1>2
    <3> QED BY <3>1, <3>2, <2>1, <1>3 DEF Covered
  <2>4. CASE m = k \/ m = k + 1
    <3>1. tab[k].base <= b /\ b < tab[k].base + (tab[k].len + tab[k + 1].len)
      BY <2>1, <2>4, <1>4, <1>5
    <3>2. new[k].base <= b /\ b < new[k].base + new[k].len
      BY <3>1, <1>2
    <3> QED BY <3>2, <1>3 DEF Covered
  <2> QED BY <2>2, <2>3, <2>4
<1>8. ASSUME Contiguous(tab, n), NEW m \in 0 .. n - 3 PROVE Touch(new[m], new[m + 1])
  <2>1. \A q \in 0 .. n - 2 : tab[q].base + tab[q].len = tab[q + 1].base
    BY <1>8 DEF Contiguous, Touch, End
  <2>2. CASE m < k
    <3>1. m \in 0 .. n - 2 /\ m + 1 \in 0 .. n - 2 /\ (m + 1 < k \/ m + 1 = k)
      BY <2>2
    <3>2. new[m] = tab[m] /\ new[m + 1].base = tab[m + 1].base
      BY <3>1, <2>2, <1>2
    <3> QED BY <3>1, <3>2, <2>1 DEF Touch, End
  <2>3. CASE m > k
    <3>1. m \in 0 .. n - 2 /\ m + 1 \in 0 .. n - 2 /\ m + 1 > k
      BY <2>3
    <3>2. new[m] = tab[m + 1] /\ new[m + 1] = tab[(m + 1) + 1]
      BY <3>1, <2>3, <1>2
    <3> QED BY <3>1, <3>2, <2>1 DEF Touch, End
  <2>4. CASE m = k
    <3>1. k + 1 \in 0 .. n - 2 /\ k + 1 > k
      BY <2>4
    <3>2. new[k + 1] = tab[(k + 1) + 1]
      BY <3>1, <1>2
    <3>3. tab[k + 1].base + tab[k + 1].len = tab[(k + 1) + 1].base
      BY <3>1, <2>1
    <3>4. new[k].base + new[k].len = tab[k + 1].base + tab[k + 1].len
      BY <1>2, <1>4, <1>5
    <3> QED BY <3>2, <3>3, <3>4, <2>4 DEF Touch, End
  <2> QED BY <2>2, <2>3, <2>4
<1> QED BY <1>3, <1>6, <1>7, <1>8 DEF SameBytes, Contiguous, new

(* A slot that is split.                                                   *)
LEMMA SplitSpace ==
    ASSUME NEW n \in Nat, NEW tab \in [0 .. n - 1 -> Region], NEW k \in 0 .. n - 1,
           NEW sz \in Nat, sz < tab[k].len
    PROVE  SameBytes(tab, n, Split(tab, n, k, sz), n + 1)
<1> DEFINE new == Split(tab, n, k, sz)
<1>1. tab[k].base \in Nat /\ tab[k].len \in Nat /\ (n + 1) - 1 = n
  BY DEF Region
<1>2. /\ \A m \in 0 .. n : m < k => new[m] = tab[m]
      /\ new[k].base = tab[k].base /\ new[k].len = sz
      /\ new[k + 1].base = tab[k].base + sz /\ new[k + 1].len = tab[k].len - sz
      /\ \A m \in 0 .. n : m > k + 1 => new[m] = tab[m - 1]
  BY DEF Split
<1> HIDE DEF new
<1>3. ASSUME NEW b \in Nat, Covered(new, n + 1, b) PROVE Covered(tab, n, b)
  <2>1. PICK m \in 0 .. n : new[m].base <= b /\ b < new[m].base + new[m].len
    BY <1>1, <1>3 DEF Covered
  <2>2. CASE m < k
    BY <2>1, <2>2, <1>2 DEF Covered
  <2>3. CASE m > k + 1
    <3>1. m - 1 \in 0 .. n - 1 /\ new[m] = tab[m - 1]
      BY <2>3, <1>2
    <3> QED BY <3>1, <2>1 DEF Covered
  <2>4. CASE m = k \/ m = k + 1
    <3>1. \/ new[k].base <= b /\ b < new[k].base + new[k].len
          \/ new[k + 1].base <= b /\ b < new[k + 1].base + new[k + 1].len
      BY <2>1, <2>4
    <3>2. \/ tab[k].base <= b /\ b < tab[k].base + sz
          \/ tab[k].base + sz <= b /\ b < (tab[k].base + sz) + (tab[k].len - sz)
      BY <3>1, <1>2
    <3>3. tab[k].base <= b /\ b < tab[k].base + tab[k].len
      BY <3>2, <1>1
    <3> QED BY <3>3 DEF Covered
  <2> QED BY <2>2, <2>3, <2>4
<1>4. ASSUME NEW b \in Nat, Covered(tab, n, b) PROVE Covered(new, n + 1, b)
  <2>1. PICK m \in 0 .. n - 1 : tab[m].base <= b /\ b < tab[m].base + tab[m].len
    BY <1>4 DEF Covered
  <2>2. CASE m < k
    <3>1. m \in 0 .. n /\ new[m] = tab[m]
      BY <2>2, <1>2
    <3> QED BY <3>1, <2>1, <1>1 DEF Covered
  <2>3. CASE m > k
    <3>1. m + 1 \in 0 .. n /\ m + 1 > k + 1 /\ (m + 1) - 1 = m
      BY <2>3
    <3>2. new[m + 1] = tab[m]
      BY <3>1, <1>2
    <3> QED BY <3>1, <3>2, <2>1, <1>1 DEF Covered
  <2>4. CASE m = k
    <3>1. \/ new[k].base <= b /\ b < new[k].base + new[k].len
          \/ new[k + 1].base <= b /\ b < new[k + 1].base + new[k + 1].len
      BY <2>1, <2>4, <1>1, <1>2
    <3>2. k \in 0 .. (n + 1) - 1 /\ k + 1 \in 0 .. (n + 1) - 1
      BY <1>1
    <3> QED BY <3>1, <3>2 DEF Covered
  <2> QED BY <2>2, <2>3, <2>4
<1> QED BY <1>3, <1>4 DEF SameBytes, new

(* A table whose slots keep their places.                                  *)
LEMMA SamePlaces ==
    ASSUME NEW n \in Nat, NEW tab, NEW new,
           \A m \in 0 .. n - 1 : new[m].base = tab[m].base /\ new[m].len = tab[m].len
    PROVE  /\ SameBytes(tab, n, new, n)
           /\ Contiguous(tab, n) => Contiguous(new, n)
<1>1. SameBytes(tab, n, new, n)
  BY DEF SameBytes, Covered
<1>2. ASSUME Contiguous(tab, n), NEW m \in 0 .. n - 2 PROVE Touch(new[m], new[m + 1])
  <2>1. m \in 0 .. n - 1 /\ m + 1 \in 0 .. n - 1
    OBVIOUS
  <2> QED BY <2>1, <1>2 DEF Contiguous, Touch, End
<1> QED BY <1>1, <1>2 DEF Contiguous

(* free_pages on a table whose slots touch.                                *)
LEMMA FreedTableSpace ==
    ASSUME NEW n \in Nat, NEW tab \in [0 .. n - 1 -> Region], NEW k \in 0 .. n - 1,
           Contiguous(tab, n)
    PROVE  SameBytes(tab, n, FreedTable(tab, n, k).tab, FreedTable(tab, n, k).n)
<1> DEFINE freed == Freed(tab, k)
           prev  == k > 0 /\ freed[k - 1].is_free
           k1    == IF prev THEN k - 1 ELSE k
           n1    == IF prev THEN n - 1 ELSE n
           tab1  == IF prev THEN Absorb(freed, n, k - 1) ELSE freed
           next  == k1 < n1 - 1 /\ tab1[k1 + 1].is_free
           tab2  == IF next THEN Absorb(tab1, n1, k1) ELSE tab1
           n2    == IF next THEN n1 - 1 ELSE n1
<1>1. freed \in [0 .. n - 1 -> Region] /\ SameBytes(tab, n, freed, n) /\ Contiguous(freed, n)
  <2>1. /\ freed \in [0 .. n - 1 -> Region]
        /\ \A m \in 0 .. n - 1 : freed[m].base = tab[m].base /\ freed[m].len = tab[m].len
    BY DEF Freed, Region
  <2> HIDE DEF freed
  <2> QED BY <2>1, SamePlaces
<1> HIDE DEF freed
<1>2. /\ n1 \in Nat /\ k1 \in 0 .. n1 - 1 /\ tab1 \in [0 .. n1 - 1 -> Region]
      /\ SameBytes(freed, n, tab1, n1) /\ Contiguous(tab1, n1)
  <2>1. CASE prev
    <3>1. k - 1 \in 0 .. n - 2 /\ n - 1 \in Nat /\ (n - 1) - 1 = n - 2
      BY <2>1
    <3>2. n1 = n - 1 /\ k1 = k - 1 /\ tab1 = Absorb(freed, n, k - 1)
      BY <2>1
    <3>3. Touch(freed[k - 1], freed[(k - 1) + 1])
      BY <3>1, <1>1 DEF Contiguous
    <3>4. tab1 \in [0 .. n - 2 -> Region]
      BY <3>1, <3>2, <1>1, AbsorbTable
    <3>5. SameBytes(freed, n, tab1, n - 1) /\ Contiguous(tab1, n - 1)
      BY <3>1, <3>2, <3>3, <1>1, AbsorbSpace
    <3> HIDE DEF tab1, n1, k1
    <3> QED BY <3>1, <3>2, <3>4, <3>5
  <2>2. CASE ~prev
    BY <2>2, <1>1 DEF SameBytes
  <2> QED BY <2>1, <2>2
<1> HIDE DEF tab1, n1, k1
<1>3. SameBytes(tab1, n1, tab2, n2)
  <2>1. CASE next
    <3>1. k1 \in 0 .. n1 - 2 /\ n2 = n1 - 1 /\ tab2 = Absorb(tab1, n1, k1)
      BY <2>1, <1>2
    <3>2. Touch(tab1[k1], tab1[k1 + 1])
      BY <3>1, <1>2 DEF Contiguous
    <3> HIDE DEF tab2, n2
    <3> QED BY <3>1, <3>2, <1>2, AbsorbSpace
  <2>2. CASE ~next
    BY <2>2 DEF SameBytes
  <2> QED BY <2>1, <2>2
<1>4. FreedTable(tab, n, k).tab = tab2 /\ FreedTable(tab, n, k).n = n2
  BY DEF FreedTable, freed, tab1, n1, k1
<1> HIDE DEF tab2, n2
<1> QED BY <1>1, <1>2, <1>3, <1>4 DEF SameBytes

(* A swap of two slots.                                                    *)
LEMMA SwapSpace ==
    ASSUME NEW n \in Nat, NEW tab \in [0 .. n - 1 -> Region],
           NEW k \in 0 .. n - 1, NEW q \in 0 .. n - 1, k # q
    PROVE  SameBytes(tab, n, [tab EXCEPT ![k] = tab[q], ![q] = tab[k]], n)
<1> DEFINE new == [tab EXCEPT ![k] = tab[q], ![q] = tab[k]]
           at(m) == IF m = k THEN q ELSE IF m = q THEN k ELSE m
<1>1. \A m \in 0 .. n - 1 : /\ at(m) \in 0 .. n - 1
                            /\ new[m] = tab[at(m)] /\ new[at(m)] = tab[m]
  OBVIOUS
<1> HIDE DEF new, at
<1>2. SameBytes(tab, n, new, n)
  BY <1>1 DEF SameBytes, Covered
<1> QED BY <1>2 DEF new

(* On a map without holes the slots of an ordered table that manages the   *)
(* usable memory touch: a gap between two of them would be usable memory,  *)
(* and the table would manage it.                                          *)
LEMMA NoGaps ==
    ASSUME NEW n \in Nat, NEW tab \in [0 .. n - 1 -> Region],
           Positive(tab, n), Ordered(tab, n), NoHoles(memmap), memmap \in Seq(Entry),
           \A b \in Nat : Covered(tab, n, b) <=> UsableUpTo(Len(memmap), b)
    PROVE  Contiguous(tab, n)
<1>1. memmap # NoResponse /\ Usable = UsableBytes(memmap)
  BY DEF NoHoles, Usable
<1>2. \A b \in Nat : b \in Usable <=> Covered(tab, n, b)
  BY <1>1, UsableIs
<1>3. \A a, b \in Usable : a .. b \subseteq Usable
  BY <1>1 DEF NoHoles
<1>4. \A m \in 0 .. n - 1 : tab[m].base \in Nat /\ tab[m].len \in Nat /\ tab[m].len > 0
  BY DEF Region, Positive
<1>5. \A m, p \in 0 .. n - 1 : m < p => tab[m].base + tab[m].len <= tab[p].base
  BY DEF Ordered, End
<1> SUFFICES ASSUME NEW k \in 0 .. n - 2 PROVE Touch(tab[k], tab[k + 1])
  BY DEF Contiguous
<1> DEFINE lo  == tab[k].base + tab[k].len
           hi  == tab[k + 1].base
<1>6. k \in 0 .. n - 1 /\ k + 1 \in 0 .. n - 1 /\ k < k + 1
  OBVIOUS
<1>7. lo \in Nat /\ lo > 0 /\ hi \in Nat /\ lo <= hi
  BY <1>4, <1>5, <1>6
<1>8. lo - 1 \in Nat /\ lo - 1 \in Usable
  <2>1. lo - 1 \in Nat /\ tab[k].base <= lo - 1 /\ lo - 1 < tab[k].base + tab[k].len
    BY <1>4, <1>6
  <2> HIDE DEF lo
  <2> QED BY <2>1, <1>2, <1>6 DEF Covered
<1>9. hi \in Usable
  <2>1. hi \in Nat /\ tab[k + 1].base <= hi /\ hi < tab[k + 1].base + tab[k + 1].len
    BY <1>4, <1>6
  <2> HIDE DEF hi
  <2> QED BY <2>1, <1>2, <1>6 DEF Covered
<1>10. ASSUME lo < hi PROVE FALSE
  <2> HIDE DEF lo, hi
  <2>1. lo \in (lo - 1) .. hi
    BY <1>7, <1>10
  <2>2. lo \in Usable
    BY <2>1, <1>3, <1>8, <1>9
  <2>3. PICK m \in 0 .. n - 1 : tab[m].base <= lo /\ lo < tab[m].base + tab[m].len
    BY <2>2, <1>2, <1>7 DEF Covered
  <2>4. m < k \/ m = k \/ m = k + 1 \/ k + 1 < m
    BY <1>6
  <2>5. CASE m < k
    <3>1. tab[m].base + tab[m].len <= tab[k].base
      BY <2>5, <1>5, <1>6
    <3> QED BY <3>1, <2>3, <1>4, <1>6 DEF lo
  <2>6. CASE m = k
    BY <2>3, <2>6, <1>7 DEF lo
  <2>7. CASE m = k + 1
    BY <2>3, <2>7, <1>7, <1>10 DEF hi
  <2>8. CASE k + 1 < m
    <3>1. tab[k + 1].base + tab[k + 1].len <= tab[m].base
      BY <2>8, <1>5, <1>6
    <3> QED BY <3>1, <2>3, <1>4, <1>6, <1>7, <1>10 DEF hi
  <2> QED BY <2>4, <2>5, <2>6, <2>7, <2>8
<1> QED BY <1>7, <1>10 DEF Touch, End

LEMMA MapFacts ==
    ASSUME IInv, memmap # NoResponse
    PROVE  /\ ValidMap(memmap) /\ memmap \in Seq(Entry)
           /\ Len(memmap) \in Nat /\ DOMAIN memmap = 1 .. Len(memmap)
BY MapAssumption DEF IInv, TypeOK, ValidMap

LEMMA ReadyContiguous ==
    ASSUME IInv, SpaceInv, phase = "ready", NoHoles(memmap)
    PROVE  /\ Contiguous(regions, region_count)
           /\ \A b \in Nat : b \in Usable <=> Covered(regions, region_count, b)
<1>1. memmap # NoResponse /\ Len(memmap) <= MAX_REGIONS
  BY DEF NoHoles
<1>2. \A b \in Nat : Covered(regions, region_count, b) <=> UsableUpTo(Len(memmap), b)
  BY <1>1 DEF SpaceInv
<1>3. memmap \in Seq(Entry)
  BY <1>1, MapFacts
<1>4. Contiguous(regions, region_count)
  BY <1>2, <1>3, NoGaps, ReadyFacts
<1> QED BY <1>1, <1>2, <1>3, <1>4, UsableIs

(* One more entry: the bytes between its aligned ends, if there are any.   *)
LEMMA CollectSpace == IInv /\ SpaceInv /\ CollectEntry => SpaceInv'
<1> SUFFICES ASSUME IInv, SpaceInv, CollectEntry PROVE SpaceInv'
  OBVIOUS
<1> SUFFICES ASSUME memmap # NoResponse, Len(memmap) <= MAX_REGIONS
             PROVE  /\ i' <= Len(memmap) /\ region_count' <= i'
                    /\ \A b \in Nat : Covered(regions', region_count', b) <=> UsableUpTo(i', b)
  <2>1. memmap' = memmap /\ phase' = "collect"
    BY DEF CollectEntry
  <2>2. \A n, b : UsableUpTo(n, b)' <=> UsableUpTo(n, b)
    BY <2>1 DEF UsableUpTo, Inside, AlignedBase, AlignedEnd
  <2> QED BY <2>1, <2>2 DEF SpaceInv, UsableUpTo
<1> DEFINE e == memmap[i + 1]
           n == region_count
<1>1. /\ phase = "collect" /\ i' = i + 1 /\ i < Len(memmap) /\ i \in Nat /\ n \in Nat
      /\ Len(memmap) \in Nat /\ n <= i
      /\ \A b \in Nat : Covered(regions, n, b) <=> UsableUpTo(i, b)
  BY MapFacts DEF CollectEntry, MoreEntries, SpaceInv, IInv, TypeOK
<1>2. e \in Entry
  BY <1>1, MapFacts, MapEntries
<1>3. ASSUME NEW b \in Nat
      PROVE  UsableUpTo(i + 1, b) <=> UsableUpTo(i, b) \/ Inside(e, b)
  <2>1. \A m : m \in 1 .. i + 1 <=> m \in 1 .. i \/ m = i + 1
    BY <1>1
  <2> QED BY <2>1 DEF UsableUpTo
<1>4. CASE UNCHANGED table /\ ~(e.type = "usable" /\ AlignedEnd(e) > AlignedBase(e))
  <2>1. \A b \in Nat : ~Inside(e, b)
    BY <1>2, <1>4, AlignInside DEF Inside
  <2> QED BY <2>1, <1>1, <1>3, <1>4 DEF table
<1>5. CASE /\ e.type = "usable" /\ AlignedEnd(e) > AlignedBase(e) /\ region_count' = n + 1
           /\ regions' = [m \in 0 .. n |->
                            IF m < n THEN regions[m]
                            ELSE [base |-> AlignedBase(e), len |-> AlignedEnd(e) - AlignedBase(e),
                                  is_free |-> TRUE]]
  <2>1. /\ AlignedBase(e) \in Nat /\ AlignedEnd(e) \in Nat /\ (n + 1) - 1 = n
        /\ regions'[n].base = AlignedBase(e)
        /\ regions'[n].len = AlignedEnd(e) - AlignedBase(e)
        /\ \A m \in 0 .. n - 1 : regions'[m] = regions[m]
    BY <1>1, <1>2, <1>5, AlignInside
  <2>2. \A m : m \in 0 .. n <=> m \in 0 .. n - 1 \/ m = n
    BY <1>1
  <2> HIDE DEF e, n
  <2>3. ASSUME NEW b \in Nat
        PROVE  Covered(regions', n + 1, b) <=> Covered(regions, n, b) \/ Inside(e, b)
    <3>1. Inside(e, b) <=> regions'[n].base <= b /\ b < regions'[n].base + regions'[n].len
      <4> DEFINE lo == AlignedBase(e)
                 hi == AlignedEnd(e)
      <4>1. lo \in Nat /\ hi \in Nat /\ regions'[n].base = lo /\ regions'[n].len = hi - lo
        BY <2>1
      <4>2. Inside(e, b) <=> lo <= b /\ b < hi
        BY <1>5 DEF Inside
      <4> HIDE DEF lo, hi
      <4>3. lo + (hi - lo) = hi
        BY <4>1
      <4> QED BY <4>1, <4>2, <4>3
    <3> QED BY <3>1, <2>1, <2>2 DEF Covered
  <2> QED BY <2>3, <1>1, <1>3, <1>5 DEF n
<1> QED BY <1>4, <1>5 DEF CollectEntry

(* A step that keeps the bytes of the table, from a phase in which they    *)
(* are the usable ones.                                                    *)
LEMMA SpaceKept ==
    ASSUME SpaceInv, memmap' = memmap, phase' # "collect",
           NoHoles(memmap) \/ phase' # "ready" =>
              /\ phase \in {"sort", "merge"} \/ (phase = "ready" /\ NoHoles(memmap))
              /\ SameBytes(regions, region_count, regions', region_count')
    PROVE  SpaceInv'
<1> SUFFICES ASSUME memmap # NoResponse, Len(memmap) <= MAX_REGIONS,
                    phase' \in {"sort", "merge"} \/ (phase' = "ready" /\ NoHoles(memmap)),
                    NEW b \in Nat
             PROVE  Covered(regions', region_count', b) <=> UsableUpTo(Len(memmap), b)
  <2>1. Len(memmap') = Len(memmap) /\ (NoHoles(memmap') <=> NoHoles(memmap))
    OBVIOUS
  <2>2. \A n, b : UsableUpTo(n, b)' <=> UsableUpTo(n, b)
    BY DEF UsableUpTo, Inside, AlignedBase, AlignedEnd
  <2> QED BY <2>1, <2>2 DEF SpaceInv, UsableUpTo
<1>1. Covered(regions, region_count, b) <=> UsableUpTo(Len(memmap), b)
  BY DEF SpaceInv
<1> QED BY <1>1 DEF SameBytes

LEMMA SpaceInit == IInv /\ SpaceInv /\ InitStep => SpaceInv'
<1> SUFFICES ASSUME IInv, SpaceInv, InitStep PROVE SpaceInv'
  OBVIOUS
<1> DEFINE n == region_count
<1>1. n \in Nat /\ i \in Nat /\ j \in Nat /\ regions \in [0 .. n - 1 -> Region]
  BY DEF IInv, TypeOK, Slots
<1>2. \A q \in Nat : SameBytes(regions, q, regions, q)
  BY DEF SameBytes
<1>3. CASE InitNoResponse
  BY <1>3 DEF InitNoResponse, SpaceInv
<1>4. CASE CollectEntry
  BY <1>4, CollectSpace
<1>5. CASE CollectDone
  <2>1. /\ memmap' = memmap /\ phase = "collect" /\ phase' = "sort" /\ memmap # NoResponse
        /\ regions' = regions /\ region_count' = n /\ ~(i < Len(memmap) /\ n < MAX_REGIONS)
    BY <1>5 DEF CollectDone, MoreEntries, table
  <2>2. ASSUME Len(memmap) <= MAX_REGIONS PROVE i = Len(memmap)
    <3>1. i <= Len(memmap) /\ n <= i
      BY <2>1, <2>2 DEF SpaceInv
    <3>2. Len(memmap) \in Nat /\ MAX_REGIONS \in Nat
      BY <2>1, MapFacts, PageAssumption
    <3> QED BY <3>1, <3>2, <2>1, <2>2, <1>1
  <2>3. \A q, b : UsableUpTo(q, b)' <=> UsableUpTo(q, b)
    BY <2>1 DEF UsableUpTo, Inside, AlignedBase, AlignedEnd
  <2>4. Len(memmap') = Len(memmap)
    BY <2>1
  <2> QED BY <2>1, <2>2, <2>3, <2>4 DEF SpaceInv, UsableUpTo
<1>6. CASE SortUnderflow
  BY <1>6 DEF SortUnderflow, SpaceInv
<1>7. CASE SortCompare
  <2>1. /\ memmap' = memmap /\ phase = "sort" /\ phase' = "sort" /\ region_count' = n
        /\ j \in 0 .. n - 1 /\ j + 1 \in 0 .. n - 1 /\ j # j + 1
        /\ \/ regions' = regions
           \/ regions' = [regions EXCEPT ![j] = regions[j + 1], ![j + 1] = regions[j]]
    BY <1>1, <1>7 DEF SortCompare
  <2> HIDE DEF n
  <2>2. SameBytes(regions, n, regions', n)
    BY <2>1, <1>1, <1>2, SwapSpace
  <2> QED BY <2>1, <2>2, SpaceKept DEF n
<1>8. CASE SortNextPass \/ SortDone \/ MergeSkip \/ MergeDone
  <2>1. /\ memmap' = memmap /\ phase \in {"sort", "merge"} /\ phase' # "collect"
        /\ regions' = regions /\ region_count' = n
    BY <1>8 DEF SortNextPass, SortDone, MergeSkip, MergeDone, table
  <2> QED BY <2>1, <1>1, <1>2, SpaceKept
<1>9. CASE MergeTouching
  <2>1. /\ memmap' = memmap /\ phase = "merge" /\ phase' = "merge" /\ region_count' = n - 1
        /\ i \in 0 .. n - 2 /\ Touch(regions[i], regions[i + 1])
        /\ regions' = Absorb(regions, n, i)
    BY <1>1, <1>9 DEF MergeTouching, loop
  <2>2. SameBytes(regions, n, regions', n - 1)
    BY <2>1, <1>1, AbsorbSpace
  <2> QED BY <2>1, <2>2, SpaceKept
<1> QED BY <1>3, <1>4, <1>5, <1>6, <1>7, <1>8, <1>9 DEF InitStep

LEMMA SpaceReady ==
    ASSUME IInv, SpaceInv, phase = "ready", phase' = "ready", memmap' = memmap,
           \/ UNCHANGED table
           \/ \E k \in Slots :
                /\ regions' = FreedTable(regions, region_count, k).tab
                /\ region_count' = FreedTable(regions, region_count, k).n
           \/ \E k \in Slots : regions' = Taken(regions, k) /\ region_count' = region_count
           \/ \E k \in Slots, sz \in Nat :
                /\ sz < regions[k].len
                /\ regions' = Split(regions, region_count, k, sz)
                /\ region_count' = region_count + 1
    PROVE  SpaceInv'
<1> SUFFICES ASSUME NoHoles(memmap)
             PROVE  SameBytes(regions, region_count, regions', region_count')
  BY SpaceKept
<1> DEFINE n == region_count
<1>1. n \in Nat /\ Slots = 0 .. n - 1 /\ regions \in [0 .. n - 1 -> Region]
  BY ReadyFacts
<1>2. CASE UNCHANGED table
  BY <1>2 DEF table, SameBytes
<1>3. ASSUME NEW k \in Slots, regions' = FreedTable(regions, n, k).tab,
             region_count' = FreedTable(regions, n, k).n
      PROVE  SameBytes(regions, n, regions', region_count')
  BY <1>1, <1>3, ReadyContiguous, FreedTableSpace
<1>4. ASSUME NEW k \in Slots, regions' = Taken(regions, k), region_count' = n
      PROVE  SameBytes(regions, n, regions', region_count')
  <2>1. \A m \in 0 .. n - 1 : regions'[m].base = regions[m].base /\ regions'[m].len = regions[m].len
    BY <1>1, <1>4 DEF Taken, Region
  <2> QED BY <2>1, <1>1, <1>4, SamePlaces
<1>5. ASSUME NEW k \in Slots, NEW sz \in Nat, sz < regions[k].len,
             regions' = Split(regions, n, k, sz), region_count' = n + 1
      PROVE  SameBytes(regions, n, regions', region_count')
  BY <1>1, <1>5, SplitSpace
<1> QED BY <1>2, <1>3, <1>4, <1>5

LEMMA SpaceStep == IInv /\ SpaceInv /\ [Next]_vars => SpaceInv'
<1> SUFFICES ASSUME IInv, SpaceInv, [Next]_vars PROVE SpaceInv'
  OBVIOUS
<1>1. CASE InitStep
  BY <1>1, SpaceInit
<1>2. ASSUME NEW count \in Counts, Alloc(count) PROVE SpaceInv'
  <2>1. phase = "ready"
    BY <1>2 DEF Alloc
  <2>2. CASE AllocExact(count)
    BY <2>1, <2>2, SpaceReady DEF AllocExact, loop
  <2>3. CASE AllocSplit(count)
    <3>1. PICK k \in Slots : /\ FirstFit(k, Size(count)) /\ regions[k].len # Size(count)
                             /\ regions' = Split(regions, region_count, k, Size(count))
                             /\ region_count' = region_count + 1
                             /\ UNCHANGED <<memmap, loop>>
      BY <2>3 DEF AllocSplit
    <3>2. regions[k].len >= Size(count) /\ Size(count) \in Nat /\ regions[k].len \in Nat
      BY <3>1, <2>1, ReadyFacts, SizePositive DEF FirstFit, Fits, Region
    <3>3. Size(count) < regions[k].len
      BY <3>1, <3>2
    <3> QED BY <3>1, <3>2, <3>3, <2>1, SpaceReady DEF loop
  <2>4. CASE AllocTableFull(count) \/ AllocNoFit(count)
    BY <2>1, <2>4, SpaceReady DEF AllocTableFull, AllocNoFit, vars, table
  <2> QED BY <1>2, <2>2, <2>3, <2>4 DEF Alloc
<1>3. ASSUME NEW base, NEW count, Free(base, count) PROVE SpaceInv'
  BY <1>3, SpaceReady DEF Free, FreeMatch, FreeInvalid, loop
<1>4. CASE UNCHANGED <<memmap, phase, i, regions, region_count>>
  <2>1. \A q, b : UsableUpTo(q, b)' <=> UsableUpTo(q, b)
    BY <1>4 DEF UsableUpTo, Inside, AlignedBase, AlignedEnd
  <2> QED BY <2>1, <1>4 DEF SpaceInv, UsableUpTo
<1>5. ASSUME NEW a \in held, FreeHeld(a) \/ Use(a) PROVE SpaceInv'
  BY <1>3, <1>4, <1>5 DEF FreeHeld, Use, loop, table
<1>6. ASSUME NEW base \in StrayBases, NEW count \in Counts, FreeStray(base, count) PROVE SpaceInv'
  BY <1>3, <1>6 DEF FreeStray
<1> QED BY <1>1, <1>2, <1>4, <1>5, <1>6 DEF Next, Overrun, vars

(* What the table covers at each phase of init is what the loops have      *)
(* collected so far, for every memory map.                                 *)
THEOREM SpaceInductive == Spec => []SpaceInv
<1>1. Init => SpaceInv
  <2> SUFFICES ASSUME Init, memmap # NoResponse PROVE SpaceInv
    BY DEF SpaceInv
  <2>1. IInv /\ region_count = 0 /\ i = 0 /\ phase = "collect"
    BY InitIInv DEF Init
  <2>2. 0 .. region_count - 1 = {} /\ 1 .. i = {}
    BY <2>1
  <2>3. \A b : ~Covered(regions, region_count, b) /\ ~UsableUpTo(i, b)
    BY <2>2 DEF Covered, UsableUpTo
  <2>4. Len(memmap) \in Nat
    BY <2>1, MapFacts
  <2> QED BY <2>1, <2>3, <2>4 DEF SpaceInv
<1> QED BY <1>1, SpaceStep, Inductive, PTL DEF Spec

(* After init on a map without holes the allocator manages exactly the     *)
(* usable memory of the map, whatever alloc_pages split and free_pages     *)
(* merged since: no byte is lost to a shift of the table, and none gained. *)
ManagesUsable == NoHoles(memmap) /\ phase = "ready" => Managed = Usable
THEOREM NoMemoryLost == Spec => []ManagesUsable
<1>1. ASSUME IInv, SpaceInv PROVE ManagesUsable
  <2> SUFFICES ASSUME NoHoles(memmap), phase = "ready" PROVE Managed = Usable
    BY DEF ManagesUsable
  <2>1. \A b \in Nat : b \in Usable <=> Covered(regions, region_count, b)
    BY <1>1, ReadyContiguous
  <2>2. Usable \subseteq Nat
    BY <1>1, MapFacts, UsableIs DEF NoHoles
  <2>3. /\ Slots = 0 .. region_count - 1
        /\ \A k \in Slots : regions[k].base \in Nat /\ regions[k].len \in Nat
    BY <1>1, ReadyFacts DEF Region
  <2>4. \A b : b \in Managed <=> b \in Nat /\ Covered(regions, region_count, b)
    <3>1. \A b : \A k \in Slots :
             b \in Bytes(regions[k])
                <=> b \in Nat /\ regions[k].base <= b /\ b < regions[k].base + regions[k].len
      BY <2>3 DEF Bytes, End
    <3> QED BY <3>1, <2>3 DEF Managed, Covered
  <2> QED BY <2>1, <2>2, <2>4
<1> QED BY <1>1, Inductive, SpaceInductive, PTL

(* An allocation that is held is still held after it was handed out again: *)
(* it never is, since its slot is used and a free one has another base.    *)
LEMMA NewlyHeld ==
    ASSUME IInv, phase = "ready", NEW k \in Slots, regions[k].is_free, NEW count,
           Return(regions[k].base, count)
    PROVE  held' # held
<1> DEFINE a == [base |-> regions[k].base, count |-> count]
<1>1. /\ region_count \in Nat /\ k \in 0 .. region_count - 1
      /\ regions \in [0 .. region_count - 1 -> Region]
      /\ Positive(regions, region_count) /\ Ordered(regions, region_count)
  BY ReadyFacts
<1>2. held' = held \cup {a}
  BY <1>1 DEF Return, Positive, Region
<1>3. ASSUME a \in held PROVE FALSE
  <2>1. UsedAt(regions, region_count, regions[k].base, Size(count))
    BY <1>3, ReadyFacts DEF Backs
  <2>2. PICK m \in 0 .. region_count - 1 : ~regions[m].is_free /\ regions[m].base = regions[k].base
    BY <2>1 DEF UsedAt
  <2>3. m # k
    BY <2>2
  <2> QED BY <2>2, <2>3, <1>1, BasesDiffer
<1> QED BY <1>2, <1>3

(* Freeing a free region of a table without gaps changes nothing: had it a *)
(* free neighbour, the two would have been one region.                     *)
LEMMA FreeAgain ==
    ASSUME NEW n \in Nat, NEW tab \in [0 .. n - 1 -> Region], NEW k \in 0 .. n - 1,
           tab[k].is_free, Contiguous(tab, n), NoneMergeable(tab, n)
    PROVE  FreedTable(tab, n, k).tab = tab /\ FreedTable(tab, n, k).n = n
<1>1. Freed(tab, k) = tab
  <2>1. tab[k] \in Region /\ [tab[k] EXCEPT !.is_free = TRUE] = tab[k]
    BY DEF Region
  <2> QED BY <2>1 DEF Freed
<1>2. ~(k > 0 /\ tab[k - 1].is_free)
  <2> SUFFICES ASSUME k > 0, tab[k - 1].is_free PROVE FALSE
    OBVIOUS
  <2>1. k - 1 \in 0 .. n - 2 /\ (k - 1) + 1 = k
    OBVIOUS
  <2> QED BY <2>1 DEF Contiguous, NoneMergeable, Mergeable
<1>3. ~(k < n - 1 /\ tab[k + 1].is_free)
  <2> SUFFICES ASSUME k < n - 1, tab[k + 1].is_free PROVE FALSE
    OBVIOUS
  <2>1. k \in 0 .. n - 2
    OBVIOUS
  <2> QED BY <2>1 DEF Contiguous, NoneMergeable, Mergeable
<1> QED BY <1>1, <1>2, <1>3 DEF FreedTable

(* Freeing what nobody holds leaves the table alone on a map without       *)
(* holes: the slot it names, if there is one, is free already.             *)
THEOREM StrayFreesHarmless == Spec => StrayFreeHarmlessNoHoles
<1> DEFINE Kept == NoHoles(memmap) /\ phase = "ready" /\ held' = held => UNCHANGED table
<1>1. ASSUME IInv, CoalInv, SpaceInv, [Next]_vars PROVE [Kept]_vars
  <2> SUFFICES ASSUME NoHoles(memmap), phase = "ready", held' = held PROVE UNCHANGED table
    OBVIOUS
  <2>1. /\ region_count \in Nat /\ Slots = 0 .. region_count - 1
        /\ regions \in [0 .. region_count - 1 -> Region]
        /\ Contiguous(regions, region_count) /\ NoneMergeable(regions, region_count)
    BY <1>1, ReadyFacts, ReadyContiguous DEF CoalInv
  <2>2. ASSUME NEW count \in Counts, Alloc(count) PROVE UNCHANGED table
    <3>1. CASE AllocExact(count) \/ AllocSplit(count)
      <4>1. PICK k \in Slots : FirstFit(k, Size(count)) /\ Return(regions[k].base, count)
        BY <3>1 DEF AllocExact, AllocSplit
      <4> QED BY <4>1, <1>1, NewlyHeld DEF FirstFit, Fits
    <3>2. CASE AllocTableFull(count) \/ AllocNoFit(count)
      BY <3>2 DEF AllocTableFull, AllocNoFit, vars, table
    <3> QED BY <2>2, <3>1, <3>2 DEF Alloc
  <2>3. ASSUME NEW base \in StrayBases, NEW count \in Counts, FreeStray(base, count)
        PROVE  UNCHANGED table
    <3>1. CASE FreeMatch(base, count)
      <4>1. PICK k \in Slots : /\ Matches(k, base, count)
                               /\ regions' = FreedTable(regions, region_count, k).tab
                               /\ region_count' = FreedTable(regions, region_count, k).n
        BY <3>1 DEF FreeMatch
      <4>2. regions[k].is_free
        <5> SUFFICES ASSUME ~regions[k].is_free PROVE FALSE
          OBVIOUS
        <5>1. PICK a \in held : Matches(k, a.base, a.count)
          BY <1>1 DEF IInv, UsedIsHeld
        <5>2. a \in [base : Nat, count : Counts]
          BY <1>1, ReadyFacts
        <5>3. a.base = base /\ Size(a.count) = Size(count) /\ a.count \in Counts
          BY <5>1, <5>2, <4>1 DEF Matches
        <5>4. a = [base |-> base, count |-> count]
          BY <5>2, <5>3, SizeInjective
        <5> QED BY <5>4, <2>3 DEF FreeStray
      <4> QED BY <4>1, <4>2, <2>1, FreeAgain DEF table
    <3>2. CASE FreeInvalid(base, count)
      BY <3>2 DEF FreeInvalid
    <3> QED BY <2>3, <3>1, <3>2 DEF FreeStray, Free
  <2>4. ASSUME NEW a \in held, FreeHeld(a) PROVE FALSE
    BY <2>4 DEF FreeHeld
  <2>5. ASSUME NEW a \in held, Use(a) PROVE UNCHANGED table
    BY <2>5 DEF Use, table
  <2>6. ~InitStep
    BY DEF InitStep, InitNoResponse, CollectEntry, CollectDone, SortUnderflow, SortCompare,
       SortNextPass, SortDone, MergeTouching, MergeSkip, MergeDone
  <2>7. CASE UNCHANGED vars
    BY <2>7 DEF vars, table
  <2> QED BY <1>1, <2>2, <2>3, <2>4, <2>5, <2>6, <2>7 DEF Next, Overrun
<1> QED BY <1>1, Inductive, SpaceInductive, CoalInductive, PTL
        DEF Spec, StrayFreeHarmlessNoHoles

-----------------------------------------------------------------------------
(***************************************************************************)
(* The allocator implements PageAllocator on maps without holes.           *)
(***************************************************************************)
(* alloc_pages hands out the start of a free region: usable memory that no *)
(* caller holds.                                                           *)
LEMMA AllocRefines ==
    ASSUME IInv, SpaceInv, phase = "ready", NoHoles(memmap), memmap' = memmap,
           NEW count \in Counts, NEW k \in Slots, FirstFit(k, Size(count)),
           Return(regions[k].base, count)
    PROVE  PA!Next
<1> DEFINE base == regions[k].base
           a    == [base |-> base, count |-> count]
<1>1. /\ k \in 0 .. region_count - 1 /\ regions[k].is_free /\ regions[k].len >= Size(count)
      /\ base \in Nat /\ base > 0 /\ regions[k].len \in Nat /\ Size(count) \in Nat
      /\ Size(count) > 0
  BY ReadyFacts, SizePositive DEF FirstFit, Fits, Region, Positive
<1>2. held' = held \cup {a} /\ Usable' = Usable
  BY <1>1 DEF Return, Usable, UsableBytes, Mapped, EntryBytes, Page, RoundDown
<1>3. \A h : PA!Extent(h) = h.base .. h.base + Size(h.count) - 1
  BY DEF PA!Extent, Size
<1>4. ASSUME NEW b \in Nat, base <= b, b < base + regions[k].len PROVE b \in Usable
  <2>1. Covered(regions, region_count, b)
    BY <1>1, <1>4 DEF Covered
  <2> QED BY <2>1, ReadyContiguous
<1>5. base \in Usable
  BY <1>1, <1>4
<1>6. PA!Extent(a) \subseteq Usable
  <2>1. PA!Extent(a) = base .. base + Size(count) - 1
    BY <1>3
  <2>2. \A b \in base .. base + Size(count) - 1 :
           b \in Nat /\ base <= b /\ b < base + regions[k].len
    BY <1>1
  <2> QED BY <2>1, <2>2, <1>4
<1>7. ASSUME NEW h \in held PROVE PA!Extent(h) \cap PA!Extent(a) = {}
  <2>1. \/ h.base + Size(h.count) <= base
        \/ base + regions[k].len <= h.base
    BY <1>1, HeldApart
  <2>2. h.base \in Nat /\ Size(h.count) \in Nat
    BY ReadyFacts, SizePositive
  <2>3. \A x \in PA!Extent(h) : x \in Int /\ h.base <= x /\ x < h.base + Size(h.count)
    BY <1>3, <2>2
  <2>4. \A x \in PA!Extent(a) : x \in Int /\ base <= x /\ x < base + regions[k].len
    BY <1>1, <1>3
  <2> HIDE DEF a, base
  <2> QED BY <2>1, <2>2, <2>3, <2>4, <1>1
<1>8. PA!Alloc(base, count)
  BY <1>2, <1>6, <1>7 DEF PA!Alloc
<1> QED BY <1>5, <1>8 DEF PA!Next

(* Every step of the allocator on a map without holes is a step of the     *)
(* abstract one or changes nothing it knows about.                         *)
LEMMA StepRefines ==
    ASSUME IInv, SpaceInv, [Next]_vars, NoHoles(memmap)
    PROVE  [PA!Next]_(PA!vars)
<1>1. UNCHANGED memmap
  BY DEF Next, InitStep, InitNoResponse, CollectEntry, CollectDone, SortUnderflow,
     SortCompare, SortNextPass, SortDone, MergeTouching, MergeSkip, MergeDone, Alloc, AllocExact,
     AllocSplit, AllocTableFull, AllocNoFit, FreeHeld, FreeStray, Free, FreeMatch, FreeInvalid,
     Use, Overrun, vars
<1>2. Usable' = Usable
  BY <1>1 DEF Usable, UsableBytes, Mapped, EntryBytes, Page, RoundDown
<1>3. CASE UNCHANGED held
  BY <1>2, <1>3 DEF PA!vars
<1>4. ASSUME NEW count \in Counts, Alloc(count) PROVE [PA!Next]_(PA!vars)
  <2>1. phase = "ready"
    BY <1>4 DEF Alloc
  <2>2. CASE AllocExact(count) \/ AllocSplit(count)
    <3>1. PICK k \in Slots : FirstFit(k, Size(count)) /\ Return(regions[k].base, count)
      BY <2>2 DEF AllocExact, AllocSplit
    <3> QED BY <3>1, <2>1, <1>1, AllocRefines
  <2>3. CASE AllocTableFull(count) \/ AllocNoFit(count)
    BY <2>3, <1>3 DEF AllocTableFull, AllocNoFit, vars
  <2> QED BY <1>4, <2>2, <2>3 DEF Alloc
<1>5. ASSUME NEW a \in held, FreeHeld(a) PROVE PA!Next
  <2>1. PA!Free(a)
    BY <1>2, <1>5 DEF FreeHeld, PA!Free
  <2> QED BY <2>1 DEF PA!Next
<1>6. ASSUME NEW a \in held, Use(a) PROVE UNCHANGED held
  BY <1>6 DEF Use
<1>7. ASSUME NEW base \in StrayBases, NEW count \in Counts, FreeStray(base, count)
      PROVE  UNCHANGED held
  BY <1>7 DEF FreeStray
<1>8. InitStep \/ Overrun \/ UNCHANGED vars => UNCHANGED held
  BY DEF InitStep, InitNoResponse, CollectEntry, CollectDone, SortUnderflow, SortCompare,
     SortNextPass, SortDone, MergeTouching, MergeSkip, MergeDone, Overrun, vars
<1> QED BY <1>3, <1>4, <1>5, <1>6, <1>7, <1>8 DEF Next

(* PMM implements PageAllocator: callers see allocations of usable memory, *)
(* disjoint from one another, appear and go, and nothing else.             *)
THEOREM RefinesPageAllocator == Spec => ImplementsPageAllocator
<1> DEFINE Step == NoHoles(memmap) => PA!Next
<1>1. Init => (NoHoles(memmap) => PA!Init)
  <2> SUFFICES ASSUME Init, NoHoles(memmap) PROVE PA!Init
    OBVIOUS
  <2>1. Usable \subseteq Nat
    BY InitIInv, MapFacts, UsableIs DEF NoHoles
  <2> QED BY <2>1 DEF PA!Init, Init
<1>2. IInv /\ SpaceInv /\ [Next]_vars => [Step]_(PA!vars)
  BY StepRefines
<1> HIDE DEF Step
<1>3. Spec => [][Step]_(PA!vars)
  BY <1>2, Inductive, SpaceInductive, PTL DEF Spec
<1>4. Spec => (NoHoles(memmap) => PA!Init)
  BY <1>1, PTL DEF Spec
<1> QED BY <1>3, <1>4 DEF ImplementsPageAllocator, Step

-----------------------------------------------------------------------------
(***************************************************************************)
(* Amounts of memory.  Across a hole free_pages merges regions that do not *)
(* touch, so the bytes of the table are not those of the map; but lengths  *)
(* are added and taken apart, so the sum of all lengths stays the same.    *)
(***************************************************************************)
(* The lengths of slots a to b, added up.                                  *)
Lengths(tab, a, b) == SumFunction([m \in a .. b |-> tab[m].len])

LEMMA LengthsType ==
    ASSUME NEW tab, NEW a \in Nat, NEW b \in Int, \A m \in a .. b : tab[m].len \in Nat
    PROVE  Lengths(tab, a, b) \in Nat
<1>1. IsFiniteSet(a .. b)
  BY FS_Interval
<1>2. [m \in a .. b |-> tab[m].len] \in [a .. b -> Nat]
  OBVIOUS
<1> QED BY <1>1, <1>2, SumIs DEF Lengths

LEMMA LengthsSplit ==
    ASSUME NEW tab, NEW a \in Nat, NEW b \in Int, NEW c \in Int, a <= c, c <= b + 1,
           \A m \in a .. b : tab[m].len \in Nat
    PROVE  Lengths(tab, a, b) = Lengths(tab, a, c - 1) + Lengths(tab, c, b)
<1> DEFINE A == a .. c - 1
           B == c .. b
           f == [m \in a .. b |-> tab[m].len]
           g == [m \in A |-> tab[m].len]
           h == [m \in B |-> tab[m].len]
<1>1. IsFiniteSet(A) /\ IsFiniteSet(B)
  BY FS_Interval
<1>2. A \cap B = {} /\ a .. b = A \cup B
  OBVIOUS
<1>3. f \in [A \cup B -> Nat] /\ g \in [A -> Nat] /\ h \in [B -> Nat]
  BY <1>2
<1>4. (\A m \in A : g[m] = f[m]) /\ (\A m \in B : h[m] = f[m])
  BY <1>2
<1>5. A \cap B = {}
  BY <1>2
<1> HIDE DEF f, g, h, A, B
<1>6. SumFunction(f) = SumFunction(g) + SumFunction(h)
  BY ONLY <1>1, <1>3, <1>4, <1>5, SumOfTwo
<1> QED BY <1>6 DEF Lengths, f, g, h, A, B

LEMMA LengthsOne ==
    ASSUME NEW tab, NEW a \in Nat, tab[a].len \in Nat
    PROVE  Lengths(tab, a, a) = tab[a].len
<1> DEFINE f == [m \in a .. a |-> tab[m].len]
<1>1. a .. a = {a}
  OBVIOUS
<1>2. f \in [{a} -> Nat] /\ f[a] = tab[a].len
  BY <1>1
<1> HIDE DEF f
<1>3. SumFunction(f) = tab[a].len
  BY <1>2, SumOfOne
<1> QED BY <1>3 DEF Lengths, f

LEMMA LengthsSame ==
    ASSUME NEW tab, NEW new, NEW a, NEW b, \A m \in a .. b : new[m].len = tab[m].len
    PROVE  Lengths(new, a, b) = Lengths(tab, a, b)
<1>1. [m \in a .. b |-> new[m].len] = [m \in a .. b |-> tab[m].len]
  OBVIOUS
<1> QED BY <1>1 DEF Lengths

LEMMA LengthsShifted ==
    ASSUME NEW tab, NEW new, NEW a \in Nat, NEW b \in Int,
           \A m \in a .. b : tab[m].len \in Nat,
           \A m \in a .. b : new[m + 1].len = tab[m].len
    PROVE  Lengths(new, a + 1, b + 1) = Lengths(tab, a, b)
<1> DEFINE S == a .. b
           T == a + 1 .. b + 1
           f == [m \in S |-> tab[m].len]
           g == [m \in T |-> new[m].len]
           p == [m \in S |-> m + 1]
<1>1. IsFiniteSet(S)
  BY FS_Interval
<1>2. f \in [S -> Nat] /\ p \in [S -> T]
  OBVIOUS
<1>3. \A m \in T : m - 1 \in S /\ (m - 1) + 1 = m
  OBVIOUS
<1>4. g \in [T -> Nat]
  <2>1. \A m \in T : new[m].len \in Nat
    <3> SUFFICES ASSUME NEW m \in T PROVE new[m].len \in Nat
      OBVIOUS
    <3>1. m - 1 \in S /\ (m - 1) + 1 = m
      BY <1>3
    <3>2. tab[m - 1].len \in Nat /\ new[(m - 1) + 1].len = tab[m - 1].len
      BY <3>1
    <3> QED BY <3>1, <3>2
  <2> QED BY <2>1
<1>5. \A m \in S : g[p[m]] = f[m]
  OBVIOUS
<1>6. \A m, q \in S : p[m] = p[q] => m = q
  OBVIOUS
<1>7. \A q \in T : \E m \in S : p[m] = q
  BY <1>3
<1> HIDE DEF f, g, p, S, T
<1>8. SameNumbers(f, S, g, T)
  BY <1>2, <1>5, <1>6, <1>7 DEF SameNumbers
<1>9. SumFunction(f) = SumFunction(g)
  BY ONLY <1>1, <1>2, <1>4, <1>8, SumRenamed
<1> QED BY <1>9 DEF Lengths, f, g, S, T

LEMMA AbsorbLengths ==
    ASSUME NEW n \in Nat, NEW tab \in [0 .. n - 1 -> Region], NEW k \in 0 .. n - 2
    PROVE  Lengths(Absorb(tab, n, k), 0, n - 2) = Lengths(tab, 0, n - 1)
<1> DEFINE new == Absorb(tab, n, k)
<1>1. \A m \in 0 .. n - 1 : tab[m].len \in Nat
  BY DEF Region
<1>2. /\ \A m \in 0 .. k - 1 : new[m].len = tab[m].len
      /\ new[k].len = tab[k].len + tab[k + 1].len
      /\ \A m \in k + 1 .. n - 2 : new[m].len = tab[m + 1].len
  BY DEF Absorb
<1>3. new \in [0 .. n - 2 -> Region]
  BY AbsorbTable
<1> HIDE DEF new
<1>4. \A m \in 0 .. n - 2 : new[m].len \in Nat
  BY <1>3 DEF Region
<1>5. /\ Lengths(tab, 0, n - 1) = Lengths(tab, 0, k - 1) + Lengths(tab, k, n - 1)
      /\ Lengths(tab, k, n - 1) = Lengths(tab, k, k) + Lengths(tab, k + 1, n - 1)
      /\ Lengths(tab, k + 1, n - 1) = Lengths(tab, k + 1, k + 1) + Lengths(tab, k + 2, n - 1)
  <2>1. Lengths(tab, 0, n - 1) = Lengths(tab, 0, k - 1) + Lengths(tab, k, n - 1)
    BY <1>1, LengthsSplit
  <2>2. Lengths(tab, k, n - 1) = Lengths(tab, k, (k + 1) - 1) + Lengths(tab, k + 1, n - 1)
    BY <1>1, LengthsSplit
  <2>3. Lengths(tab, k + 1, n - 1) = Lengths(tab, k + 1, (k + 2) - 1) + Lengths(tab, k + 2, n - 1)
    BY <1>1, LengthsSplit
  <2>4. (k + 1) - 1 = k /\ (k + 2) - 1 = k + 1
    OBVIOUS
  <2> QED BY <2>1, <2>2, <2>3, <2>4
<1>6. /\ Lengths(new, 0, n - 2) = Lengths(new, 0, k - 1) + Lengths(new, k, n - 2)
      /\ Lengths(new, k, n - 2) = Lengths(new, k, k) + Lengths(new, k + 1, n - 2)
  <2>1. Lengths(new, 0, n - 2) = Lengths(new, 0, k - 1) + Lengths(new, k, n - 2)
    BY <1>4, LengthsSplit
  <2>2. Lengths(new, k, n - 2) = Lengths(new, k, (k + 1) - 1) + Lengths(new, k + 1, n - 2)
    BY <1>4, LengthsSplit
  <2> QED BY <2>1, <2>2
<1>7. Lengths(new, 0, k - 1) = Lengths(tab, 0, k - 1)
  BY <1>2, LengthsSame
<1>8. Lengths(new, k + 1, n - 2) = Lengths(tab, k + 2, n - 1)
  <2>1. /\ k + 1 \in Nat /\ n - 2 \in Int /\ (k + 1) + 1 = k + 2 /\ (n - 2) + 1 = n - 1
        /\ \A m \in k + 1 .. n - 2 : new[m].len \in Nat
    BY <1>4
  <2>2. \A m \in k + 1 .. n - 2 : tab[m + 1].len = new[m].len
    BY <1>2
  <2>3. Lengths(tab, (k + 1) + 1, (n - 2) + 1) = Lengths(new, k + 1, n - 2)
    BY ONLY <2>1, <2>2, LengthsShifted
  <2> QED BY <2>1, <2>3
<1>9. /\ Lengths(tab, k, k) = tab[k].len /\ Lengths(tab, k + 1, k + 1) = tab[k + 1].len
      /\ Lengths(new, k, k) = new[k].len
  <2>1. /\ k \in Nat /\ k + 1 \in Nat /\ tab[k].len \in Nat /\ tab[k + 1].len \in Nat
        /\ new[k].len \in Nat
    BY <1>1, <1>4
  <2> QED BY <2>1, LengthsOne
<1>10. /\ Lengths(tab, 0, k - 1) \in Nat /\ Lengths(tab, k + 2, n - 1) \in Nat
       /\ tab[k].len \in Nat /\ tab[k + 1].len \in Nat
  BY <1>1, LengthsType
<1> QED BY <1>2, <1>5, <1>6, <1>7, <1>8, <1>9, <1>10 DEF new

LEMMA SplitLengths ==
    ASSUME NEW n \in Nat, NEW tab \in [0 .. n - 1 -> Region], NEW k \in 0 .. n - 1,
           NEW sz \in Nat, sz <= tab[k].len
    PROVE  Lengths(Split(tab, n, k, sz), 0, n) = Lengths(tab, 0, n - 1)
<1> DEFINE new == Split(tab, n, k, sz)
<1>1. \A m \in 0 .. n - 1 : tab[m].len \in Nat
  BY DEF Region
<1>2. /\ \A m \in 0 .. k - 1 : new[m].len = tab[m].len
      /\ new[k].len = sz /\ new[k + 1].len = tab[k].len - sz
      /\ \A m \in k + 1 .. n - 1 : new[m + 1].len = tab[m].len
  BY DEF Split
<1> HIDE DEF new
<1>3. \A m \in 0 .. n : new[m].len \in Nat
  <2> SUFFICES ASSUME NEW m \in 0 .. n PROVE new[m].len \in Nat
    OBVIOUS
  <2>1. CASE m \in 0 .. k - 1
    BY <1>1, <1>2, <2>1
  <2>2. CASE m = k \/ m = k + 1
    <3>1. tab[k].len \in Nat
      BY <1>1
    <3> QED BY <1>2, <2>2, <3>1
  <2>3. CASE m > k + 1
    <3>1. m - 1 \in k + 1 .. n - 1 /\ (m - 1) + 1 = m
      BY <2>3
    <3>2. tab[m - 1].len \in Nat /\ new[(m - 1) + 1].len = tab[m - 1].len
      BY <1>1, <1>2, <3>1
    <3> QED BY <3>1, <3>2
  <2> QED BY <2>1, <2>2, <2>3
<1>4. /\ Lengths(tab, 0, n - 1) = Lengths(tab, 0, k - 1) + Lengths(tab, k, n - 1)
      /\ Lengths(tab, k, n - 1) = Lengths(tab, k, k) + Lengths(tab, k + 1, n - 1)
  <2>1. Lengths(tab, 0, n - 1) = Lengths(tab, 0, k - 1) + Lengths(tab, k, n - 1)
    BY <1>1, LengthsSplit
  <2>2. Lengths(tab, k, n - 1) = Lengths(tab, k, (k + 1) - 1) + Lengths(tab, k + 1, n - 1)
    BY <1>1, LengthsSplit
  <2> QED BY <2>1, <2>2
<1>5. /\ Lengths(new, 0, n) = Lengths(new, 0, k - 1) + Lengths(new, k, n)
      /\ Lengths(new, k, n) = Lengths(new, k, k) + Lengths(new, k + 1, n)
      /\ Lengths(new, k + 1, n) = Lengths(new, k + 1, k + 1) + Lengths(new, k + 2, n)
  <2>1. Lengths(new, 0, n) = Lengths(new, 0, k - 1) + Lengths(new, k, n)
    BY <1>3, LengthsSplit
  <2>2. Lengths(new, k, n) = Lengths(new, k, (k + 1) - 1) + Lengths(new, k + 1, n)
    BY <1>3, LengthsSplit
  <2>3. Lengths(new, k + 1, n) = Lengths(new, k + 1, (k + 2) - 1) + Lengths(new, k + 2, n)
    BY <1>3, LengthsSplit
  <2>4. (k + 1) - 1 = k /\ (k + 2) - 1 = k + 1
    OBVIOUS
  <2> QED BY <2>1, <2>2, <2>3, <2>4
<1>6. Lengths(new, 0, k - 1) = Lengths(tab, 0, k - 1)
  BY <1>2, LengthsSame
<1>7. Lengths(new, k + 2, n) = Lengths(tab, k + 1, n - 1)
  <2>1. /\ k + 1 \in Nat /\ n - 1 \in Int /\ (k + 1) + 1 = k + 2 /\ (n - 1) + 1 = n
        /\ \A m \in k + 1 .. n - 1 : tab[m].len \in Nat
    BY <1>1
  <2>2. Lengths(new, (k + 1) + 1, (n - 1) + 1) = Lengths(tab, k + 1, n - 1)
    BY ONLY <1>2, <2>1, LengthsShifted
  <2> QED BY <2>1, <2>2
<1>8. /\ Lengths(tab, k, k) = tab[k].len /\ Lengths(new, k, k) = new[k].len
      /\ Lengths(new, k + 1, k + 1) = new[k + 1].len
  <2>1. /\ k \in Nat /\ k + 1 \in Nat /\ tab[k].len \in Nat /\ new[k].len \in Nat
        /\ new[k + 1].len \in Nat
    BY <1>1, <1>3
  <2> QED BY <2>1, LengthsOne
<1>9. Lengths(tab, 0, k - 1) \in Nat /\ Lengths(tab, k + 1, n - 1) \in Nat /\ tab[k].len \in Nat
  BY <1>1, LengthsType
<1> QED BY <1>2, <1>4, <1>5, <1>6, <1>7, <1>8, <1>9 DEF new

(* Byte c of a region lies below byte d of one that starts at its end.     *)
LEMMA ByteBelow ==
    \A base, len, c, base2, d \in Nat :
        1 <= d /\ c <= len /\ base + len <= base2 => base + c - 1 # base2 + d - 1
OBVIOUS

(* Slots that share no byte have as much memory as the bytes they cover.   *)
LEMMA LengthsOfBytes ==
    ASSUME NEW n \in Nat, NEW tab \in [0 .. n - 1 -> Region], Ordered(tab, n),
           NEW B, B \subseteq Nat, \A b \in Nat : b \in B <=> Covered(tab, n, b)
    PROVE  Lengths(tab, 0, n - 1) = Cardinality(B)
<1> DEFINE S == 0 .. n - 1
           f == [m \in S |-> tab[m].len]
           p == [u \in Units(f, S) |-> tab[u[1]].base + u[2] - 1]
<1>1. \A m \in S : tab[m].base \in Nat /\ tab[m].len \in Nat
  BY DEF Region
<1>2. IsFiniteSet(S) /\ f \in [S -> Nat]
  BY <1>1, FS_Interval
<1>3. \A u \in Units(f, S) : /\ u = <<u[1], u[2]>> /\ u[1] \in S /\ u[2] \in Nat
                             /\ 1 <= u[2] /\ u[2] <= tab[u[1]].len
  BY <1>1 DEF Units
<1>4. p \in [Units(f, S) -> B]
  <2> SUFFICES ASSUME NEW u \in Units(f, S) PROVE tab[u[1]].base + u[2] - 1 \in B
    OBVIOUS
  <2> DEFINE b == tab[u[1]].base + u[2] - 1
  <2>1. /\ tab[u[1]].base \in Nat /\ tab[u[1]].len \in Nat /\ u[1] \in S /\ u[2] \in Nat
        /\ 1 <= u[2] /\ u[2] <= tab[u[1]].len
    BY <1>1, <1>3
  <2>2. b \in Nat /\ tab[u[1]].base <= b /\ b < tab[u[1]].base + tab[u[1]].len
    BY ONLY <2>1
  <2> HIDE DEF b
  <2>3. Covered(tab, n, b)
    BY <2>1, <2>2 DEF Covered
  <2> QED BY <2>2, <2>3 DEF b
<1>5. ASSUME NEW u \in Units(f, S), NEW w \in Units(f, S), p[u] = p[w] PROVE u = w
  <2>1. /\ u[1] \in S /\ u[2] \in Nat /\ 1 <= u[2] /\ u[2] <= tab[u[1]].len
        /\ w[1] \in S /\ w[2] \in Nat /\ 1 <= w[2] /\ w[2] <= tab[w[1]].len
        /\ tab[u[1]].base \in Nat /\ tab[u[1]].len \in Nat
        /\ tab[w[1]].base \in Nat /\ tab[w[1]].len \in Nat
    BY <1>1, <1>3
  <2>2. tab[u[1]].base + u[2] - 1 = tab[w[1]].base + w[2] - 1
    BY <1>5
  <2>3. ~(u[1] < w[1])
    <3> SUFFICES ASSUME u[1] < w[1] PROVE FALSE
      OBVIOUS
    <3>1. tab[u[1]].base + tab[u[1]].len <= tab[w[1]].base
      BY <2>1 DEF Ordered, End
    <3> QED BY <2>1, <2>2, <3>1, ByteBelow
  <2>4. ~(w[1] < u[1])
    <3> SUFFICES ASSUME w[1] < u[1] PROVE FALSE
      OBVIOUS
    <3>1. tab[w[1]].base + tab[w[1]].len <= tab[u[1]].base
      BY <2>1 DEF Ordered, End
    <3> QED BY <2>1, <2>2, <3>1, ByteBelow
  <2>5. u[1] = w[1]
    BY <2>1, <2>3, <2>4
  <2>6. u[2] = w[2]
    <3>1. tab[u[1]].base = tab[w[1]].base
      BY <2>5
    <3> QED BY ONLY <2>1, <2>2, <3>1
  <2> QED BY <1>3, <2>5, <2>6
<1>6. ASSUME NEW b \in B PROVE \E u \in Units(f, S) : p[u] = b
  <2>1. b \in Nat /\ Covered(tab, n, b)
    BY <1>6
  <2>2. PICK m \in S : tab[m].base <= b /\ b < tab[m].base + tab[m].len
    BY <2>1 DEF Covered
  <2> DEFINE c == b - tab[m].base + 1
  <2>3. c \in Nat /\ c \in 1 .. tab[m].len /\ tab[m].base + c - 1 = b
    BY <1>1, <2>1, <2>2
  <2> HIDE DEF c
  <2>4. <<m, c>> \in Units(f, S)
    BY <2>2, <2>3 DEF Units
  <2> DEFINE u == <<m, c>>
  <2>5. u \in Units(f, S) /\ u[1] = m /\ u[2] = c
    BY <2>4
  <2> HIDE DEF u, f, S
  <2>6. p[u] = tab[u[1]].base + u[2] - 1
    BY <2>5
  <2> HIDE DEF p
  <2>7. tab[u[1]].base + u[2] - 1 = tab[m].base + c - 1
    BY ONLY <2>5
  <2>8. p[u] = b
    BY ONLY <2>3, <2>6, <2>7
  <2> QED BY <2>5, <2>8
<1>7. p \in Bijection(Units(f, S), B)
  <2> HIDE DEF p
  <2> QED BY <1>4, <1>5, <1>6 DEF Bijection, Injection, IsInjective, Surjection
<1>8. IsFiniteSet(Units(f, S)) /\ SumFunction(f) = Cardinality(Units(f, S))
  <2> HIDE DEF f, S
  <2> QED BY <1>2, SumIs
<1> HIDE DEF f, p, S
<1>9. Cardinality(B) = Cardinality(Units(f, S))
  <2>1. ExistsBijection(Units(f, S), B)
    BY <1>7 DEF ExistsBijection
  <2> QED BY ONLY <1>8, <2>1, FS_Bijection
<1>10. SumFunction(f) = Cardinality(B)
  BY <1>8, <1>9
<1> QED BY <1>10 DEF Lengths, f, S

(* free_pages adds lengths up, and never drops one.                        *)
LEMMA FreedTableLengths ==
    ASSUME NEW n \in Nat, NEW tab \in [0 .. n - 1 -> Region], NEW k \in 0 .. n - 1
    PROVE  Lengths(FreedTable(tab, n, k).tab, 0, FreedTable(tab, n, k).n - 1)
              = Lengths(tab, 0, n - 1)
<1> DEFINE freed == Freed(tab, k)
           prev  == k > 0 /\ freed[k - 1].is_free
           k1    == IF prev THEN k - 1 ELSE k
           n1    == IF prev THEN n - 1 ELSE n
           tab1  == IF prev THEN Absorb(freed, n, k - 1) ELSE freed
           next  == k1 < n1 - 1 /\ tab1[k1 + 1].is_free
           tab2  == IF next THEN Absorb(tab1, n1, k1) ELSE tab1
           n2    == IF next THEN n1 - 1 ELSE n1
<1>1. /\ freed \in [0 .. n - 1 -> Region]
      /\ Lengths(freed, 0, n - 1) = Lengths(tab, 0, n - 1)
  <2>1. /\ freed \in [0 .. n - 1 -> Region]
        /\ \A m \in 0 .. n - 1 : freed[m].len = tab[m].len
    BY DEF Freed, Region
  <2> HIDE DEF freed
  <2> QED BY <2>1, LengthsSame
<1> HIDE DEF freed
<1>2. /\ n1 \in Nat /\ k1 \in 0 .. n1 - 1 /\ tab1 \in [0 .. n1 - 1 -> Region]
      /\ Lengths(tab1, 0, n1 - 1) = Lengths(freed, 0, n - 1)
  <2>1. CASE prev
    <3>1. k - 1 \in 0 .. n - 2 /\ n - 1 \in Nat /\ (n - 1) - 1 = n - 2
      BY <2>1
    <3>2. n1 = n - 1 /\ k1 = k - 1 /\ tab1 = Absorb(freed, n, k - 1)
      BY <2>1
    <3>3. tab1 \in [0 .. n - 2 -> Region]
      BY <3>1, <3>2, <1>1, AbsorbTable
    <3>4. Lengths(tab1, 0, n - 2) = Lengths(freed, 0, n - 1)
      BY <3>1, <3>2, <1>1, AbsorbLengths
    <3> HIDE DEF tab1, n1, k1
    <3> QED BY <3>1, <3>2, <3>3, <3>4
  <2>2. CASE ~prev
    BY <2>2, <1>1
  <2> QED BY <2>1, <2>2
<1> HIDE DEF tab1, n1, k1
<1>3. Lengths(tab2, 0, n2 - 1) = Lengths(tab1, 0, n1 - 1)
  <2>1. CASE next
    <3>1. /\ k1 \in 0 .. n1 - 2 /\ n2 = n1 - 1 /\ tab2 = Absorb(tab1, n1, k1)
          /\ (n1 - 1) - 1 = n1 - 2
      BY <2>1, <1>2
    <3> HIDE DEF tab2, n2
    <3>2. Lengths(Absorb(tab1, n1, k1), 0, n1 - 2) = Lengths(tab1, 0, n1 - 1)
      BY <3>1, <1>2, AbsorbLengths
    <3> QED BY <3>1, <3>2
  <2>2. CASE ~next
    BY <2>2
  <2> QED BY <2>1, <2>2
<1>4. FreedTable(tab, n, k).tab = tab2 /\ FreedTable(tab, n, k).n = n2
  BY DEF FreedTable, freed, tab1, n1, k1
<1> HIDE DEF tab2, n2
<1> QED BY <1>1, <1>2, <1>3, <1>4

(* Once init is over, the lengths in the table add up to the usable memory *)
(* of the map.                                                             *)
AmountInv ==
    phase = "ready" /\ memmap # NoResponse /\ Len(memmap) <= MAX_REGIONS =>
        Lengths(regions, 0, region_count - 1) = Cardinality(Usable)

LEMMA AmountKept ==
    ASSUME AmountInv, phase = "ready", memmap' = memmap,
           Lengths(regions', 0, region_count' - 1) = Lengths(regions, 0, region_count - 1)
    PROVE  AmountInv'
<1>1. Usable' = Usable /\ Len(memmap') = Len(memmap)
  BY DEF Usable
<1> QED BY <1>1 DEF AmountInv, Lengths

LEMMA AmountInit == IInv /\ SpaceInv /\ InitStep => AmountInv'
<1> SUFFICES ASSUME IInv, SpaceInv, InitStep, phase' = "ready", memmap' # NoResponse,
                    Len(memmap') <= MAX_REGIONS
             PROVE  Lengths(regions, 0, region_count - 1)' = Cardinality(Usable)'
  BY DEF AmountInv
<1>1. /\ phase = "merge" /\ memmap' = memmap /\ regions' = regions
      /\ region_count' = region_count
  <2>1. phase \in {"collect", "sort", "merge", "ready"} /\ ~InitNoResponse
    BY DEF InitStep, InitNoResponse, CollectEntry, CollectDone, SortUnderflow, SortCompare,
           SortNextPass, SortDone, MergeTouching, MergeSkip, MergeDone
  <2>2. MergeDone
    BY <2>1 DEF InitStep, CollectEntry, CollectDone, SortUnderflow, SortCompare,
           SortNextPass, SortDone, MergeTouching, MergeSkip, MergeDone, loop
  <2> QED BY <2>2 DEF MergeDone, table
<1>2. /\ memmap # NoResponse /\ Len(memmap) <= MAX_REGIONS
      /\ memmap \in Seq(Entry)
  BY <1>1, MapFacts
<1>3. \A b \in Nat : Covered(regions, region_count, b) <=> UsableUpTo(Len(memmap), b)
  BY <1>1, <1>2 DEF SpaceInv
<1>4. Usable \subseteq Nat /\ \A b \in Nat : b \in Usable <=> Covered(regions, region_count, b)
  BY <1>2, <1>3, UsableIs
<1>5. /\ region_count \in Nat /\ regions \in [0 .. region_count - 1 -> Region]
      /\ Ordered(regions, region_count)
  BY <1>1 DEF IInv, TypeOK, Slots, RegionsDisjoint
<1>6. Lengths(regions, 0, region_count - 1) = Cardinality(Usable)
  BY <1>4, <1>5, LengthsOfBytes
<1>7. Usable' = Usable
  BY <1>1 DEF Usable
<1> QED BY <1>1, <1>6, <1>7 DEF Lengths

LEMMA AmountReady ==
    ASSUME IInv, AmountInv, phase = "ready", memmap' = memmap,
           \/ UNCHANGED table
           \/ \E k \in Slots :
                /\ regions' = FreedTable(regions, region_count, k).tab
                /\ region_count' = FreedTable(regions, region_count, k).n
           \/ \E k \in Slots : regions' = Taken(regions, k) /\ region_count' = region_count
           \/ \E k \in Slots, sz \in Nat :
                /\ sz < regions[k].len
                /\ regions' = Split(regions, region_count, k, sz)
                /\ region_count' = region_count + 1
    PROVE  AmountInv'
<1> DEFINE n == region_count
<1> SUFFICES Lengths(regions', 0, region_count' - 1) = Lengths(regions, 0, n - 1)
  BY AmountKept
<1>1. n \in Nat /\ Slots = 0 .. n - 1 /\ regions \in [0 .. n - 1 -> Region]
  BY ReadyFacts
<1>2. CASE UNCHANGED table
  BY <1>2 DEF table
<1>3. ASSUME NEW k \in Slots, regions' = FreedTable(regions, n, k).tab,
             region_count' = FreedTable(regions, n, k).n
      PROVE  Lengths(regions', 0, region_count' - 1) = Lengths(regions, 0, n - 1)
  <2>1. Lengths(FreedTable(regions, n, k).tab, 0, FreedTable(regions, n, k).n - 1)
              = Lengths(regions, 0, n - 1)
    BY <1>1, FreedTableLengths
  <2> QED BY <1>3, <2>1
<1>4. ASSUME NEW k \in Slots, regions' = Taken(regions, k), region_count' = n
      PROVE  Lengths(regions', 0, region_count' - 1) = Lengths(regions, 0, n - 1)
  <2>1. \A m \in 0 .. n - 1 : regions'[m].len = regions[m].len
    BY <1>1, <1>4 DEF Taken, Region
  <2> QED BY <2>1, <1>4, LengthsSame
<1>5. ASSUME NEW k \in Slots, NEW sz \in Nat, sz < regions[k].len,
             regions' = Split(regions, n, k, sz), region_count' = n + 1
      PROVE  Lengths(regions', 0, region_count' - 1) = Lengths(regions, 0, n - 1)
  <2>1. k \in 0 .. n - 1 /\ (n + 1) - 1 = n /\ regions[k].len \in Nat
    BY <1>1 DEF Region
  <2>2. sz <= regions[k].len
    BY <2>1, <1>5
  <2>3. Lengths(Split(regions, n, k, sz), 0, n) = Lengths(regions, 0, n - 1)
    BY <1>1, <2>1, <2>2, SplitLengths
  <2> QED BY <1>5, <2>1, <2>3
<1> QED BY <1>2, <1>3, <1>4, <1>5

LEMMA AmountStep == IInv /\ SpaceInv /\ AmountInv /\ [Next]_vars => AmountInv'
<1> SUFFICES ASSUME IInv, SpaceInv, AmountInv, [Next]_vars PROVE AmountInv'
  OBVIOUS
<1>1. CASE InitStep
  BY <1>1, AmountInit
<1>2. ASSUME NEW count \in Counts, Alloc(count) PROVE AmountInv'
  <2>1. phase = "ready"
    BY <1>2 DEF Alloc
  <2>2. CASE AllocExact(count)
    BY <2>1, <2>2, AmountReady DEF AllocExact
  <2>3. CASE AllocSplit(count)
    <3>1. PICK k \in Slots : /\ FirstFit(k, Size(count)) /\ regions[k].len # Size(count)
                             /\ regions' = Split(regions, region_count, k, Size(count))
                             /\ region_count' = region_count + 1
                             /\ UNCHANGED <<memmap, loop>>
      BY <2>3 DEF AllocSplit
    <3>2. regions[k].len >= Size(count) /\ Size(count) \in Nat /\ regions[k].len \in Nat
      BY <3>1, <2>1, ReadyFacts, SizePositive DEF FirstFit, Fits, Region
    <3>3. Size(count) < regions[k].len
      BY <3>1, <3>2
    <3> QED BY <3>1, <3>2, <3>3, <2>1, AmountReady
  <2>4. CASE AllocTableFull(count) \/ AllocNoFit(count)
    BY <2>1, <2>4, AmountReady DEF AllocTableFull, AllocNoFit, vars, table
  <2> QED BY <1>2, <2>2, <2>3, <2>4 DEF Alloc
<1>3. ASSUME NEW base, NEW count, Free(base, count) PROVE AmountInv'
  BY <1>3, AmountReady DEF Free, FreeMatch, FreeInvalid
<1>4. CASE UNCHANGED <<memmap, phase, regions, region_count>>
  BY <1>4, AmountKept DEF AmountInv
<1>5. ASSUME NEW a \in held, FreeHeld(a) \/ Use(a) PROVE AmountInv'
  BY <1>3, <1>4, <1>5 DEF FreeHeld, Use, loop, table
<1>6. ASSUME NEW base \in StrayBases, NEW count \in Counts, FreeStray(base, count) PROVE AmountInv'
  BY <1>3, <1>6 DEF FreeStray
<1> QED BY <1>1, <1>2, <1>4, <1>5, <1>6 DEF Next, Overrun, vars, loop, table

(* The used slots and the allocations that are held are the same amounts   *)
(* of memory under other names.                                            *)
LEMMA UsedAmount ==
    ASSUME IInv, phase = "ready",
           NEW U, U = {k \in Slots : ~regions[k].is_free}
    PROVE  SumFunction([k \in U |-> regions[k].len]) = SumFunction([a \in held |-> Size(a.count)])
<1> DEFINE f == [k \in U |-> regions[k].len]
           g == [a \in held |-> Size(a.count)]
           p == [k \in U |-> CHOOSE a \in held : Matches(k, a.base, a.count)]
<1>1. /\ region_count \in Nat /\ Slots = 0 .. region_count - 1
      /\ regions \in [0 .. region_count - 1 -> Region]
      /\ Positive(regions, region_count) /\ Ordered(regions, region_count)
      /\ held \subseteq [base : Nat, count : Counts]
  BY ReadyFacts
<1>2. IsFiniteSet(U)
  <2>1. U \subseteq Slots /\ IsFiniteSet(Slots)
    BY <1>1, FS_Interval
  <2> QED BY <2>1, FS_Subset
<1>3. f \in [U -> Nat] /\ g \in [held -> Nat]
  BY <1>1, SizePositive DEF Region
<1>4. \A k \in U : p[k] \in held /\ Matches(k, p[k].base, p[k].count)
  BY DEF IInv, UsedIsHeld
<1>5. \A k \in U : g[p[k]] = f[k]
  BY <1>4 DEF Matches
<1>6. ASSUME NEW k \in U, NEW m \in U, p[k] = p[m] PROVE k = m
  <2>1. regions[k].base = regions[m].base
    BY <1>4, <1>6 DEF Matches
  <2> QED BY <1>1, <2>1, BasesDiffer
<1>7. ASSUME NEW a \in held PROVE \E k \in U : p[k] = a
  <2>1. PICK k \in U : regions[k].base = a.base /\ regions[k].len = Size(a.count)
    BY <1>1 DEF IInv, UsedIsHeld, UsedAt
  <2>2. p[k] \in held /\ p[k].base = a.base /\ Size(p[k].count) = Size(a.count)
    BY <1>4, <2>1 DEF Matches
  <2> HIDE DEF p
  <2>3. p[k].count = a.count
    BY <1>1, <2>2, SizeInjective
  <2>4. p[k] \in [base : Nat, count : Counts] /\ a \in [base : Nat, count : Counts]
    BY <1>1, <2>2
  <2> QED BY <2>2, <2>3, <2>4
<1>8. p \in [U -> held]
  BY <1>4
<1> HIDE DEF p, f, g
<1>9. SameNumbers(f, U, g, held)
  BY <1>5, <1>6, <1>7, <1>8 DEF SameNumbers
<1>10. SumFunction(f) = SumFunction(g)
  BY ONLY <1>2, <1>3, <1>9, SumRenamed
<1> QED BY <1>10 DEF f, g

(* No memory is gained or lost, on a map with holes or without: what       *)
(* get_free_memory reports and what the callers hold add up to the usable  *)
(* memory of the map.                                                      *)
THEOREM MemoryNeverLost == Spec => []MemoryConserved
<1>1. Init => AmountInv
  BY DEF Init, AmountInv
<1>2. ASSUME IInv, AmountInv PROVE MemoryConserved
  <2> SUFFICES ASSUME phase = "ready", memmap # NoResponse, Len(memmap) <= MAX_REGIONS
               PROVE  FreeMemory + SumFunction([a \in held |-> Size(a.count)]) = Cardinality(Usable)
    BY DEF MemoryConserved
  <2> DEFINE U == {k \in Slots : ~regions[k].is_free}
             f == [k \in Slots |-> regions[k].len]
             g == [k \in FreeSlots |-> regions[k].len]
             h == [k \in U |-> regions[k].len]
  <2>1. /\ Slots = 0 .. region_count - 1 /\ IsFiniteSet(Slots)
        /\ \A k \in Slots : regions[k].len \in Nat
    BY <1>2, ReadyFacts, FS_Interval DEF Region
  <2>2. Slots = FreeSlots \cup U /\ FreeSlots \cap U = {}
    BY DEF FreeSlots
  <2>3. IsFiniteSet(FreeSlots) /\ IsFiniteSet(U)
    BY <2>1, <2>2, FS_Subset
  <2>4. f \in [FreeSlots \cup U -> Nat] /\ g \in [FreeSlots -> Nat] /\ h \in [U -> Nat]
    BY <2>1, <2>2
  <2>5. (\A k \in FreeSlots : g[k] = f[k]) /\ (\A k \in U : h[k] = f[k])
    BY <2>2
  <2>6. SumFunction(f) = Cardinality(Usable)
    BY <1>2, <2>1 DEF AmountInv, Lengths
  <2>7. SumFunction(h) = SumFunction([a \in held |-> Size(a.count)])
    <3> HIDE DEF h
    <3>1. U = {k \in Slots : ~regions[k].is_free}
      OBVIOUS
    <3> HIDE DEF U
    <3>2. SumFunction([k \in U |-> regions[k].len]) = SumFunction([a \in held |-> Size(a.count)])
      BY <1>2, <3>1, UsedAmount
    <3> QED BY <3>2 DEF h
  <2>8. FreeMemory = SumFunction(g)
    BY DEF FreeMemory
  <2> HIDE DEF U, f, g, h
  <2>9. SumFunction(f) = SumFunction(g) + SumFunction(h)
    <3> HIDE DEF FreeSlots
    <3> QED BY ONLY <2>2, <2>3, <2>4, <2>5, SumOfTwo
  <2> QED BY <2>6, <2>7, <2>8, <2>9
<1>3. IInv /\ SpaceInv /\ AmountInv /\ [Next]_vars => AmountInv'
  BY AmountStep
<1> QED BY <1>1, <1>2, <1>3, Inductive, SpaceInductive, PTL DEF Spec
=============================================================================
