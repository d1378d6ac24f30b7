----------------------- MODULE DetachedAreas_proofs -----------------------
(***************************************************************************)
(* Proofs about DetachedAreas, for any finite sets of threads and areas    *)
(* and any programs.  The tables of one thread are dealt with first, as    *)
(* functions of them: what hb_waNodeInsert() and hb_waNodeDelete() make of *)
(* tables that agree are tables that agree.                                *)
(***************************************************************************)
EXTENDS DetachedAreas, FiniteSetTheorems, SequenceTheorems, WellFoundedInduction, TLAPS

-----------------------------------------------------------------------------
(* Smallest and largest numbers, lists.                                    *)

\* A set of numbers that is not empty has a smallest one.
LEMMA SmallestExists ==
    ASSUME NEW S \in SUBSET Nat, S # {}
    PROVE  \E m \in S : \A k \in S : m <= k
<1> DEFINE R == OpToRel(<, Nat)
<1>1. IsWellFoundedOn(R, Nat)
  BY NatLessThanWellFounded
<1>2. \A x, y \in Nat : <<y, x>> \in R <=> y < x
  BY DEF OpToRel
<1> HIDE DEF R
<1>3. PICK x \in S : \A y \in S : ~(<<y, x>> \in R)
  BY <1>1, WFMin
<1>4. \A y \in S : x \in Nat /\ y \in Nat /\ ~(y < x)
  BY <1>2, <1>3
<1> QED BY <1>3, <1>4

\* Min of FiniteSetsExt.
LEMMA MinProps ==
    ASSUME NEW S \in SUBSET Nat, S # {}
    PROVE  Min(S) \in S /\ \A k \in S : Min(S) <= k
BY SmallestExists DEF Min

\* A bounded one has a largest one.
LEMMA MaxProps ==
    ASSUME NEW n \in Nat, NEW S \in SUBSET (0 .. n), S # {}
    PROVE  Max(S) \in S /\ \A k \in S : k <= Max(S)
<1> DEFINE T == {k \in 0 .. n : n - k \in S}
<1>1. T \in SUBSET Nat
  OBVIOUS
<1>2. T # {}
  <2>1. PICK s \in S : TRUE
    OBVIOUS
  <2>2. n - s \in T
    BY <2>1
  <2> QED BY <2>2
<1>3. PICK m \in T : \A k \in T : m <= k
  <2> HIDE DEF T
  <2> QED BY <1>1, <1>2, SmallestExists
<1>4. \A s \in S : s \in 0 .. n /\ n - s \in T
  OBVIOUS
<1>5. n - m \in S /\ \A s \in S : n - m >= s
  BY <1>3, <1>4
<1> QED BY <1>5 DEF Max

\* The list t is s with e put in at the place p, and s without the place p.
Inserted(t, S, s, p, e) ==
    /\ t \in Seq(S) /\ Len(t) = Len(s) + 1
    /\ \A i \in 1 .. Len(s) + 1 : t[i] = IF i < p THEN s[i] ELSE IF i = p THEN e ELSE s[i - 1]
Removed(t, S, s, p) ==
    /\ t \in Seq(S) /\ Len(t) = Len(s) - 1
    /\ \A i \in 1 .. Len(s) - 1 : t[i] = IF i < p THEN s[i] ELSE s[i + 1]

\* This is what SequencesExt's InsertAt and RemoveAt do to a list.
LEMMA InsertAtProps ==
    ASSUME NEW S, NEW s \in Seq(S), NEW p \in 1 .. Len(s) + 1, NEW e \in S
    PROVE  Inserted(InsertAt(s, p, e), S, s, p, e)
<1> DEFINE l == SubSeq(s, 1, p - 1)
           m == <<e>>
           r == SubSeq(s, p, Len(s))
<1>1. l \in Seq(S) /\ Len(l) = p - 1 /\ \A i \in 1 .. p - 1 : l[i] = s[i]
  OBVIOUS
<1>2. m \in Seq(S) /\ Len(m) = 1 /\ m[1] = e
  OBVIOUS
<1>3. r \in Seq(S) /\ Len(r) = Len(s) - p + 1 /\ \A i \in 1 .. Len(s) - p + 1 : r[i] = s[i + p - 1]
  OBVIOUS
<1>4. InsertAt(s, p, e) = (l \o m) \o r
  BY DEF InsertAt
<1> HIDE DEF l, m, r
<1>5. l \o m \in Seq(S) /\ Len(l \o m) = p
      /\ \A i \in 1 .. p : (l \o m)[i] = IF i < p THEN s[i] ELSE e
  <2>1. /\ l \o m \in Seq(S) /\ Len(l \o m) = Len(l) + Len(m)
        /\ \A i \in 1 .. Len(l) + Len(m) :
             (l \o m)[i] = IF i <= Len(l) THEN l[i] ELSE m[i - Len(l)]
    BY <1>1, <1>2, ConcatProperties
  <2>2. Len(l) + Len(m) = p
    BY <1>1, <1>2
  <2>3. ASSUME NEW i \in 1 .. p PROVE (l \o m)[i] = IF i < p THEN s[i] ELSE e
    <3>1. (l \o m)[i] = IF i <= p - 1 THEN l[i] ELSE m[i - (p - 1)]
      BY <1>1, <2>1, <2>2
    <3>2. CASE i < p
      BY <1>1, <3>1, <3>2
    <3>3. CASE i = p
      <4>1. (l \o m)[i] = m[p - (p - 1)] /\ p - (p - 1) = 1
        BY <3>1, <3>3
      <4> QED BY <1>2, <3>3, <4>1
    <3>4. i < p \/ i = p
      OBVIOUS
    <3> QED BY <3>2, <3>3, <3>4
  <2> QED BY <2>1, <2>2, <2>3
<1> DEFINE q == l \o m
<1> HIDE DEF q
<1>6. q \in Seq(S) /\ Len(q) = p /\ \A i \in 1 .. p : q[i] = IF i < p THEN s[i] ELSE e
  BY <1>5 DEF q
<1>7. q \o r \in Seq(S) /\ Len(q \o r) = Len(s) + 1
      /\ \A i \in 1 .. Len(s) + 1 : (q \o r)[i] = IF i <= p THEN q[i] ELSE r[i - p]
  BY <1>3, <1>6, ConcatProperties
<1>8. InsertAt(s, p, e) = q \o r
  BY <1>4 DEF q
<1> DEFINE t == q \o r
<1> HIDE DEF t
<1>9. ASSUME NEW i \in 1 .. Len(s) + 1
      PROVE  t[i] = IF i < p THEN s[i] ELSE IF i = p THEN e ELSE s[i - 1]
  <2>1. t[i] = IF i <= p THEN q[i] ELSE r[i - p]
    BY <1>7 DEF t
  <2>2. CASE i <= p
    <3>1. i \in 1 .. p
      BY <2>2
    <3> QED BY <1>6, <2>1, <2>2, <3>1
  <2>3. CASE ~(i <= p)
    <3>1. i - p \in 1 .. Len(r) /\ i - p + p - 1 = i - 1 /\ ~(i < p) /\ i # p
      BY <1>3, <2>3
    <3>2. r[i - p] = s[i - 1]
      BY <1>3, <3>1
    <3> QED BY <2>1, <2>3, <3>1, <3>2
  <2> QED BY <2>2, <2>3
<1> QED BY <1>7, <1>8, <1>9 DEF t, Inserted

\* One element less, those behind it one place further to the front.
LEMMA RemoveAtProps ==
    ASSUME NEW S, NEW s \in Seq(S), NEW p \in 1 .. Len(s)
    PROVE  Removed(RemoveAt(s, p), S, s, p)
<1> DEFINE l == SubSeq(s, 1, p - 1)
           r == SubSeq(s, p + 1, Len(s))
<1>1. l \in Seq(S) /\ Len(l) = p - 1 /\ \A i \in 1 .. p - 1 : l[i] = s[i]
  OBVIOUS
<1>2. r \in Seq(S) /\ Len(r) = Len(s) - p /\ \A i \in 1 .. Len(s) - p : r[i] = s[i + p]
  OBVIOUS
<1>3. RemoveAt(s, p) = l \o r
  BY DEF RemoveAt
<1> HIDE DEF l, r
<1>4. l \o r \in Seq(S) /\ Len(l \o r) = Len(s) - 1
      /\ \A i \in 1 .. Len(s) - 1 : (l \o r)[i] = IF i < p THEN l[i] ELSE r[i - p + 1]
  <2>1. /\ l \o r \in Seq(S) /\ Len(l \o r) = Len(l) + Len(r)
        /\ \A i \in 1 .. Len(l) + Len(r) : (l \o r)[i] = IF i <= Len(l) THEN l[i] ELSE r[i - Len(l)]
    BY <1>1, <1>2, ConcatProperties
  <2> DEFINE len == Len(s)
             c == l \o r
  <2>2. len \in Nat /\ p \in 1 .. len /\ Len(l) = p - 1 /\ Len(r) = len - p
    BY <1>1, <1>2
  <2> HIDE DEF len, c
  <2>3. Len(l) + Len(r) = len - 1
    BY <2>2
  <2>4. ASSUME NEW i \in 1 .. len - 1 PROVE c[i] = IF i < p THEN l[i] ELSE r[i - p + 1]
    <3>1. i \in 1 .. Len(l) + Len(r) /\ (i <= Len(l) <=> i < p) /\ i - Len(l) = i - p + 1
      BY <2>2, <2>3
    <3> QED BY <2>1, <3>1 DEF c
  <2> QED BY <2>1, <2>3, <2>4 DEF len, c
<1> DEFINE t == l \o r
<1> HIDE DEF t
<1>5. ASSUME NEW i \in 1 .. Len(s) - 1 PROVE t[i] = IF i < p THEN s[i] ELSE s[i + 1]
  <2>1. t[i] = IF i < p THEN l[i] ELSE r[i - p + 1]
    BY <1>4 DEF t
  <2>2. CASE i < p
    <3>1. i \in 1 .. p - 1
      BY <2>2
    <3> QED BY <1>1, <2>1, <2>2, <3>1
  <2>3. CASE ~(i < p)
    <3>1. i - p + 1 \in 1 .. Len(s) - p /\ i - p + 1 + p = i + 1
      BY <2>3
    <3>2. r[i - p + 1] = s[i + 1]
      BY <1>2, <3>1
    <3> QED BY <2>1, <2>3, <3>2
  <2> QED BY <2>2, <2>3
<1> QED BY <1>3, <1>4, <1>5 DEF t, Removed

-----------------------------------------------------------------------------
(* The tables of one thread.                                               *)

\* What is known of the program.
LEMMA ProgramProps ==
    ASSUME program \in Programs
    PROVE  /\ program.maxArea \in Nat /\ program.maxArea >= 2
           /\ Main \in program.threads /\ program.threads \subseteq Threads
           /\ Tables \subseteq Areas /\ NULL \notin Tables /\ NULL \notin Aliases
           /\ \A a \in Tables : Alias(a) \in Aliases
           /\ Numbers = 0 .. program.maxArea
<1>1. IsProgram(program)
  BY AreaAssumption
<1> QED BY <1>1, AreaAssumption DEF IsProgram, Tables, Aliases, Alias, Numbers

\* The tables r agree with the numbers num of the areas: TablesAgree for one thread,
\* without CHOOSE.
Agree(r, num) ==
    /\ \A i, j \in DOMAIN r.waList : i < j => num[r.waList[i]] < num[r.waList[j]]
    /\ \A i \in DOMAIN r.waList : num[r.waList[i]] # 0 /\ r.waNums[num[r.waList[i]]] = i
    /\ \A n \in Numbers : \/ r.waNums[n] = 0
                          \/ r.waNums[n] \in DOMAIN r.waList /\ num[r.waList[r.waNums[n]]] = n
    /\ r.pCurrArea = IF r.waNums[r.uiCurrArea] = 0 THEN NULL ELSE r.waList[r.waNums[r.uiCurrArea]]

\* From a place on the areas of a list have different numbers.
Distinct(list, from) ==
    \A i, j \in from .. Len(list) : uiArea[list[i]] = uiArea[list[j]] => i = j

\* The areas of a list have their new places in the table, other numbers keep theirs.
Renumbered(new, nums, list, from) ==
    /\ new \in [Numbers -> Nat]
    /\ \A i \in from .. Len(list) : new[uiArea[list[i]]] = i
    /\ \A n \in Numbers : (\A i \in from .. Len(list) : uiArea[list[i]] # n) => new[n] = nums[n]

\* The loop of hb_waNodeInsert() and hb_waNodeDelete() does that.
LEMMA RenumberProps ==
    ASSUME program \in Programs, NEW list \in Seq(Tables), NEW nums \in [Numbers -> Nat],
           NEW from \in Nat, uiArea \in [Tables -> Numbers], from >= 1,
           Distinct(list, from)
    PROVE  Renumbered(Renumber(nums, list, from), nums, list, from)
<1> DEFINE C(n) == CHOOSE i \in from .. Len(list) : uiArea[list[i]] = n
<1>1. ASSUME NEW n \in Numbers, \E i \in from .. Len(list) : uiArea[list[i]] = n
      PROVE  C(n) \in from .. Len(list) /\ uiArea[list[C(n)]] = n
  BY <1>1
<1>2. \A n \in Numbers : Renumber(nums, list, from)[n]
        = IF \E i \in from .. Len(list) : uiArea[list[i]] = n THEN C(n) ELSE nums[n]
  BY DEF Renumber
<1>3. Renumber(nums, list, from) \in [Numbers -> Nat]
  <2>1. ASSUME NEW n \in Numbers
        PROVE  (IF \E i \in from .. Len(list) : uiArea[list[i]] = n THEN C(n) ELSE nums[n]) \in Nat
    <3> HIDE DEF C
    <3>1. CASE \E i \in from .. Len(list) : uiArea[list[i]] = n
      BY <1>1, <3>1
    <3>2. CASE ~ \E i \in from .. Len(list) : uiArea[list[i]] = n
      BY <3>2
    <3> QED BY <3>1, <3>2
  <2> QED BY <2>1 DEF Renumber
<1> HIDE DEF C
<1>4. ASSUME NEW i \in from .. Len(list)
      PROVE  Renumber(nums, list, from)[uiArea[list[i]]] = i
  <2>1. i \in 1 .. Len(list) /\ list[i] \in Tables /\ uiArea[list[i]] \in Numbers
    OBVIOUS
  <2>2. Renumber(nums, list, from)[uiArea[list[i]]] = C(uiArea[list[i]])
    BY <1>2, <2>1
  <2>3. C(uiArea[list[i]]) \in from .. Len(list)
        /\ uiArea[list[C(uiArea[list[i]])]] = uiArea[list[i]]
    BY <1>1, <2>1
  <2> QED BY <2>2, <2>3 DEF Distinct
<1>5. ASSUME NEW n \in Numbers, \A i \in from .. Len(list) : uiArea[list[i]] # n
      PROVE  Renumber(nums, list, from)[n] = nums[n]
  BY <1>2, <1>5
<1> QED BY <1>3, <1>4, <1>5 DEF Renumbered

\* HB_SET_WA()
LEMMA SelectAgrees ==
    ASSUME program \in Programs, NEW r \in RddStates, NEW num, Agree(r, num),
           NEW n \in 1 .. program.maxArea
    PROVE  /\ Select(r, n) \in RddStates /\ Agree(Select(r, n), num)
           /\ Select(r, n).waList = r.waList /\ Select(r, n).waNums = r.waNums
           /\ Select(r, n).uiCurrArea = n
           /\ Select(r, n).pCurrArea = NULL <=> r.waNums[n] = 0
<1>1. n \in Numbers /\ NULL \notin Tables
  BY ProgramProps
<1>2. /\ Select(r, n).waList = r.waList /\ Select(r, n).waNums = r.waNums
      /\ Select(r, n).uiCurrArea = n
      /\ Select(r, n).pCurrArea = IF r.waNums[n] = 0 THEN NULL ELSE r.waList[r.waNums[n]]
  BY DEF Select, RddStates
<1>3. r.waNums[n] # 0 => r.waNums[n] \in DOMAIN r.waList /\ r.waList[r.waNums[n]] \in Tables
  BY <1>1 DEF Agree, RddStates
<1>4. Select(r, n) \in RddStates
  BY <1>2, <1>3 DEF Select, RddStates
<1>5. Agree(Select(r, n), num)
  BY <1>2 DEF Agree
<1> QED BY <1>1, <1>2, <1>3, <1>4, <1>5

\* hb_waNodeDelete(): the current area leaves the list, which stays sorted.
LEMMA DeleteAgrees ==
    ASSUME program \in Programs, NEW r \in RddStates, uiArea \in [Tables -> Numbers],
           Agree(r, uiArea), r.pCurrArea # NULL
    PROVE  /\ NodeDelete(r) \in RddStates /\ Agree(NodeDelete(r), uiArea)
           /\ NodeDelete(r).uiCurrArea = r.uiCurrArea /\ NodeDelete(r).pCurrArea = NULL
           /\ r.pCurrArea \in ToSet(r.waList) /\ uiArea[r.pCurrArea] = r.uiCurrArea
           /\ ToSet(NodeDelete(r).waList) = ToSet(r.waList) \ {r.pCurrArea}
<1> DEFINE cur == r.uiCurrArea
           pos == r.waNums[cur]
           list == RemoveAt(r.waList, pos)
           nums == [r.waNums EXCEPT ![cur] = 0]
           new == Renumber(nums, list, pos)
           L == Len(r.waList)
<1>1. /\ cur \in Numbers /\ r.waList \in Seq(Tables) /\ r.waNums \in [Numbers -> Nat]
      /\ L \in Nat /\ DOMAIN r.waList = 1 .. L
  BY ProgramProps DEF RddStates
<1>2. pos \in 1 .. L /\ r.pCurrArea = r.waList[pos] /\ uiArea[r.waList[pos]] = cur
  BY <1>1 DEF Agree
<1>3. /\ \A i, j \in 1 .. L : i < j => uiArea[r.waList[i]] < uiArea[r.waList[j]]
      /\ \A i \in 1 .. L : uiArea[r.waList[i]] # 0 /\ r.waNums[uiArea[r.waList[i]]] = i
      /\ \A n \in Numbers : \/ r.waNums[n] = 0
                            \/ r.waNums[n] \in 1 .. L /\ uiArea[r.waList[r.waNums[n]]] = n
  BY <1>1 DEF Agree
<1>4. /\ NodeDelete(r).waList = list /\ NodeDelete(r).waNums = new
      /\ NodeDelete(r).uiCurrArea = cur /\ NodeDelete(r).pCurrArea = NULL
  BY DEF NodeDelete, RddStates
<1>5. /\ list \in Seq(Tables) /\ Len(list) = L - 1 /\ DOMAIN list = 1 .. L - 1
      /\ \A i \in 1 .. L - 1 : list[i] = IF i < pos THEN r.waList[i] ELSE r.waList[i + 1]
  <2>1. list \in Seq(Tables) /\ Len(list) = L - 1
        /\ \A i \in 1 .. L - 1 : list[i] = IF i < pos THEN r.waList[i] ELSE r.waList[i + 1]
    <3> DEFINE w == r.waList
    <3>1. w \in Seq(Tables) /\ pos \in 1 .. Len(w)
      BY <1>1, <1>2
    <3> HIDE DEF w, pos
    <3>2. Removed(RemoveAt(w, pos), Tables, w, pos)
      BY <3>1, RemoveAtProps
    <3> QED BY <3>2 DEF Removed, w
  <2> QED BY <2>1
<1>6. nums \in [Numbers -> Nat] /\ nums[cur] = 0 /\ \A n \in Numbers : n # cur => nums[n] = r.waNums[n]
  BY <1>1
<1> DEFINE old(i) == uiArea[r.waList[i]]
           num(i) == uiArea[list[i]]
<1> HIDE DEF list, nums, pos, L
<1>7. /\ \A i \in 1 .. L : old(i) \in Numbers /\ old(i) \in Nat /\ old(i) # 0 /\ r.waNums[old(i)] = i
      /\ \A i, j \in 1 .. L : i < j => old(i) < old(j)
      /\ \A n \in Numbers : r.waNums[n] = 0 \/ (r.waNums[n] \in 1 .. L /\ old(r.waNums[n]) = n)
      /\ old(pos) = cur
  <2>1. \A i \in 1 .. L : old(i) \in Numbers
    BY <1>1 DEF L
  <2>2. Numbers \subseteq Nat
    BY ProgramProps
  <2> QED BY <1>2, <1>3, <2>1, <2>2
<1>8. \A i \in 1 .. L - 1 : num(i) = IF i < pos THEN old(i) ELSE old(i + 1)
  BY <1>5
<1> HIDE DEF old, num, cur
<1>p. L \in Nat /\ pos \in Nat /\ 1 <= pos /\ pos <= L /\ pos \in 1 .. L
  BY <1>1, <1>2
<1>9. ASSUME NEW i \in 1 .. L - 1
      PROVE  num(i) \in Numbers /\ num(i) \in Nat /\ num(i) # 0 /\ num(i) # cur
  <2>1. CASE i < pos
    <3>1. i \in 1 .. L /\ num(i) = old(i)
      BY <1>p, <1>8, <2>1
    <3> QED BY <1>p, <1>7, <2>1, <3>1
  <2>2. CASE ~(i < pos)
    <3>1. i + 1 \in 1 .. L /\ pos < i + 1 /\ num(i) = old(i + 1)
      BY <1>p, <1>8, <2>2
    <3> QED BY <1>p, <1>7, <3>1
  <2> QED BY <2>1, <2>2
<1>10. ASSUME NEW i \in 1 .. L - 1, NEW j \in 1 .. L - 1, i < j PROVE num(i) < num(j)
  <2> DEFINE at(k) == IF k < pos THEN k ELSE k + 1
  <2>1. at(i) \in 1 .. L /\ at(j) \in 1 .. L /\ at(i) < at(j)
    BY <1>p, <1>10
  <2>2. num(i) = old(at(i)) /\ num(j) = old(at(j))
    BY <1>8
  <2> HIDE DEF at
  <2> QED BY <1>7, <2>1, <2>2
<1>11. /\ new \in [Numbers -> Nat]
       /\ \A i \in pos .. L - 1 : new[num(i)] = i
       /\ \A n \in Numbers : (\A i \in pos .. L - 1 : num(i) # n) => new[n] = nums[n]
  <2>1. \A i, j \in pos .. L - 1 : num(i) = num(j) => i = j
    <3> SUFFICES ASSUME NEW i \in pos .. L - 1, NEW j \in pos .. L - 1, i # j
                 PROVE  num(i) # num(j)
      OBVIOUS
    <3>1. i \in 1 .. L - 1 /\ j \in 1 .. L - 1 /\ (i < j \/ j < i)
      BY <1>p
    <3>2. num(i) \in Nat /\ num(j) \in Nat /\ (num(i) < num(j) \/ num(j) < num(i))
      BY <1>9, <1>10, <3>1
    <3> QED BY <3>2
  <2>2. Distinct(list, pos)
    BY <1>5, <2>1 DEF num, Distinct
  <2>3. pos \in Nat /\ pos >= 1
    BY <1>1, <1>2
  <2>4. /\ new \in [Numbers -> Nat]
        /\ \A i \in pos .. Len(list) : new[uiArea[list[i]]] = i
        /\ \A n \in Numbers : (\A i \in pos .. Len(list) : uiArea[list[i]] # n) => new[n] = nums[n]
    <3>1. list \in Seq(Tables) /\ nums \in [Numbers -> Nat]
      BY <1>5, <1>6
    <3>2. Renumbered(Renumber(nums, list, pos), nums, list, pos)
      BY <2>2, <2>3, <3>1, RenumberProps
    <3> QED BY <3>2 DEF Renumbered
  <2> QED BY <1>5, <2>4 DEF num
<1> HIDE DEF new
<1>12. ASSUME NEW i \in 1 .. L - 1 PROVE new[num(i)] = i
  <2>1. CASE i < pos
    <3>1. num(i) = old(i) /\ i \in 1 .. L
      BY <1>1, <1>8, <2>1
    <3>2. ASSUME NEW j \in pos .. L - 1 PROVE num(j) # num(i)
      <4>1. i \in 1 .. L - 1 /\ j \in 1 .. L - 1 /\ i < j
        BY <1>p, <2>1
      <4>2. num(i) < num(j) /\ num(i) \in Nat /\ num(j) \in Nat
        BY <1>9, <1>10, <4>1
      <4> QED BY <4>2
    <3>3. new[num(i)] = nums[num(i)]
      BY <1>9, <1>11, <3>2
    <3>4. nums[num(i)] = r.waNums[num(i)]
      BY <1>6, <1>9
    <3> QED BY <1>7, <3>1, <3>3, <3>4
  <2>2. CASE i >= pos
    BY <1>p, <1>11, <2>2
  <2> QED BY <1>p, <2>1, <2>2
<1>13. ASSUME NEW n \in Numbers
       PROVE  new[n] = 0 \/ (new[n] \in 1 .. L - 1 /\ num(new[n]) = n)
  <2>1. CASE \E i \in pos .. L - 1 : num(i) = n
    BY <1>1, <1>2, <1>11, <2>1
  <2>2. CASE \A i \in pos .. L - 1 : num(i) # n
    <3>1. new[n] = nums[n]
      BY <1>11, <2>2
    <3>2. CASE n = cur
      BY <1>6, <3>1, <3>2
    <3>3. CASE n # cur
      <4> DEFINE k == r.waNums[n]
      <4>1. new[n] = k /\ (k = 0 \/ (k \in 1 .. L /\ old(k) = n))
        BY <1>6, <1>7, <3>1, <3>3
      <4> HIDE DEF k
      <4>2. CASE k # 0
        <5>1. k # pos
          BY <1>7, <3>3, <4>1, <4>2
        <5>2. CASE k > pos
          <6>1. k - 1 \in pos .. L - 1 /\ k - 1 \in 1 .. L - 1 /\ ~(k - 1 < pos) /\ k - 1 + 1 = k
            BY <1>p, <4>1, <4>2, <5>2
          <6>2. num(k - 1) = old(k)
            BY <1>8, <6>1
          <6> QED BY <2>2, <4>1, <4>2, <6>1, <6>2
        <5>3. CASE k < pos
          <6>1. k \in 1 .. L - 1
            BY <1>p, <4>1, <4>2, <5>3
          <6> QED BY <1>8, <4>1, <4>2, <5>3, <6>1
        <5> QED BY <1>1, <1>2, <4>1, <4>2, <5>1, <5>2, <5>3
      <4> QED BY <4>1, <4>2
    <3> QED BY <3>2, <3>3
  <2> QED BY <2>1, <2>2
<1>14. new[cur] = 0
  <2>1. \A i \in pos .. L - 1 : num(i) # cur
    BY <1>1, <1>2, <1>9
  <2> QED BY <1>1, <1>6, <1>11, <2>1
<1>15. Agree(NodeDelete(r), uiArea)
  <2>1. \A i, j \in DOMAIN list : i < j => uiArea[list[i]] < uiArea[list[j]]
    BY <1>5, <1>10 DEF num
  <2>2. \A i \in DOMAIN list : uiArea[list[i]] # 0 /\ new[uiArea[list[i]]] = i
    BY <1>5, <1>9, <1>12 DEF num
  <2>3. \A n \in Numbers : new[n] = 0 \/ (new[n] \in DOMAIN list /\ uiArea[list[new[n]]] = n)
    BY <1>5, <1>13 DEF num
  <2> DEFINE x == NodeDelete(r)
  <2>4. x.waList = list /\ x.waNums = new /\ x.uiCurrArea = cur /\ x.pCurrArea = NULL
    BY <1>4 DEF cur
  <2> HIDE DEF x
  <2>5. Agree(x, uiArea)
    BY <1>14, <2>1, <2>2, <2>3, <2>4 DEF Agree
  <2> QED BY <2>5 DEF x
<1>16. NodeDelete(r) \in RddStates
  BY <1>4, <1>5, <1>11 DEF NodeDelete, RddStates
<1>17. ToSet(list) = ToSet(r.waList) \ {r.pCurrArea}
  <2>1. ASSUME NEW x \in ToSet(list) PROVE x \in ToSet(r.waList) /\ x # r.pCurrArea
    <3>1. PICK i \in 1 .. L - 1 : list[i] = x
      BY <1>5 DEF ToSet
    <3>2. PICK j \in 1 .. L : x = r.waList[j]
      <4>1. i \in 1 .. L /\ i + 1 \in 1 .. L
        BY <1>1, <3>1
      <4> QED BY <1>5, <3>1, <4>1
    <3>3. uiArea[x] # cur /\ uiArea[r.pCurrArea] = cur
      BY <1>2, <1>7, <1>9, <3>1 DEF num, old
    <3> QED BY <1>1, <3>2, <3>3 DEF ToSet
  <2>2. ASSUME NEW x \in ToSet(r.waList), x # r.pCurrArea PROVE x \in ToSet(list)
    <3>1. PICK j \in 1 .. L : x = r.waList[j]
      BY <1>1 DEF ToSet
    <3>2. j # pos
      BY <1>2, <2>2, <3>1
    <3>3. PICK i \in 1 .. L - 1 : list[i] = x
      <4>1. CASE j < pos
        <5>1. j \in 1 .. L - 1
          BY <1>1, <1>2, <3>1, <4>1
        <5> QED BY <1>5, <3>1, <4>1, <5>1
      <4>2. CASE j > pos
        <5>1. j - 1 \in 1 .. L - 1 /\ ~(j - 1 < pos) /\ j - 1 + 1 = j
          BY <1>1, <1>2, <3>1, <4>2
        <5>2. list[j - 1] = x
          BY <1>5, <3>1, <5>1
        <5> QED BY <5>1, <5>2
      <4> QED BY <1>1, <1>2, <3>1, <3>2, <4>1, <4>2
    <3> QED BY <1>5, <3>3 DEF ToSet
  <2> QED BY <2>1, <2>2
<1>18. r.pCurrArea \in ToSet(r.waList)
  BY <1>1, <1>2 DEF ToSet
<1> QED BY <1>2, <1>4, <1>15, <1>16, <1>17, <1>18 DEF cur

\* hb_waNodeInsert(): an area enters at the current number, if that is free.
LEMMA InsertAgrees ==
    ASSUME program \in Programs, NEW r \in RddStates, uiArea \in [Tables -> Numbers],
           Agree(r, uiArea), r.pCurrArea = NULL, NEW a \in Tables, a \notin ToSet(r.waList)
    PROVE  /\ NodeInsert(r, a) \in RddStates
           /\ Agree(NodeInsert(r, a), [uiArea EXCEPT ![a] = r.uiCurrArea])
           /\ NodeInsert(r, a).uiCurrArea = r.uiCurrArea /\ NodeInsert(r, a).pCurrArea = a
           /\ ToSet(NodeInsert(r, a).waList) = ToSet(r.waList) \cup {a}
<1> DEFINE cur == r.uiCurrArea
           L == Len(r.waList)
           low == {i \in DOMAIN r.waList : uiArea[r.waList[i]] < cur}
           pos == 1 + Max({0} \cup low)
           list == InsertAt(r.waList, pos, a)
           ren == Renumber(r.waNums, list, pos + 1)
           new == [ren EXCEPT ![cur] = pos]
           after == [uiArea EXCEPT ![a] = cur]
           old(i) == uiArea[r.waList[i]]
           num(i) == after[list[i]]
<1>1. /\ cur \in Numbers /\ cur \in Nat /\ cur # 0 /\ r.waList \in Seq(Tables)
      /\ r.waNums \in [Numbers -> Nat] /\ L \in Nat /\ DOMAIN r.waList = 1 .. L
      /\ Numbers \subseteq Nat
  BY ProgramProps DEF RddStates
<1>2. r.waNums[cur] = 0
  <2>1. r.waNums[cur] # 0 => r.waNums[cur] \in DOMAIN r.waList
    BY <1>1 DEF Agree
  <2>2. r.waNums[cur] # 0 => r.waList[r.waNums[cur]] \in Tables
    BY <1>1, <2>1
  <2> QED BY <2>2, ProgramProps DEF Agree
<1>3. /\ \A i \in 1 .. L : old(i) \in Numbers /\ old(i) \in Nat /\ old(i) # 0 /\ r.waNums[old(i)] = i
      /\ \A i, j \in 1 .. L : i < j => old(i) < old(j)
      /\ \A n \in Numbers : r.waNums[n] = 0 \/ (r.waNums[n] \in 1 .. L /\ old(r.waNums[n]) = n)
  <2>1. \A i \in 1 .. L : old(i) \in Numbers
    BY <1>1
  <2> QED BY <1>1, <2>1 DEF Agree
<1>4. low = {i \in 1 .. L : old(i) < cur}
  BY <1>1
<1> HIDE DEF L, old, cur, low
<1>5. /\ pos \in 1 .. L + 1
      /\ \A i \in 1 .. L : i < pos => old(i) < cur
      /\ \A i \in 1 .. L : i >= pos => cur < old(i)
  <2> DEFINE m == Max({0} \cup low)
  <2>1. ({0} \cup low) \in SUBSET (0 .. L) /\ {0} \cup low # {}
    BY <1>1, <1>4
  <2>2. m \in {0} \cup low /\ \A k \in {0} \cup low : k <= m
    BY <1>1, <2>1, MaxProps
  <2>3. pos = 1 + m
    OBVIOUS
  <2> HIDE DEF m, pos
  <2>4. m \in 0 .. L
    BY <2>1, <2>2
  <2>5. ASSUME NEW i \in 1 .. L, i < pos PROVE old(i) < cur
    <3>1. i <= m /\ m \in 1 .. L /\ old(m) < cur
      BY <1>1, <1>4, <2>2, <2>3, <2>4, <2>5
    <3>2. i = m \/ old(i) < old(m)
      BY <1>1, <1>3, <3>1
    <3> QED BY <1>1, <1>3, <3>1, <3>2
  <2>6. ASSUME NEW i \in 1 .. L, i >= pos PROVE cur < old(i)
    <3>1. ~(i <= m)
      BY <2>3, <2>4, <2>6
    <3>2. i \notin low
      BY <2>2, <3>1
    <3>3. ~(old(i) < cur)
      BY <1>4, <3>2
    <3>4. old(i) # cur
      BY <1>2, <1>3
    <3> QED BY <1>1, <1>3, <3>3, <3>4
  <2> QED BY <1>1, <2>3, <2>4, <2>5, <2>6
<1> HIDE DEF pos
<1>6. /\ list \in Seq(Tables) /\ Len(list) = L + 1 /\ DOMAIN list = 1 .. L + 1
      /\ \A i \in 1 .. L + 1 :
           list[i] = IF i < pos THEN r.waList[i] ELSE IF i = pos THEN a ELSE r.waList[i - 1]
  <2>1. pos \in 1 .. Len(r.waList) + 1
    BY <1>5 DEF L
  <2>2. /\ list \in Seq(Tables) /\ Len(list) = Len(r.waList) + 1
        /\ \A i \in 1 .. Len(r.waList) + 1 :
             list[i] = IF i < pos THEN r.waList[i] ELSE IF i = pos THEN a ELSE r.waList[i - 1]
    <3>1. r.waList \in Seq(Tables)
      BY <1>1
    <3> DEFINE w == r.waList
    <3>2. w \in Seq(Tables) /\ pos \in 1 .. Len(w) + 1
      BY <2>1, <3>1
    <3> HIDE DEF w
    <3>3. Inserted(InsertAt(w, pos, a), Tables, w, pos, a)
      BY <3>2, InsertAtProps
    <3> QED BY <3>3 DEF Inserted, w
  <2> QED BY <2>2 DEF L
<1> HIDE DEF list
<1>p. L \in Nat /\ pos \in Nat /\ 1 <= pos /\ pos <= L + 1
  BY <1>1, <1>5
<1>7. \A i \in 1 .. L : r.waList[i] \in Tables /\ r.waList[i] # a
  BY <1>1 DEF ToSet
<1>8. after \in [Tables -> Numbers] /\ after[a] = cur /\ \A x \in Tables : x # a => after[x] = uiArea[x]
  BY <1>1
<1> HIDE DEF after
<1>9. ASSUME NEW i \in 1 .. L + 1
      PROVE  /\ i < pos => i \in 1 .. L /\ num(i) = old(i)
             /\ i = pos => num(i) = cur
             /\ i > pos => i - 1 \in 1 .. L /\ num(i) = old(i - 1) /\ uiArea[list[i]] = old(i - 1)
  <2>1. CASE i < pos
    <3>1. i \in 1 .. L /\ list[i] = r.waList[i]
      BY <1>p, <1>6, <2>1
    <3> QED BY <1>p, <1>7, <1>8, <2>1, <3>1 DEF old
  <2>2. CASE i = pos
    BY <1>p, <1>6, <1>8, <2>2
  <2>3. CASE i > pos
    <3>1. i - 1 \in 1 .. L /\ list[i] = r.waList[i - 1] /\ ~(i < pos) /\ i # pos
      BY <1>p, <1>6, <2>3
    <3> QED BY <1>7, <1>8, <3>1 DEF old
  <2> QED BY <1>p, <2>1, <2>2, <2>3
<1> HIDE DEF num
<1>10. /\ ren \in [Numbers -> Nat]
       /\ \A i \in pos + 1 .. L + 1 : ren[old(i - 1)] = i
       /\ \A n \in Numbers : (\A i \in pos + 1 .. L + 1 : old(i - 1) # n) => ren[n] = r.waNums[n]
  <2>1. \A i \in pos + 1 .. L + 1 : i - 1 \in 1 .. L /\ uiArea[list[i]] = old(i - 1)
    BY <1>p, <1>9
  <2>2. Distinct(list, pos + 1)
    <3> SUFFICES ASSUME NEW i \in pos + 1 .. L + 1, NEW j \in pos + 1 .. L + 1,
                        uiArea[list[i]] = uiArea[list[j]], i # j
                 PROVE  FALSE
      BY <1>6 DEF Distinct
    <3>1. i - 1 \in 1 .. L /\ j - 1 \in 1 .. L /\ (i - 1 < j - 1 \/ j - 1 < i - 1)
      BY <1>p, <2>1
    <3>2. old(i - 1) = old(j - 1)
      BY <2>1
    <3> QED BY <1>3, <3>1, <3>2
  <2>3. pos + 1 \in Nat /\ pos + 1 >= 1 /\ list \in Seq(Tables) /\ r.waNums \in [Numbers -> Nat]
    BY <1>1, <1>6, <1>p
  <2>4. /\ ren \in [Numbers -> Nat]
        /\ \A i \in pos + 1 .. Len(list) : ren[uiArea[list[i]]] = i
        /\ \A n \in Numbers : (\A i \in pos + 1 .. Len(list) : uiArea[list[i]] # n)
                               => ren[n] = r.waNums[n]
    <3> DEFINE from == pos + 1
               nums == r.waNums
    <3>1. /\ Distinct(list, from) /\ from \in Nat /\ from >= 1
          /\ list \in Seq(Tables) /\ nums \in [Numbers -> Nat]
          /\ ren = Renumber(nums, list, from)
      BY <2>2, <2>3
    <3> HIDE DEF from, nums, ren
    <3>2. /\ ren \in [Numbers -> Nat]
          /\ \A i \in from .. Len(list) : ren[uiArea[list[i]]] = i
          /\ \A n \in Numbers : (\A i \in from .. Len(list) : uiArea[list[i]] # n)
                                 => ren[n] = nums[n]
      <4>1. Renumbered(ren, nums, list, from)
        BY <3>1, RenumberProps
      <4> QED BY <4>1 DEF Renumbered
    <3> QED BY <3>2 DEF from, nums
  <2> HIDE DEF ren
  <2>5. Len(list) = L + 1
    BY <1>6
  <2> QED BY <2>1, <2>4, <2>5
<1> HIDE DEF ren
<1>11. new \in [Numbers -> Nat] /\ new[cur] = pos /\ \A n \in Numbers : n # cur => new[n] = ren[n]
  BY <1>1, <1>p, <1>10
<1> HIDE DEF new
<1>12. ASSUME NEW i \in 1 .. L + 1, NEW j \in 1 .. L + 1, i < j PROVE num(i) < num(j)
  <2>1. CASE i < pos /\ j < pos
    BY <1>3, <1>9, <1>12, <2>1
  <2>2. CASE i < pos /\ j = pos
    BY <1>5, <1>9, <2>2
  <2>3. CASE i < pos /\ j > pos
    <3>2. num(i) < cur /\ j - 1 >= pos /\ cur < num(j)
      BY <1>p, <1>5, <1>9, <2>3
    <3>3. num(i) \in Nat /\ num(j) \in Nat
      BY <1>3, <1>9, <2>3
    <3> QED BY <1>1, <3>2, <3>3
  <2>4. CASE i = pos /\ j > pos
    <3>1. j - 1 \in 1 .. L /\ j - 1 >= pos
      BY <1>p, <1>9, <2>4
    <3> QED BY <1>5, <1>9, <2>4, <3>1
  <2>5. CASE i > pos /\ j > pos
    <3>1. i - 1 \in 1 .. L /\ j - 1 \in 1 .. L /\ i - 1 < j - 1
      BY <1>9, <1>12, <2>5
    <3> QED BY <1>3, <1>9, <2>5, <3>1
  <2> QED BY <1>p, <1>12, <2>1, <2>2, <2>3, <2>4, <2>5
<1>13. ASSUME NEW i \in 1 .. L + 1
       PROVE  num(i) \in Numbers /\ num(i) # 0 /\ new[num(i)] = i
  <2>1. CASE i < pos
    <3>1. i \in 1 .. L /\ num(i) = old(i) /\ old(i) < cur
      BY <1>5, <1>9, <2>1
    <3>2. \A j \in pos + 1 .. L + 1 : old(j - 1) # old(i)
      <4> SUFFICES ASSUME NEW j \in pos + 1 .. L + 1 PROVE old(j - 1) # old(i)
        OBVIOUS
      <4>1. j - 1 \in 1 .. L /\ i < j - 1
        BY <1>p, <2>1
      <4> QED BY <1>3, <3>1, <4>1
    <3>3. old(i) \in Numbers /\ old(i) # cur /\ old(i) # 0 /\ r.waNums[old(i)] = i
      BY <1>1, <1>3, <3>1
    <3> QED BY <1>10, <1>11, <3>1, <3>2, <3>3
  <2>2. CASE i = pos
    BY <1>1, <1>9, <1>11, <2>2
  <2>3. CASE i > pos
    <3>1. i - 1 \in 1 .. L /\ num(i) = old(i - 1) /\ i - 1 >= pos /\ i \in pos + 1 .. L + 1
      BY <1>p, <1>9, <2>3
    <3>2. old(i - 1) \in Numbers /\ old(i - 1) # 0 /\ cur < old(i - 1) /\ old(i - 1) \in Nat
      BY <1>3, <1>5, <3>1
    <3> QED BY <1>1, <1>10, <1>11, <3>1, <3>2
  <2> QED BY <1>p, <2>1, <2>2, <2>3
<1>14. ASSUME NEW n \in Numbers
       PROVE  new[n] = 0 \/ (new[n] \in 1 .. L + 1 /\ num(new[n]) = n)
  <2>1. CASE n = cur
    BY <1>5, <1>9, <1>11, <2>1
  <2>2. CASE n # cur /\ \E i \in pos + 1 .. L + 1 : old(i - 1) = n
    <3>1. PICK i \in pos + 1 .. L + 1 : old(i - 1) = n
      BY <2>2
    <3>2. i \in 1 .. L + 1 /\ i > pos
      BY <1>p
    <3> QED BY <1>9, <1>10, <1>11, <2>2, <3>1, <3>2
  <2>3. CASE n # cur /\ \A i \in pos + 1 .. L + 1 : old(i - 1) # n
    <3> DEFINE k == r.waNums[n]
    <3>1. new[n] = k /\ (k = 0 \/ (k \in 1 .. L /\ old(k) = n))
      BY <1>3, <1>10, <1>11, <2>3
    <3> HIDE DEF k
    <3>2. ASSUME k # 0 PROVE k \in 1 .. L + 1 /\ num(k) = n
      <4>1. CASE k >= pos
        <5>1. k + 1 \in pos + 1 .. L + 1 /\ k + 1 - 1 = k
          BY <1>p, <3>1, <3>2, <4>1
        <5> QED BY <2>3, <3>1, <3>2, <5>1
      <4>2. CASE k < pos
        <5>1. k \in 1 .. L + 1
          BY <1>p, <3>1, <3>2
        <5> QED BY <1>9, <3>1, <3>2, <4>2, <5>1
      <4> QED BY <1>p, <3>1, <3>2, <4>1, <4>2
    <3> QED BY <3>1, <3>2
  <2> QED BY <2>1, <2>2, <2>3
<1> DEFINE x == NodeInsert(r, a)
<1>15. /\ x.waList = list /\ x.waNums = new /\ x.uiCurrArea = cur /\ x.pCurrArea = a
       /\ x = [r EXCEPT !.waList = list, !.waNums = new, !.pCurrArea = a]
  <2>1. x = [r EXCEPT !.waList = list, !.waNums = new, !.pCurrArea = a]
    BY DEF NodeInsert, list, new, ren, pos, low, cur
  <2> HIDE DEF x
  <2> QED BY <2>1 DEF RddStates, cur
<1> HIDE DEF x
<1>16. Agree(x, after)
  <2>1. \A i, j \in DOMAIN list : i < j => after[list[i]] < after[list[j]]
    BY <1>6, <1>12 DEF num
  <2>2. \A i \in DOMAIN list : after[list[i]] # 0 /\ new[after[list[i]]] = i
    BY <1>6, <1>13 DEF num
  <2>3. \A n \in Numbers : new[n] = 0 \/ (new[n] \in DOMAIN list /\ after[list[new[n]]] = n)
    BY <1>6, <1>14 DEF num
  <2>4. new[cur] # 0 /\ list[new[cur]] = a
    BY <1>p, <1>5, <1>6, <1>11
  <2> QED BY <1>15, <2>1, <2>2, <2>3, <2>4 DEF Agree
<1>17. x \in RddStates
  BY <1>6, <1>11, <1>15 DEF RddStates
<1>18. ToSet(list) = ToSet(r.waList) \cup {a}
  <2>1. ASSUME NEW y \in ToSet(list) PROVE y \in ToSet(r.waList) \cup {a}
    <3>1. PICK i \in 1 .. L + 1 : y = list[i]
      BY <1>6 DEF ToSet
    <3>2. \/ y = a
          \/ i \in 1 .. L /\ y = r.waList[i]
          \/ i - 1 \in 1 .. L /\ y = r.waList[i - 1]
      BY <1>p, <1>6, <3>1
    <3> QED BY <1>1, <3>2 DEF ToSet
  <2>2. ASSUME NEW y \in ToSet(r.waList) PROVE y \in ToSet(list)
    <3>1. PICK j \in 1 .. L : y = r.waList[j]
      BY <1>1 DEF ToSet
    <3>2. CASE j < pos
      <4>1. j \in 1 .. L + 1 /\ list[j] = y
        BY <1>p, <1>6, <3>1, <3>2
      <4> QED BY <1>6, <4>1 DEF ToSet
    <3>3. CASE j >= pos
      <4>1. j + 1 \in 1 .. L + 1 /\ ~(j + 1 < pos) /\ j + 1 # pos /\ j + 1 - 1 = j
        BY <1>p, <3>3
      <4>2. list[j + 1] = y
        BY <1>6, <3>1, <4>1
      <4> QED BY <1>6, <4>1, <4>2 DEF ToSet
    <3> QED BY <1>p, <3>1, <3>2, <3>3
  <2>3. a \in ToSet(list)
    BY <1>5, <1>6 DEF ToSet
  <2> QED BY <2>1, <2>2, <2>3
<1> QED BY <1>15, <1>16, <1>17, <1>18 DEF x, cur, after

-----------------------------------------------------------------------------
(* Tables and aliases of one thread.                                       *)

\* AliasFindsArea for one thread, without sets of numbers.
AliasesFit(r, h, num) ==
    /\ \A a \in ToSet(r.waList) : h[Alias(a)] = num[a]
    /\ \A al \in Aliases : h[al] # 0 => \E a \in ToSet(r.waList) : Alias(a) = al

\* The tables of a thread are right; d: it got an area with an alias it used.
ThreadOK(r, h, num, d) ==
    /\ r \in RddStates /\ h \in [Aliases -> Numbers] /\ Agree(r, num)
    /\ ~d => AliasesFit(r, h, num)

\* Areas in a list are tables, with numbers that tell them apart.
LEMMA ListedProps ==
    ASSUME program \in Programs, NEW r \in RddStates, NEW num \in [Tables -> Numbers],
           Agree(r, num)
    PROVE  /\ ToSet(r.waList) \subseteq Tables
           /\ \A a \in ToSet(r.waList) : num[a] \in 1 .. program.maxArea
           /\ \A a, b \in ToSet(r.waList) : num[a] = num[b] => a = b
           /\ r.pCurrArea # NULL => r.pCurrArea \in ToSet(r.waList)
           /\ \A a \in ToSet(r.waList) : r.waNums[num[a]] # 0 /\ r.waList[r.waNums[num[a]]] = a
<1> DEFINE L == Len(r.waList)
<1>1. r.waList \in Seq(Tables) /\ L \in Nat /\ DOMAIN r.waList = 1 .. L
  BY DEF RddStates
<1>2. ASSUME NEW a \in ToSet(r.waList)
      PROVE  /\ a \in Tables /\ num[a] \in 1 .. program.maxArea
             /\ r.waNums[num[a]] # 0 /\ r.waList[r.waNums[num[a]]] = a
  <2>1. PICK i \in 1 .. L : r.waList[i] = a
    BY <1>1 DEF ToSet
  <2>2. a \in Tables /\ num[a] \in Numbers
    BY <1>1, <2>1
  <2>3. num[a] # 0 /\ r.waNums[num[a]] = i
    BY <1>1, <2>1 DEF Agree
  <2> QED BY <1>1, <2>1, <2>2, <2>3, ProgramProps
<1>3. ASSUME NEW a \in ToSet(r.waList), NEW b \in ToSet(r.waList), num[a] = num[b]
      PROVE  a = b
  BY <1>2, <1>3
<1>4. r.pCurrArea # NULL => r.pCurrArea \in ToSet(r.waList)
  <2>1. r.uiCurrArea \in Numbers
    BY ProgramProps DEF RddStates
  <2>2. r.pCurrArea # NULL => /\ r.waNums[r.uiCurrArea] \in DOMAIN r.waList
                              /\ r.pCurrArea = r.waList[r.waNums[r.uiCurrArea]]
    BY <2>1 DEF Agree
  <2> QED BY <2>2 DEF ToSet
<1> QED BY <1>2, <1>3, <1>4

\* The number of an area that is not in the list does not matter.
LEMMA OtherNumber ==
    ASSUME program \in Programs, NEW r, NEW h, NEW d, NEW num \in [Tables -> Numbers],
           ThreadOK(r, h, num, d), NEW a \in Tables, a \notin ToSet(r.waList), NEW n \in Numbers
    PROVE  ThreadOK(r, h, [num EXCEPT ![a] = n], d)
<1> DEFINE new == [num EXCEPT ![a] = n]
<1>1. r \in RddStates /\ h \in [Aliases -> Numbers] /\ Agree(r, num)
  BY DEF ThreadOK
<1>2. ToSet(r.waList) \subseteq Tables
  BY <1>1, ListedProps
<1>3. \A b \in ToSet(r.waList) : new[b] = num[b]
  BY <1>2
<1> HIDE DEF new
<1>4. \A i \in DOMAIN r.waList : new[r.waList[i]] = num[r.waList[i]]
  BY <1>3 DEF ToSet
<1>5. Agree(r, new)
  BY <1>1, <1>4 DEF Agree
<1>6. ~d => AliasesFit(r, h, new)
  BY <1>3 DEF ThreadOK, AliasesFit
<1> QED BY <1>1, <1>5, <1>6 DEF ThreadOK, new

\* Another area is selected.
LEMMA SelectOK ==
    ASSUME program \in Programs, NEW r, NEW h, NEW d, NEW num, ThreadOK(r, h, num, d),
           NEW n \in 1 .. program.maxArea
    PROVE  ThreadOK(Select(r, n), h, num, d) /\ Select(r, n).waList = r.waList
<1>1. r \in RddStates /\ Agree(r, num)
  BY DEF ThreadOK
<1>2. /\ Select(r, n) \in RddStates /\ Agree(Select(r, n), num)
      /\ Select(r, n).waList = r.waList
  BY <1>1, SelectAgrees
<1> QED BY <1>2 DEF ThreadOK, AliasesFit

\* hb_rddSelectFirstAvailable() finds a number without an area.
LEMMA SelectFirstOK ==
    ASSUME program \in Programs, NEW r, NEW h, NEW d, NEW num, ThreadOK(r, h, num, d),
           FreeNumbers(r) # {}
    PROVE  /\ ThreadOK(SelectFirst(r), h, num, d) /\ SelectFirst(r).waList = r.waList
           /\ SelectFirst(r).pCurrArea = NULL
<1> DEFINE n == Min(FreeNumbers(r))
<1>1. FreeNumbers(r) \in SUBSET Nat
  BY ProgramProps DEF FreeNumbers
<1>2. n \in FreeNumbers(r)
  BY <1>1, MinProps
<1>3. n \in 1 .. program.maxArea /\ r.waNums[n] = 0
  BY <1>2, ProgramProps DEF FreeNumbers
<1>4. SelectFirst(r) = Select(r, n)
  BY DEF SelectFirst
<1> HIDE DEF n
<1>5. Select(r, n).pCurrArea = NULL
  <2>1. r \in RddStates /\ Agree(r, num)
    BY DEF ThreadOK
  <2> QED BY <1>3, <2>1, SelectAgrees
<1> QED BY <1>3, <1>4, <1>5, SelectOK

\* hb_rddReleaseCurrentArea() with hb_waClose()
LEMMA ReleasedOK ==
    ASSUME program \in Programs, uiArea \in [Tables -> Numbers], NEW r, NEW h, NEW d,
           ThreadOK(r, h, uiArea, d)
    PROVE  /\ ThreadOK(Released(r), WithoutAlias(h, r), uiArea, d)
           /\ Released(r).pCurrArea = NULL /\ Released(r).uiCurrArea = r.uiCurrArea
           /\ ToSet(Released(r).waList) = ToSet(r.waList) \ {r.pCurrArea}
<1>1. r \in RddStates /\ h \in [Aliases -> Numbers] /\ Agree(r, uiArea)
  BY DEF ThreadOK
<1>2. ToSet(r.waList) \subseteq Tables /\ NULL \notin Tables
  BY <1>1, ListedProps, ProgramProps
<1>3. CASE r.pCurrArea = NULL
  BY <1>2, <1>3 DEF Released, WithoutAlias
<1>4. CASE r.pCurrArea # NULL
  <2> DEFINE x == NodeDelete(r)
             p == r.pCurrArea
             g == [h EXCEPT ![Alias(p)] = 0]
  <2>1. /\ x \in RddStates /\ Agree(x, uiArea) /\ x.pCurrArea = NULL
        /\ x.uiCurrArea = r.uiCurrArea
        /\ p \in ToSet(r.waList) /\ ToSet(x.waList) = ToSet(r.waList) \ {p}
    BY <1>1, <1>4, DeleteAgrees
  <2>2. Alias(p) \in Aliases /\ 0 \in Numbers
    BY <1>2, <2>1, ProgramProps
  <2>3. g \in [Aliases -> Numbers] /\ g[Alias(p)] = 0 /\ \A al \in Aliases : al # Alias(p) => g[al] = h[al]
    BY <1>1, <2>2
  <2>4. Released(r) = x /\ WithoutAlias(h, r) = g
    BY <1>4 DEF Released, WithoutAlias
  <2> HIDE DEF x, g
  <2>5. ASSUME ~d PROVE AliasesFit(x, g, uiArea)
    <3>1. AliasesFit(r, h, uiArea)
      BY <2>5 DEF ThreadOK
    <3>2. ASSUME NEW b \in ToSet(x.waList) PROVE g[Alias(b)] = uiArea[b]
      <4>1. b \in ToSet(r.waList) /\ b # p /\ Alias(b) \in Aliases
        BY <1>2, <2>1, <3>2, ProgramProps
      <4>2. Alias(b) # Alias(p)
        BY <1>1, <2>1, <3>1, <4>1, ListedProps DEF AliasesFit
      <4> QED BY <2>3, <3>1, <4>1, <4>2 DEF AliasesFit
    <3>3. ASSUME NEW al \in Aliases, g[al] # 0 PROVE \E b \in ToSet(x.waList) : Alias(b) = al
      BY <2>1, <2>3, <3>1, <3>3 DEF AliasesFit
    <3> QED BY <3>2, <3>3 DEF AliasesFit
  <2> QED BY <2>1, <2>3, <2>4, <2>5 DEF ThreadOK
<1> QED BY <1>3, <1>4

\* The aliases of a thread that got an area at the number n, the areas of the thread,
\* and whether it is known to have an alias twice, before (d) and after (e).
Named(h, a, n) == IF h[Alias(a)] = 0 THEN [h EXCEPT ![Alias(a)] = n] ELSE h
Gains(x, r, a) == ToSet(x.waList) = ToSet(r.waList) \cup {a}
Twice(h, a, d, e) == ~e => ~d /\ h[Alias(a)] = 0

\* hb_waNodeInsert() and the alias, of a thread in which the alias is not used, or
\* which is known to have an alias twice from now on.
LEMMA InsertOK ==
    ASSUME program \in Programs, uiArea \in [Tables -> Numbers], NEW r, NEW h, NEW d, NEW e,
           ThreadOK(r, h, uiArea, d), r.pCurrArea = NULL,
           NEW a \in Tables, a \notin ToSet(r.waList),
           Twice(h, a, d, e)
    PROVE  /\ ThreadOK(NodeInsert(r, a), Named(h, a, r.uiCurrArea), [uiArea EXCEPT ![a] = r.uiCurrArea], e)
           /\ Gains(NodeInsert(r, a), r, a)
           /\ r.uiCurrArea \in Numbers
<1> DEFINE x == NodeInsert(r, a)
           after == [uiArea EXCEPT ![a] = r.uiCurrArea]
           g == Named(h, a, r.uiCurrArea)
<1>1. /\ r \in RddStates /\ h \in [Aliases -> Numbers] /\ Agree(r, uiArea)
      /\ r.uiCurrArea \in Numbers /\ r.uiCurrArea # 0
  BY ProgramProps DEF ThreadOK, RddStates
<1>2. ToSet(r.waList) \subseteq Tables /\ Alias(a) \in Aliases
  BY <1>1, ListedProps, ProgramProps
<1>3. x \in RddStates /\ Agree(x, after) /\ ToSet(x.waList) = ToSet(r.waList) \cup {a}
  BY <1>1, InsertAgrees
<1>4. g \in [Aliases -> Numbers]
  BY <1>1, <1>2 DEF Named
<1>5. after[a] = r.uiCurrArea /\ \A b \in ToSet(r.waList) : after[b] = uiArea[b]
  BY <1>2
<1> HIDE DEF x, after
<1> HIDE DEF g
<1>6. ASSUME ~e PROVE AliasesFit(x, g, after)
  <2>1. AliasesFit(r, h, uiArea) /\ h[Alias(a)] = 0
    BY <1>6 DEF ThreadOK, Twice
  <2>2. g[Alias(a)] = r.uiCurrArea /\ \A al \in Aliases : al # Alias(a) => g[al] = h[al]
    BY <1>1, <1>2, <2>1 DEF Named, g
  <2>3. ASSUME NEW b \in ToSet(r.waList) PROVE g[Alias(b)] = after[b]
    <3>1. b \in Tables /\ h[Alias(b)] = uiArea[b] /\ Alias(b) \in Aliases
      BY <1>2, <2>1, ProgramProps DEF AliasesFit
    <3>2. uiArea[b] \in 1 .. program.maxArea
      BY <1>1, <2>3, ListedProps
    <3>3. Alias(b) # Alias(a)
      BY <2>1, <3>1, <3>2, ProgramProps
    <3> QED BY <1>5, <2>2, <3>1, <3>3
  <2>4. ASSUME NEW al \in Aliases, g[al] # 0 PROVE \E b \in ToSet(x.waList) : Alias(b) = al
    BY <1>3, <2>1, <2>2, <2>4 DEF AliasesFit
  <2> QED BY <1>3, <1>5, <2>2, <2>3, <2>4 DEF AliasesFit
<1> QED BY <1>1, <1>3, <1>4, <1>6 DEF ThreadOK, Gains, x, after, g

\* hb_rddDetachArea(): an area is selected, taken out, and the old number selected.
LEMMA DetachOK ==
    ASSUME program \in Programs, uiArea \in [Tables -> Numbers], NEW r, NEW h, NEW d,
           ThreadOK(r, h, uiArea, d), NEW a \in ToSet(r.waList)
    PROVE  LET x == Select(NodeDelete(Select(r, uiArea[a])), r.uiCurrArea)
           IN  /\ ThreadOK(x, [h EXCEPT ![Alias(a)] = 0], [uiArea EXCEPT ![a] = 0], d)
               /\ ToSet(x.waList) = ToSet(r.waList) \ {a}
<1> DEFINE s == Select(r, uiArea[a])
           g == [h EXCEPT ![Alias(a)] = 0]
<1>1. /\ r \in RddStates /\ Agree(r, uiArea) /\ r.uiCurrArea \in 1 .. program.maxArea
  BY DEF ThreadOK, RddStates
<1>2. /\ uiArea[a] \in 1 .. program.maxArea /\ r.waNums[uiArea[a]] # 0
      /\ r.waList[r.waNums[uiArea[a]]] = a /\ a \in Tables
  BY <1>1, ListedProps
<1>3. s.pCurrArea = a
  BY <1>1, <1>2 DEF Select, RddStates
<1>4. ThreadOK(s, h, uiArea, d) /\ s.waList = r.waList
  BY <1>2, SelectOK
<1>5. a # NULL
  BY <1>2, ProgramProps
<1>6. Released(s) = NodeDelete(s) /\ WithoutAlias(h, s) = g
  BY <1>3, <1>5 DEF Released, WithoutAlias
<1> HIDE DEF s, g
<1> DEFINE y == NodeDelete(s)
           x == Select(y, r.uiCurrArea)
<1>7. ThreadOK(y, g, uiArea, d) /\ ToSet(y.waList) = ToSet(r.waList) \ {a}
  BY <1>3, <1>4, <1>6, ReleasedOK
<1> HIDE DEF y
<1>8. ThreadOK(x, g, uiArea, d) /\ x.waList = y.waList
  BY <1>1, <1>7, SelectOK
<1> HIDE DEF x
<1>9. a \notin ToSet(x.waList) /\ 0 \in Numbers
  BY <1>7, <1>8, ProgramProps
<1>10. ThreadOK(x, g, [uiArea EXCEPT ![a] = 0], d)
  BY <1>2, <1>8, <1>9, OtherNumber
<1> QED BY <1>7, <1>8, <1>10 DEF x, y, s, g

\* A thread without areas.
LEMMA EmptyOK ==
    ASSUME program \in Programs, NEW r \in RddStates, NEW h \in [Aliases -> Numbers], NEW num, NEW d,
           r.waList = <<>>, r.pCurrArea = NULL, \A n \in Numbers : r.waNums[n] = 0,
           ~d => \A al \in Aliases : h[al] = 0
    PROVE  ThreadOK(r, h, num, d)
<1>1. r.uiCurrArea \in Numbers
  BY ProgramProps DEF RddStates
<1>2. DOMAIN r.waList = {} /\ ToSet(r.waList) = {}
  BY DEF ToSet
<1>3. Agree(r, num)
  BY <1>1, <1>2 DEF Agree
<1>4. ~d => AliasesFit(r, h, num)
  BY <1>2 DEF AliasesFit
<1> QED BY <1>3, <1>4 DEF ThreadOK

\* The converse.
LEMMA EmptyProps ==
    ASSUME program \in Programs, NEW r, NEW h, NEW num, NEW d, ThreadOK(r, h, num, d),
           r.waList = <<>>
    PROVE  /\ r \in RddStates /\ r.pCurrArea = NULL /\ \A n \in Numbers : r.waNums[n] = 0
           /\ h \in [Aliases -> Numbers]
           /\ ~d => \A al \in Aliases : h[al] = 0
<1>1. r.uiCurrArea \in Numbers
  BY ProgramProps DEF ThreadOK, RddStates
<1>2. DOMAIN r.waList = {} /\ ToSet(r.waList) = {}
  BY DEF ToSet
<1>3. \A n \in Numbers : r.waNums[n] = 0
  BY <1>2 DEF ThreadOK, Agree
<1>4. r.pCurrArea = NULL
  BY <1>1, <1>3 DEF ThreadOK, Agree
<1>5. ~d => \A al \in Aliases : h[al] = 0
  BY <1>2 DEF ThreadOK, AliasesFit
<1> QED BY <1>3, <1>4, <1>5 DEF ThreadOK

\* hb_rddCloseAll()
LEMMA CloseAllOK ==
    ASSUME program \in Programs, NEW r, NEW h, NEW num, NEW d, ThreadOK(r, h, num, d),
           NEW x, x = IF r.waList # <<>> THEN NoAreas ELSE r,
           NEW g, g = [al \in Aliases |->
              IF \E i \in DOMAIN r.waList : Alias(r.waList[i]) = al THEN 0 ELSE h[al]]
    PROVE  ThreadOK(x, g, num, d) /\ x.waList = <<>>
<1>1. /\ program.maxArea \in Nat /\ program.maxArea >= 2 /\ 0 \in Numbers
  BY ProgramProps
<1>2. NoAreas \in RddStates /\ NoAreas.waList = <<>> /\ NoAreas.pCurrArea = NULL
      /\ \A n \in Numbers : NoAreas.waNums[n] = 0
  BY <1>1 DEF NoAreas, RddStates
<1>3. x \in RddStates /\ x.waList = <<>> /\ x.pCurrArea = NULL /\ \A n \in Numbers : x.waNums[n] = 0
  BY <1>2, EmptyProps
<1>4. r \in RddStates /\ h \in [Aliases -> Numbers]
  BY DEF ThreadOK
<1>5. g \in [Aliases -> Numbers]
  BY <1>1, <1>4
<1>6. ~d => \A al \in Aliases : g[al] = 0
  BY <1>4 DEF ThreadOK, AliasesFit, ToSet
<1> QED BY <1>3, <1>5, <1>6, EmptyOK

\* hb_waHolderDestructor(): a detached area is attached and closed at once.
LEMMA DestructorOK ==
    ASSUME program \in Programs, uiArea \in [Tables -> Numbers], NEW r, NEW h, NEW d,
           ThreadOK(r, h, uiArea, d), r.waList = <<>>, NEW a \in Tables,
           NEW s, s = IF FreeNumbers(r) # {} THEN SelectFirst(r) ELSE Select(r, program.maxArea)
    PROVE  LET in == NodeInsert(s, a)
               x == Select(Released(in), r.uiCurrArea)
           IN  ThreadOK(x, WithoutAlias(h, in), uiArea, d) /\ x.waList = <<>>
<1> DEFINE in == NodeInsert(s, a)
           del == NodeDelete(in)
           cur == s.uiCurrArea
           after == [uiArea EXCEPT ![a] = cur]
<1>1. program.maxArea \in 1 .. program.maxArea /\ a # NULL /\ Alias(a) \in Aliases /\ 0 \in Numbers
  BY ProgramProps
<1>2. ThreadOK(s, h, uiArea, d) /\ s.waList = <<>>
  BY <1>1, SelectOK, SelectFirstOK
<1>3. /\ s \in RddStates /\ s.pCurrArea = NULL /\ \A n \in Numbers : s.waNums[n] = 0
      /\ h \in [Aliases -> Numbers]
      /\ ~d => \A al \in Aliases : h[al] = 0
  BY <1>2, EmptyProps
<1>4. Agree(s, uiArea) /\ cur \in Numbers /\ ToSet(s.waList) = {}
  <2>1. Agree(s, uiArea) /\ cur \in 1 .. program.maxArea
    BY <1>2, <1>3 DEF ThreadOK, RddStates
  <2>2. DOMAIN s.waList = {}
    BY <1>2
  <2>3. ToSet(s.waList) = {}
    BY <2>2 DEF ToSet
  <2> QED BY <2>1, <2>3, ProgramProps
<1>5. /\ in \in RddStates /\ Agree(in, after) /\ in.uiCurrArea = cur /\ in.pCurrArea = a
      /\ ToSet(in.waList) = {a}
  BY <1>3, <1>4, InsertAgrees
<1>6. after \in [Tables -> Numbers] /\ after[a] = cur
  BY <1>4
<1> HIDE DEF in, after, cur
<1>7. in.waList \in Seq(Tables) /\ in.waNums \in [Numbers -> Nat] /\ DOMAIN in.waList = 1 .. Len(in.waList)
      /\ Len(in.waList) \in Nat
  BY <1>5 DEF RddStates
<1>8. \A i \in DOMAIN in.waList : in.waList[i] = a
  BY <1>5 DEF ToSet
<1>9. Len(in.waList) = 1
  <2>1. \A i, j \in DOMAIN in.waList : ~(i < j)
    <3>1. ~(cur < cur)
      BY <1>4, ProgramProps
    <3> QED BY <1>5, <1>6, <1>8, <3>1 DEF Agree
  <2>2. PICK i \in DOMAIN in.waList : in.waList[i] = a
    BY <1>5 DEF ToSet
  <2> DEFINE len == Len(in.waList)
  <2>3. len \in Nat /\ i \in 1 .. len /\ \A j, k \in 1 .. len : ~(j < k)
    BY <1>7, <2>1, <2>2
  <2> HIDE DEF len
  <2>4. len = 1
    <3>1. len >= 1
      BY <2>3
    <3> DEFINE low == 1
               high == 2
    <3>2. len >= 2 => low \in 1 .. len /\ high \in 1 .. len /\ low < high
      BY <2>3
    <3> HIDE DEF low, high
    <3>3. ~(len >= 2)
      BY <2>3, <3>2
    <3> QED BY <2>3, <3>1, <3>3
  <2> QED BY <2>4 DEF len
<1>10. in.waNums[cur] = 1 /\ \A n \in Numbers : n # cur => in.waNums[n] = 0
  <2>1. 1 \in DOMAIN in.waList
    BY <1>7, <1>9
  <2> QED BY <1>5, <1>6, <1>8, <2>1 DEF Agree
<1> DEFINE list == RemoveAt(in.waList, 1)
           nums == [in.waNums EXCEPT ![cur] = 0]
<1>11. list \in Seq(Tables) /\ Len(list) = 0
  <2>1. 1 \in 1 .. Len(in.waList)
    BY <1>9
  <2> DEFINE l == in.waList
  <2>2. l \in Seq(Tables) /\ 1 \in 1 .. Len(l) /\ Len(l) = 1
    BY <1>7, <1>9, <2>1
  <2> HIDE DEF l
  <2>3. Removed(RemoveAt(l, 1), Tables, l, 1)
    BY <2>2, RemoveAtProps
  <2> QED BY <2>2, <2>3 DEF l, Removed
<1>12. nums \in [Numbers -> Nat] /\ \A n \in Numbers : nums[n] = 0
  BY <1>4, <1>7, <1>10
<1>13. /\ del.waList = list /\ del.waNums = Renumber(nums, list, 1) /\ del.pCurrArea = NULL
       /\ del.uiCurrArea = cur
  BY <1>5, <1>10 DEF NodeDelete, RddStates
<1> HIDE DEF list, nums
<1>14. Distinct(list, 1)
  BY <1>11 DEF Distinct
<1>15. /\ Renumber(nums, list, 1) \in [Numbers -> Nat]
       /\ \A n \in Numbers : Renumber(nums, list, 1)[n] = 0
  <2> DEFINE one == 1
  <2>1. one \in Nat /\ one >= 1 /\ one .. Len(list) = {} /\ Distinct(list, one)
    BY <1>11, <1>14
  <2> HIDE DEF one
  <2>2. Renumbered(Renumber(nums, list, one), nums, list, one)
    BY <1>11, <1>12, <2>1, RenumberProps
  <2>3. /\ Renumber(nums, list, one) \in [Numbers -> Nat]
        /\ \A n \in Numbers : Renumber(nums, list, one)[n] = nums[n]
    BY <2>1, <2>2 DEF Renumbered
  <2> QED BY <1>12, <2>3 DEF one
<1>16. del \in RddStates
  BY <1>5, <1>11, <1>13, <1>15 DEF NodeDelete, RddStates, list, nums
<1> HIDE DEF del
<1>17. list = <<>>
  BY <1>11
<1>18. Released(in) = del /\ WithoutAlias(h, in) = [h EXCEPT ![Alias(a)] = 0]
  BY <1>1, <1>5 DEF Released, WithoutAlias, del
<1> DEFINE g == [h EXCEPT ![Alias(a)] = 0]
<1>19. g \in [Aliases -> Numbers] /\ (~d => \A al \in Aliases : g[al] = 0)
  BY <1>1, <1>3
<1> HIDE DEF g
<1>20. ThreadOK(del, g, uiArea, d) /\ del.waList = <<>>
  BY <1>13, <1>15, <1>16, <1>17, <1>19, EmptyOK
<1>21. r.uiCurrArea \in 1 .. program.maxArea
  BY DEF ThreadOK, RddStates
<1>22. /\ ThreadOK(Select(del, r.uiCurrArea), g, uiArea, d)
       /\ Select(del, r.uiCurrArea).waList = <<>>
  BY <1>20, <1>21, SelectOK
<1> QED BY <1>18, <1>22 DEF in, g

-----------------------------------------------------------------------------
(* The tables of all threads.                                              *)
(* The parts of the invariant have the state as parameters, so that they   *)
(* can be stated of the next state without saying again and again that the *)
(* program does not change.                                                *)

Known(R, H, U, D, P) ==
    /\ R \in [Threads -> RddStates] /\ H \in [Threads -> [Aliases -> Numbers]]
    /\ U \in [Tables -> Numbers] /\ D \in Seq(Tables) /\ P \in [Threads -> Places]
    /\ \A t \in Threads \ program.threads : P[t] = Idle /\ R[t].waList = <<>>

TablesOK(R, H, U, W) == \A t \in Threads : ThreadOK(R[t], H[t], U, t \in W)

FreeOK(R, P) == \A t \in Threads : P[t].at \in {"look", "wait", "attach"} => R[t].pCurrArea = NULL

\* What a thread has: areas in its list, and an area on its way.
Listed(r) == ToSet(r.waList)
Moving(p) == IF p.at \in {"push", "attach"} THEN {p.area} ELSE {}
Owned(r, p) == Listed(r) \cup Moving(p)

OwnOK(R, P, D) ==
    /\ \A t \in Threads : /\ Listed(R[t]) \cap Moving(P[t]) = {}
                          /\ Owned(R[t], P[t]) \cap ToSet(D) = {}
    /\ \A t, u \in Threads : t # u => Owned(R[t], P[t]) \cap Owned(R[u], P[u]) = {}
    /\ IsInjective(D)

EndOK(R, P, D, E) ==
    /\ \A t \in E : P[t] = Idle /\ R[t].waList = <<>>
    /\ \A t \in Threads : P[t].at = "shutDown" => t = Main
    /\ P[Main].at = "shutDown" => E = program.threads \ {Main} /\ R[Main].waList = <<>>
    /\ P[Main].at = "shutDown" \/ Main \in E => D = <<>>
    /\ Main \in E => E = program.threads

Asleep(p) == p.at = "wait" /\ ~p.woken
Fits(al, D) == {i \in DOMAIN D : al \in {NULL, Alias(D[i])}}
WakeOK(P, D) == \A t \in Threads : Asleep(P[t]) => Fits(P[t].alias, D) = {}

SetsOK(Q, E, W) == Q \subseteq program.threads /\ E \subseteq program.threads /\ W \subseteq program.threads

StateOK(R, H, U, D, P, Q, E, W) ==
    /\ Known(R, H, U, D, P) /\ TablesOK(R, H, U, W) /\ FreeOK(R, P) /\ OwnOK(R, P, D)
    /\ EndOK(R, P, D, E) /\ WakeOK(P, D) /\ SetsOK(Q, E, W)

Inv == program \in Programs /\ StateOK(rdd, handle, uiArea, detached, pc, quit, ended, dup)
InvNext == StateOK(rdd', handle', uiArea', detached', pc', quit', ended', dup')

\* What a thread does to its own tables, and perhaps to the number of an area that
\* no other thread has in its list.
Works(t, r, h) ==
    /\ rdd' = [rdd EXCEPT ![t] = r] /\ handle' = [handle EXCEPT ![t] = h]
    /\ ThreadOK(r, h, uiArea', t \in dup')
    /\ \A u \in Threads \ {t} : u \in dup' <=> u \in dup
    /\ \/ uiArea' = uiArea
       \/ \E a \in Tables, n \in Numbers :
             /\ uiArea' = [uiArea EXCEPT ![a] = n]
             /\ \A u \in Threads \ {t} : a \notin Listed(rdd[u])

\* Then all tables are right afterwards.
LEMMA WorksKeepsTables ==
    ASSUME Inv, NEW t \in Threads, NEW r, NEW h, Works(t, r, h)
    PROVE  /\ rdd' \in [Threads -> RddStates] /\ handle' \in [Threads -> [Aliases -> Numbers]]
           /\ uiArea' \in [Tables -> Numbers] /\ TablesOK(rdd', handle', uiArea', dup')
           /\ rdd'[t] = r /\ handle'[t] = h
           /\ \A u \in Threads \ {t} : rdd'[u] = rdd[u]
<1>1. /\ rdd \in [Threads -> RddStates] /\ handle \in [Threads -> [Aliases -> Numbers]]
      /\ uiArea \in [Tables -> Numbers] /\ program \in Programs
  BY DEF Inv, StateOK, Known
<1>2. r \in RddStates /\ h \in [Aliases -> Numbers]
  BY DEF Works, ThreadOK
<1>3. /\ rdd' \in [Threads -> RddStates] /\ handle' \in [Threads -> [Aliases -> Numbers]]
      /\ rdd'[t] = r /\ handle'[t] = h
      /\ \A u \in Threads \ {t} : rdd'[u] = rdd[u] /\ handle'[u] = handle[u]
  BY <1>1, <1>2 DEF Works
<1>4. uiArea' \in [Tables -> Numbers]
  BY <1>1 DEF Works
<1>5. ASSUME NEW u \in Threads \ {t} PROVE ThreadOK(rdd[u], handle[u], uiArea', u \in dup)
  <2>1. ThreadOK(rdd[u], handle[u], uiArea, u \in dup)
    BY DEF Inv, StateOK, TablesOK
  <2>2. CASE uiArea' = uiArea
    BY <2>1, <2>2
  <2>3. ASSUME NEW a \in Tables, NEW n \in Numbers, uiArea' = [uiArea EXCEPT ![a] = n],
               a \notin Listed(rdd[u])
        PROVE  ThreadOK(rdd[u], handle[u], uiArea', u \in dup)
    <3> DEFINE x == rdd[u]
               y == handle[u]
               z == u \in dup
    <3>1. ThreadOK(x, y, uiArea, z) /\ a \notin ToSet(x.waList)
      BY <2>1, <2>3 DEF Listed
    <3> HIDE DEF x, y, z
    <3>2. ThreadOK(x, y, [uiArea EXCEPT ![a] = n], z)
      BY <1>1, <3>1, OtherNumber
    <3> QED BY <2>3, <3>2 DEF x, y, z
  <2> QED BY <2>2, <2>3 DEF Works
<1>6. ASSUME NEW u \in Threads PROVE ThreadOK(rdd'[u], handle'[u], uiArea', u \in dup')
  <2>1. CASE u = t
    BY <1>3, <2>1 DEF Works
  <2>2. CASE u # t
    <3>1. (u \in dup') = (u \in dup)
      BY <2>2 DEF Works
    <3> QED BY <1>3, <1>5, <2>2, <3>1
  <2> QED BY <2>1, <2>2
<1> QED BY <1>3, <1>4, <1>6 DEF TablesOK

\* What the other threads have stays the same; they have none of the areas S.
Same(R, P, R2, P2, t) ==
    \A u \in Threads \ {t} : Listed(R2[u]) = Listed(R[u]) /\ Moving(P2[u]) = Moving(P[u])
Apart(R, P, S, t) == \A u \in Threads \ {t} : S \cap Owned(R[u], P[u]) = {}

\* Ownership when one thread and the list of detached areas change.
LEMMA OwnersKept ==
    ASSUME NEW R, NEW P, NEW D, NEW R2, NEW P2, NEW D2, OwnOK(R, P, D), NEW t \in Threads,
           Same(R, P, R2, P2, t), Listed(R2[t]) \cap Moving(P2[t]) = {},
           Owned(R2[t], P2[t]) \cap ToSet(D2) = {}, Apart(R, P, Owned(R2[t], P2[t]), t),
           Apart(R, P, ToSet(D2), t), IsInjective(D2)
    PROVE  OwnOK(R2, P2, D2)
<1>1. \A u \in Threads \ {t} : Owned(R2[u], P2[u]) = Owned(R[u], P[u])
  BY DEF Owned, Same
<1>2. \A u \in Threads : /\ Listed(R2[u]) \cap Moving(P2[u]) = {}
                         /\ Owned(R2[u], P2[u]) \cap ToSet(D2) = {}
  BY <1>1 DEF OwnOK, Same, Apart
<1>3. \A u, v \in Threads : u # v => Owned(R2[u], P2[u]) \cap Owned(R2[v], P2[v]) = {}
  BY <1>1 DEF OwnOK, Apart
<1> QED BY <1>2, <1>3 DEF OwnOK

-----------------------------------------------------------------------------
(* Calls: a thread that is idle works on its tables, and perhaps goes on   *)
(* to the list of detached areas.                                          *)

Nobodys(a) == a \notin ToSet(detached) /\ \A u \in Threads : a \notin Owned(rdd[u], pc[u])

\* A call keeps the invariant if the areas the thread has afterwards were its own or nobody's.
LEMMA CallKeeps ==
    ASSUME Inv, NEW t \in program.threads, At(t, "idle"), t \notin ended,
           NEW r, NEW h, Works(t, r, h),
           NEW p \in Places, pc' = [pc EXCEPT ![t] = p], p.at \in {"idle", "look", "push"},
           p.at = "look" => r.pCurrArea = NULL,
           Listed(r) \cap Moving(p) = {},
           \A a \in Owned(r, p) : a \in Listed(rdd[t]) \/ Nobodys(a),
           UNCHANGED <<detached, quit, ended, dup>>
    PROVE  InvNext
<1>1. /\ Known(rdd, handle, uiArea, detached, pc) /\ TablesOK(rdd, handle, uiArea, dup)
      /\ FreeOK(rdd, pc) /\ OwnOK(rdd, pc, detached) /\ EndOK(rdd, pc, detached, ended)
      /\ WakeOK(pc, detached) /\ SetsOK(quit, ended, dup) /\ program \in Programs
  BY DEF Inv, StateOK
<1>2. t \in Threads /\ Main \in program.threads /\ Main \in Threads
  BY <1>1, ProgramProps
<1>3. /\ rdd' \in [Threads -> RddStates] /\ handle' \in [Threads -> [Aliases -> Numbers]]
      /\ uiArea' \in [Tables -> Numbers] /\ TablesOK(rdd', handle', uiArea', dup')
      /\ rdd'[t] = r /\ \A u \in Threads \ {t} : rdd'[u] = rdd[u]
  BY <1>2, WorksKeepsTables
<1>4. /\ pc' \in [Threads -> Places] /\ pc'[t] = p /\ \A u \in Threads \ {t} : pc'[u] = pc[u]
  BY <1>1, <1>2 DEF Known
<1>5. Known(rdd', handle', uiArea', detached', pc')
  <2>1. \A u \in Threads \ program.threads : pc'[u] = pc[u] /\ rdd'[u] = rdd[u]
    BY <1>3, <1>4
  <2> QED BY <1>1, <1>3, <1>4, <2>1 DEF Known
<1>6. FreeOK(rdd', pc')
  BY <1>1, <1>3, <1>4 DEF FreeOK
<1>7. OwnOK(rdd', pc', detached')
  <2>1. Same(rdd, pc, rdd', pc', t)
    BY <1>3, <1>4 DEF Same
  <2>2. Listed(rdd'[t]) \cap Moving(pc'[t]) = {} /\ Owned(rdd'[t], pc'[t]) = Owned(r, p)
    BY <1>3, <1>4
  <2>3. ASSUME NEW a \in Owned(r, p)
        PROVE  a \notin ToSet(detached) /\ \A u \in Threads \ {t} : a \notin Owned(rdd[u], pc[u])
    <3>1. CASE Nobodys(a)
      BY <3>1 DEF Nobodys
    <3>2. CASE a \in Listed(rdd[t])
      <4>1. a \in Owned(rdd[t], pc[t])
        BY <3>2 DEF Owned
      <4> QED BY <1>1, <1>2, <4>1 DEF OwnOK
    <3> QED BY <2>3, <3>1, <3>2
  <2>4. Owned(rdd'[t], pc'[t]) \cap ToSet(detached') = {} /\ Apart(rdd, pc, Owned(rdd'[t], pc'[t]), t)
    BY <2>2, <2>3 DEF Apart
  <2>5. Apart(rdd, pc, ToSet(detached'), t) /\ IsInjective(detached')
    BY <1>1 DEF OwnOK, Apart
  <2> QED BY <1>1, <1>2, <2>1, <2>2, <2>4, <2>5, OwnersKept
<1>8. EndOK(rdd', pc', detached', ended')
  <2>1. Main \notin ended /\ pc[Main].at # "shutDown"
    BY <1>1, <1>2 DEF EndOK, At
  <2>2. pc'[Main].at # "shutDown"
    BY <1>2, <1>4, <2>1
  <2>3. \A u \in ended : u \in Threads \ {t}
    BY <1>1, ProgramProps DEF SetsOK
  <2> QED BY <1>1, <1>3, <1>4, <2>1, <2>2, <2>3 DEF EndOK
<1>9. WakeOK(pc', detached')
  <2>1. ~Asleep(p)
    BY DEF Asleep
  <2> QED BY <1>1, <1>4, <2>1 DEF WakeOK
<1>10. SetsOK(quit', ended', dup')
  BY <1>1 DEF SetsOK
<1> QED BY <1>3, <1>5, <1>6, <1>7, <1>8, <1>9, <1>10 DEF InvNext, StateOK

\* What is known of a thread that calls.
LEMMA CallerProps ==
    ASSUME Inv, NEW t \in program.threads, NEW c, MayCall(t, c)
    PROVE  /\ program \in Programs /\ t \in Threads /\ At(t, "idle") /\ t \notin ended
           /\ uiArea \in [Tables -> Numbers] /\ ThreadOK(rdd[t], handle[t], uiArea, t \in dup)
           /\ rdd[t] \in RddStates /\ rdd = [rdd EXCEPT ![t] = rdd[t]]
           /\ handle = [handle EXCEPT ![t] = handle[t]]
           /\ pc[t] \in Places /\ pc = [pc EXCEPT ![t] = pc[t]]
           /\ Moving(pc[t]) = {}
<1>1. /\ program \in Programs /\ Known(rdd, handle, uiArea, detached, pc)
      /\ TablesOK(rdd, handle, uiArea, dup)
  BY DEF Inv, StateOK
<1>2. t \in Threads
  BY <1>1, ProgramProps
<1> QED BY <1>1, <1>2 DEF Known, TablesOK, MayCall, At, Moving

\* dbSelectArea()
LEMMA SelectAreaKeeps ==
    ASSUME Inv, NEW t \in program.threads, NEW n \in 1 .. program.maxArea - 1, SelectArea(t, n)
    PROVE  InvNext
<1> DEFINE r == Select(rdd[t], n)
           h == handle[t]
           d == t \in dup
<1>1. MayCall(t, "select") /\ rdd' = [rdd EXCEPT ![t] = r]
      /\ UNCHANGED <<handle, uiArea, detached, pc, quit, ended, dup>>
  BY DEF SelectArea, SetRdd
<1>2. /\ program \in Programs /\ t \in Threads /\ At(t, "idle") /\ t \notin ended
      /\ ThreadOK(rdd[t], h, uiArea, d) /\ handle = [handle EXCEPT ![t] = h]
      /\ pc[t] \in Places /\ pc = [pc EXCEPT ![t] = pc[t]] /\ Moving(pc[t]) = {}
  BY <1>1, CallerProps
<1>3. n \in 1 .. program.maxArea
  BY <1>2, ProgramProps
<1> HIDE DEF h, d
<1>4. ThreadOK(r, h, uiArea, d) /\ r.waList = rdd[t].waList
  BY <1>2, <1>3, SelectOK
<1> HIDE DEF r
<1>5. Works(t, r, h)
  BY <1>1, <1>2, <1>4 DEF Works, d
<1>6. pc' = [pc EXCEPT ![t] = pc[t]] /\ pc[t].at = "idle"
  BY <1>1, <1>2 DEF At
<1>7. Listed(r) \subseteq Listed(rdd[t]) /\ Owned(r, pc[t]) \subseteq Listed(rdd[t])
  BY <1>2, <1>4 DEF Listed, Owned
<1> QED BY <1>1, <1>2, <1>5, <1>6, <1>7, CallKeeps

\* dbCloseArea()
LEMMA CloseAreaKeeps ==
    ASSUME Inv, NEW t \in program.threads, CloseArea(t)
    PROVE  InvNext
<1> DEFINE o == rdd[t]
           r == Released(o)
           h == WithoutAlias(handle[t], o)
           d == t \in dup
<1>1. MayCall(t, "close") /\ rdd' = [rdd EXCEPT ![t] = r] /\ handle' = [handle EXCEPT ![t] = h]
      /\ UNCHANGED <<uiArea, detached, pc, quit, ended, dup>>
  BY DEF CloseArea, SetRdd, SetHandle
<1>2. /\ program \in Programs /\ t \in Threads /\ At(t, "idle") /\ t \notin ended
      /\ uiArea \in [Tables -> Numbers]
      /\ ThreadOK(o, handle[t], uiArea, d)
      /\ pc[t] \in Places /\ pc = [pc EXCEPT ![t] = pc[t]] /\ Moving(pc[t]) = {}
  BY <1>1, CallerProps
<1> HIDE DEF o, d
<1>3. ThreadOK(r, h, uiArea, d) /\ ToSet(r.waList) \subseteq ToSet(o.waList)
  BY <1>2, ReleasedOK
<1> HIDE DEF r, h
<1>4. Works(t, r, h)
  BY <1>1, <1>2, <1>3 DEF Works, d
<1>5. pc' = [pc EXCEPT ![t] = pc[t]] /\ pc[t].at = "idle"
  BY <1>1, <1>2 DEF At
<1>6. Listed(r) \subseteq Listed(rdd[t]) /\ Owned(r, pc[t]) \subseteq Listed(rdd[t])
  BY <1>2, <1>3 DEF Listed, Owned, o
<1> QED BY <1>1, <1>2, <1>4, <1>5, <1>6, CallKeeps

\* hb_dbDetach() takes an area out of the tables.
LEMMA DetachAreaKeeps ==
    ASSUME Inv, NEW t \in program.threads, NEW a \in Tables, DetachArea(t, a)
    PROVE  InvNext
<1> DEFINE o == rdd[t]
           r == Select(NodeDelete(Select(o, uiArea[a])), o.uiCurrArea)
           h == [handle[t] EXCEPT ![Alias(a)] = 0]
           d == t \in dup
           p == [at |-> "push", area |-> a]
<1>1. /\ MayCall(t, "detach") /\ a \in ToSet(o.waList) /\ rdd' = [rdd EXCEPT ![t] = r]
      /\ handle' = [handle EXCEPT ![t] = h] /\ uiArea' = [uiArea EXCEPT ![a] = 0]
      /\ pc' = [pc EXCEPT ![t] = p] /\ UNCHANGED <<detached, quit, ended, dup>>
  BY DEF DetachArea, SetRdd, SetHandle, Number, Go
<1>2. /\ program \in Programs /\ t \in Threads /\ At(t, "idle") /\ t \notin ended
      /\ uiArea \in [Tables -> Numbers] /\ ThreadOK(o, handle[t], uiArea, d)
  BY <1>1, CallerProps
<1>3. p \in Places /\ p.at = "push" /\ Moving(p) = {a}
  BY DEF Places, Moving
<1>4. 0 \in Numbers
  BY <1>2, ProgramProps
<1> HIDE DEF o, d, p
<1>5. ThreadOK(r, h, [uiArea EXCEPT ![a] = 0], d) /\ ToSet(r.waList) = ToSet(o.waList) \ {a}
  BY <1>1, <1>2, DetachOK
<1> HIDE DEF r, h
<1>6. a \in Listed(rdd[t]) /\ Listed(r) = Listed(rdd[t]) \ {a}
  BY <1>1, <1>5 DEF Listed, o
<1>7. \A u \in Threads \ {t} : a \notin Listed(rdd[u])
  BY <1>2, <1>6 DEF Inv, StateOK, OwnOK, Owned
<1>8. Works(t, r, h)
  BY <1>1, <1>4, <1>5, <1>7 DEF Works, d
<1>9. Listed(r) \cap Moving(p) = {} /\ Owned(r, p) \subseteq Listed(rdd[t])
  BY <1>3, <1>6 DEF Owned
<1> QED BY <1>1, <1>2, <1>3, <1>8, <1>9, CallKeeps

\* A new number or that of the current area, which is closed: a place for an area.
LEMMA RoomOK ==
    ASSUME program \in Programs, uiArea \in [Tables -> Numbers], NEW o, NEW h, NEW d, NEW new,
           ThreadOK(o, h, uiArea, d), new => FreeNumbers(o) # {},
           NEW r, r = IF new THEN SelectFirst(o) ELSE Released(o),
           NEW g, g = IF new THEN h ELSE WithoutAlias(h, o)
    PROVE  ThreadOK(r, g, uiArea, d) /\ r.pCurrArea = NULL /\ Listed(r) \subseteq Listed(o)
<1>1. CASE new
  <2>1. ThreadOK(SelectFirst(o), h, uiArea, d) /\ SelectFirst(o).waList = o.waList
        /\ SelectFirst(o).pCurrArea = NULL
    BY <1>1, SelectFirstOK
  <2> QED BY <1>1, <2>1 DEF Listed
<1>2. CASE ~new
  <2>1. /\ ThreadOK(Released(o), WithoutAlias(h, o), uiArea, d)
        /\ Released(o).pCurrArea = NULL
        /\ ToSet(Released(o).waList) = ToSet(o.waList) \ {o.pCurrArea}
    BY ReleasedOK
  <2> QED BY <1>2, <2>1 DEF Listed
<1> QED BY <1>1, <1>2

\* hb_dbRequest() makes room for the area and goes to look for it, or finds its
\* alias in use.
LEMMA RequestAreaKeeps ==
    ASSUME Inv, NEW t \in program.threads, NEW al \in Aliases \cup {NULL}, NEW new \in BOOLEAN,
           NEW wait \in {"no", "timed", "forever"}, RequestArea(t, al, new, wait)
    PROVE  InvNext
<1> DEFINE o == rdd[t]
           r == IF new THEN SelectFirst(o) ELSE Released(o)
           h == IF new THEN handle[t] ELSE WithoutAlias(handle[t], o)
           d == t \in dup
           look == [at |-> "look", alias |-> al, wait |-> wait]
<1>1. /\ MayCall(t, "request") /\ (new => FreeNumbers(o) # {}) /\ rdd' = [rdd EXCEPT ![t] = r]
      /\ handle' = [handle EXCEPT ![t] = h]
      /\ pc' = pc \/ pc' = [pc EXCEPT ![t] = look]
      /\ UNCHANGED <<uiArea, detached, quit, ended, dup>>
  BY DEF RequestArea, SetRdd, SetHandle, Go
<1>2. /\ program \in Programs /\ t \in Threads /\ At(t, "idle") /\ t \notin ended
      /\ uiArea \in [Tables -> Numbers] /\ ThreadOK(o, handle[t], uiArea, d)
      /\ pc[t] \in Places /\ pc = [pc EXCEPT ![t] = pc[t]] /\ Moving(pc[t]) = {}
  BY <1>1, CallerProps
<1>3. look \in Places /\ look.at = "look" /\ Moving(look) = {}
  BY DEF Places, Moving
<1> HIDE DEF o, d, look
<1>4. ThreadOK(r, h, uiArea, d) /\ r.pCurrArea = NULL /\ Listed(r) \subseteq Listed(o)
  BY <1>1, <1>2, RoomOK
<1> HIDE DEF r, h
<1>5. Works(t, r, h)
  BY <1>1, <1>2, <1>4 DEF Works, d
<1>6. PICK p \in Places : /\ pc' = [pc EXCEPT ![t] = p] /\ p.at \in {"idle", "look", "push"}
                          /\ Moving(p) = {}
  BY <1>1, <1>2, <1>3 DEF At
<1>7. Listed(r) \cap Moving(p) = {} /\ Owned(r, p) \subseteq Listed(rdd[t])
  BY <1>4, <1>6 DEF Owned, o
<1> QED BY <1>1, <1>2, <1>4, <1>5, <1>6, <1>7, CallKeeps

\* An area that is not open is nobody's.
LEMMA ClosedIsNobodys ==
    ASSUME Inv, NEW a \in Tables, a \notin OpenAreas
    PROVE  Nobodys(a)
<1>1. Known(rdd, handle, uiArea, detached, pc) /\ program \in Programs
  BY DEF Inv, StateOK
<1>2. a \notin ToSet(detached)
  BY Zenon DEF OpenAreas
<1>3. ASSUME NEW u \in program.threads PROVE a \notin Owned(rdd[u], pc[u])
  <2>1. a \notin Listed(rdd[u])
    BY DEF OpenAreas, Listed
  <2>2. a \notin Moving(pc[u])
    <3>1. At(u, "push") \/ At(u, "attach") => pc[u].area \in OpenAreas
      BY Zenon DEF OpenAreas
    <3> QED BY <3>1 DEF Moving, At
  <2> QED BY <2>1, <2>2 DEF Owned
<1>4. ASSUME NEW u \in Threads \ program.threads PROVE a \notin Owned(rdd[u], pc[u])
  <2>1. pc[u] = Idle /\ rdd[u].waList = <<>>
    BY <1>1 DEF Known
  <2>2. Listed(rdd[u]) = {} /\ Moving(pc[u]) = {}
    BY <2>1 DEF Listed, Moving, Idle, ToSet
  <2> QED BY <2>2 DEF Owned
<1> QED BY <1>2, <1>3, <1>4 DEF Nobodys

\* hb_rddOpenTable() puts an area into the room it made, or finds its alias in use.
LEMMA OpenTableKeeps ==
    ASSUME Inv, NEW t \in program.threads, NEW a \in Tables, NEW new \in BOOLEAN,
           OpenTable(t, a, new)
    PROVE  InvNext
<1> DEFINE o == rdd[t]
           r == IF new THEN SelectFirst(o) ELSE Released(o)
           h == IF new THEN handle[t] ELSE WithoutAlias(handle[t], o)
           d == t \in dup
<1>1. /\ MayCall(t, "use") /\ a \notin OpenAreas /\ (new => FreeNumbers(o) # {})
      /\ UNCHANGED <<detached, pc, quit, ended, dup>>
      /\ \/ /\ h[Alias(a)] = 0 /\ rdd' = [rdd EXCEPT ![t] = NodeInsert(r, a)]
            /\ uiArea' = [uiArea EXCEPT ![a] = r.uiCurrArea]
            /\ handle' = [handle EXCEPT ![t] = [h EXCEPT ![Alias(a)] = r.uiCurrArea]]
         \/ /\ rdd' = [rdd EXCEPT ![t] = r] /\ handle' = [handle EXCEPT ![t] = h] /\ uiArea' = uiArea
  BY DEF OpenTable, SetRdd, SetHandle, Number
<1>2. /\ program \in Programs /\ t \in Threads /\ At(t, "idle") /\ t \notin ended
      /\ uiArea \in [Tables -> Numbers] /\ ThreadOK(o, handle[t], uiArea, d)
      /\ pc[t] \in Places /\ pc = [pc EXCEPT ![t] = pc[t]] /\ Moving(pc[t]) = {}
  BY <1>1, CallerProps
<1> HIDE DEF o, d
<1>3. ThreadOK(r, h, uiArea, d) /\ r.pCurrArea = NULL /\ Listed(r) \subseteq Listed(o)
  BY <1>1, <1>2, RoomOK
<1> HIDE DEF r, h
<1>4. pc' = [pc EXCEPT ![t] = pc[t]] /\ pc[t].at = "idle"
  BY <1>1, <1>2 DEF At
<1>5. CASE rdd' = [rdd EXCEPT ![t] = r] /\ handle' = [handle EXCEPT ![t] = h] /\ uiArea' = uiArea
  <2>1. Works(t, r, h)
    BY <1>1, <1>2, <1>3, <1>5 DEF Works, d
  <2>2. Listed(r) \cap Moving(pc[t]) = {} /\ Owned(r, pc[t]) \subseteq Listed(rdd[t])
    BY <1>2, <1>3 DEF Owned, o
  <2> QED BY <1>1, <1>2, <1>4, <2>1, <2>2, CallKeeps
<1>6. CASE /\ h[Alias(a)] = 0 /\ rdd' = [rdd EXCEPT ![t] = NodeInsert(r, a)]
           /\ uiArea' = [uiArea EXCEPT ![a] = r.uiCurrArea]
           /\ handle' = [handle EXCEPT ![t] = [h EXCEPT ![Alias(a)] = r.uiCurrArea]]
  <2> DEFINE x == NodeInsert(r, a)
             g == [h EXCEPT ![Alias(a)] = r.uiCurrArea]
  <2>1. Nobodys(a)
    BY <1>1, ClosedIsNobodys
  <2>2. a \notin ToSet(r.waList) /\ \A u \in Threads \ {t} : a \notin Listed(rdd[u])
    BY <1>2, <1>3, <2>1 DEF Nobodys, Owned, Listed, o
  <2>3. g = Named(h, a, r.uiCurrArea) /\ Twice(h, a, d, d)
    BY <1>6 DEF Named, Twice
  <2> HIDE DEF g
  <2>4. /\ ThreadOK(x, g, [uiArea EXCEPT ![a] = r.uiCurrArea], d) /\ ToSet(x.waList) = ToSet(r.waList) \cup {a}
        /\ r.uiCurrArea \in Numbers
    <3>1. /\ ThreadOK(x, Named(h, a, r.uiCurrArea), [uiArea EXCEPT ![a] = r.uiCurrArea], d)
          /\ Gains(x, r, a) /\ r.uiCurrArea \in Numbers
      BY <1>2, <1>3, <2>2, <2>3, InsertOK
    <3> QED BY <2>3, <3>1 DEF Gains
  <2> HIDE DEF x, g
  <2>5. Works(t, x, g)
    BY <1>1, <1>2, <1>6, <2>2, <2>4 DEF Works, x, g, d
  <2>6. /\ Listed(x) \cap Moving(pc[t]) = {}
        /\ \A b \in Owned(x, pc[t]) : b \in Listed(rdd[t]) \/ Nobodys(b)
    BY <1>2, <1>3, <2>1, <2>4 DEF Owned, Listed, o
  <2>7. rdd' = [rdd EXCEPT ![t] = x]
    BY <1>6 DEF x
  <2> QED BY <1>1, <1>2, <1>4, <2>5, <2>6, CallKeeps
<1> QED BY <1>1, <1>5, <1>6 DEF r, h, o

-----------------------------------------------------------------------------
(* The list of detached areas.                                             *)

\* A request fits no detached area.
LEMMA FitsProps ==
    ASSUME NEW al, NEW D
    PROVE  Fits(al, D) = {} <=> \A a \in ToSet(D) : al \notin {NULL, Alias(a)}
BY DEF Fits, ToSet

\* An area is put into the list.
LEMMA AppendOwn ==
    ASSUME NEW D \in Seq(Tables), NEW a \in Tables, IsInjective(D), a \notin ToSet(D)
    PROVE  /\ Append(D, a) \in Seq(Tables) /\ IsInjective(Append(D, a))
           /\ ToSet(Append(D, a)) = ToSet(D) \cup {a}
<1> DEFINE n == Len(D)
           E == Append(D, a)
<1>1. /\ n \in Nat /\ DOMAIN D = 1 .. n /\ E \in Seq(Tables) /\ DOMAIN E = 1 .. n + 1
      /\ \A i \in 1 .. n : E[i] = D[i]
      /\ E[n + 1] = a
  BY AppendProperties
<1> HIDE DEF n, E
<1>2. /\ \A i \in 1 .. n : D[i] # a /\ D[i] \in ToSet(D)
      /\ \A i, j \in 1 .. n : D[i] = D[j] => i = j
  BY <1>1 DEF ToSet, IsInjective
<1>3. \A i \in 1 .. n + 1 : i \in 1 .. n \/ i = n + 1
  BY <1>1
<1>4. IsInjective(E)
  BY <1>1, <1>2, <1>3 DEF IsInjective
<1>5. ToSet(E) \subseteq ToSet(D) \cup {a}
  BY <1>1, <1>2, <1>3 DEF ToSet
<1>6. ToSet(D) \cup {a} \subseteq ToSet(E)
  <2>1. n + 1 \in 1 .. n + 1 /\ \A i \in 1 .. n : i \in 1 .. n + 1
    BY <1>1
  <2> QED BY <1>1, <2>1 DEF ToSet
<1> QED BY <1>1, <1>4, <1>5, <1>6 DEF E

\* An area is taken out.
LEMMA RemoveOwn ==
    ASSUME NEW D \in Seq(Tables), NEW p \in DOMAIN D, IsInjective(D)
    PROVE  /\ RemoveAt(D, p) \in Seq(Tables) /\ IsInjective(RemoveAt(D, p))
           /\ ToSet(RemoveAt(D, p)) = ToSet(D) \ {D[p]}
<1> DEFINE n == Len(D)
           E == RemoveAt(D, p)
<1>1. n \in Nat /\ DOMAIN D = 1 .. n /\ p \in 1 .. n
  OBVIOUS
<1>2. E \in Seq(Tables) /\ Len(E) = n - 1
      /\ \A i \in 1 .. n - 1 : E[i] = IF i < p THEN D[i] ELSE D[i + 1]
  <2>1. Removed(E, Tables, D, p)
    BY <1>1, RemoveAtProps
  <2> QED BY <2>1 DEF Removed
<1>3. DOMAIN E = 1 .. n - 1
  BY <1>2
<1> HIDE DEF n, E
<1>4. \A i, j \in 1 .. n : D[i] = D[j] => i = j
  BY <1>1 DEF IsInjective
<1> DEFINE from(i) == IF i < p THEN i ELSE i + 1
<1>5. \A i \in 1 .. n - 1 : E[i] = D[from(i)]
  BY <1>2
<1>6. /\ \A i \in 1 .. n - 1 : from(i) \in 1 .. n /\ from(i) # p
      /\ \A i, j \in 1 .. n - 1 : from(i) = from(j) => i = j
      /\ \A i \in 1 .. n : i # p => \E j \in 1 .. n - 1 : from(j) = i
  <2>1. \A i \in 1 .. n - 1 : from(i) \in 1 .. n /\ from(i) # p
    BY <1>1
  <2>2. \A i, j \in 1 .. n - 1 : from(i) = from(j) => i = j
    BY <1>1
  <2>3. ASSUME NEW i \in 1 .. n, i # p PROVE \E j \in 1 .. n - 1 : from(j) = i
    <3>1. CASE i < p
      <4>1. i \in 1 .. n - 1 /\ from(i) = i
        BY <1>1, <3>1
      <4> QED BY <4>1
    <3>2. CASE i > p
      <4>1. i - 1 \in 1 .. n - 1 /\ from(i - 1) = i
        BY <1>1, <3>2
      <4> QED BY <4>1
    <3> QED BY <1>1, <2>3, <3>1, <3>2
  <2> QED BY <2>1, <2>2, <2>3
<1> HIDE DEF from
<1>7. IsInjective(E)
  BY <1>3, <1>4, <1>5, <1>6 DEF IsInjective
<1>8. ToSet(E) \subseteq ToSet(D) \ {D[p]}
  BY <1>1, <1>3, <1>4, <1>5, <1>6 DEF ToSet
<1>9. ToSet(D) \ {D[p]} \subseteq ToSet(E)
  <2> SUFFICES ASSUME NEW i \in 1 .. n, D[i] # D[p] PROVE D[i] \in ToSet(E)
    BY <1>1 DEF ToSet
  <2>1. PICK j \in 1 .. n - 1 : from(j) = i
    BY <1>6
  <2> QED BY <1>3, <1>5, <2>1 DEF ToSet
<1> QED BY <1>2, <1>7, <1>8, <1>9 DEF E

\* A thread goes to another place without touching a table or the list.
LEMMA GoKeeps ==
    ASSUME Inv, NEW t \in program.threads, pc[t].at \in {"look", "wait"}, NEW p \in Places,
           pc' = [pc EXCEPT ![t] = p], p.at \in {"idle", "look", "wait"},
           Asleep(p) => Fits(p.alias, detached) = {},
           UNCHANGED <<rdd, handle, uiArea, detached, quit, ended, dup>>
    PROVE  InvNext
<1>1. /\ Known(rdd, handle, uiArea, detached, pc) /\ TablesOK(rdd, handle, uiArea, dup)
      /\ FreeOK(rdd, pc) /\ OwnOK(rdd, pc, detached) /\ EndOK(rdd, pc, detached, ended)
      /\ WakeOK(pc, detached) /\ SetsOK(quit, ended, dup) /\ program \in Programs
  BY DEF Inv, StateOK
<1>2. t \in Threads /\ Main \in program.threads /\ Main \in Threads
  BY <1>1, ProgramProps
<1>3. /\ pc' \in [Threads -> Places] /\ pc'[t] = p /\ \A u \in Threads \ {t} : pc'[u] = pc[u]
  BY <1>1, <1>2 DEF Known
<1>4. Known(rdd', handle', uiArea', detached', pc')
  <2>1. \A u \in Threads \ program.threads : pc'[u] = pc[u]
    BY <1>3
  <2> QED BY <1>1, <1>3, <2>1 DEF Known
<1>5. FreeOK(rdd', pc')
  BY <1>1, <1>2, <1>3 DEF FreeOK
<1>6. OwnOK(rdd', pc', detached')
  <2>1. \A u \in Threads : Moving(pc'[u]) = Moving(pc[u])
    BY <1>2, <1>3 DEF Moving
  <2> QED BY <1>1, <2>1 DEF OwnOK, Owned
<1>7. EndOK(rdd', pc', detached', ended')
  <2>1. t \notin ended
    BY <1>1 DEF EndOK, Idle
  <2>2. pc'[Main].at = "shutDown" => pc[Main].at = "shutDown"
    BY <1>2, <1>3
  <2>3. \A u \in ended : u \in Threads \ {t}
    BY <1>1, <2>1, ProgramProps DEF SetsOK
  <2> QED BY <1>1, <1>3, <2>1, <2>2, <2>3 DEF EndOK
<1>8. WakeOK(pc', detached')
  BY <1>1, <1>3 DEF WakeOK
<1>9. TablesOK(rdd', handle', uiArea', dup') /\ SetsOK(quit', ended', dup')
  BY <1>1
<1> QED BY <1>4, <1>5, <1>6, <1>7, <1>8, <1>9 DEF InvNext, StateOK

\* What a place says.
LEMMA PlaceProps ==
    ASSUME NEW p \in Places
    PROVE  /\ p.at \in {"idle", "push", "attach", "look", "wait", "shutDown"}
           /\ p.at = "idle" => p = Idle
           /\ p.at \in {"push", "attach"} => p.area \in Tables /\ Moving(p) = {p.area}
           /\ p.at \notin {"push", "attach"} => Moving(p) = {}
           /\ p.at \in {"look", "wait"} =>
                 p.alias \in Aliases \cup {NULL} /\ p.wait \in {"no", "timed", "forever"}
           /\ p.at = "wait" => p.woken \in BOOLEAN /\ [p EXCEPT !.woken = TRUE] \in Places
                               /\ [p EXCEPT !.woken = TRUE].at = "wait"
                               /\ [p EXCEPT !.woken = TRUE].woken
           /\ p.at = "shutDown" => p.areas \in Seq(Tables)
<1> DEFINE W == [at : {"wait"}, alias : Aliases \cup {NULL}, wait : {"no", "timed", "forever"},
                 woken : BOOLEAN]
           w == [p EXCEPT !.woken = TRUE]
<1>1. p.at \in {"idle", "push", "attach", "look", "wait", "shutDown"} /\ (p.at = "idle" => p = Idle)
  BY DEF Places, Idle
<1>2. p.at \in {"push", "attach"} => p.area \in Tables
  BY DEF Places, Idle
<1>3. p.at \in {"look", "wait"} =>
         p.alias \in Aliases \cup {NULL} /\ p.wait \in {"no", "timed", "forever"}
  BY DEF Places, Idle
<1>4. p.at = "shutDown" => p.areas \in Seq(Tables)
  BY DEF Places, Idle
<1>5. p.at = "wait" => p \in W
  BY DEF Places, Idle
<1>6. p \in W => p.woken \in BOOLEAN /\ w \in W /\ w.at = "wait" /\ w.woken
  OBVIOUS
<1>7. W \subseteq Places
  BY DEF Places
<1> HIDE DEF W, w
<1>8. p.at = "wait" => p.woken \in BOOLEAN /\ w \in Places /\ w.at = "wait" /\ w.woken
  BY <1>5, <1>6, <1>7
<1> QED BY <1>1, <1>2, <1>3, <1>4, <1>8 DEF Moving, w

\* hb_dbRequest() looks again after a wake-up, or gives up.
LEMMA RequestWakeKeeps ==
    ASSUME Inv, NEW t \in program.threads, RequestWake(t)
    PROVE  InvNext
<1> DEFINE look == [at |-> "look", alias |-> pc[t].alias, wait |-> pc[t].wait]
<1>1. /\ pc[t].at = "wait" /\ UNCHANGED <<rdd, handle, uiArea, detached, quit, ended, dup>>
      /\ pc' = [pc EXCEPT ![t] = look] \/ pc' = [pc EXCEPT ![t] = Idle]
  BY DEF RequestWake, At, Go
<1>2. pc[t] \in Places
  BY ProgramProps DEF Inv, StateOK, Known
<1>3. pc[t].alias \in Aliases \cup {NULL} /\ pc[t].wait \in {"no", "timed", "forever"}
  BY <1>1, <1>2, PlaceProps
<1>4. look \in Places /\ look.at = "look" /\ ~Asleep(look)
  BY <1>3 DEF Places, Asleep
<1>5. Idle \in Places /\ Idle.at = "idle" /\ ~Asleep(Idle)
  BY DEF Places, Idle, Asleep
<1> HIDE DEF look
<1> QED BY <1>1, <1>4, <1>5, GoKeeps

\* A wake-up without a reason.
LEMMA SpuriousKeeps ==
    ASSUME Inv, NEW t \in program.threads, Spurious(t)
    PROVE  InvNext
<1> DEFINE p == [pc[t] EXCEPT !.woken = TRUE]
<1>1. /\ pc[t].at = "wait" /\ UNCHANGED <<rdd, handle, uiArea, detached, quit, ended, dup>>
      /\ pc' = [pc EXCEPT ![t] = p]
  BY DEF Spurious, At, Go
<1>2. pc[t] \in Places
  BY ProgramProps DEF Inv, StateOK, Known
<1>3. p \in Places /\ p.at = "wait" /\ p.woken
  BY <1>1, <1>2, PlaceProps
<1>4. ~Asleep(p)
  BY <1>3 DEF Asleep
<1> HIDE DEF p
<1> QED BY <1>1, <1>3, <1>4, GoKeeps

\* A request to quit, which no table notices.
LEMMA QuitRequestKeeps ==
    ASSUME Inv, NEW t \in program.threads, QuitRequest(t)
    PROVE  InvNext
<1>1. quit' = quit \cup {t} /\ UNCHANGED <<rdd, handle, uiArea, detached, pc, ended, dup>>
  BY DEF QuitRequest
<1>2. SetsOK(quit', ended', dup')
  BY <1>1 DEF Inv, StateOK, SetsOK
<1> QED BY <1>1, <1>2 DEF Inv, InvNext, StateOK

\* The EXIT procedures: the request of the main thread is forgotten.
LEMMA ExitFunctionsKeeps == Inv /\ ExitFunctions => InvNext
<1> SUFFICES ASSUME Inv, ExitFunctions PROVE InvNext
  OBVIOUS
<1>1. quit' = quit \ {Main} /\ UNCHANGED <<rdd, handle, uiArea, detached, pc, ended, dup>>
  BY DEF ExitFunctions
<1>2. SetsOK(quit', ended', dup')
  BY <1>1 DEF Inv, StateOK, SetsOK
<1> QED BY <1>1, <1>2 DEF Inv, InvNext, StateOK

\* hb_dbRequest() looks for an area: a thread that finds none goes to sleep in the
\* step that looked.
LEMMA RequestLookKeeps ==
    ASSUME Inv, NEW t \in program.threads, RequestLook(t)
    PROVE  InvNext
<1>1. /\ Known(rdd, handle, uiArea, detached, pc) /\ TablesOK(rdd, handle, uiArea, dup)
      /\ FreeOK(rdd, pc) /\ OwnOK(rdd, pc, detached) /\ EndOK(rdd, pc, detached, ended)
      /\ WakeOK(pc, detached) /\ SetsOK(quit, ended, dup) /\ program \in Programs
  BY DEF Inv, StateOK
<1>2. t \in Threads /\ Main \in program.threads /\ Main \in Threads
  BY <1>1, ProgramProps
<1>3. pc[t] \in Places /\ pc[t].at = "look"
  BY <1>1, <1>2 DEF Known, RequestLook, At
<1>4. /\ pc[t].alias \in Aliases \cup {NULL} /\ pc[t].wait \in {"no", "timed", "forever"}
      /\ Moving(pc[t]) = {}
  BY <1>3, PlaceProps
<1> DEFINE match == Matches(pc[t].alias)
           m == Min(match)
           a == detached[m]
           p == [at |-> "attach", area |-> a]
           sleep == [at |-> "wait", alias |-> pc[t].alias, wait |-> pc[t].wait, woken |-> FALSE]
<1>5. UNCHANGED <<rdd, handle, uiArea, quit, ended, dup>>
  BY DEF RequestLook
<1>6. match = Fits(pc[t].alias, detached)
  BY DEF Matches, Fits
<1>7. CASE match = {} /\ detached' = detached /\ pc' = [pc EXCEPT ![t] = Idle]
  <2>1. Idle \in Places /\ Idle.at = "idle" /\ ~Asleep(Idle)
    BY DEF Places, Idle, Asleep
  <2> QED BY <1>3, <1>5, <1>7, <2>1, GoKeeps
<1>8. CASE match = {} /\ detached' = detached /\ pc' = [pc EXCEPT ![t] = sleep]
  <2>1. sleep \in Places /\ sleep.at = "wait" /\ sleep.alias = pc[t].alias
    BY <1>4 DEF Places
  <2> HIDE DEF sleep, match
  <2> QED BY <1>3, <1>5, <1>6, <1>8, <2>1, GoKeeps
<1>9. CASE match # {} /\ detached' = RemoveAt(detached, m) /\ pc' = [pc EXCEPT ![t] = p]
  <2>1. detached \in Seq(Tables) /\ DOMAIN detached \in SUBSET Nat /\ IsInjective(detached)
    BY <1>1 DEF Known, OwnOK
  <2>2. m \in DOMAIN detached
    <3>1. match \in SUBSET Nat /\ match \subseteq DOMAIN detached
      BY <2>1 DEF Matches
    <3> HIDE DEF match
    <3> QED BY <1>9, <3>1, MinProps
  <2>3. a \in Tables /\ a \in ToSet(detached)
    BY <2>1, <2>2 DEF ToSet
  <2>4. p \in Places /\ p.at = "attach" /\ Moving(p) = {a} /\ ~Asleep(p)
    BY <2>3 DEF Places, Moving, Asleep
  <2> HIDE DEF m, p, match
  <2>5. detached' \in Seq(Tables) /\ IsInjective(detached') /\ ToSet(detached') = ToSet(detached) \ {a}
    BY <1>9, <2>1, <2>2, RemoveOwn
  <2> HIDE DEF a
  <2>6. /\ pc' \in [Threads -> Places] /\ pc'[t] = p /\ \A u \in Threads \ {t} : pc'[u] = pc[u]
    BY <1>1, <1>2, <1>9, <2>4 DEF Known
  <2>7. Known(rdd', handle', uiArea', detached', pc')
    <3>1. \A u \in Threads \ program.threads : pc'[u] = pc[u]
      BY <2>6
    <3> QED BY <1>1, <1>5, <2>5, <2>6, <3>1 DEF Known
  <2>8. FreeOK(rdd', pc')
    BY <1>1, <1>2, <1>3, <1>5, <2>6 DEF FreeOK
  <2>9. OwnOK(rdd', pc', detached')
    <3>1. Same(rdd, pc, rdd', pc', t)
      BY <1>5, <2>6 DEF Same
    <3>2. Owned(rdd'[t], pc'[t]) = Owned(rdd[t], pc[t]) \cup {a} /\ Listed(rdd'[t]) = Listed(rdd[t])
          /\ Moving(pc'[t]) = {a}
      BY <1>4, <1>5, <2>4, <2>6 DEF Owned
    <3>3. a \notin Listed(rdd[t]) /\ \A u \in Threads : a \notin Owned(rdd[u], pc[u])
      <4>1. \A u \in Threads : a \notin Owned(rdd[u], pc[u])
        BY <1>1, <2>3 DEF OwnOK
      <4> QED BY <1>2, <4>1 DEF Owned
    <3>4. Listed(rdd'[t]) \cap Moving(pc'[t]) = {} /\ Owned(rdd'[t], pc'[t]) \cap ToSet(detached') = {}
      <4>1. Owned(rdd[t], pc[t]) \cap ToSet(detached) = {}
        BY <1>1, <1>2 DEF OwnOK
      <4> QED BY <2>5, <3>2, <3>3, <4>1
    <3>5. Apart(rdd, pc, Owned(rdd'[t], pc'[t]), t) /\ Apart(rdd, pc, ToSet(detached'), t)
      <4>1. \A u \in Threads \ {t} : /\ Owned(rdd[t], pc[t]) \cap Owned(rdd[u], pc[u]) = {}
                                     /\ Owned(rdd[u], pc[u]) \cap ToSet(detached) = {}
        BY <1>1, <1>2 DEF OwnOK
      <4> QED BY <2>5, <3>2, <3>3, <4>1 DEF Apart
    <3> QED BY <1>1, <1>2, <2>5, <3>1, <3>4, <3>5, OwnersKept
  <2>10. EndOK(rdd', pc', detached', ended')
    <3>1. t \notin ended
      BY <1>1, <1>3 DEF EndOK, Idle
    <3>2. Main \notin ended /\ pc[Main].at # "shutDown"
      <4>1. ToSet(detached) # {}
        BY <2>3
      <4>2. detached # <<>>
        BY <4>1 DEF ToSet
      <4> QED BY <1>1, <4>2 DEF EndOK
    <3>3. pc'[Main].at # "shutDown"
      BY <1>2, <2>4, <2>6, <3>2
    <3>4. \A u \in ended : u \in Threads \ {t}
      BY <1>1, <3>1, ProgramProps DEF SetsOK
    <3>5. \A u \in Threads : pc'[u].at = "shutDown" => pc[u].at = "shutDown"
      BY <1>2, <2>4, <2>6
    <3> QED BY <1>1, <1>5, <2>6, <3>1, <3>2, <3>3, <3>4, <3>5 DEF EndOK
  <2>11. WakeOK(pc', detached')
    <3>1. ASSUME NEW u \in Threads, Asleep(pc'[u]) PROVE Fits(pc'[u].alias, detached') = {}
      <4>1. pc'[u] = pc[u] /\ Fits(pc[u].alias, detached) = {}
        BY <1>1, <2>4, <2>6, <3>1 DEF WakeOK
      <4> QED BY <2>5, <4>1, FitsProps
    <3> QED BY <3>1 DEF WakeOK
  <2>12. TablesOK(rdd', handle', uiArea', dup') /\ SetsOK(quit', ended', dup')
    BY <1>1, <1>5
  <2> QED BY <2>7, <2>8, <2>9, <2>10, <2>11, <2>12 DEF InvNext, StateOK
<1> QED BY <1>7, <1>8, <1>9 DEF RequestLook, Go

\* hb_dbDetach() puts the area into the list and wakes all who wait for one.
LEMMA DetachPushKeeps ==
    ASSUME Inv, NEW t \in program.threads, DetachPush(t)
    PROVE  InvNext
<1>1. /\ Known(rdd, handle, uiArea, detached, pc) /\ TablesOK(rdd, handle, uiArea, dup)
      /\ FreeOK(rdd, pc) /\ OwnOK(rdd, pc, detached) /\ EndOK(rdd, pc, detached, ended)
      /\ WakeOK(pc, detached) /\ SetsOK(quit, ended, dup) /\ program \in Programs
  BY DEF Inv, StateOK
<1>2. t \in Threads /\ Main \in program.threads /\ Main \in Threads
  BY <1>1, ProgramProps
<1>3. /\ UNCHANGED <<rdd, handle, uiArea, quit, ended, dup>> /\ pc[t].at = "push"
      /\ detached' = Append(detached, pc[t].area)
  BY DEF DetachPush, At
<1> DEFINE a == pc[t].area
           wake(u) == [pc[u] EXCEPT !.woken = TRUE]
<1>4. \A u \in Threads : pc[u] \in Places
  BY <1>1 DEF Known
<1>5. a \in Tables /\ Moving(pc[t]) = {a}
  BY <1>2, <1>3, <1>4, PlaceProps
<1>6. /\ DOMAIN pc' = Threads /\ pc' = [u \in Threads |-> pc'[u]]
      /\ \A u \in Threads : pc'[u] = IF u = t THEN Idle ELSE IF pc[u].at = "wait" THEN wake(u) ELSE pc[u]
  BY DEF DetachPush, At
<1>7. ASSUME NEW u \in Threads, pc[u].at = "wait"
      PROVE  wake(u) \in Places /\ wake(u).at = "wait" /\ wake(u).woken /\ Moving(wake(u)) = {}
             /\ Moving(pc[u]) = {}
  <2>1. wake(u) \in Places /\ wake(u).at = "wait" /\ wake(u).woken
    BY <1>4, <1>7, PlaceProps
  <2> QED BY <1>7, <2>1 DEF Moving
<1>8. Idle \in Places /\ Idle.at = "idle" /\ Moving(Idle) = {}
  BY DEF Places, Idle, Moving
<1> HIDE DEF wake, a
<1>9. \A u \in Threads : pc'[u] \in Places
  <2> SUFFICES ASSUME NEW u \in Threads PROVE pc'[u] \in Places
    OBVIOUS
  <2>1. CASE u = t
    BY <1>6, <1>8, <2>1
  <2>2. CASE u # t /\ pc[u].at = "wait"
    BY <1>6, <1>7, <2>2
  <2>3. CASE u # t /\ pc[u].at # "wait"
    BY <1>4, <1>6, <2>3
  <2> QED BY <2>1, <2>2, <2>3
<1>10. pc'[t] = Idle /\ \A u \in Threads \ {t} : Moving(pc'[u]) = Moving(pc[u]) /\ pc'[u].at = pc[u].at
  <2>1. pc'[t] = Idle
    BY <1>2, <1>6
  <2> SUFFICES ASSUME NEW u \in Threads \ {t}
               PROVE  Moving(pc'[u]) = Moving(pc[u]) /\ pc'[u].at = pc[u].at
    BY <2>1
  <2>2. CASE pc[u].at = "wait"
    <3>1. pc'[u] = wake(u)
      BY <1>6, <2>2
    <3> QED BY <1>7, <2>2, <3>1
  <2>3. CASE pc[u].at # "wait"
    BY <1>6, <2>3
  <2> QED BY <2>2, <2>3
<1>11. a \notin ToSet(detached) /\ detached \in Seq(Tables) /\ IsInjective(detached)
  BY <1>1, <1>2, <1>5 DEF OwnOK, Owned, Known
<1>12. detached' \in Seq(Tables) /\ IsInjective(detached') /\ ToSet(detached') = ToSet(detached) \cup {a}
  BY <1>3, <1>5, <1>11, AppendOwn DEF a
<1>13. Known(rdd', handle', uiArea', detached', pc')
  <2>1. pc' \in [Threads -> Places]
    BY <1>6, <1>9
  <2>2. \A u \in Threads \ program.threads : pc'[u] = Idle
    <3>1. \A u \in Threads \ program.threads : pc[u] = Idle /\ u # t
      BY <1>1 DEF Known
    <3> QED BY <1>6, <1>8, <3>1
  <2> QED BY <1>1, <1>3, <1>12, <2>1, <2>2 DEF Known
<1>14. FreeOK(rdd', pc')
  BY <1>1, <1>3, <1>8, <1>10 DEF FreeOK
<1>15. OwnOK(rdd', pc', detached')
  <2>1. Same(rdd, pc, rdd', pc', t)
    BY <1>3, <1>10 DEF Same
  <2>2. Owned(rdd'[t], pc'[t]) = Listed(rdd[t]) /\ Moving(pc'[t]) = {}
    BY <1>3, <1>8, <1>10 DEF Owned
  <2>3. a \notin Listed(rdd[t]) /\ \A u \in Threads \ {t} : a \notin Owned(rdd[u], pc[u])
    BY <1>1, <1>2, <1>5 DEF OwnOK, Owned
  <2>4. Listed(rdd[t]) \subseteq Owned(rdd[t], pc[t])
    BY DEF Owned
  <2>5. Listed(rdd'[t]) \cap Moving(pc'[t]) = {} /\ Owned(rdd'[t], pc'[t]) \cap ToSet(detached') = {}
    BY <1>1, <1>2, <1>12, <2>2, <2>3, <2>4 DEF OwnOK
  <2>6. Apart(rdd, pc, Owned(rdd'[t], pc'[t]), t) /\ Apart(rdd, pc, ToSet(detached'), t)
    BY <1>1, <1>2, <1>12, <2>2, <2>3, <2>4 DEF OwnOK, Apart
  <2> QED BY <1>1, <1>2, <1>12, <2>1, <2>5, <2>6, OwnersKept
<1>16. EndOK(rdd', pc', detached', ended')
  <2>1. t \notin ended
    BY <1>1, <1>3 DEF EndOK, Idle
  <2>2. Main \notin ended /\ pc[Main].at # "shutDown"
    BY <1>1, <1>3, <2>1 DEF EndOK
  <2>3. \A u \in Threads : pc'[u].at # "shutDown"
    <3>1. \A u \in Threads : pc[u].at # "shutDown"
      BY <1>1, <2>2 DEF EndOK
    <3> QED BY <1>8, <1>10, <3>1
  <2>4. \A u \in ended : pc'[u] = Idle
    <3>1. \A u \in ended : u \in Threads \ {t} /\ pc[u] = Idle
      BY <1>1, <2>1, ProgramProps DEF SetsOK, EndOK
    <3> QED BY <1>6, <1>8, <3>1
  <2> QED BY <1>1, <1>2, <1>3, <2>2, <2>3, <2>4 DEF EndOK
<1>17. WakeOK(pc', detached')
  <2>1. \A u \in Threads : ~Asleep(pc'[u])
    BY <1>6, <1>7, <1>8 DEF Asleep
  <2> QED BY <2>1 DEF WakeOK
<1>18. TablesOK(rdd', handle', uiArea', dup') /\ SetsOK(quit', ended', dup')
  BY <1>1, <1>3
<1> QED BY <1>13, <1>14, <1>15, <1>16, <1>17, <1>18 DEF InvNext, StateOK

\* hb_dbRequest() attaches the area that it took from the list.
LEMMA RequestAttachKeeps ==
    ASSUME Inv, NEW t \in program.threads, RequestAttach(t)
    PROVE  InvNext
<1>1. /\ Known(rdd, handle, uiArea, detached, pc) /\ TablesOK(rdd, handle, uiArea, dup)
      /\ FreeOK(rdd, pc) /\ OwnOK(rdd, pc, detached) /\ EndOK(rdd, pc, detached, ended)
      /\ WakeOK(pc, detached) /\ SetsOK(quit, ended, dup) /\ program \in Programs
  BY DEF Inv, StateOK
<1>2. t \in Threads /\ Main \in program.threads /\ Main \in Threads
  BY <1>1, ProgramProps
<1> DEFINE o == rdd[t]
           k == handle[t]
           a == pc[t].area
           n == o.uiCurrArea
           r == NodeInsert(o, a)
           h == Named(k, a, n)
           d == t \in dup
           e == t \in dup'
<1>3. /\ pc[t].at = "attach" /\ UNCHANGED <<detached, quit, ended>> /\ pc' = [pc EXCEPT ![t] = Idle]
      /\ rdd' = [rdd EXCEPT ![t] = r] /\ handle' = [handle EXCEPT ![t] = h]
      /\ uiArea' = [uiArea EXCEPT ![a] = n]
      /\ dup' = IF k[Alias(a)] = 0 THEN dup ELSE dup \cup {t}
  BY DEF RequestAttach, SetRdd, SetHandle, Number, Go, At, Named
<1>4. /\ pc[t] \in Places /\ ThreadOK(o, k, uiArea, d) /\ uiArea \in [Tables -> Numbers]
      /\ program \in Programs
  BY <1>1, <1>2 DEF Known, TablesOK
<1>5. a \in Tables /\ Moving(pc[t]) = {a}
  BY <1>3, <1>4, PlaceProps
<1>6. o.pCurrArea = NULL
  BY <1>1, <1>2, <1>3 DEF FreeOK
<1>7. /\ a \notin Listed(rdd[t]) /\ a \notin ToSet(detached)
      /\ \A u \in Threads \ {t} : a \notin Owned(rdd[u], pc[u]) /\ a \notin Listed(rdd[u])
  BY <1>1, <1>2, <1>5 DEF OwnOK, Owned
<1>8. Twice(k, a, d, e)
  BY <1>3 DEF Twice
<1>9. a \notin ToSet(o.waList)
  BY <1>7 DEF Listed
<1> HIDE DEF o, k, a, d, e
<1>10. ThreadOK(r, h, [uiArea EXCEPT ![a] = n], e) /\ ToSet(r.waList) = ToSet(o.waList) \cup {a}
       /\ n \in Numbers
  <2>1. /\ program \in Programs /\ uiArea \in [Tables -> Numbers] /\ ThreadOK(o, k, uiArea, d)
        /\ o.pCurrArea = NULL /\ a \in Tables /\ a \notin ToSet(o.waList)
    BY <1>4, <1>5, <1>6, <1>9
  <2>2. ThreadOK(r, h, [uiArea EXCEPT ![a] = n], e) /\ Gains(r, o, a) /\ n \in Numbers
    BY <1>8, <2>1, InsertOK
  <2> QED BY <2>2 DEF Gains
<1> HIDE DEF r, h, n
<1>11. Works(t, r, h)
  <2>1. \A u \in Threads \ {t} : u \in dup' <=> u \in dup
    BY <1>3
  <2> QED BY <1>3, <1>5, <1>7, <1>10, <2>1 DEF Works, e
<1>12. /\ rdd' \in [Threads -> RddStates] /\ handle' \in [Threads -> [Aliases -> Numbers]]
       /\ uiArea' \in [Tables -> Numbers] /\ TablesOK(rdd', handle', uiArea', dup')
       /\ rdd'[t] = r /\ \A u \in Threads \ {t} : rdd'[u] = rdd[u]
  BY <1>2, <1>11, WorksKeepsTables
<1>13. Idle \in Places /\ Idle.at = "idle" /\ Moving(Idle) = {} /\ ~Asleep(Idle)
  BY DEF Places, Idle, Moving, Asleep
<1>14. pc' \in [Threads -> Places] /\ pc'[t] = Idle /\ \A u \in Threads \ {t} : pc'[u] = pc[u]
  BY <1>1, <1>2, <1>3, <1>13 DEF Known
<1>15. Known(rdd', handle', uiArea', detached', pc')
  <2>1. \A u \in Threads \ program.threads : pc'[u] = pc[u] /\ rdd'[u] = rdd[u]
    BY <1>12, <1>14
  <2> QED BY <1>1, <1>3, <1>12, <1>14, <2>1 DEF Known
<1>16. FreeOK(rdd', pc')
  BY <1>1, <1>12, <1>13, <1>14 DEF FreeOK
<1>17. OwnOK(rdd', pc', detached')
  <2>1. Same(rdd, pc, rdd', pc', t)
    BY <1>12, <1>14 DEF Same
  <2>2. Owned(rdd'[t], pc'[t]) = Owned(rdd[t], pc[t]) /\ Moving(pc'[t]) = {}
    BY <1>5, <1>10, <1>12, <1>13, <1>14 DEF Owned, Listed, o
  <2>3. Listed(rdd'[t]) \cap Moving(pc'[t]) = {} /\ Owned(rdd'[t], pc'[t]) \cap ToSet(detached') = {}
    BY <1>1, <1>2, <1>3, <2>2 DEF OwnOK
  <2>4. Apart(rdd, pc, Owned(rdd'[t], pc'[t]), t) /\ Apart(rdd, pc, ToSet(detached'), t)
    BY <1>1, <1>2, <1>3, <2>2 DEF OwnOK, Apart
  <2>5. IsInjective(detached')
    BY <1>1, <1>3 DEF OwnOK
  <2> QED BY <1>1, <1>2, <2>1, <2>3, <2>4, <2>5, OwnersKept
<1>18. EndOK(rdd', pc', detached', ended')
  <2>1. t \notin ended
    BY <1>1, <1>3 DEF EndOK, Idle
  <2>2. Main \notin ended /\ pc[Main].at # "shutDown"
    BY <1>1, <1>3, <2>1 DEF EndOK
  <2>3. \A u \in Threads : pc'[u].at = "shutDown" => pc[u].at = "shutDown"
    BY <1>13, <1>14
  <2>4. \A u \in ended : u \in Threads \ {t}
    BY <1>1, <2>1, ProgramProps DEF SetsOK
  <2> QED BY <1>1, <1>2, <1>3, <1>12, <1>14, <2>2, <2>3, <2>4 DEF EndOK
<1>19. WakeOK(pc', detached')
  BY <1>1, <1>3, <1>13, <1>14 DEF WakeOK
<1>20. SetsOK(quit', ended', dup')
  BY <1>1, <1>3 DEF SetsOK
<1> QED BY <1>12, <1>15, <1>16, <1>17, <1>18, <1>19, <1>20 DEF InvNext, StateOK

-----------------------------------------------------------------------------
(* The end of threads and of the program.                                  *)

\* hb_rddCloseAll() leaves a thread with no area.
LEMMA CloseAllWorks ==
    ASSUME Inv, NEW t \in program.threads, CloseAll(t), UNCHANGED <<uiArea, dup>>
    PROVE  /\ rdd' \in [Threads -> RddStates] /\ handle' \in [Threads -> [Aliases -> Numbers]]
           /\ uiArea' \in [Tables -> Numbers] /\ TablesOK(rdd', handle', uiArea', dup')
           /\ rdd'[t].waList = <<>> /\ Listed(rdd'[t]) = {}
           /\ \A u \in Threads \ {t} : rdd'[u] = rdd[u]
<1>1. /\ Known(rdd, handle, uiArea, detached, pc) /\ TablesOK(rdd, handle, uiArea, dup)
      /\ program \in Programs /\ t \in Threads
  BY ProgramProps DEF Inv, StateOK
<1> DEFINE o == rdd[t]
           k == handle[t]
           d == t \in dup
           x == IF o.waList # <<>> THEN NoAreas ELSE o
           g == [al \in Aliases |->
                    IF \E i \in DOMAIN o.waList : Alias(o.waList[i]) = al THEN 0 ELSE k[al]]
<1>2. rdd' = [rdd EXCEPT ![t] = x] /\ handle' = [handle EXCEPT ![t] = g]
  <2>1. rdd = [rdd EXCEPT ![t] = rdd[t]]
    BY <1>1 DEF Known
  <2> QED BY <2>1 DEF CloseAll, SetRdd, SetHandle
<1>3. ThreadOK(o, k, uiArea, d)
  BY <1>1 DEF TablesOK
<1> HIDE DEF o, k, d
<1>4. ThreadOK(x, g, uiArea, d) /\ x.waList = <<>>
  BY <1>1, <1>3, CloseAllOK
<1> HIDE DEF x, g
<1>5. Works(t, x, g)
  BY <1>2, <1>4 DEF Works, d
<1>6. /\ rdd' \in [Threads -> RddStates] /\ handle' \in [Threads -> [Aliases -> Numbers]]
      /\ uiArea' \in [Tables -> Numbers] /\ TablesOK(rdd', handle', uiArea', dup')
      /\ rdd'[t] = x /\ \A u \in Threads \ {t} : rdd'[u] = rdd[u]
  BY <1>1, <1>5, WorksKeepsTables
<1>7. Listed(x) = {}
  BY <1>4 DEF Listed, ToSet
<1> QED BY <1>4, <1>6, <1>7

\* The end of a thread.
LEMMA ThreadQuitKeeps ==
    ASSUME Inv, NEW t \in program.threads, ThreadQuit(t)
    PROVE  InvNext
<1>1. /\ Known(rdd, handle, uiArea, detached, pc) /\ TablesOK(rdd, handle, uiArea, dup)
      /\ FreeOK(rdd, pc) /\ OwnOK(rdd, pc, detached) /\ EndOK(rdd, pc, detached, ended)
      /\ WakeOK(pc, detached) /\ SetsOK(quit, ended, dup) /\ program \in Programs
  BY DEF Inv, StateOK
<1>2. t \in Threads /\ Main \in program.threads /\ Main \in Threads
  BY <1>1, ProgramProps
<1>3. /\ t # Main /\ pc[t].at = "idle" /\ t \notin ended /\ CloseAll(t) /\ ended' = ended \cup {t}
      /\ UNCHANGED <<uiArea, detached, pc, quit, dup>>
  BY DEF ThreadQuit, At
<1>4. /\ rdd' \in [Threads -> RddStates] /\ handle' \in [Threads -> [Aliases -> Numbers]]
      /\ uiArea' \in [Tables -> Numbers] /\ TablesOK(rdd', handle', uiArea', dup')
      /\ rdd'[t].waList = <<>> /\ Listed(rdd'[t]) = {}
      /\ \A u \in Threads \ {t} : rdd'[u] = rdd[u]
  BY <1>3, CloseAllWorks
<1>5. pc[t] = Idle /\ Moving(pc[t]) = {}
  <2>1. pc[t] \in Places
    BY <1>1, <1>2 DEF Known
  <2> QED BY <1>3, <2>1, PlaceProps
<1>6. Known(rdd', handle', uiArea', detached', pc')
  <2>1. \A u \in Threads \ program.threads : rdd'[u] = rdd[u]
    BY <1>4
  <2> QED BY <1>1, <1>3, <1>4, <2>1 DEF Known
<1>7. FreeOK(rdd', pc')
  BY <1>1, <1>3, <1>4 DEF FreeOK
<1>8. OwnOK(rdd', pc', detached')
  <2>1. Same(rdd, pc, rdd', pc', t)
    BY <1>3, <1>4 DEF Same
  <2>2. Owned(rdd'[t], pc'[t]) = {} /\ Listed(rdd'[t]) \cap Moving(pc'[t]) = {}
    BY <1>3, <1>4, <1>5 DEF Owned
  <2>3. /\ Owned(rdd'[t], pc'[t]) \cap ToSet(detached') = {}
        /\ Apart(rdd, pc, Owned(rdd'[t], pc'[t]), t)
    BY <2>2 DEF Apart
  <2>4. Apart(rdd, pc, ToSet(detached'), t) /\ IsInjective(detached')
    BY <1>1, <1>3 DEF OwnOK, Apart
  <2> QED BY <1>1, <1>2, <2>1, <2>2, <2>3, <2>4, OwnersKept
<1>9. EndOK(rdd', pc', detached', ended')
  <2>1. Main \notin ended /\ pc[Main].at # "shutDown"
    BY <1>1, <1>3 DEF EndOK
  <2>2. \A u \in ended : u \in Threads \ {t}
    BY <1>1, <1>3, ProgramProps DEF SetsOK
  <2>3. \A u \in ended' : pc'[u] = Idle /\ rdd'[u].waList = <<>>
    BY <1>1, <1>3, <1>4, <1>5, <2>2 DEF EndOK
  <2>4. Main \notin ended' /\ pc'[Main].at # "shutDown"
    BY <1>3, <2>1
  <2> QED BY <1>1, <1>3, <2>3, <2>4 DEF EndOK
<1>10. WakeOK(pc', detached') /\ SetsOK(quit', ended', dup')
  BY <1>1, <1>3 DEF WakeOK, SetsOK
<1> QED BY <1>4, <1>6, <1>7, <1>8, <1>9, <1>10 DEF InvNext, StateOK

\* A list of areas that is empty is nobody's.
LEMMA EmptyList == ToSet(<<>>) = {} /\ IsInjective(<<>>)
BY DEF ToSet, IsInjective

\* The end of the program: the main thread takes the list of detached areas.
LEMMA VmQuitKeeps ==
    ASSUME Inv, VmQuit
    PROVE  InvNext
<1> DEFINE t == Main
           p == [at |-> "shutDown", areas |-> detached]
<1>1. /\ Known(rdd, handle, uiArea, detached, pc) /\ TablesOK(rdd, handle, uiArea, dup)
      /\ FreeOK(rdd, pc) /\ OwnOK(rdd, pc, detached) /\ EndOK(rdd, pc, detached, ended)
      /\ WakeOK(pc, detached) /\ SetsOK(quit, ended, dup) /\ program \in Programs
  BY DEF Inv, StateOK
<1>2. Main \in program.threads /\ Main \in Threads /\ detached \in Seq(Tables)
  BY <1>1, ProgramProps DEF Known
<1>3. /\ ended = program.threads \ {Main} /\ CloseAll(Main) /\ detached' = <<>>
      /\ pc' = [pc EXCEPT ![Main] = p] /\ UNCHANGED <<uiArea, quit, ended, dup>>
  BY DEF VmQuit, Go
<1>4. /\ rdd' \in [Threads -> RddStates] /\ handle' \in [Threads -> [Aliases -> Numbers]]
      /\ uiArea' \in [Tables -> Numbers] /\ TablesOK(rdd', handle', uiArea', dup')
      /\ rdd'[Main].waList = <<>> /\ Listed(rdd'[Main]) = {}
      /\ \A u \in Threads \ {Main} : rdd'[u] = rdd[u]
  BY <1>2, <1>3, CloseAllWorks
<1>5. p \in Places /\ p.at = "shutDown" /\ Moving(p) = {} /\ ~Asleep(p)
  BY <1>2 DEF Places, Moving, Asleep
<1> HIDE DEF p
<1>6. pc' \in [Threads -> Places] /\ pc'[Main] = p /\ \A u \in Threads \ {Main} : pc'[u] = pc[u]
  BY <1>1, <1>2, <1>3, <1>5 DEF Known
<1>7. Known(rdd', handle', uiArea', detached', pc')
  <2>1. \A u \in Threads \ program.threads : pc'[u] = pc[u] /\ rdd'[u] = rdd[u]
    BY <1>2, <1>4, <1>6
  <2>2. detached' \in Seq(Tables)
    BY <1>3
  <2> QED BY <1>1, <1>4, <1>6, <2>1, <2>2 DEF Known
<1>8. FreeOK(rdd', pc')
  BY <1>1, <1>4, <1>5, <1>6 DEF FreeOK
<1>9. OwnOK(rdd', pc', detached')
  <2>1. Same(rdd, pc, rdd', pc', Main)
    BY <1>4, <1>6 DEF Same
  <2>2. Owned(rdd'[Main], pc'[Main]) = {} /\ Listed(rdd'[Main]) \cap Moving(pc'[Main]) = {}
    BY <1>4, <1>5, <1>6 DEF Owned
  <2>3. ToSet(detached') = {} /\ IsInjective(detached')
    BY <1>3, EmptyList
  <2>4. /\ Owned(rdd'[Main], pc'[Main]) \cap ToSet(detached') = {}
        /\ Apart(rdd, pc, Owned(rdd'[Main], pc'[Main]), Main)
        /\ Apart(rdd, pc, ToSet(detached'), Main)
    BY <2>2, <2>3 DEF Apart
  <2> QED BY <1>1, <1>2, <2>1, <2>2, <2>3, <2>4, OwnersKept
<1>10. EndOK(rdd', pc', detached', ended')
  <2>1. \A u \in ended : u \in Threads \ {Main}
    BY <1>1, <1>3, ProgramProps DEF SetsOK
  <2> QED BY <1>1, <1>3, <1>4, <1>6, <2>1 DEF EndOK
<1>11. WakeOK(pc', detached')
  <2>1. \A al : Fits(al, <<>>) = {}
    BY FitsProps, EmptyList
  <2> QED BY <1>3, <2>1 DEF WakeOK
<1>12. SetsOK(quit', ended', dup')
  BY <1>1, <1>3
<1> QED BY <1>4, <1>7, <1>8, <1>9, <1>10, <1>11, <1>12 DEF InvNext, StateOK

\* The main thread attaches and closes the areas that are left, one by one.
LEMMA CloseDetachedKeeps ==
    ASSUME Inv, CloseDetached
    PROVE  InvNext
<1>1. /\ Known(rdd, handle, uiArea, detached, pc) /\ TablesOK(rdd, handle, uiArea, dup)
      /\ FreeOK(rdd, pc) /\ OwnOK(rdd, pc, detached) /\ EndOK(rdd, pc, detached, ended)
      /\ WakeOK(pc, detached) /\ SetsOK(quit, ended, dup) /\ program \in Programs
  BY DEF Inv, StateOK
<1>2. Main \in program.threads /\ Main \in Threads
  BY <1>1, ProgramProps
<1>3. pc[Main].at = "shutDown" /\ UNCHANGED <<uiArea, detached, quit, dup>>
  BY DEF CloseDetached, At
<1>4. /\ pc[Main] \in Places /\ pc[Main].areas \in Seq(Tables) /\ Moving(pc[Main]) = {}
  <2>1. pc[Main] \in Places
    BY <1>1, <1>2 DEF Known
  <2> QED BY <1>3, <2>1, PlaceProps
<1>5. /\ ended = program.threads \ {Main} /\ rdd[Main].waList = <<>> /\ detached = <<>>
      /\ \A u \in ended : pc[u] = Idle /\ rdd[u].waList = <<>>
      /\ \A u \in Threads : pc[u].at = "shutDown" => u = Main
  BY <1>1, <1>3 DEF EndOK
<1>6. ASSUME NEW p \in Places, pc' = [pc EXCEPT ![Main] = p], p.at \in {"idle", "shutDown"},
             NEW x, NEW g, Works(Main, x, g), x.waList = <<>>,
             \/ p.at = "shutDown" /\ ended' = ended
             \/ p = Idle /\ ended' = ended \cup {Main}
      PROVE  InvNext
  <2>1. /\ rdd' \in [Threads -> RddStates] /\ handle' \in [Threads -> [Aliases -> Numbers]]
        /\ uiArea' \in [Tables -> Numbers] /\ TablesOK(rdd', handle', uiArea', dup')
        /\ rdd'[Main] = x /\ \A u \in Threads \ {Main} : rdd'[u] = rdd[u]
    BY <1>2, <1>6, WorksKeepsTables
  <2>2. pc' \in [Threads -> Places] /\ pc'[Main] = p /\ \A u \in Threads \ {Main} : pc'[u] = pc[u]
    BY <1>1, <1>2, <1>6 DEF Known
  <2>3. Listed(x) = {} /\ Moving(p) = {} /\ ~Asleep(p)
    BY <1>6 DEF Listed, ToSet, Moving, Asleep
  <2>4. Known(rdd', handle', uiArea', detached', pc')
    <3>1. \A u \in Threads \ program.threads : pc'[u] = pc[u] /\ rdd'[u] = rdd[u]
      BY <1>2, <2>1, <2>2
    <3> QED BY <1>1, <1>3, <2>1, <2>2, <3>1 DEF Known
  <2>5. FreeOK(rdd', pc')
    BY <1>1, <1>6, <2>1, <2>2 DEF FreeOK
  <2>6. OwnOK(rdd', pc', detached')
    <3>1. Same(rdd, pc, rdd', pc', Main)
      BY <2>1, <2>2 DEF Same
    <3>2. Owned(rdd'[Main], pc'[Main]) = {} /\ Listed(rdd'[Main]) \cap Moving(pc'[Main]) = {}
      BY <2>1, <2>2, <2>3 DEF Owned
    <3>3. ToSet(detached') = {} /\ IsInjective(detached')
      BY <1>3, <1>5, EmptyList
    <3>4. /\ Owned(rdd'[Main], pc'[Main]) \cap ToSet(detached') = {}
          /\ Apart(rdd, pc, Owned(rdd'[Main], pc'[Main]), Main)
          /\ Apart(rdd, pc, ToSet(detached'), Main)
      BY <3>2, <3>3 DEF Apart
    <3> QED BY <1>1, <1>2, <3>1, <3>2, <3>3, <3>4, OwnersKept
  <2>7. EndOK(rdd', pc', detached', ended')
    <3>1. \A u \in ended : u \in Threads \ {Main} /\ pc'[u] = Idle /\ rdd'[u].waList = <<>>
      <4>1. \A u \in ended : u \in Threads \ {Main}
        BY <1>1, <1>5, ProgramProps DEF SetsOK
      <4> QED BY <1>5, <2>1, <2>2, <4>1
    <3>2. \A u \in Threads : pc'[u].at = "shutDown" => u = Main
      BY <1>5, <2>2
    <3>3. CASE p.at = "shutDown" /\ ended' = ended
      BY <1>3, <1>5, <1>6, <2>1, <2>2, <3>1, <3>2, <3>3 DEF EndOK
    <3>4. CASE p = Idle /\ ended' = ended \cup {Main}
      <4>1. ended' = program.threads /\ pc'[Main].at # "shutDown"
        BY <1>2, <1>5, <2>2, <3>4 DEF Idle
      <4>2. \A u \in ended' : pc'[u] = Idle /\ rdd'[u].waList = <<>>
        BY <1>6, <2>1, <2>2, <3>1, <3>4
      <4> QED BY <1>3, <1>5, <3>2, <4>1, <4>2 DEF EndOK
    <3> QED BY <1>6, <3>3, <3>4
  <2>8. WakeOK(pc', detached')
    BY <1>1, <1>3, <2>2, <2>3 DEF WakeOK
  <2>9. SetsOK(quit', ended', dup')
    BY <1>1, <1>2, <1>3, <1>6 DEF SetsOK
  <2> QED BY <2>1, <2>4, <2>5, <2>6, <2>7, <2>8, <2>9 DEF InvNext, StateOK
<1> DEFINE o == rdd[Main]
           k == handle[Main]
           d == Main \in dup
           areas == pc[Main].areas
           a == Head(areas)
           s == IF FreeNumbers(o) # {} THEN SelectFirst(o) ELSE Select(o, program.maxArea)
           in == NodeInsert(s, a)
           x == Select(Released(in), o.uiCurrArea)
           g == WithoutAlias(k, in)
           p == [pc[Main] EXCEPT !.areas = Tail(areas)]
<1>7. ThreadOK(o, k, uiArea, d) /\ uiArea \in [Tables -> Numbers]
      /\ rdd = [rdd EXCEPT ![Main] = o] /\ handle = [handle EXCEPT ![Main] = k]
  BY <1>1, <1>2 DEF TablesOK, Known
<1>8. CASE /\ areas # <<>> /\ rdd' = [rdd EXCEPT ![Main] = x] /\ handle' = [handle EXCEPT ![Main] = g]
           /\ pc' = [pc EXCEPT ![Main] = p] /\ ended' = ended
  <2>1. a \in Tables /\ Tail(areas) \in Seq(Tables)
    BY <1>4, <1>8
  <2>2. p \in Places /\ p.at = "shutDown"
    BY <1>3, <1>4, <2>1 DEF Places, Idle
  <2> HIDE DEF o, k, d, a, areas, p
  <2>3. o.waList = <<>>
    BY <1>5 DEF o
  <2>4. ThreadOK(x, g, uiArea, d) /\ x.waList = <<>>
    BY <1>1, <1>7, <2>1, <2>3, DestructorOK
  <2> HIDE DEF x, g
  <2>5. Works(Main, x, g)
    BY <1>3, <1>8, <2>4 DEF Works, d
  <2> QED BY <1>6, <1>8, <2>2, <2>4, <2>5
<1>9. CASE pc' = [pc EXCEPT ![Main] = Idle] /\ ended' = ended \cup {Main} /\ UNCHANGED <<rdd, handle>>
  <2>1. Idle \in Places /\ Idle.at = "idle"
    BY DEF Places, Idle
  <2>2. Works(Main, o, k)
    BY <1>3, <1>7, <1>9 DEF Works
  <2> HIDE DEF o, k
  <2>3. o.waList = <<>>
    BY <1>5 DEF o
  <2> QED BY <1>6, <1>9, <2>1, <2>2, <2>3
<1> QED BY <1>8, <1>9 DEF CloseDetached, SetRdd, SetHandle, Go

-----------------------------------------------------------------------------
(* The invariant holds.                                                    *)

\* No thread has an area at the start.
LEMMA InitInv ==
    ASSUME Init
    PROVE  Inv
<1>1. /\ program \in Programs /\ rdd = [t \in Threads |-> NoAreas]
      /\ handle = [t \in Threads |-> [al \in Aliases |-> 0]]
      /\ uiArea = [a \in Tables |-> 0] /\ detached = <<>> /\ pc = [t \in Threads |-> Idle]
      /\ quit = {} /\ ended = {} /\ dup = {}
  BY DEF Init, Tables
<1>2. program.maxArea \in Nat /\ program.maxArea >= 2 /\ 0 \in Numbers /\ Main \in Threads
  BY <1>1, ProgramProps
<1>3. NoAreas \in RddStates /\ NoAreas.waList = <<>> /\ NoAreas.pCurrArea = NULL
      /\ \A n \in Numbers : NoAreas.waNums[n] = 0
  BY <1>2 DEF NoAreas, RddStates
<1>4. Idle \in Places /\ Idle.at = "idle" /\ Moving(Idle) = {} /\ ~Asleep(Idle)
  BY DEF Places, Idle, Moving, Asleep
<1>5. Known(rdd, handle, uiArea, detached, pc)
  BY <1>1, <1>2, <1>3, <1>4 DEF Known
<1>6. TablesOK(rdd, handle, uiArea, dup)
  <2> DEFINE h == [al \in Aliases |-> 0]
  <2>1. h \in [Aliases -> Numbers] /\ \A al \in Aliases : h[al] = 0
    BY <1>2
  <2> HIDE DEF h
  <2>2. \A d : ThreadOK(NoAreas, h, uiArea, d)
    BY <1>1, <1>3, <2>1, EmptyOK
  <2> QED BY <1>1, <2>2 DEF TablesOK, h
<1>7. FreeOK(rdd, pc)
  BY <1>1, <1>4 DEF FreeOK
<1>8. OwnOK(rdd, pc, detached)
  <2>1. \A t \in Threads : Listed(rdd[t]) = {} /\ Moving(pc[t]) = {}
    BY <1>1, <1>3, <1>4, EmptyList DEF Listed
  <2> QED BY <1>1, <2>1, EmptyList DEF OwnOK, Owned
<1>9. EndOK(rdd, pc, detached, ended)
  BY <1>1, <1>2, <1>4 DEF EndOK
<1>10. WakeOK(pc, detached) /\ SetsOK(quit, ended, dup)
  BY <1>1, <1>4 DEF WakeOK, SetsOK
<1> QED BY <1>1, <1>5, <1>6, <1>7, <1>8, <1>9, <1>10 DEF Inv, StateOK

\* The program does not change, so what InvNext says of the next state with the names
\* of this one, it says with the names of the next one.
LEMMA InvPrime ==
    ASSUME Inv, InvNext, program' = program
    PROVE  Inv'
<1>1. Numbers' = Numbers /\ Tables' = Tables /\ Aliases' = Aliases
  BY DEF Numbers, Tables, Aliases
<1>2. RddStates' = RddStates /\ Places' = Places /\ Idle' = Idle
  BY <1>1 DEF RddStates, Places, Idle
<1>3. Known(rdd, handle, uiArea, detached, pc)'
  BY <1>1, <1>2 DEF InvNext, StateOK, Known
<1>4. TablesOK(rdd, handle, uiArea, dup)'
  <2>1. \A t \in Threads : ThreadOK(rdd'[t], handle'[t], uiArea', t \in dup')
    BY DEF InvNext, StateOK, TablesOK
  <2>2. \A t \in Threads : rdd'[t] \in RddStates' /\ handle'[t] \in [Aliases' -> Numbers']
    BY <1>1, <1>2, <2>1 DEF ThreadOK
  <2>3. \A t \in Threads : Agree(rdd[t], uiArea)'
    BY <1>1, <2>1 DEF ThreadOK, Agree
  <2>4. \A t \in Threads : t \notin dup' => AliasesFit(rdd[t], handle[t], uiArea)'
    BY <1>1, <2>1 DEF ThreadOK, AliasesFit, Alias
  <2> QED BY <2>2, <2>3, <2>4 DEF TablesOK, ThreadOK
<1>5. FreeOK(rdd, pc)' /\ OwnOK(rdd, pc, detached)'
  BY DEF InvNext, StateOK, FreeOK, OwnOK
<1>6. EndOK(rdd, pc, detached, ended)'
  BY <1>2 DEF InvNext, StateOK, EndOK
<1>7. WakeOK(pc, detached)' /\ SetsOK(quit, ended, dup)'
  BY DEF InvNext, StateOK, WakeOK, SetsOK, Fits, Alias
<1>8. program' \in Programs
  BY DEF Inv
<1> QED BY <1>3, <1>4, <1>5, <1>6, <1>7, <1>8 DEF Inv, StateOK

\* One step per action.
LEMMA NextInv ==
    ASSUME Inv, [Next]_vars
    PROVE  Inv'
<1>1. CASE Next
  <2>1. program' = program
    BY <1>1 DEF Next
  <2>2. ASSUME NEW t \in program.threads, Step(t) PROVE InvNext
    BY <2>2, DetachPushKeeps, RequestLookKeeps, RequestWakeKeeps, RequestAttachKeeps, ThreadQuitKeeps
       DEF Step
  <2>3. ASSUME NEW t \in program.threads, Call(t) PROVE InvNext
    <3>1. CASE CloseArea(t) \/ QuitRequest(t) \/ Spurious(t)
      BY <3>1, CloseAreaKeeps, QuitRequestKeeps, SpuriousKeeps
    <3>2. CASE \E n \in 1 .. program.maxArea - 1 : SelectArea(t, n)
      BY <3>2, SelectAreaKeeps
    <3>3. CASE \E a \in Tables : DetachArea(t, a) \/ \E new \in BOOLEAN : OpenTable(t, a, new)
      BY <3>3, DetachAreaKeeps, OpenTableKeeps
    <3>4. CASE \E al \in Aliases \cup {NULL}, new \in BOOLEAN, wait \in {"no", "timed", "forever"} :
                  RequestArea(t, al, new, wait)
      BY <3>4, RequestAreaKeeps
    <3> QED BY <2>3, <3>1, <3>2, <3>3, <3>4 DEF Call, Tables
  <2>4. CASE VmQuit
    BY <2>1, <2>4, VmQuitKeeps, InvPrime
  <2>5. CASE CloseDetached
    BY <2>1, <2>5, CloseDetachedKeeps, InvPrime
  <2>6. CASE ExitFunctions
    BY <2>1, <2>6, ExitFunctionsKeeps, InvPrime
  <2> QED BY <1>1, <2>1, <2>2, <2>3, <2>4, <2>5, <2>6, InvPrime DEF Next
<1>2. CASE UNCHANGED vars
  <2>1. InvNext /\ program' = program
    BY <1>2 DEF vars, Inv, InvNext
  <2> QED BY <2>1, InvPrime
<1> QED BY <1>1, <1>2

-----------------------------------------------------------------------------
(* What the invariant says about the properties.                           *)

\* A list without repetition is not longer than the set of its elements is large.
LEMMA ShortList ==
    ASSUME NEW S, IsFiniteSet(S), NEW s \in Seq(S), IsInjective(s)
    PROVE  Len(s) \in Nat /\ Cardinality(S) \in Nat /\ Len(s) <= Cardinality(S)
<1>1. Len(s) \in Nat /\ s \in [1 .. Len(s) -> S]
  OBVIOUS
<1>2. s \in Injection(1 .. Len(s), S)
  BY <1>1 DEF Injection
<1>3. Cardinality(1 .. Len(s)) <= Cardinality(S)
  <2> DEFINE I == 1 .. Len(s)
  <2>1. s \in Injection(I, S)
    BY <1>2
  <2> HIDE DEF I
  <2>2. Cardinality(I) <= Cardinality(S)
    BY <2>1, FS_Injection
  <2> QED BY <2>2 DEF I
<1>4. Cardinality(1 .. Len(s)) = IF 1 > Len(s) THEN 0 ELSE Len(s) - 1 + 1
  <2>1. 1 \in Int /\ Len(s) \in Int
    BY <1>1
  <2> QED BY <2>1, FS_Interval
<1>5. Cardinality(S) \in Nat
  BY FS_CardinalityType
<1> QED BY <1>1, <1>3, <1>4, <1>5

\* The areas of a list are different from each other.
LEMMA ListInjective ==
    ASSUME program \in Programs, NEW r \in RddStates, NEW num \in [Tables -> Numbers], Agree(r, num)
    PROVE  IsInjective(r.waList)
<1> SUFFICES ASSUME NEW i \in DOMAIN r.waList, NEW j \in DOMAIN r.waList, r.waList[i] = r.waList[j]
             PROVE  i = j
  BY DEF IsInjective
<1> QED BY DEF Agree

\* The type invariant; the table of numbers is bounded by the number of areas.
LEMMA TypeFollows ==
    ASSUME Inv
    PROVE  TypeOK
<1>1. /\ Known(rdd, handle, uiArea, detached, pc) /\ TablesOK(rdd, handle, uiArea, dup)
      /\ SetsOK(quit, ended, dup) /\ program \in Programs
  BY DEF Inv, StateOK
<1>2. /\ Main \in program.threads /\ program.threads \subseteq Threads /\ Tables \subseteq Areas
      /\ program.maxArea \in Nat /\ Numbers = 0 .. program.maxArea
  BY <1>1, ProgramProps
<1>3. ASSUME NEW t \in program.threads
      PROVE  /\ rdd[t].waList \in Seq(Areas) /\ rdd[t].waNums \in [Numbers -> 0 .. Cardinality(Areas)]
             /\ rdd[t].uiCurrArea \in Numbers /\ rdd[t].pCurrArea \in Areas \cup {NULL}
  <2> DEFINE r == rdd[t]
             c == Cardinality(Areas)
  <2>1. r \in RddStates /\ Agree(r, uiArea) /\ uiArea \in [Tables -> Numbers]
    BY <1>1, <1>2 DEF Known, TablesOK, ThreadOK
  <2> HIDE DEF r
  <2>2. /\ r.waList \in Seq(Tables) /\ r.waNums \in [Numbers -> Nat]
        /\ r.uiCurrArea \in 1 .. program.maxArea /\ r.pCurrArea \in Tables \cup {NULL}
    BY <2>1 DEF RddStates
  <2>3. r.waList \in Seq(Areas)
    BY <1>2, <2>2
  <2>4. IsInjective(r.waList)
    BY <1>1, <2>1, ListInjective
  <2>5. Len(r.waList) \in Nat /\ c \in Nat /\ Len(r.waList) <= c
    BY <2>3, <2>4, AreaAssumption, ShortList
  <2>6. \A n \in Numbers : r.waNums[n] = 0 \/ r.waNums[n] \in 1 .. Len(r.waList)
    BY <2>1, <2>2 DEF Agree
  <2> HIDE DEF c
  <2>7. \A n \in Numbers : r.waNums[n] \in 0 .. c
    BY <2>5, <2>6
  <2>8. r.waNums \in [Numbers -> 0 .. c]
    BY <2>2, <2>7
  <2> QED BY <1>2, <2>2, <2>3, <2>8 DEF r, c
<1>4. handle \in [Threads -> [Aliases -> Numbers]] /\ uiArea \in [DOMAIN program.alias -> Numbers]
  BY <1>1 DEF Known, Tables
<1>5. detached \in Seq(Areas)
  BY <1>1, <1>2 DEF Known
<1>6. \A t \in program.threads : pc[t].at \in {"idle", "push", "look", "wait", "attach", "shutDown"}
  <2>1. \A t \in program.threads : pc[t] \in Places
    BY <1>1, <1>2 DEF Known
  <2> QED BY <2>1, PlaceProps
<1>7. {quit, ended, dup} \subseteq SUBSET program.threads
  BY <1>1 DEF SetsOK
<1> QED BY <1>1, <1>3, <1>4, <1>5, <1>6, <1>7 DEF TypeOK

\* Agree and AliasesFit are what TablesAgree and AliasFindsArea say of one thread.
LEMMA TablesFollow ==
    ASSUME Inv
    PROVE  TablesAgree /\ AliasFindsArea /\ ListedHaveNumbers
<1>1. /\ Known(rdd, handle, uiArea, detached, pc) /\ TablesOK(rdd, handle, uiArea, dup)
      /\ program \in Programs
  BY DEF Inv, StateOK
<1>2. /\ program.threads \subseteq Threads /\ 0 \in Numbers
      /\ \A n \in 1 .. program.maxArea : n \in Numbers /\ n # 0
  BY <1>1, ProgramProps
<1>3. ASSUME NEW t \in program.threads
      PROVE  /\ rdd[t] \in RddStates /\ handle[t] \in [Aliases -> Numbers] /\ Agree(rdd[t], uiArea)
             /\ t \notin dup => AliasesFit(rdd[t], handle[t], uiArea)
             /\ rdd[t].uiCurrArea \in Numbers
  <2>1. ThreadOK(rdd[t], handle[t], uiArea, t \in dup)
    BY <1>1, <1>2 DEF TablesOK
  <2> QED BY <1>2, <2>1 DEF ThreadOK, RddStates
<1>4. ListedHaveNumbers
  BY <1>3 DEF ListedHaveNumbers, Agree
<1>5. TablesAgree
  <2> SUFFICES ASSUME NEW t \in program.threads
               PROVE  LET r == rdd[t]
        IN  /\ \A i, j \in DOMAIN r.waList : i < j => uiArea[r.waList[i]] < uiArea[r.waList[j]]
            /\ \A n \in Numbers : r.waNums[n] = IF \E i \in DOMAIN r.waList : uiArea[r.waList[i]] = n
                                                THEN CHOOSE i \in DOMAIN r.waList : uiArea[r.waList[i]] = n
                                                ELSE 0
            /\ r.pCurrArea = Select(r, r.uiCurrArea).pCurrArea
    BY DEF TablesAgree
  <2> DEFINE r == rdd[t]
             C(n) == CHOOSE i \in DOMAIN r.waList : uiArea[r.waList[i]] = n
  <2>1. r \in RddStates /\ Agree(r, uiArea) /\ r.uiCurrArea \in Numbers
    BY <1>3
  <2> HIDE DEF r
  <2>2. \A i, j \in DOMAIN r.waList : i < j => uiArea[r.waList[i]] < uiArea[r.waList[j]]
    BY <2>1 DEF Agree
  <2>3. ASSUME NEW n \in Numbers
        PROVE  r.waNums[n] = IF \E i \in DOMAIN r.waList : uiArea[r.waList[i]] = n THEN C(n) ELSE 0
    <3>1. CASE \E i \in DOMAIN r.waList : uiArea[r.waList[i]] = n
      <4>1. C(n) \in DOMAIN r.waList /\ uiArea[r.waList[C(n)]] = n
        BY <3>1
      <4> HIDE DEF C
      <4> QED BY <2>1, <3>1, <4>1 DEF Agree
    <3>2. CASE ~ \E i \in DOMAIN r.waList : uiArea[r.waList[i]] = n
      BY <2>1, <3>2 DEF Agree
    <3> QED BY <3>1, <3>2
  <2>4. r.pCurrArea = Select(r, r.uiCurrArea).pCurrArea
    BY <2>1 DEF Agree, Select, RddStates
  <2> QED BY <2>2, <2>3, <2>4 DEF r
<1>6. AliasFindsArea
  <2> SUFFICES ASSUME NEW t \in program.threads \ dup, NEW al \in Aliases
               PROVE  {n \in {handle[t][al]} : n # 0}
                         = {uiArea[a] : a \in {b \in ToSet(rdd[t].waList) : Alias(b) = al}}
    BY DEF AliasFindsArea
  <2> DEFINE r == rdd[t]
             h == handle[t]
             L == {b \in ToSet(r.waList) : Alias(b) = al}
  <2>1. r \in RddStates /\ Agree(r, uiArea) /\ AliasesFit(r, h, uiArea) /\ uiArea \in [Tables -> Numbers]
    BY <1>1, <1>3 DEF Known
  <2> HIDE DEF r, h
  <2>2. \A a \in ToSet(r.waList) : uiArea[a] \in 1 .. program.maxArea
    BY <1>1, <2>1, ListedProps
  <2>3. \A a \in L : uiArea[a] = h[al] /\ uiArea[a] # 0
    BY <1>2, <2>1, <2>2 DEF AliasesFit
  <2>4. h[al] # 0 => \E a \in L : TRUE
    BY <2>1 DEF AliasesFit
  <2> HIDE DEF L
  <2>5. {n \in {h[al]} : n # 0} = {uiArea[a] : a \in L}
    BY <2>3, <2>4
  <2> QED BY <2>5 DEF L, r, h
<1> QED BY <1>4, <1>5, <1>6

\* Two lists without repetition that have no element in common.
LEMMA ConcatInjective ==
    ASSUME NEW S, NEW s \in Seq(S), NEW u \in Seq(S), IsInjective(s), IsInjective(u),
           ToSet(s) \cap ToSet(u) = {}
    PROVE  s \o u \in Seq(S) /\ IsInjective(s \o u) /\ ToSet(s \o u) = ToSet(s) \cup ToSet(u)
<1> DEFINE m == Len(s)
           n == Len(u)
           w == s \o u
<1>1. /\ m \in Nat /\ n \in Nat /\ DOMAIN s = 1 .. m /\ DOMAIN u = 1 .. n /\ w \in Seq(S)
      /\ DOMAIN w = 1 .. m + n
      /\ \A i \in 1 .. m + n : w[i] = IF i <= m THEN s[i] ELSE u[i - m]
  <2>1. w \in Seq(S) /\ Len(w) = m + n /\ \A i \in 1 .. m + n : w[i] = IF i <= m THEN s[i] ELSE u[i - m]
    BY ConcatProperties
  <2>2. DOMAIN w = 1 .. Len(w)
    BY <2>1
  <2> QED BY <2>1, <2>2
<1> HIDE DEF m, n, w
<1>2. /\ \A i, j \in 1 .. m : s[i] = s[j] => i = j
      /\ \A i, j \in 1 .. n : u[i] = u[j] => i = j
      /\ \A i \in 1 .. m, j \in 1 .. n : s[i] # u[j]
  <2>1. (\A i \in 1 .. m : s[i] \in ToSet(s)) /\ (\A j \in 1 .. n : u[j] \in ToSet(u))
    BY <1>1 DEF ToSet
  <2>2. \A i \in 1 .. m, j \in 1 .. n : s[i] # u[j]
    BY <2>1
  <2>3. (\A i, j \in 1 .. m : s[i] = s[j] => i = j) /\ (\A i, j \in 1 .. n : u[i] = u[j] => i = j)
    BY <1>1 DEF IsInjective
  <2> QED BY <2>2, <2>3
<1>3. \A i \in 1 .. m + n : (i <= m => i \in 1 .. m) /\ (~(i <= m) => i - m \in 1 .. n)
  BY <1>1
<1>4. IsInjective(w)
  <2> SUFFICES ASSUME NEW i \in 1 .. m + n, NEW j \in 1 .. m + n, w[i] = w[j] PROVE i = j
    BY <1>1 DEF IsInjective
  <2>1. CASE i <= m /\ j <= m
    BY <1>1, <1>2, <1>3, <2>1
  <2>2. CASE ~(i <= m) /\ ~(j <= m)
    <3>1. i - m = j - m
      BY <1>1, <1>2, <1>3, <2>2
    <3> QED BY <1>1, <3>1
  <2>3. CASE (i <= m) # (j <= m)
    BY <1>1, <1>2, <1>3, <2>3
  <2> QED BY <2>1, <2>2, <2>3
<1>5. ToSet(w) \subseteq ToSet(s) \cup ToSet(u)
  BY <1>1, <1>3 DEF ToSet
<1>6. ToSet(s) \subseteq ToSet(w)
  <2>1. \A i \in 1 .. m : i \in 1 .. m + n /\ i <= m
    BY <1>1
  <2> QED BY <1>1, <2>1 DEF ToSet
<1>7. ToSet(u) \subseteq ToSet(w)
  <2>1. \A i \in 1 .. n : i + m \in 1 .. m + n /\ ~(i + m <= m) /\ i + m - m = i
    BY <1>1
  <2>2. \A i \in 1 .. n : w[i + m] = u[i]
    BY <1>1, <2>1
  <2>3. \A i \in 1 .. n : w[i + m] \in ToSet(w)
    BY <1>1, <2>1 DEF ToSet
  <2>4. \A i \in 1 .. n : u[i] \in ToSet(w)
    BY <2>2, <2>3
  <2> QED BY <1>1, <2>4 DEF ToSet
<1> QED BY <1>1, <1>4, <1>5, <1>6, <1>7 DEF w

\* OwnOK, said with lists instead of sets.
LEMMA OwnersFollow ==
    ASSUME Inv
    PROVE  AreaInOnePlace
<1>1. /\ Known(rdd, handle, uiArea, detached, pc) /\ TablesOK(rdd, handle, uiArea, dup)
      /\ OwnOK(rdd, pc, detached) /\ program \in Programs
  BY DEF Inv, StateOK
<1> DEFINE moving(t) == IF At(t, "push") \/ At(t, "attach") THEN <<pc[t].area>> ELSE <<>>
           of(t) == rdd[t].waList \o moving(t)
<1>2. ASSUME NEW t \in Threads
      PROVE  moving(t) \in Seq(Tables) /\ IsInjective(moving(t)) /\ ToSet(moving(t)) = Moving(pc[t])
  <2>1. pc[t] \in Places
    BY <1>1 DEF Known
  <2>2. pc[t].at \in {"push", "attach"} => pc[t].area \in Tables /\ Moving(pc[t]) = {pc[t].area}
    BY <2>1, PlaceProps
  <2>3. pc[t].at \notin {"push", "attach"} => Moving(pc[t]) = {}
    BY <2>1, PlaceProps
  <2>4. CASE pc[t].at \in {"push", "attach"}
    <3> DEFINE a == pc[t].area
    <3>1. moving(t) = <<a>>
      BY <2>4 DEF At
    <3>2. <<a>> \in Seq(Tables) /\ DOMAIN <<a>> = 1 .. 1 /\ <<a>>[1] = a
      BY <2>2, <2>4
    <3>3. IsInjective(<<a>>) /\ ToSet(<<a>>) = {a}
      BY <3>2 DEF IsInjective, ToSet
    <3> QED BY <2>2, <2>4, <3>1, <3>2, <3>3
  <2>5. CASE pc[t].at \notin {"push", "attach"}
    BY <2>3, <2>5, EmptyList DEF At
  <2> QED BY <2>4, <2>5
<1>3. ASSUME NEW t \in Threads
      PROVE  rdd[t].waList \in Seq(Tables) /\ IsInjective(rdd[t].waList)
             /\ ToSet(rdd[t].waList) = Listed(rdd[t])
  <2>1. rdd[t] \in RddStates /\ Agree(rdd[t], uiArea) /\ uiArea \in [Tables -> Numbers]
    BY <1>1 DEF Known, TablesOK, ThreadOK
  <2>2. rdd[t].waList \in Seq(Tables)
    BY <2>1 DEF RddStates
  <2> QED BY <1>1, <2>1, <2>2, ListInjective DEF Listed
<1> HIDE DEF moving
<1>4. ASSUME NEW t \in Threads
      PROVE  of(t) \in Seq(Tables) /\ IsInjective(of(t)) /\ ToSet(of(t)) = Owned(rdd[t], pc[t])
  <2> DEFINE l == rdd[t].waList
             m == moving(t)
  <2>1. l \in Seq(Tables) /\ IsInjective(l) /\ m \in Seq(Tables) /\ IsInjective(m)
        /\ ToSet(l) \cap ToSet(m) = {}
    BY <1>1, <1>2, <1>3 DEF OwnOK
  <2> HIDE DEF l, m
  <2>2. l \o m \in Seq(Tables) /\ IsInjective(l \o m) /\ ToSet(l \o m) = ToSet(l) \cup ToSet(m)
    BY <2>1, ConcatInjective
  <2> QED BY <1>2, <1>3, <2>2 DEF l, m, Owned
<1> HIDE DEF of
<1>5. ASSUME NEW t \in Threads PROVE IsInjective(of(t) \o detached)
  <2>1. of(t) \in Seq(Tables) /\ IsInjective(of(t)) /\ detached \in Seq(Tables)
        /\ IsInjective(detached) /\ ToSet(of(t)) \cap ToSet(detached) = {}
    BY <1>1, <1>4 DEF OwnOK, Known
  <2> QED BY <2>1, ConcatInjective
<1>6. \A t, u \in Threads : t # u => ToSet(of(t)) \cap ToSet(of(u)) = {}
  BY <1>1, <1>4 DEF OwnOK
<1> QED BY <1>5, <1>6 DEF AreaInOnePlace, of, moving

\* The parts that differ in their names only, and the end of the program.
LEMMA RestFollows ==
    ASSUME Inv
    PROVE  StatesKnown /\ NumberIsFree /\ EndedHaveNothing /\ NoStrandedRequest /\ NothingLeft
<1>1. /\ Known(rdd, handle, uiArea, detached, pc) /\ FreeOK(rdd, pc)
      /\ EndOK(rdd, pc, detached, ended) /\ WakeOK(pc, detached) /\ program \in Programs
  BY DEF Inv, StateOK
<1>2. program.threads \subseteq Threads
  BY <1>1, ProgramProps
<1>3. StatesKnown
  BY <1>1 DEF Known, StatesKnown
<1>4. NumberIsFree
  BY <1>1 DEF FreeOK, NumberIsFree
<1>5. EndedHaveNothing
  BY <1>1 DEF EndOK, EndedHaveNothing, At
<1>6. NoStrandedRequest
  BY <1>1, <1>2 DEF WakeOK, NoStrandedRequest, Asleep, At, Fits, Matches
<1>7. NothingLeft
  <2> SUFFICES ASSUME Main \in ended PROVE OpenAreas = {}
    BY DEF NothingLeft
  <2>1. detached = <<>> /\ \A t \in program.threads : pc[t] = Idle /\ rdd[t].waList = <<>>
    BY <1>1 DEF EndOK
  <2>2. \A t \in program.threads : ToSet(rdd[t].waList) = {} /\ ~At(t, "push") /\ ~At(t, "attach")
    BY <2>1, EmptyList DEF At, Idle
  <2>3. ToSet(detached) = {}
    BY <2>1, EmptyList
  <2>4. UNION {ToSet(rdd[t].waList) : t \in program.threads} = {}
    BY <2>2
  <2>5. {u \in program.threads : At(u, "push") \/ At(u, "attach")} = {}
    BY <2>2
  <2> QED BY <2>3, <2>4, <2>5 DEF OpenAreas
<1> QED BY <1>3, <1>4, <1>5, <1>6, <1>7

-----------------------------------------------------------------------------
(* The theorems.                                                           *)

\* The inductive invariant in the terms of the specification.
LEMMA AreaInvFollows == Inv => AreaInv
BY TypeFollows, TablesFollow, OwnersFollow, RestFollows DEF AreaInv, TablesAndAliasesAgree

\* Induction over the steps.
LEMMA InvHolds == Spec => []Inv
<1>1. Init => Inv
  BY InitInv
<1>2. Inv /\ [Next]_vars => Inv'
  BY NextInv
<1> QED BY <1>1, <1>2, PTL DEF Spec

\* In any program every reachable state has the parts of AreaInv.
THEOREM Invariance == Spec => []AreaInv
BY InvHolds, AreaInvFollows, PTL

\* An open area has one owner at a time, whatever the threads do with hb_dbDetach() and
\* hb_dbRequest(), and none is open after hb_rddCloseDetachedAreas().
THEOREM AreasCorrect == Spec => []AreasAreOwned
<1>1. Inv => AreasAreOwned
  BY OwnersFollow, RestFollows DEF AreasAreOwned
<1> QED BY <1>1, InvHolds, PTL

\* hb_waNodeInsert() and hb_waNodeDelete() keep list, numbers and current area in
\* agreement, and an alias leads to the area that has it.
THEOREM TablesCorrect == Spec => []TablesAndAliasesAgree
<1>1. Inv => TablesAndAliasesAgree
  BY TypeFollows, TablesFollow DEF TablesAndAliasesAgree
<1> QED BY <1>1, InvHolds, PTL

\* No thread sleeps in hb_dbRequest() while an area it could take is detached.
THEOREM RequestsCorrect == Spec => []NoStrandedRequest
<1>1. Inv => NoStrandedRequest
  BY RestFollows
<1> QED BY <1>1, InvHolds, PTL
=============================================================================
