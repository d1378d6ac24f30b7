-------------------------- MODULE DbfLocks_proofs --------------------------
(***************************************************************************)
(* Proofs about DbfLocks, for any finite set of areas and any loads.       *)
(***************************************************************************)
EXTENDS DbfLocks, FiniteSetTheorems, SequenceTheorems, WellFoundedInduction, TLAPS

-----------------------------------------------------------------------------
(* Smallest numbers, and the steps an area goes on with.                   *)

\* A set of numbers that is not empty has a smallest one.
LEMMA SmallestExists ==
    ASSUME NEW S \in SUBSET Nat, S # {}
    PROVE  \E m \in S : \A k \in S : m <= k
<1> DEFINE R == OpToRel(<, Nat)
<1>1. IsWellFoundedOn(R, Nat)
  BY NatLessThanWellFounded
<1>2. \A x, y \in Nat : <<y, x>> \in R <=> y < x
  BY DEF OpToRel
<1> HIDE DEF R
<1>3. PICK x \in S : \A y \in S : ~(<<y, x>> \in R)
  BY <1>1, WFMin
<1>4. \A y \in S : x \in Nat /\ y \in Nat /\ ~(y < x)
  BY <1>2, <1>3
<1> QED BY <1>3, <1>4

\* Min of FiniteSetsExt.
LEMMA MinProps ==
    ASSUME NEW S \in SUBSET Nat, S # {}
    PROVE  Min(S) \in S /\ \A k \in S : Min(S) <= k
BY SmallestExists DEF Min

\* t is s from step n on; what is before n has nothing to do.
Passed(ar, s, t, n) ==
    /\ n \in 1 .. Len(s) + 1
    /\ t \in Seq(Steps) /\ Len(t) = Len(s) - n + 1
    /\ \A i \in 1 .. Len(t) : t[i] = s[n + i - 1]
    /\ \A i \in 1 .. n - 1 : NothingToDo(ar, s[i])
    /\ n <= Len(s) => ~NothingToDo(ar, s[n])

\* What Go does.
LEMMA GoProps ==
    ASSUME NEW a \in Areas, NEW ar, NEW s \in Seq(Steps), Go(a, ar, s),
           todo \in [Areas -> Seq(Steps)], area \in [Areas -> AreaStates]
    PROVE  /\ area'[a] = ar /\ \A b \in Areas \ {a} : area'[b] = area[b]
           /\ \E n \in Nat : Passed(ar, s, todo'[a], n)
           /\ \A b \in Areas \ {a} : todo'[b] = todo[b]
           /\ ar \in AreaStates => area' \in [Areas -> AreaStates]
           /\ todo' \in [Areas -> Seq(Steps)]
<1> DEFINE P == {i \in 1 .. Len(s) + 1 : i <= Len(s) => ~NothingToDo(ar, s[i])}
           n == Min(P)
<1>1. Len(s) \in Nat
  OBVIOUS
<1>2. P \in SUBSET Nat /\ Len(s) + 1 \in P
  BY <1>1
<1>3. n \in P /\ \A k \in P : n <= k
  <2> HIDE DEF P
  <2> QED BY <1>2, MinProps
<1>4. n \in 1 .. Len(s) + 1 /\ (n <= Len(s) => ~NothingToDo(ar, s[n]))
  BY <1>3
<1>5. \A i \in 1 .. n - 1 : NothingToDo(ar, s[i])
  <2> SUFFICES ASSUME NEW i \in 1 .. n - 1, ~NothingToDo(ar, s[i])
               PROVE  FALSE
    OBVIOUS
  <2>1. i \in P
    BY <1>1, <1>4
  <2> HIDE DEF P, n
  <2>2. n \in Nat /\ n <= i
    BY <1>3, <1>4, <2>1
  <2> QED BY <2>2
<1>6. /\ area' = [area EXCEPT ![a] = ar]
      /\ todo' = [todo EXCEPT ![a] = SubSeq(s, n, Len(s))]
  BY DEF Go
<1> HIDE DEF P, n
<1>7. \A i \in n .. Len(s) : s[i] \in Steps
  BY <1>1, <1>4
<1>8. /\ SubSeq(s, n, Len(s)) \in Seq(Steps)
      /\ Len(SubSeq(s, n, Len(s))) = Len(s) - n + 1
      /\ \A i \in 1 .. Len(s) - n + 1 : SubSeq(s, n, Len(s))[i] = s[n + i - 1]
  BY <1>1, <1>4, <1>7, SubSeqProperties
<1>9. Passed(ar, s, todo'[a], n)
  BY <1>1, <1>4, <1>5, <1>6, <1>8 DEF Passed
<1> QED BY <1>4, <1>6, <1>8, <1>9

\* q is k new steps and then s from step m on.
Spliced(s, q, k, m) ==
    /\ k \in Nat /\ m \in 1 .. Len(s) + 1
    /\ Len(q) = k + Len(s) - m + 1
    /\ \A i \in k + 1 .. Len(q) : q[i] = s[i - k + m - 1]

\* Step i of q is step o of s.
Same(s, q, k, m, i, o) == i \in k + 1 .. Len(q) /\ o = i - k + m - 1

\* What comes before a step, when the steps before it are replaced.
Before(s, q, k, m, i, o) ==
    /\ o \in m .. Len(s) /\ o \in DOMAIN s /\ q[i] = s[o] /\ i \in DOMAIN q
    /\ \A ops :
          /\ OnlyBefore(s, o, ops) /\ OnlyBefore(q, k + 1, ops) => OnlyBefore(q, i, ops)
          /\ OnlyBefore(s, o, ops) => OnlyBefore(s, m, ops)
          /\ Earlier(s, o, ops) => Earlier(q, i, ops) \/ Earlier(s, m, ops)
          /\ Earlier(q, k + 1, ops) => Earlier(q, i, ops)
          /\ Earlier(q, i, ops) => Earlier(q, k + 1, ops) \/ Earlier(s, o, ops)
    /\ \A r :
          /\ Released(s, o, r) => Released(q, i, r) \/ Released(s, m, r)
          /\ Released(q, k + 1, r) => Released(q, i, r)
          /\ NotUnlocked(s, o, r) /\ NotUnlocked(q, k + 1, r) => NotUnlocked(q, i, r)
    /\ Cleaned(s, o) => Cleaned(q, i) \/ Cleaned(s, m)
    /\ Cleaned(q, k + 1) => Cleaned(q, i)

\* The steps kept by a splice have before them what they had, but for the steps
\* that were replaced.
LEMMA BeforeSplice ==
    ASSUME NEW s \in Seq(Steps), NEW q \in Seq(Steps), NEW k, NEW m, NEW i, NEW o,
           Spliced(s, q, k, m), Same(s, q, k, m, i, o)
    PROVE  Before(s, q, k, m, i, o)
<1>1. /\ Len(s) \in Nat /\ Len(q) \in Nat /\ k \in Nat /\ m \in 1 .. Len(s) + 1
      /\ DOMAIN s = 1 .. Len(s) /\ DOMAIN q = 1 .. Len(q)
      /\ i \in k + 1 .. Len(q) /\ o = i - k + m - 1 /\ Len(q) = k + Len(s) - m + 1
  BY DEF Spliced, Same
<1>2. o \in m .. Len(s) /\ o \in DOMAIN s /\ q[i] = s[o] /\ i \in DOMAIN q
  BY <1>1 DEF Spliced
<1>3. \A j \in k + 1 .. i - 1 : j - k + m - 1 \in m .. o - 1 /\ q[j] = s[j - k + m - 1]
  BY <1>1 DEF Spliced
<1>4. \A j \in m .. o - 1 : j - m + 1 + k \in k + 1 .. i - 1 /\ q[j - m + 1 + k] = s[j]
  <2> TAKE j \in m .. o - 1
  <2>1. j - m + 1 + k \in k + 1 .. i - 1
    BY <1>1
  <2>2. (j - m + 1 + k) - k + m - 1 = j
    BY <1>1
  <2> QED BY <1>3, <2>1, <2>2
<1>5. \A j \in 1 .. i - 1 : j \in 1 .. k \/ j \in k + 1 .. i - 1
  BY <1>1
<1>6. \A j \in 1 .. o - 1 : j \in 1 .. m - 1 \/ j \in m .. o - 1
  BY <1>1
<1>7. /\ \A j \in k + 1 .. i - 1 : j \in 1 .. i - 1
      /\ \A j \in 1 .. k : j \in 1 .. i - 1
      /\ \A j \in m .. o - 1 : j \in 1 .. o - 1
      /\ \A j \in 1 .. m - 1 : j \in 1 .. o - 1
      /\ (k + 1) - 1 = k
  BY SMTT(20), <1>1, <1>2
<1> DEFINE B == 1 .. i - 1
           C == 1 .. o - 1
           D == 1 .. k
           F == 1 .. m - 1
           new == k + 1 .. i - 1
           old == m .. o - 1
           f(j) == j - k + m - 1
           g(j) == j - m + 1 + k
<1>8. /\ B = D \cup new /\ C = F \cup old
      /\ \A j \in new : f(j) \in old /\ q[j] = s[f(j)]
      /\ \A j \in old : g(j) \in new /\ q[g(j)] = s[j]
  BY <1>3, <1>4, <1>5, <1>6, <1>7
<1>9. /\ \A x : OnlyBefore(s, o, x) <=> \A j \in C : s[j].op \in x
      /\ \A x : OnlyBefore(s, m, x) <=> \A j \in F : s[j].op \in x
      /\ \A x : OnlyBefore(q, i, x) <=> \A j \in B : q[j].op \in x
      /\ \A x : OnlyBefore(q, k + 1, x) <=> \A j \in D : q[j].op \in x
      /\ \A x : Earlier(s, o, x) <=> \E j \in C : s[j].op \in x
      /\ \A x : Earlier(s, m, x) <=> \E j \in F : s[j].op \in x
      /\ \A x : Earlier(q, i, x) <=> \E j \in B : q[j].op \in x
      /\ \A x : Earlier(q, k + 1, x) <=> \E j \in D : q[j].op \in x
  BY <1>7 DEF OnlyBefore, Earlier
<1>10. /\ \A r : Released(s, o, r) <=> \E j \in C : s[j].op = "unlockRecords" \/ (s[j].op = "unlockRecord" /\ s[j].rec = r)
       /\ \A r : Released(s, m, r) <=> \E j \in F : s[j].op = "unlockRecords" \/ (s[j].op = "unlockRecord" /\ s[j].rec = r)
       /\ \A r : Released(q, i, r) <=> \E j \in B : q[j].op = "unlockRecords" \/ (q[j].op = "unlockRecord" /\ q[j].rec = r)
       /\ \A r : Released(q, k + 1, r) <=> \E j \in D : q[j].op = "unlockRecords" \/ (q[j].op = "unlockRecord" /\ q[j].rec = r)
       /\ \A r : NotUnlocked(s, o, r) <=> \A j \in C : s[j].op = "unlockRecord" => s[j].rec # r
       /\ \A r : NotUnlocked(q, i, r) <=> \A j \in B : q[j].op = "unlockRecord" => q[j].rec # r
       /\ \A r : NotUnlocked(q, k + 1, r) <=> \A j \in D : q[j].op = "unlockRecord" => q[j].rec # r
       /\ Cleaned(s, o) <=> \E j \in C : s[j].op = "goCold" /\ ~s[j].try
       /\ Cleaned(s, m) <=> \E j \in F : s[j].op = "goCold" /\ ~s[j].try
       /\ Cleaned(q, i) <=> \E j \in B : q[j].op = "goCold" /\ ~q[j].try
       /\ Cleaned(q, k + 1) <=> \E j \in D : q[j].op = "goCold" /\ ~q[j].try
  BY <1>7 DEF Released, NotUnlocked, Cleaned
<1> HIDE DEF B, C, D, F, new, old, f, g
<1>11. \A x : /\ OnlyBefore(s, o, x) /\ OnlyBefore(q, k + 1, x) => OnlyBefore(q, i, x)
              /\ OnlyBefore(s, o, x) => OnlyBefore(s, m, x)
  BY <1>8, <1>9
<1>12. \A x : /\ Earlier(s, o, x) => Earlier(q, i, x) \/ Earlier(s, m, x)
              /\ Earlier(q, k + 1, x) => Earlier(q, i, x)
              /\ Earlier(q, i, x) => Earlier(q, k + 1, x) \/ Earlier(s, o, x)
  BY <1>8, <1>9
<1>13. \A r : /\ Released(s, o, r) => Released(q, i, r) \/ Released(s, m, r)
              /\ Released(q, k + 1, r) => Released(q, i, r)
  BY <1>8, <1>10
<1>14. \A r : NotUnlocked(s, o, r) /\ NotUnlocked(q, k + 1, r) => NotUnlocked(q, i, r)
  BY <1>8, <1>10
<1>15. /\ Cleaned(s, o) => Cleaned(q, i) \/ Cleaned(s, m)
       /\ Cleaned(q, k + 1) => Cleaned(q, i)
  BY <1>8, <1>10
<1> QED BY <1>2, <1>11, <1>12, <1>13, <1>14, <1>15 DEF Before

\* What comes after a step, and between two steps.
After(s, q, k, m, i, o) ==
    /\ i = Len(q) <=> o = Len(s)
    /\ i < Len(q) => o < Len(s) /\ q[i + 1] = s[o + 1]
    /\ o < Len(s) => i < Len(q)
    /\ i > k + 1 => o > m /\ q[i - 1] = s[o - 1]
    /\ \A j \in i + 1 .. Len(q) : \E l \in o + 1 .. Len(s) : q[j] = s[l]
    /\ Unlocks(s, o) => Unlocks(q, i)
    /\ Unlocks(s, o + 1) => Unlocks(q, i + 1)
    /\ Kept(s, m - 1, o) => Kept(q, k, i)
    /\ HeldFrom(s, o) => HeldFrom(q, i) \/ (HeldFrom(s, m) /\ Kept(q, k, i))
    /\ \A h \in 0 .. k : Kept(q, h, k + 1) /\ Kept(q, k, i) => Kept(q, h, i)
    /\ Kept(s, 0, o) => Kept(s, m - 1, o) /\ Kept(s, 0, m)

\* It stays as it is.
LEMMA AfterSplice ==
    ASSUME NEW s \in Seq(Steps), NEW q \in Seq(Steps), NEW k, NEW m, NEW i, NEW o,
           Spliced(s, q, k, m), Same(s, q, k, m, i, o)
    PROVE  After(s, q, k, m, i, o)
<1>1. /\ Len(s) \in Nat /\ Len(q) \in Nat /\ k \in Nat /\ m \in 1 .. Len(s) + 1
      /\ DOMAIN s = 1 .. Len(s) /\ DOMAIN q = 1 .. Len(q)
      /\ i \in k + 1 .. Len(q) /\ o = i - k + m - 1 /\ Len(q) = k + Len(s) - m + 1
      /\ \A j \in k + 1 .. Len(q) : q[j] = s[j - k + m - 1]
  BY SMTT(20) DEF Spliced, Same
<1>2. o \in m .. Len(s)
  BY <1>1
<1>3. \A l \in m .. Len(s) : l - m + 1 + k \in k + 1 .. Len(q) /\ q[l - m + 1 + k] = s[l]
  <2> TAKE l \in m .. Len(s)
  <2>1. l - m + 1 + k \in k + 1 .. Len(q)
    BY <1>1
  <2>2. (l - m + 1 + k) - k + m - 1 = l
    BY <1>1
  <2> QED BY <1>1, <2>1, <2>2
<1>4. /\ i = Len(q) <=> o = Len(s)
      /\ i < Len(q) => o < Len(s) /\ q[i + 1] = s[o + 1]
      /\ o < Len(s) => i < Len(q)
      /\ i > k + 1 => o > m /\ q[i - 1] = s[o - 1]
  <2>1. /\ i = Len(q) <=> o = Len(s)
        /\ i < Len(q) => o < Len(s) /\ i + 1 \in k + 1 .. Len(q) /\ (i + 1) - k + m - 1 = o + 1
        /\ o < Len(s) => i < Len(q)
        /\ i > k + 1 => o > m /\ i - 1 \in k + 1 .. Len(q) /\ (i - 1) - k + m - 1 = o - 1
    BY <1>1
  <2>2. i < Len(q) => q[i + 1] = s[o + 1]
    BY <1>1, <2>1
  <2>3. i > k + 1 => q[i - 1] = s[o - 1]
    BY <1>1, <2>1
  <2> QED BY <2>1, <2>2, <2>3
<1>5. \A j \in i + 1 .. Len(q) : \E l \in o + 1 .. Len(s) : q[j] = s[l]
  <2> TAKE j \in i + 1 .. Len(q)
  <2>1. j - k + m - 1 \in o + 1 .. Len(s) /\ j \in k + 1 .. Len(q)
    BY <1>1
  <2> QED BY <1>1, <2>1
<1>6. ASSUME NEW d \in {0, 1}, Unlocks(s, o + d)
      PROVE  Unlocks(q, i + d)
  <2>1. PICK l \in o + d .. Len(s) :
            s[l].op = "headUnlock" /\ \A j \in o + d .. l : s[j].op # "headLock"
    BY <1>6 DEF Unlocks
  <2> DEFINE h == l - m + 1 + k
  <2>2. h \in i + d .. Len(q) /\ l \in m .. Len(s) /\ l \in Int
    BY <1>1, <1>2
  <2>3. q[h] = s[l]
    BY <1>3, <2>2
  <2>4. \A j \in i + d .. h : q[j].op # "headLock"
    <3> TAKE j \in i + d .. h
    <3>1. j - k + m - 1 \in o + d .. l /\ j \in k + 1 .. Len(q)
      BY <1>1, <2>2
    <3> QED BY <1>1, <2>1, <3>1
  <2> HIDE DEF h
  <2> QED BY <2>1, <2>2, <2>3, <2>4 DEF Unlocks
<1>7. Unlocks(s, o) => Unlocks(q, i)
  <2>1. o + 0 = o /\ i + 0 = i
    BY <1>1, <1>2
  <2> QED BY <1>6, <2>1
<1>8. Unlocks(s, o + 1) => Unlocks(q, i + 1)
  BY <1>6
<1>9. ASSUME NEW l \in m - 1 .. o - 1, Kept(s, l, o)
      PROVE  Kept(q, l - m + 1 + k, i)
  <2> SUFFICES ASSUME NEW j \in (l - m + 1 + k) + 1 .. i - 1
               PROVE  q[j].op # "headUnlock"
    BY DEF Kept
  <2>1. j - k + m - 1 \in l + 1 .. o - 1 /\ j \in k + 1 .. Len(q)
    BY <1>1, <1>2, <1>9
  <2> QED BY <1>1, <1>9, <2>1 DEF Kept
<1>10. Kept(s, m - 1, o) => Kept(q, k, i)
  <2>1. m - 1 \in m - 1 .. o - 1 /\ (m - 1) - m + 1 + k = k
    BY <1>1, <1>2
  <2> QED BY <1>9, <2>1
<1>11. \A h \in 0 .. k : Kept(q, h, k + 1) /\ Kept(q, k, i) => Kept(q, h, i)
  BY <1>1 DEF Kept
<1>12. Kept(s, 0, o) => Kept(s, m - 1, o) /\ Kept(s, 0, m)
  BY <1>1, <1>2 DEF Kept
<1>13. ASSUME HeldFrom(s, o)
       PROVE  HeldFrom(q, i) \/ (HeldFrom(s, m) /\ Kept(q, k, i))
  <2>1. PICK l \in 1 .. o - 1 : s[l].op = "headLock" /\ Kept(s, l, o)
    BY <1>13 DEF HeldFrom
  <2>2. CASE l >= m
    <3>1. l \in m .. Len(s) /\ l \in m - 1 .. o - 1 /\ l - m + 1 + k \in 1 .. i - 1
      BY <1>1, <1>2, <2>2
    <3>2. q[l - m + 1 + k] = s[l] /\ Kept(q, l - m + 1 + k, i)
      BY <1>3, <1>9, <2>1, <3>1
    <3> QED BY <2>1, <3>1, <3>2 DEF HeldFrom
  <2>3. CASE l < m
    <3>1. l \in 1 .. m - 1 /\ Kept(s, l, m) /\ Kept(s, m - 1, o)
      BY <1>1, <1>2, <2>1, <2>3 DEF Kept
    <3> QED BY <1>10, <2>1, <3>1 DEF HeldFrom
  <2> QED BY <1>1, <2>2, <2>3
<1> QED BY <1>4, <1>5, <1>7, <1>8, <1>10, <1>11, <1>12, <1>13 DEF After

\* What Go passes over does not affect what the steps tell.
LEMMA PassedFits ==
    ASSUME NEW ar \in AreaStates, NEW s \in Seq(Steps), NEW q \in Seq(Steps), NEW m,
           Fits(ar, s), Passed(ar, s, q, m)
    PROVE  Fits(ar, q) /\ Ready(ar, q)
<1>1. Spliced(s, q, 0, m) /\ Len(s) \in Nat /\ Len(q) \in Nat /\ m \in 1 .. Len(s) + 1
      /\ DOMAIN s = 1 .. Len(s) /\ DOMAIN q = 1 .. Len(q)
  BY DEF Passed, Spliced
<1>2. \A j \in 1 .. m - 1 :
        /\ s[j].op \in {"goCold", "read", "unlockRecords", "unlockFile", "headIf", "headUnlock"}
        /\ s[j].op = "goCold" => ~ar.fRecordChanged
        /\ s[j].op = "read" => ar.fValidBuffer
        /\ s[j].op = "unlockRecords" => ar.pLocksPos = {}
        /\ s[j].op = "unlockFile" => ~ar.fFLocked
        /\ s[j].op = "headIf" => ~ar.fUpdateHeader
        /\ s[j].op = "headUnlock" => ~ar.fHeaderLocked
  BY DEF Passed, NothingToDo
<1>3. /\ \A x : OnlyBefore(q, 1, x) /\ ~Earlier(q, 1, x)
      /\ \A r : NotUnlocked(q, 1, r)
      /\ Kept(q, 0, 1)
  BY DEF OnlyBefore, Earlier, NotUnlocked, Kept
<1>4. /\ ar.fFLocked => ~Earlier(s, m, {"unlockFile", "fileUnlock"})
      /\ ar.fUpdateHeader => ~Earlier(s, m, {"headIf", "headWrite"})
      /\ ar.fRecordChanged => ~Cleaned(s, m)
      /\ \A r \in ar.pLocksPos : ~Released(s, m, r)
      /\ ~HeldFrom(s, m)
  BY <1>2 DEF Earlier, Cleaned, Released, HeldFrom
<1>5. StateFits(ar) /\ (~ar.open => q = <<>>)
  <2>1. s = <<>> => Len(q) = 0
    BY <1>1 DEF Spliced
  <2> QED BY <1>1, <2>1 DEF Fits
<1>6. ar.fHeaderLocked => Unlocks(q, 1)
  <2> SUFFICES ASSUME ar.fHeaderLocked
               PROVE  Unlocks(q, 1)
    OBVIOUS
  <2>1. PICK l \in 1 .. Len(s) : s[l].op = "headUnlock" /\ \A j \in 1 .. l : s[j].op # "headLock"
    BY DEF Fits, Unlocks
  <2>2. l \in m .. Len(s)
    BY <1>1, <1>2, <2>1
  <2>3. Unlocks(s, m) /\ m \in 1 .. Len(s) /\ 1 \in 1 .. Len(q)
    <3>1. \A j \in m .. l : j \in 1 .. l
      BY <1>1, <2>2
    <3>2. Unlocks(s, m)
      BY <2>1, <2>2, <3>1 DEF Unlocks
    <3> QED BY <1>1, <2>2, <3>2 DEF Spliced
  <2>4. Same(s, q, 0, m, 1, m)
    BY <1>1, <2>3 DEF Same
  <2> QED BY <1>1, <2>3, <2>4, AfterSplice DEF After
<1>7. ASSUME NEW i \in DOMAIN q
      PROVE  StepFits(ar, q, i)
  <2> DEFINE o == i + m - 1
  <2>1. Same(s, q, 0, m, i, o)
    BY <1>1 DEF Same
  <2> HIDE DEF o
  <2>2. Before(s, q, 0, m, i, o) /\ After(s, q, 0, m, i, o)
    BY <1>1, <2>1, BeforeSplice, AfterSplice
  <2>3. q[i] = s[o] /\ o \in DOMAIN s /\ StepFits(ar, s, o) /\ 0 + 1 = 1
    BY <2>2 DEF Fits, Before
  <2>4. /\ \A x : OnlyBefore(s, o, x) => OnlyBefore(q, i, x)
        /\ \A r : NotUnlocked(s, o, r) => NotUnlocked(q, i, r)
        /\ Releases(ar, s, o) => Releases(ar, q, i)
        /\ ar.fRecordChanged => (Cleaned(s, o) => Cleaned(q, i))
        /\ HeldAt(ar, s, o) => HeldAt(ar, q, i)
    <3>1. /\ \A x : OnlyBefore(s, o, x) => OnlyBefore(q, i, x)
          /\ \A r : NotUnlocked(s, o, r) => NotUnlocked(q, i, r)
          /\ ar.fRecordChanged => (Cleaned(s, o) => Cleaned(q, i))
      BY <1>3, <1>4, <2>2, <2>3 DEF Before
    <3>2. Releases(ar, s, o) => Releases(ar, q, i)
      BY <1>4, <2>2 DEF Before, Releases
    <3>3. HeldAt(ar, s, o) => HeldAt(ar, q, i)
      BY <1>4, <2>2 DEF After, HeldAt
    <3> QED BY <3>1, <3>2, <3>3
  <2>5. UnlockFits(ar, q, i) /\ LockFits(ar, q, i)
    BY <2>3, <2>4 DEF StepFits, UnlockFits, LockFits
  <2>6. CloseFits(ar, q, i)
    <3>1. /\ ar.fFLocked /\ Earlier(s, o, {"unlockFile", "fileUnlock"}) => Earlier(q, i, {"unlockFile", "fileUnlock"})
          /\ ar.fUpdateHeader /\ Earlier(s, o, {"headIf", "headWrite"}) => Earlier(q, i, {"headIf", "headWrite"})
          /\ o = Len(s) => i = Len(q)
      BY <1>4, <2>2 DEF Before, After
    <3> QED BY <2>3, <2>4, <3>1 DEF StepFits, CloseFits
  <2>7. HeaderFits(ar, q, i)
    <3>1. /\ Unlocks(s, o + 1) => Unlocks(q, i + 1)
          /\ i > 1 => o > 1 /\ q[i - 1] = s[o - 1]
      BY <1>1, <2>1, <2>2, <2>3 DEF After, Same
    <3> QED BY <2>3, <2>4, <3>1 DEF StepFits, HeaderFits
  <2>8. ChangeFits(ar, q, i)
    <3>1. /\ o = Len(s) <=> i = Len(q)
          /\ o < Len(s) => i < Len(q) /\ q[i + 1] = s[o + 1]
          /\ \A j \in i + 1 .. Len(q) : \E l \in o + 1 .. Len(s) : q[j] = s[l]
      BY <2>2 DEF After
    <3>2. s[o].op = "put" => (i = 1 => ar.fValidBuffer)
      <4> SUFFICES ASSUME s[o].op = "put", i = 1
                   PROVE  ar.fValidBuffer
        OBVIOUS
      <4>1. o = m /\ OnlyBefore(s, o, {"read"}) /\ (m = 1 => ar.fValidBuffer)
        BY <1>1, <2>3, <2>1 DEF StepFits, ChangeFits, Same
      <4>2. m > 1 => s[1].op = "read" /\ 1 \in 1 .. m - 1
        BY <1>1, <4>1 DEF OnlyBefore
      <4> QED BY <1>1, <1>2, <4>1, <4>2
    <3>3. s[o].op = "put" => o = Len(s) /\ OnlyBefore(s, o, {"read"})
      BY <2>3 DEF StepFits, ChangeFits
    <3>4. s[o].op \in {"goTo", "goBottom", "append", "blank"} /\ ar.fRecordChanged => Cleaned(s, o)
      BY <2>3 DEF StepFits, ChangeFits
    <3>5. s[o].op = "append" => o < Len(s) /\ s[o + 1].op = "blank"
      BY <2>3 DEF StepFits, ChangeFits
    <3>6. s[o].op = "blank" => \A j \in o + 1 .. Len(s) : s[j].op = "headUnlock"
      BY <2>3 DEF StepFits, ChangeFits
    <3> QED BY <2>3, <2>4, <3>1, <3>2, <3>3, <3>4, <3>5, <3>6 DEF ChangeFits
  <2> QED BY <2>5, <2>6, <2>7, <2>8 DEF StepFits
<1>8. Ready(ar, q)
  BY <1>1 DEF Passed, Ready
<1> QED BY <1>5, <1>6, <1>7, <1>8 DEF Fits

-----------------------------------------------------------------------------
(* What a step x does to the area, and what it puts before the rest.       *)

Effect(ar, x, ar2) ==
    /\ x.op \notin {"fileUnlock", "lockFile"} => ar2.fFLocked = ar.fFLocked
    /\ x.op = "fileUnlock" => ~ar2.fFLocked
    /\ x.op \notin {"unlockRecord", "rawLock"} => ar2.pLocksPos = ar.pLocksPos
    /\ x.op = "unlockRecord" => ar2.pLocksPos = ar.pLocksPos \ {x.rec}
    /\ x.op \notin {"headLock", "headUnlock"} => ar2.fHeaderLocked = ar.fHeaderLocked
    /\ x.op = "headLock" => ar2.fHeaderLocked
    /\ x.op = "headUnlock" => ~ar2.fHeaderLocked
    /\ x.op \notin {"goCold", "put", "blank"} => ar2.fRecordChanged = ar.fRecordChanged
    /\ x.op = "goCold" => (ar2.fRecordChanged => x.try /\ ar.fRecordChanged)
    /\ x.op = "read" => ar2.fValidBuffer
    /\ x.op # "blank" => (ar2.fUpdateHeader => ar.fUpdateHeader)
    /\ x.op = "headWrite" => ~ar2.fUpdateHeader

Expands(x, q, k, ar2) ==
    /\ x.op \notin {"goCold", "headIf", "unlockRecords", "unlockFile", "append", "blank"} => k = 0
    /\ x.op \in {"goCold", "blank", "headIf"} =>
          OnlyBefore(q, k + 1, {"headLock", "headCount", "headWrite", "headUnlock"})
    /\ x.op = "unlockRecords" =>
          /\ OnlyBefore(q, k + 1, UnlockSteps)
          /\ \A r \in ar2.pLocksPos : Released(q, k + 1, r)
    /\ x.op = "unlockFile" => OnlyBefore(q, k + 1, CloseSteps) /\ Earlier(q, k + 1, {"fileUnlock"})
    /\ x.op = "headIf" => Earlier(q, k + 1, {"headWrite"})
    /\ ar2.fHeaderLocked => \A j \in 1 .. k : q[j].op \notin {"headLock", "headUnlock"}

\* The steps after x fit again.
LEMMA RestFits ==
    ASSUME NEW ar \in AreaStates, NEW ar2 \in AreaStates, NEW s \in Seq(Steps), NEW q \in Seq(Steps),
           NEW k, Fits(ar, s), s # <<>>, Spliced(s, q, k, 2),
           Effect(ar, s[1], ar2), Expands(s[1], q, k, ar2), NEW i, NEW o, Same(s, q, k, 2, i, o)
    PROVE  StepFits(ar2, q, i)
<1> DEFINE x == s[1]
<1>1. /\ Len(s) \in Nat /\ Len(q) \in Nat /\ k \in Nat /\ 1 \in 1 .. Len(s)
      /\ DOMAIN s = 1 .. Len(s) /\ DOMAIN q = 1 .. Len(q)
  BY DEF Spliced
<1>2. Before(s, q, k, 2, i, o) /\ After(s, q, k, 2, i, o)
  BY BeforeSplice, AfterSplice
<1>3. q[i] = s[o] /\ o \in DOMAIN s /\ StepFits(ar, s, o) /\ StepFits(ar, s, 1) /\ 1 \in 1 .. o - 1 /\ o \in Int
      /\ i \in Int
  BY <1>1, <1>2 DEF Fits, Before, Same
<1>4. /\ \A y : Earlier(s, 2, y) <=> x.op \in y
      /\ \A r : Released(s, 2, r) <=> x.op = "unlockRecords" \/ (x.op = "unlockRecord" /\ x.rec = r)
      /\ Cleaned(s, 2) <=> x.op = "goCold" /\ ~x.try
      /\ HeldFrom(s, 2) <=> x.op = "headLock"
      /\ \A y : OnlyBefore(s, o, y) => x.op \in y
      /\ Kept(s, 0, o) => x.op # "headUnlock"
  BY <1>3 DEF Earlier, Released, Cleaned, HeldFrom, OnlyBefore, Kept
<1>5. k = 0 => /\ \A y : OnlyBefore(q, k + 1, y)
               /\ \A r : NotUnlocked(q, k + 1, r)
  BY DEF OnlyBefore, NotUnlocked
<1>6. \A y : OnlyBefore(q, k + 1, {"headLock", "headCount", "headWrite", "headUnlock"})
             /\ {"headLock", "headCount", "headWrite", "headUnlock"} \subseteq y => OnlyBefore(q, k + 1, y)
  BY DEF OnlyBefore
<1>7. OnlyBefore(q, k + 1, UnlockSteps) => OnlyBefore(q, k + 1, CloseSteps)
  BY DEF OnlyBefore, CloseSteps
<1>8. x.op \in HeaderSteps \cup {"unlockRecord"} =>
        /\ OnlyBefore(q, k + 1, HeaderSteps)
        /\ OnlyBefore(q, k + 1, HeaderSteps \cup {"unlockRecord"})
        /\ \A r : NotUnlocked(q, k + 1, r)
  <2> SUFFICES ASSUME x.op \in HeaderSteps \cup {"unlockRecord"}, k # 0
               PROVE  /\ OnlyBefore(q, k + 1, HeaderSteps)
                      /\ OnlyBefore(q, k + 1, HeaderSteps \cup {"unlockRecord"})
                      /\ \A r : NotUnlocked(q, k + 1, r)
    BY <1>5
  <2>1. OnlyBefore(q, k + 1, {"headLock", "headCount", "headWrite", "headUnlock"})
    BY DEF Expands, HeaderSteps
  <2>2. /\ OnlyBefore(q, k + 1, HeaderSteps)
        /\ OnlyBefore(q, k + 1, HeaderSteps \cup {"unlockRecord"})
    BY <1>6, <2>1 DEF HeaderSteps
  <2>3. \A r : NotUnlocked(q, k + 1, r)
    BY <2>1 DEF OnlyBefore, NotUnlocked
  <2> QED BY <2>2, <2>3
<1>9. x.op \in UnlockSteps => OnlyBefore(q, k + 1, UnlockSteps)
  BY <1>5, <1>6, <1>8 DEF Expands, UnlockSteps, HeaderSteps
<1>10. x.op \in CloseSteps => OnlyBefore(q, k + 1, CloseSteps)
  <2>1. CASE x.op \in UnlockSteps
    BY <1>7, <1>9, <2>1
  <2>2. CASE x.op \in {"unlockFile", "fileUnlock", "headIf"}
    BY <1>5, <1>6, <2>2 DEF Expands, CloseSteps, UnlockSteps, HeaderSteps
  <2> QED BY <2>1, <2>2 DEF CloseSteps
<1> HIDE DEF x
<1>e. Effect(ar, x, ar2) /\ Expands(x, q, k, ar2)
  BY DEF x
<1>11. /\ OnlyBefore(s, o, HeaderSteps) => OnlyBefore(q, i, HeaderSteps)
       /\ OnlyBefore(s, o, HeaderSteps \cup {"unlockRecord"}) =>
             OnlyBefore(q, i, HeaderSteps \cup {"unlockRecord"})
       /\ OnlyBefore(s, o, UnlockSteps) => OnlyBefore(q, i, UnlockSteps)
       /\ OnlyBefore(s, o, CloseSteps) => OnlyBefore(q, i, CloseSteps)
  <2>1. OnlyBefore(s, o, HeaderSteps) => x.op \in HeaderSteps \cup {"unlockRecord"}
    BY <1>4
  <2> QED BY <1>2, <1>4, <1>8, <1>9, <1>10, <2>1 DEF Before
<1>12. UnlockFits(ar2, q, i)
  <2>1. ASSUME s[o].op = "fileUnlock"
        PROVE  ar2.fFLocked /\ OnlyBefore(q, i, HeaderSteps)
    <3>1. ar.fFLocked /\ OnlyBefore(s, o, HeaderSteps) /\ x.op \in HeaderSteps
      BY <1>3, <1>4, <2>1 DEF StepFits, UnlockFits
    <3> QED BY <1>11, <1>e, <3>1 DEF Effect, HeaderSteps
  <2>2. ASSUME s[o].op = "unlockRecord"
        PROVE  /\ s[o].rec \in ar2.pLocksPos
               /\ OnlyBefore(q, i, HeaderSteps \cup {"unlockRecord"})
               /\ NotUnlocked(q, i, s[o].rec)
    <3>1. /\ s[o].rec \in ar.pLocksPos /\ OnlyBefore(s, o, HeaderSteps \cup {"unlockRecord"})
          /\ NotUnlocked(s, o, s[o].rec) /\ x.op \in HeaderSteps \cup {"unlockRecord"}
      BY <1>3, <1>4, <2>2 DEF StepFits, UnlockFits
    <3>2. x.op = "unlockRecord" => x.rec # s[o].rec
      BY <1>3, <3>1 DEF NotUnlocked, x
    <3>3. s[o].rec \in ar2.pLocksPos
      BY <1>e, <3>1, <3>2 DEF Effect, HeaderSteps
    <3>4. NotUnlocked(q, i, s[o].rec)
      BY <1>2, <1>8, <3>1 DEF Before
    <3> QED BY <1>11, <3>1, <3>3, <3>4
  <2> QED BY <1>3, <2>1, <2>2 DEF UnlockFits
<1>13. x.op \in CloseSteps /\ Releases(ar, s, o) => Releases(ar2, q, i)
  <2> SUFFICES ASSUME x.op \in CloseSteps, Releases(ar, s, o), NEW r \in ar2.pLocksPos
               PROVE  Released(q, i, r)
    BY DEF Releases
  <2>1. r \in ar.pLocksPos /\ (x.op = "unlockRecord" => x.rec # r)
    BY <1>e DEF Effect, CloseSteps, UnlockSteps, HeaderSteps
  <2>2. Released(q, i, r) \/ x.op = "unlockRecords"
    BY <1>2, <1>4, <2>1 DEF Releases, Before
  <2>3. x.op = "unlockRecords" => Released(q, i, r)
    BY <1>2, <1>e DEF Before, Expands
  <2> QED BY <2>2, <2>3
<1>14. LockFits(ar2, q, i)
  <2>1. ASSUME OnlyBefore(s, o, UnlockSteps)
        PROVE  x.op \in UnlockSteps /\ x.op \in CloseSteps /\ ar2.fFLocked = ar.fFLocked
    <3>1. x.op \in UnlockSteps
      BY <1>4, <2>1
    <3> QED BY <1>e, <3>1 DEF Effect, CloseSteps, UnlockSteps, HeaderSteps
  <2> QED BY <1>3, <1>11, <1>13, <2>1 DEF StepFits, LockFits
<1>15. CloseFits(ar2, q, i)
  <2> SUFFICES ASSUME s[o].op \in {"headIf", "close"}
               PROVE  CloseFits(ar2, q, i)
    BY <1>3 DEF CloseFits
  <2>1. /\ OnlyBefore(s, o, CloseSteps) /\ Releases(ar, s, o)
        /\ ar.fFLocked => Earlier(s, o, {"unlockFile", "fileUnlock"})
        /\ s[o].op = "close" =>
              o = Len(s) /\ (ar.fUpdateHeader => Earlier(s, o, {"headIf", "headWrite"}))
    BY <1>3 DEF StepFits, CloseFits
  <2>2. x.op \in CloseSteps
    BY <1>4, <2>1
  <2>3. ar2.fFLocked => ar.fFLocked /\ x.op # "fileUnlock"
    BY <1>e, <2>2 DEF Effect, CloseSteps, UnlockSteps, HeaderSteps
  <2>4. ar2.fUpdateHeader => ar.fUpdateHeader /\ x.op # "headWrite"
    BY <1>e, <2>2 DEF Effect, CloseSteps, UnlockSteps, HeaderSteps
  <2>5. ar2.fFLocked => Earlier(q, i, {"unlockFile", "fileUnlock"})
    <3> SUFFICES ASSUME ar2.fFLocked
                 PROVE  Earlier(q, i, {"unlockFile", "fileUnlock"})
      OBVIOUS
    <3>1. Earlier(q, i, {"unlockFile", "fileUnlock"}) \/ x.op = "unlockFile"
      BY <1>2, <1>4, <2>1, <2>3 DEF Before
    <3>2. x.op = "unlockFile" => Earlier(q, i, {"fileUnlock"})
      BY <1>2, <1>e DEF Before, Expands
    <3>3. Earlier(q, i, {"fileUnlock"}) => Earlier(q, i, {"unlockFile", "fileUnlock"})
      BY DEF Earlier
    <3> QED BY <3>1, <3>2, <3>3
  <2>6. ar2.fUpdateHeader /\ s[o].op = "close" => Earlier(q, i, {"headIf", "headWrite"})
    <3> SUFFICES ASSUME ar2.fUpdateHeader, s[o].op = "close"
                 PROVE  Earlier(q, i, {"headIf", "headWrite"})
      OBVIOUS
    <3>1. Earlier(q, i, {"headIf", "headWrite"}) \/ x.op = "headIf"
      BY <1>2, <1>4, <2>1, <2>4 DEF Before
    <3>2. x.op = "headIf" => Earlier(q, i, {"headWrite"})
      BY <1>2, <1>e DEF Before, Expands
    <3>3. Earlier(q, i, {"headWrite"}) => Earlier(q, i, {"headIf", "headWrite"})
      BY DEF Earlier
    <3> QED BY <3>1, <3>2, <3>3
  <2>7. s[o].op = "close" => i = Len(q)
    BY <1>2, <2>1 DEF After
  <2> QED BY <1>3, <1>11, <1>13, <2>1, <2>2, <2>5, <2>6, <2>7 DEF CloseFits
<1>16. HeldAt(ar, s, o) => HeldAt(ar2, q, i)
  <2>1. ASSUME ar.fHeaderLocked, Kept(s, 0, o)
        PROVE  HeldAt(ar2, q, i)
    <3>1. ar2.fHeaderLocked
      BY <1>4, <1>e, <2>1 DEF Effect
    <3>2. Kept(q, 0, k + 1)
      BY <1>1, <1>e, <3>1 DEF Expands, Kept
    <3>3. Kept(q, k, i)
      <4>1. 2 - 1 = 1
        OBVIOUS
      <4> QED BY <1>2, <2>1, <4>1 DEF After
    <3>4. 0 \in 0 .. k
      BY <1>1
    <3> QED BY <1>2, <3>1, <3>2, <3>3, <3>4 DEF After, HeldAt
  <2>2. ASSUME HeldFrom(s, o)
        PROVE  HeldAt(ar2, q, i)
    <3>1. CASE HeldFrom(q, i)
      BY <3>1 DEF HeldAt
    <3>2. CASE x.op = "headLock" /\ Kept(q, k, i)
      <4>1. k = 0 /\ ar2.fHeaderLocked
        BY <1>e, <3>2 DEF Effect, Expands
      <4> QED BY <3>2, <4>1 DEF HeldAt
    <3> QED BY <1>2, <1>4, <2>2, <3>1, <3>2 DEF After
  <2> QED BY <2>1, <2>2 DEF HeldAt
<1>17. HeaderFits(ar2, q, i)
  <2>1. s[o].op = "headLock" => Unlocks(q, i + 1)
    BY <1>2, <1>3 DEF After, StepFits, HeaderFits
  <2>2. s[o].op \in {"append", "blank", "headCount", "headWrite"} => HeldAt(ar2, q, i)
    BY <1>3, <1>16 DEF StepFits, HeaderFits
  <2>3. ASSUME s[o].op = "headWrite"
        PROVE  OnlyBefore(q, i, {"headLock", "headCount"}) /\ (i > 1 => q[i - 1].op = "headCount")
    <3>1. OnlyBefore(s, o, {"headLock", "headCount"}) /\ (o > 1 => s[o - 1].op = "headCount")
      BY <1>3, <2>3 DEF StepFits, HeaderFits
    <3>2. k = 0
      BY <1>4, <1>e, <3>1 DEF Expands
    <3>3. OnlyBefore(q, i, {"headLock", "headCount"})
      BY <1>2, <1>5, <3>1, <3>2 DEF Before
    <3>4. i > 1 => o > 1 /\ q[i - 1] = s[o - 1]
      BY <1>2, <1>3, <3>2 DEF After
    <3> QED BY <3>1, <3>3, <3>4
  <2> QED BY <1>3, <2>1, <2>2, <2>3 DEF HeaderFits
<1>18. ChangeFits(ar2, q, i)
  <2>1. ASSUME s[o].op = "put"
        PROVE  i = Len(q) /\ OnlyBefore(q, i, {"read"}) /\ (i = 1 => ar2.fValidBuffer)
    <3>1. o = Len(s) /\ OnlyBefore(s, o, {"read"}) /\ x.op = "read"
      BY <1>3, <1>4, <2>1 DEF StepFits, ChangeFits
    <3>2. k = 0 /\ ar2.fValidBuffer
      BY <1>e, <3>1 DEF Expands, Effect
    <3> QED BY <1>2, <1>5, <3>1, <3>2 DEF Before, After
  <2>2. ASSUME s[o].op \in {"goTo", "goBottom", "append", "blank"}, ar2.fRecordChanged
        PROVE  Cleaned(q, i)
    <3>1. ar.fRecordChanged => Cleaned(s, o)
      BY <1>3, <2>2 DEF StepFits, ChangeFits
    <3>2. x.op # "put"
      BY <1>1, <1>3 DEF StepFits, ChangeFits, x
    <3>3. x.op # "blank"
      <4>1. o \in 1 + 1 .. Len(s)
        BY <1>1, <1>3
      <4> QED BY <1>3, <2>2, <4>1 DEF StepFits, ChangeFits, x
    <3>4. ar.fRecordChanged /\ (x.op = "goCold" => x.try)
      BY <1>e, <2>2, <3>2, <3>3 DEF Effect
    <3> QED BY <1>2, <1>4, <3>1, <3>4 DEF Before
  <2>3. s[o].op = "append" => i < Len(q) /\ q[i + 1].op = "blank"
    BY <1>2, <1>3 DEF After, StepFits, ChangeFits
  <2>4. s[o].op = "blank" => \A j \in i + 1 .. Len(q) : q[j].op = "headUnlock"
    <3>1. s[o].op = "blank" => \A j \in o + 1 .. Len(s) : s[j].op = "headUnlock"
      BY <1>3 DEF StepFits, ChangeFits
    <3>2. \A j \in i + 1 .. Len(q) : \E l \in o + 1 .. Len(s) : q[j] = s[l]
      BY <1>2 DEF After
    <3> QED BY <3>1, <3>2
  <2> QED BY <1>3, <2>1, <2>2, <2>3, <2>4 DEF ChangeFits
<1> QED BY <1>12, <1>14, <1>15, <1>17, <1>18 DEF StepFits

\* The area after a step and what is left to do fit.
LEMMA StepKeeps ==
    ASSUME NEW ar \in AreaStates, NEW ar2 \in AreaStates, NEW s \in Seq(Steps), NEW q \in Seq(Steps),
           NEW k, Fits(ar, s), s # <<>>, Spliced(s, q, k, 2),
           Effect(ar, s[1], ar2), Expands(s[1], q, k, ar2),
           StateFits(ar2), ar2.open, \A i \in 1 .. k : StepFits(ar2, q, i)
    PROVE  Fits(ar2, q)
<1>1. /\ Len(s) \in Nat /\ Len(q) \in Nat /\ k \in Nat /\ 1 \in 1 .. Len(s)
      /\ DOMAIN s = 1 .. Len(s) /\ DOMAIN q = 1 .. Len(q) /\ Len(q) = k + Len(s) - 1
  BY DEF Spliced
<1>2. ASSUME NEW i \in DOMAIN q
      PROVE  StepFits(ar2, q, i)
  <2>1. CASE i \in 1 .. k
    BY <2>1
  <2>2. CASE i \notin 1 .. k
    <3>1. Same(s, q, k, 2, i, i - k + 2 - 1)
      BY <1>1, <2>2 DEF Same
    <3> QED BY <3>1, RestFits
  <2> QED BY <2>1, <2>2
<1>3. ASSUME ar2.fHeaderLocked
      PROVE  Unlocks(q, 1)
  <2>1. Unlocks(s, 2)
    <3>1. CASE s[1].op = "headLock"
      <4>1. Unlocks(s, 1 + 1)
        BY <1>1, <3>1 DEF Fits, StepFits, HeaderFits
      <4> QED BY <4>1
    <3>2. CASE s[1].op # "headLock"
      <4>1. ar.fHeaderLocked /\ s[1].op # "headUnlock"
        BY <1>3, <3>2 DEF Effect
      <4>2. PICK l \in 1 .. Len(s) : s[l].op = "headUnlock" /\ \A j \in 1 .. l : s[j].op # "headLock"
        BY <4>1 DEF Fits, Unlocks
      <4>3. l \in 2 .. Len(s) /\ \A j \in 2 .. l : j \in 1 .. l
        BY <1>1, <4>1, <4>2
      <4> QED BY <4>2, <4>3 DEF Unlocks
    <3> QED BY <3>1, <3>2
  <2>2. 2 \in 2 .. Len(s) /\ k + 1 \in k + 1 .. Len(q)
    BY <1>1, <2>1 DEF Unlocks
  <2>3. Same(s, q, k, 2, k + 1, 2)
    BY <1>1, <2>2 DEF Same
  <2>4. Unlocks(q, k + 1)
    BY <2>1, <2>3, AfterSplice DEF After
  <2>5. PICK l \in k + 1 .. Len(q) : q[l].op = "headUnlock" /\ \A j \in k + 1 .. l : q[j].op # "headLock"
    BY <2>4 DEF Unlocks
  <2>6. \A j \in 1 .. k : q[j].op # "headLock"
    BY <1>3 DEF Expands
  <2>7. l \in 1 .. Len(q) /\ \A j \in 1 .. l : j \in 1 .. k \/ j \in k + 1 .. l
    BY <1>1
  <2> QED BY <2>5, <2>6, <2>7 DEF Unlocks
<1> QED BY <1>2, <1>3 DEF Fits

\* A method that is called, or a step that fails: what is left to do is new.
LEMMA NewFits ==
    ASSUME NEW ar \in AreaStates, NEW q \in Seq(Steps),
           StateFits(ar), ar.open, ar.fHeaderLocked => Unlocks(q, 1),
           \A i \in 1 .. Len(q) : StepFits(ar, q, i)
    PROVE  Fits(ar, q)
BY DEF Fits

\* The rest of what an area has to do.
LEMMA RestSplice ==
    ASSUME NEW s \in Seq(Steps), s # <<>>, NEW p \in Seq(Steps)
    PROVE  /\ Tail(s) \in Seq(Steps) /\ p \o Tail(s) \in Seq(Steps)
           /\ Spliced(s, Tail(s), 0, 2) /\ Spliced(s, p \o Tail(s), Len(p), 2)
           /\ \A i \in 1 .. Len(p) : (p \o Tail(s))[i] = p[i]
           /\ Head(s) = s[1] /\ Head(s) \in Steps /\ 1 \in DOMAIN s
<1>1. /\ Len(s) \in Nat \ {0} /\ Len(p) \in Nat
      /\ Tail(s) \in Seq(Steps) /\ Len(Tail(s)) = Len(s) - 1
      /\ \A i \in 1 .. Len(Tail(s)) : Tail(s)[i] = s[i + 1]
      /\ Head(s) = s[1] /\ Head(s) \in Steps /\ 1 \in DOMAIN s
  BY HeadTailProperties
<1>2. /\ p \o Tail(s) \in Seq(Steps) /\ Len(p \o Tail(s)) = Len(p) + Len(s) - 1
      /\ \A i \in 1 .. Len(p) + Len(s) - 1 :
            (p \o Tail(s))[i] = IF i <= Len(p) THEN p[i] ELSE Tail(s)[i - Len(p)]
  BY <1>1, ConcatProperties
<1>3. Spliced(s, Tail(s), 0, 2)
  BY <1>1 DEF Spliced
<1>4. ASSUME NEW i \in Len(p) + 1 .. Len(p \o Tail(s))
      PROVE  (p \o Tail(s))[i] = s[i - Len(p) + 2 - 1]
  <2>1. i - Len(p) \in 1 .. Len(Tail(s)) /\ i \in 1 .. Len(p) + Len(s) - 1 /\ ~(i <= Len(p))
    BY <1>1, <1>2, <1>4
  <2>2. (p \o Tail(s))[i] = Tail(s)[i - Len(p)]
    BY <1>2, <2>1
  <2>3. (i - Len(p)) + 1 = i - Len(p) + 2 - 1
    BY <1>1, <2>1
  <2> QED BY <1>1, <2>1, <2>2, <2>3
<1>5. Spliced(s, p \o Tail(s), Len(p), 2)
  BY <1>1, <1>2, <1>4 DEF Spliced
<1>6. \A i \in 1 .. Len(p) : (p \o Tail(s))[i] = p[i]
  BY <1>1, <1>2
<1> QED BY <1>1, <1>2, <1>3, <1>5, <1>6

-----------------------------------------------------------------------------
(* Where locks are does not change, and what an area has locked follows its *)
(* flags and its list.                                                      *)

\* The variables that are not about locks and steps have their types.
DataOK ==
    /\ load \in Loads
    /\ file \in Seq(Nat) /\ header \in Nat
    /\ ledger \in Seq(Nat) /\ appended \in Nat
    /\ failures \in Nat /\ crashes \in Nat /\ unsafe \in BOOLEAN

\* A load keeps the places of the locks.
LEMMA PlacesKept ==
    ASSUME load' = load
    PROVE  HeadByte' = HeadByte /\ FileBytes' = FileBytes /\ \A r : RecByte(r)' = RecByte(r)
BY DEF HeadByte, FileBytes, RecByte

\* Where locks are.
LEMMA PlaceTypes ==
    ASSUME load \in Loads
    PROVE  HeadByte \in Int /\ FileBytes \in SUBSET Int /\ \A r \in Nat : RecByte(r) \in Int
<1>1. IsLoad(load)
  BY DbfAssumption
<1> QED BY <1>1 DEF IsLoad, HeadByte, FileBytes, RecByte

\* What an area is made of.
LEMMA AreaFields ==
    ASSUME NEW ar \in AreaStates
    PROVE  /\ {ar.ulRecNo, ar.ulRecCount, ar.pRecord, ar.edits} \subseteq Nat
           /\ {ar.open, ar.fValidBuffer, ar.fRecordChanged, ar.fPositioned} \subseteq BOOLEAN
           /\ {ar.fAppend, ar.fUpdateHeader, ar.fFLocked, ar.fHeaderLocked} \subseteq BOOLEAN
           /\ ar.pLocksPos \in SUBSET Nat
BY DEF AreaStates

\* An area stays one when a part of it is changed.
LEMMA AreaExcept ==
    ASSUME NEW ar \in AreaStates, NEW n \in Nat, NEW b \in BOOLEAN, NEW S \in SUBSET Nat
    PROVE  /\ [ar EXCEPT !.open = b] \in AreaStates
           /\ [ar EXCEPT !.ulRecNo = n] \in AreaStates
           /\ [ar EXCEPT !.ulRecCount = n] \in AreaStates
           /\ [ar EXCEPT !.pRecord = n] \in AreaStates
           /\ [ar EXCEPT !.fValidBuffer = b] \in AreaStates
           /\ [ar EXCEPT !.fRecordChanged = b] \in AreaStates
           /\ [ar EXCEPT !.fPositioned = b] \in AreaStates
           /\ [ar EXCEPT !.fAppend = b] \in AreaStates
           /\ [ar EXCEPT !.fUpdateHeader = b] \in AreaStates
           /\ [ar EXCEPT !.fFLocked = b] \in AreaStates
           /\ [ar EXCEPT !.fHeaderLocked = b] \in AreaStates
           /\ [ar EXCEPT !.pLocksPos = S] \in AreaStates
           /\ [ar EXCEPT !.edits = n] \in AreaStates
BY DEF AreaStates

\* An area goes on, and the locks agree with what it has become.
LEMMA GoKeeps ==
    ASSUME NEW a \in Areas, LocksInv, NEW ar2 \in AreaStates, NEW q \in Seq(Steps),
           Go(a, ar2, q), Fits(ar2, q), load' = load, DataOK',
           locked' \in [Areas -> SUBSET Int], LocksAgree', LocksApart',
           Counted(ar2, Len(file')), Len(file) <= Len(file')
    PROVE  LocksInv'
<1>1. TypeOK
  BY DEF LocksInv
<1>2. /\ area'[a] = ar2 /\ \A b \in Areas \ {a} : area'[b] = area[b]
      /\ \E n \in Nat : Passed(ar2, q, todo'[a], n)
      /\ \A b \in Areas \ {a} : todo'[b] = todo[b]
      /\ area' \in [Areas -> AreaStates]
      /\ todo' \in [Areas -> Seq(Steps)]
  BY <1>1, GoProps DEF TypeOK
<1>3. Fits(ar2, todo'[a]) /\ Ready(ar2, todo'[a])
  BY <1>2, PassedFits
<1>4. StepsFit'
  <2>1. \A b \in Areas : Fits(area[b], todo[b]) /\ Ready(area[b], todo[b])
    BY DEF LocksInv, StepsFit
  <2>2. \A b \in Areas : Fits(area'[b], todo'[b]) /\ Ready(area'[b], todo'[b])
    BY <1>2, <1>3, <2>1
  <2> QED BY <2>2 DEF StepsFit
<1>5. TypeOK'
  BY <1>2 DEF TypeOK, DataOK
<1>6. CountsFit'
  <2>1. \A b \in Areas : Counted(area[b], Len(file)) /\ area[b] \in AreaStates
    BY <1>1 DEF LocksInv, CountsFit, TypeOK
  <2>2. Len(file) \in Nat /\ Len(file') \in Nat
    BY <1>1, LenProperties DEF TypeOK, DataOK
  <2>3. ASSUME NEW b \in Areas \ {a}
        PROVE  Counted(area[b], Len(file'))
    <3>1. area[b].ulRecCount \in Nat /\ area[b].ulRecNo \in Nat /\ Counted(area[b], Len(file))
      BY <2>1, AreaFields
    <3> QED BY <2>2, <3>1 DEF Counted
  <2>4. \A b \in Areas : Counted(area'[b], Len(file'))
    BY <1>2, <2>3
  <2> QED BY <2>4 DEF CountsFit
<1> QED BY <1>4, <1>5, <1>6 DEF LocksInv

\* The area takes and gives back nothing.
SameLocks(ar, ar2) ==
    /\ ar2.fHeaderLocked = ar.fHeaderLocked /\ ar2.fFLocked = ar.fFLocked
    /\ ar2.pLocksPos = ar.pLocksPos

\* Then the locks agree as they did.
LEMMA NoLockTaken ==
    ASSUME NEW a \in Areas, LocksInv, NEW ar2 \in AreaStates, NEW q \in Seq(Steps),
           Go(a, ar2, q), load' = load, UNCHANGED locked, SameLocks(area[a], ar2)
    PROVE  locked' \in [Areas -> SUBSET Int] /\ LocksAgree' /\ LocksApart'
<1>1. TypeOK /\ LocksAgree /\ LocksApart
  BY DEF LocksInv
<1>2. area'[a] = ar2 /\ \A b \in Areas \ {a} : area'[b] = area[b]
  BY <1>1, GoProps DEF TypeOK
<1>3. \A b \in Areas : SameLocks(area[b], area'[b])
  BY <1>2 DEF SameLocks
<1>4. HeadByte' = HeadByte /\ FileBytes' = FileBytes /\ \A r : RecByte(r)' = RecByte(r)
  BY PlacesKept
<1>5. LocksAgree'
  <2>1. ASSUME NEW b \in Areas
        PROVE  (locked[b] = BytesOf(area[b]))'
    BY <1>1, <1>3, <1>4 DEF LocksAgree, BytesOf, SameLocks
  <2> QED BY <1>1, <2>1 DEF LocksAgree
<1>6. LocksApart'
  BY <1>1, <1>3, <1>4 DEF LocksApart, Apart, SameLocks
<1> QED BY <1>1, <1>5, <1>6 DEF TypeOK

\* What the area takes was free.
Takes(ar, ar2, S) ==
    \/ /\ S = {HeadByte} /\ ar2.fHeaderLocked
       /\ ar2.fFLocked = ar.fFLocked /\ ar2.pLocksPos = ar.pLocksPos
    \/ /\ S = FileBytes /\ ar2.fFLocked /\ ar.pLocksPos = {}
       /\ ar2.fHeaderLocked = ar.fHeaderLocked /\ ar2.pLocksPos = ar.pLocksPos
    \/ /\ ar2.fHeaderLocked = ar.fHeaderLocked /\ ar2.fFLocked = ar.fFLocked
       /\ \E r \in Nat : S = {RecByte(r)} /\ ar2.pLocksPos = ar.pLocksPos \cup {r}

\* Then the locks agree, and those of the area are apart.
LEMMA LockTaken ==
    ASSUME NEW a \in Areas, LocksInv, NEW ar2 \in AreaStates, NEW q \in Seq(Steps),
           Go(a, ar2, q), load' = load, NEW S, Free(S), Take(a, S), Takes(area[a], ar2, S)
    PROVE  locked' \in [Areas -> SUBSET Int] /\ LocksAgree' /\ LocksApart'
<1>1. TypeOK /\ LocksAgree /\ LocksApart
  BY DEF LocksInv
<1>2. area'[a] = ar2 /\ \A b \in Areas \ {a} : area'[b] = area[b]
  BY <1>1, GoProps DEF TypeOK
<1>3. HeadByte' = HeadByte /\ FileBytes' = FileBytes /\ \A r : RecByte(r)' = RecByte(r)
  BY PlacesKept
<1>4. S \in SUBSET Int
  BY <1>1, PlaceTypes DEF Takes, TypeOK
<1>5. /\ locked' \in [Areas -> SUBSET Int] /\ locked'[a] = locked[a] \cup S
      /\ \A b \in Areas \ {a} : locked'[b] = locked[b]
  BY <1>1, <1>4 DEF TypeOK, Take
<1>6. \A b \in Areas : locked[b] \cap S = {}
  BY DEF Free
<1>7. LocksAgree'
  <2>1. (locked[a] = BytesOf(area[a]))'
    BY <1>1, <1>2, <1>3, <1>5 DEF LocksAgree, BytesOf, Takes
  <2>2. ASSUME NEW b \in Areas \ {a}
        PROVE  (locked[b] = BytesOf(area[b]))'
    BY <1>1, <1>2, <1>3, <1>5 DEF LocksAgree, BytesOf
  <2>3. ASSUME NEW b \in Areas, NEW c \in Areas, b # c
        PROVE  locked'[b] \cap locked'[c] = {}
    BY <1>1, <1>5, <1>6, <2>3 DEF LocksAgree
  <2> QED BY <2>1, <2>2, <2>3 DEF LocksAgree
<1>8. Apart(ar2)'
  <2>1. Apart(area[a]) /\ locked[a] = BytesOf(area[a]) /\ locked[a] \cap S = {}
    BY <1>1, <1>6 DEF LocksApart, LocksAgree
  <2>2. CASE S = {HeadByte} /\ ar2.fHeaderLocked
             /\ ar2.fFLocked = area[a].fFLocked /\ ar2.pLocksPos = area[a].pLocksPos
    BY <1>3, <2>1, <2>2 DEF Apart, BytesOf
  <2>3. CASE S = FileBytes /\ ar2.fFLocked /\ area[a].pLocksPos = {}
             /\ ar2.fHeaderLocked = area[a].fHeaderLocked /\ ar2.pLocksPos = area[a].pLocksPos
    BY <1>3, <2>1, <2>3 DEF Apart, BytesOf
  <2>4. ASSUME NEW r \in Nat, S = {RecByte(r)}, ar2.pLocksPos = area[a].pLocksPos \cup {r},
               ar2.fHeaderLocked = area[a].fHeaderLocked, ar2.fFLocked = area[a].fFLocked
        PROVE  Apart(ar2)'
    BY <1>3, <2>1, <2>4 DEF Apart, BytesOf
  <2> QED BY <2>2, <2>3, <2>4 DEF Takes
<1>9. LocksApart'
  <2>1. ASSUME NEW b \in Areas \ {a}
        PROVE  Apart(area[b])'
    BY <1>1, <1>2, <1>3 DEF LocksApart, Apart
  <2>2. Apart(area[a])'
    BY <1>2, <1>8 DEF Apart
  <2> QED BY <2>1, <2>2 DEF LocksApart
<1> QED BY <1>5, <1>7, <1>9

\* What the area gives back was its own.
Gives(ar, ar2, S) ==
    \/ /\ S = {HeadByte} /\ ar.fHeaderLocked /\ ~ar2.fHeaderLocked
       /\ ar2.fFLocked = ar.fFLocked /\ ar2.pLocksPos = ar.pLocksPos
    \/ /\ S = FileBytes /\ ar.fFLocked /\ ~ar2.fFLocked /\ ar.pLocksPos = {}
       /\ ar2.fHeaderLocked = ar.fHeaderLocked /\ ar2.pLocksPos = {}
    \/ /\ ar2.fHeaderLocked = ar.fHeaderLocked /\ ~ar.fFLocked /\ ~ar2.fFLocked
       /\ \E r \in ar.pLocksPos : S = {RecByte(r)} /\ ar2.pLocksPos = ar.pLocksPos \ {r}

\* Then the other locks of the area, and those of other areas, stay.
LEMMA LockGiven ==
    ASSUME NEW a \in Areas, LocksInv, NEW ar2 \in AreaStates, NEW q \in Seq(Steps),
           Go(a, ar2, q), load' = load, NEW S, GiveBack(S), Gives(area[a], ar2, S)
    PROVE  locked' \in [Areas -> SUBSET Int] /\ LocksAgree' /\ LocksApart'
<1>1. TypeOK /\ LocksAgree /\ LocksApart
  BY DEF LocksInv
<1>2. area'[a] = ar2 /\ \A b \in Areas \ {a} : area'[b] = area[b]
  BY <1>1, GoProps DEF TypeOK
<1>3. HeadByte' = HeadByte /\ FileBytes' = FileBytes /\ \A r : RecByte(r)' = RecByte(r)
  BY PlacesKept
<1>4. Apart(area[a]) /\ locked[a] = BytesOf(area[a])
  BY <1>1 DEF LocksApart, LocksAgree
<1>5. S \subseteq locked[a]
  BY <1>4 DEF Gives, BytesOf
<1>6. \A b \in Areas \ {a} : locked[b] \cap S = {}
  BY <1>1, <1>5 DEF LocksAgree
<1>7. /\ locked' \in [Areas -> SUBSET Int] /\ locked'[a] = locked[a] \ S
      /\ \A b \in Areas \ {a} : locked'[b] = locked[b]
  BY <1>1, <1>6 DEF TypeOK, GiveBack
<1>8. locked[a] \ S = {b \in {HeadByte} : ar2.fHeaderLocked} \cup {b \in FileBytes : ar2.fFLocked}
                      \cup {RecByte(r) : r \in ar2.pLocksPos}
  <2>1. CASE S = {HeadByte} /\ area[a].fHeaderLocked /\ ~ar2.fHeaderLocked
             /\ ar2.fFLocked = area[a].fFLocked /\ ar2.pLocksPos = area[a].pLocksPos
    BY <1>4, <2>1 DEF Apart, BytesOf
  <2>2. CASE S = FileBytes /\ area[a].fFLocked /\ ~ar2.fFLocked /\ area[a].pLocksPos = {}
             /\ ar2.fHeaderLocked = area[a].fHeaderLocked /\ ar2.pLocksPos = {}
    BY <1>4, <2>2 DEF Apart, BytesOf
  <2>3. ASSUME NEW r \in area[a].pLocksPos, S = {RecByte(r)},
               ar2.pLocksPos = area[a].pLocksPos \ {r}, ~area[a].fFLocked, ~ar2.fFLocked,
               ar2.fHeaderLocked = area[a].fHeaderLocked
        PROVE  locked[a] \ S = {b \in {HeadByte} : ar2.fHeaderLocked} \cup {b \in FileBytes : ar2.fFLocked}
                      \cup {RecByte(y) : y \in ar2.pLocksPos}
    BY <1>4, <2>3 DEF Apart, BytesOf
  <2> QED BY <2>1, <2>2, <2>3 DEF Gives
<1>9. LocksAgree'
  <2>1. (locked[a] = BytesOf(area[a]))'
    BY <1>2, <1>3, <1>7, <1>8 DEF BytesOf
  <2>2. ASSUME NEW b \in Areas \ {a}
        PROVE  (locked[b] = BytesOf(area[b]))'
    BY <1>1, <1>2, <1>3, <1>7 DEF LocksAgree, BytesOf
  <2>3. ASSUME NEW b \in Areas, NEW c \in Areas, b # c
        PROVE  locked'[b] \cap locked'[c] = {}
    BY <1>1, <1>7, <2>3 DEF LocksAgree
  <2> QED BY <2>1, <2>2, <2>3 DEF LocksAgree
<1>10. LocksApart'
  <2>1. ASSUME NEW b \in Areas \ {a}
        PROVE  Apart(area[b])'
    BY <1>1, <1>2, <1>3 DEF LocksApart, Apart
  <2>2. Apart(area[a])'
    BY <1>2, <1>3, <1>4 DEF Apart, Gives
  <2> QED BY <2>1, <2>2 DEF LocksApart
<1> QED BY <1>7, <1>9, <1>10

-----------------------------------------------------------------------------
(* Steps that do one thing, and steps that fail.                           *)

\* Steps are steps.
LEMMA StepTypes ==
    ASSUME NEW o \in Ops, NEW r \in Nat
    PROVE  Step(o, r) \in Steps /\ Do(o) \in Steps /\ Try(o) \in Steps
BY DEF Steps, Step, Do, Try

\* The area is open when it has something to do.
LEMMA AtStep ==
    ASSUME NEW a \in Areas, LocksInv, todo[a] # <<>>
    PROVE  /\ TypeOK /\ area[a] \in AreaStates /\ todo[a] \in Seq(Steps)
           /\ Fits(area[a], todo[a]) /\ StateFits(area[a]) /\ area[a].open
           /\ Head(todo[a]) = todo[a][1] /\ Head(todo[a]) \in Steps
           /\ StepFits(area[a], todo[a], 1) /\ ~NothingToDo(area[a], Head(todo[a]))
           /\ Counted(area[a], Len(file)) /\ Len(file) \in Nat /\ file \in Seq(Nat)
<1>1. TypeOK /\ area[a] \in AreaStates /\ todo[a] \in Seq(Steps)
      /\ Fits(area[a], todo[a]) /\ Ready(area[a], todo[a])
  BY DEF LocksInv, TypeOK, StepsFit
<1>2. Head(todo[a]) = todo[a][1] /\ Head(todo[a]) \in Steps /\ 1 \in DOMAIN todo[a]
  BY <1>1, RestSplice
<1>3. Counted(area[a], Len(file)) /\ Len(file) \in Nat /\ file \in Seq(Nat)
  BY <1>1, LenProperties DEF LocksInv, CountsFit, TypeOK
<1> QED BY <1>1, <1>2, <1>3 DEF Fits, Ready

\* A step is done and the rest is to do.
LEMMA DoneFits ==
    ASSUME NEW a \in Areas, LocksInv, todo[a] # <<>>, NEW ar2 \in AreaStates,
           StateFits(ar2), ar2.open, Effect(area[a], Head(todo[a]), ar2),
           Head(todo[a]).op \notin {"headIf", "unlockRecords", "unlockFile"}
    PROVE  Rest(a) \in Seq(Steps) /\ Fits(ar2, Rest(a))
<1> DEFINE s == todo[a]
<1>1. s \in Seq(Steps) /\ area[a] \in AreaStates /\ Fits(area[a], s) /\ Head(s) = s[1]
  BY AtStep
<1>2. Rest(a) \in Seq(Steps) /\ Spliced(s, Rest(a), 0, 2)
  BY <1>1, RestSplice DEF Rest
<1>3. Expands(s[1], Rest(a), 0, ar2)
  BY <1>1 DEF Expands, OnlyBefore
<1> QED BY <1>1, <1>2, <1>3, StepKeeps

\* A step fails: the rest is done, or the header is unlocked if the method has
\* locked it.
LEMMA FailFits ==
    ASSUME NEW a \in Areas, LocksInv, todo[a] # <<>>, NEW ar2 \in AreaStates,
           StateFits(ar2), ar2.open, ar2.fHeaderLocked = area[a].fHeaderLocked,
           Head(todo[a]).try => Effect(area[a], Head(todo[a]), ar2),
           Head(todo[a]).op \notin {"headIf", "unlockRecords", "unlockFile", "headUnlock"},
           NEW q, q = IF Head(todo[a]).try THEN Rest(a) ELSE Abort(Rest(a))
    PROVE  q \in Seq(Steps) /\ Fits(ar2, q)
<1> DEFINE s == todo[a]
<1>1. /\ s \in Seq(Steps) /\ area[a] \in AreaStates /\ Fits(area[a], s) /\ Head(s) = s[1]
      /\ Rest(a) \in Seq(Steps) /\ Len(s) \in Nat \ {0}
      /\ Len(Rest(a)) = Len(s) - 1 /\ \A i \in 1 .. Len(Rest(a)) : Rest(a)[i] = s[i + 1]
  BY AtStep, HeadTailProperties DEF Rest
<1>2. CASE Head(s).try
  BY <1>2, DoneFits
<1>3. CASE ~Head(s).try
  <2>1. Abort(Rest(a)) \in Seq(Steps)
    BY StepTypes DEF Abort, Ops
  <2>2. \A i \in 1 .. Len(Abort(Rest(a))) : i = 1 /\ Abort(Rest(a))[i] = Do("headUnlock")
    BY DEF Abort
  <2>3. \A i \in 1 .. Len(Abort(Rest(a))) : StepFits(ar2, Abort(Rest(a)), i)
    BY <2>2 DEF StepFits, UnlockFits, LockFits, CloseFits, HeaderFits, ChangeFits, Do, Step
  <2>4. ASSUME ar2.fHeaderLocked
        PROVE  Unlocks(Abort(Rest(a)), 1)
    <3>1. PICK l \in 1 .. Len(s) : s[l].op = "headUnlock"
      BY <1>1, <2>4 DEF Fits, Unlocks
    <3>2. l # 1
      BY <1>1, <3>1
    <3>3. l - 1 \in 1 .. Len(Rest(a)) /\ Rest(a)[l - 1].op = "headUnlock"
      BY <1>1, <3>1, <3>2
    <3>4. Abort(Rest(a)) = <<Do("headUnlock")>>
      BY <1>1, <3>3 DEF Abort
    <3> QED BY <3>4 DEF Unlocks, Do, Step
  <2> QED BY <1>3, <2>1, <2>3, <2>4, NewFits
<1> QED BY <1>2, <1>3

-----------------------------------------------------------------------------
(* What a step may do to an area.                                          *)

\* A step of area a that takes no lock.
LEMMA QuietStep ==
    ASSUME NEW a \in Areas, LocksInv, NEW ar2 \in AreaStates, NEW q \in Seq(Steps),
           Go(a, ar2, q), Fits(ar2, q), SameLocks(area[a], ar2),
           UNCHANGED <<load, locked>>, DataOK',
           Counted(ar2, Len(file')), Len(file) <= Len(file')
    PROVE  LocksInv'
BY GoKeeps, NoLockTaken

\* The area goes to a record, as it does when it is opened.
LEMMA PositionedOpen ==
    ASSUME NEW ar \in AreaStates, ar.open, ~ar.fRecordChanged, NEW r \in Nat,
           IsFiniteSet(ar.pLocksPos), ar.fFLocked => ar.pLocksPos = {}, ar.edits = 0, ~ar.fAppend,
           file \in Seq(Nat), Counted(ar, Len(file)),
           NEW ar2, ar2 = Positioned(ar, r)
    PROVE  /\ ar2 \in AreaStates /\ StateFits(ar2) /\ ar2.open /\ SameLocks(ar, ar2)
           /\ ~ar2.fRecordChanged /\ ar2.fUpdateHeader = ar.fUpdateHeader /\ ~ar2.fAppend
           /\ ar2.ulRecCount <= Len(file) /\ Counted(ar2, Len(file))
<1>1. Len(file) \in Nat /\ CalcRecCount = Len(file)
  BY DEF CalcRecCount
<1>2. ar.ulRecCount \in Nat /\ ar.ulRecCount <= Len(file)
  BY <1>1, AreaFields DEF Counted
<1> DEFINE count == IF r > ar.ulRecCount THEN CalcRecCount ELSE ar.ulRecCount
           found == r \in 1 .. count
<1>3. count \in Nat /\ count <= Len(file) /\ found \in BOOLEAN /\ (found => r > 0 /\ r <= count)
  BY <1>1, <1>2
<1>4. ar2 = [ar EXCEPT !.ulRecCount = count,
                       !.ulRecNo = IF found THEN r ELSE count + 1,
                       !.fPositioned = found,
                       !.fValidBuffer = ~found,
                       !.pRecord = 0]
  BY DEF Positioned
<1> HIDE DEF count, found
<1>6. ar2 \in AreaStates
  <2>1. (IF found THEN r ELSE count + 1) \in Nat /\ (~found) \in BOOLEAN
    BY <1>3
  <2> DEFINE n == IF found THEN r ELSE count + 1
             b == ~found
             a1 == [ar EXCEPT !.ulRecCount = count]
             a2 == [a1 EXCEPT !.ulRecNo = n]
             a3 == [a2 EXCEPT !.fPositioned = found]
             a4 == [a3 EXCEPT !.fValidBuffer = b]
             a5 == [a4 EXCEPT !.pRecord = 0]
  <2>2. ar2 = a5
    BY <1>4
  <2>3. n \in Nat /\ b \in BOOLEAN
    BY <2>1
  <2> HIDE DEF n, b
  <2>4. a1 \in AreaStates
    BY <1>3, AreaExcept
  <2> HIDE DEF a1
  <2>5. a2 \in AreaStates
    BY <2>3, <2>4, AreaExcept
  <2> HIDE DEF a2
  <2>6. a3 \in AreaStates
    BY <1>3, <2>5, AreaExcept
  <2> HIDE DEF a3
  <2>7. a4 \in AreaStates
    BY <2>3, <2>6, AreaExcept
  <2> HIDE DEF a4
  <2>8. a5 \in AreaStates
    BY <2>7, AreaExcept
  <2> QED BY <2>2, <2>8
<1>5. /\ ar2.open /\ SameLocks(ar, ar2) /\ ~ar2.fRecordChanged
      /\ ar2.fUpdateHeader = ar.fUpdateHeader /\ ar2.edits = ar.edits /\ ar2.fAppend = ar.fAppend
      /\ ar2.ulRecCount = count /\ ar2.ulRecNo > 0
      /\ ar2.fPositioned = found /\ (found => ar2.ulRecNo = r)
  BY <1>3, <1>4 DEF AreaStates, SameLocks
<1> QED BY <1>3, <1>5, <1>6 DEF StateFits, SameLocks, Counted

\* The area goes to a record.
LEMMA PositionedProps ==
    ASSUME NEW ar \in AreaStates, StateFits(ar), ar.open, ~ar.fRecordChanged, NEW r \in Nat,
           file \in Seq(Nat), Counted(ar, Len(file)),
           NEW ar2, ar2 = Positioned(ar, r)
    PROVE  /\ ar2 \in AreaStates /\ StateFits(ar2) /\ ar2.open /\ SameLocks(ar, ar2)
           /\ ~ar2.fRecordChanged /\ ar2.fUpdateHeader = ar.fUpdateHeader /\ ~ar2.fAppend
           /\ ar2.ulRecCount <= Len(file) /\ Counted(ar2, Len(file))
<1>1. IsFiniteSet(ar.pLocksPos) /\ (ar.fFLocked => ar.pLocksPos = {}) /\ ar.edits = 0 /\ ~ar.fAppend
  BY DEF StateFits
<1> QED BY <1>1, PositionedOpen

\* The area reads its buffer again.
LEMMA RefreshedProps ==
    ASSUME NEW ar \in AreaStates, StateFits(ar), ar.open,
           file \in Seq(Nat), Counted(ar, Len(file)),
           NEW ar2, ar2 = Refreshed(ar)
    PROVE  /\ ar2 \in AreaStates /\ StateFits(ar2) /\ ar2.open /\ SameLocks(ar, ar2)
           /\ ar2.fRecordChanged = ar.fRecordChanged /\ ar2.fUpdateHeader = ar.fUpdateHeader
           /\ ar2.fAppend = ar.fAppend /\ Counted(ar2, Len(file))
<1>1. ar.ulRecNo \in Nat /\ ar.fRecordChanged \in BOOLEAN /\ ar.fPositioned \in BOOLEAN
      /\ (ar.fRecordChanged => ar.fPositioned) /\ (~ar.fRecordChanged => ~ar.fAppend)
  BY DEF AreaStates, StateFits
<1>2. CASE ~ar.fPositioned
  <2>1. ar2 = Positioned(ar, ar.ulRecNo)
    BY <1>2 DEF Refreshed
  <2>2. ~ar.fRecordChanged /\ ~ar.fAppend
    BY <1>1, <1>2
  <2>3. /\ ar2 \in AreaStates /\ StateFits(ar2) /\ ar2.open /\ SameLocks(ar, ar2)
        /\ ~ar2.fRecordChanged /\ ar2.fUpdateHeader = ar.fUpdateHeader /\ ~ar2.fAppend
        /\ Counted(ar2, Len(file))
    BY <1>1, <2>1, <2>2, PositionedProps
  <2> QED BY <1>1, <2>2, <2>3, AreaFields
<1>3. CASE ar.fPositioned /\ ~ar.fRecordChanged
  <2>1. ar2 = [ar EXCEPT !.fValidBuffer = FALSE, !.pRecord = 0]
    BY <1>3 DEF Refreshed
  <2>2. ar2 \in AreaStates
    <3>1. [ar EXCEPT !.fValidBuffer = FALSE] \in AreaStates
      BY AreaExcept
    <3> QED BY ZenonT(30), <2>1, <3>1, AreaExcept
  <2>3. /\ SameLocks(ar, ar2) /\ ar2.open /\ ar2.ulRecNo = ar.ulRecNo /\ ar2.ulRecCount = ar.ulRecCount
        /\ ar2.fRecordChanged = ar.fRecordChanged /\ ar2.fUpdateHeader = ar.fUpdateHeader
        /\ ar2.fAppend = ar.fAppend /\ ar2.edits = ar.edits
    BY <2>1 DEF AreaStates, SameLocks
  <2> QED BY <1>3, <2>2, <2>3 DEF StateFits, SameLocks, Counted
<1>4. CASE ar.fPositioned /\ ar.fRecordChanged
  BY <1>4 DEF Refreshed, SameLocks
<1> QED BY <1>1, <1>2, <1>3, <1>4

-----------------------------------------------------------------------------
(* Each step keeps the locks: first those that take and give back none.    *)

\* The rest of the state stays as it is.
LEMMA DataSame ==
    ASSUME TypeOK, UNCHANGED <<load, file, header, history>>
    PROVE  DataOK' /\ Len(file) <= Len(file')
BY LenProperties DEF TypeOK, DataOK, history

\* A step is done that takes and gives back no lock.
LEMMA QuietDone ==
    ASSUME NEW a \in Areas, LocksInv, todo[a] # <<>>, NEW ar2 \in AreaStates, Done(a, ar2),
           StateFits(ar2), ar2.open, SameLocks(area[a], ar2),
           Effect(area[a], Head(todo[a]), ar2),
           Head(todo[a]).op \notin {"headIf", "unlockRecords", "unlockFile"},
           UNCHANGED <<load, locked>>, DataOK',
           Counted(ar2, Len(file')), Len(file) <= Len(file')
    PROVE  LocksInv'
<1>1. Rest(a) \in Seq(Steps) /\ Fits(ar2, Rest(a))
  BY DoneFits
<1>2. Go(a, ar2, Rest(a))
  BY DEF Done
<1> QED BY <1>1, <1>2, QuietStep

\* HeadCount
LEMMA HeadCountKeeps ==
    ASSUME NEW a \in Areas, LocksInv, HeadCount(a), load' = load
    PROVE  LocksInv'
<1> DEFINE ar == area[a]
           x == Head(todo[a])
           ar2 == [ar EXCEPT !.ulRecCount = CalcRecCount]
<1>1. todo[a] # <<>> /\ x.op = "headCount" /\ Done(a, ar2) /\ UNCHANGED <<load, file, header, locked, history>>
  BY DEF HeadCount, Doing
<1>2. TypeOK /\ ar \in AreaStates /\ StateFits(ar) /\ ar.open /\ Len(file) \in Nat /\ Counted(ar, Len(file))
  BY <1>1, AtStep
<1>3. ar2 \in AreaStates
  BY <1>2, AreaExcept DEF CalcRecCount
<1>4. /\ ar2.open = ar.open /\ ar2.fRecordChanged = ar.fRecordChanged /\ ar2.fPositioned = ar.fPositioned
      /\ ar2.fValidBuffer = ar.fValidBuffer /\ ar2.edits = ar.edits /\ ar2.fAppend = ar.fAppend
      /\ ar2.ulRecNo = ar.ulRecNo /\ SameLocks(ar, ar2) /\ ar2.ulRecCount = Len(file)
      /\ ar2.fUpdateHeader = ar.fUpdateHeader
  BY <1>2 DEF AreaStates, SameLocks, CalcRecCount
<1>5. StateFits(ar2) /\ Effect(ar, x, ar2)
  BY <1>1, <1>2, <1>4 DEF StateFits, Effect, SameLocks
<1>6. DataOK' /\ Len(file) <= Len(file') /\ Counted(ar2, Len(file'))
  BY <1>1, <1>2, <1>4, DataSame DEF Counted
<1> HIDE DEF ar2
<1> QED BY <1>1, <1>2, <1>3, <1>4, <1>5, <1>6, QuietDone

\* HeadWrite
LEMMA HeadWriteKeeps ==
    ASSUME NEW a \in Areas, LocksInv, HeadWrite(a), load' = load
    PROVE  LocksInv'
<1> DEFINE ar == area[a]
           x == Head(todo[a])
           ar2 == [ar EXCEPT !.fUpdateHeader = FALSE]
<1>1. todo[a] # <<>> /\ x.op = "headWrite" /\ UNCHANGED <<load, file, locked, ledger, appended, crashes, unsafe>>
      /\ \/ header' = ar2.ulRecCount /\ Done(a, ar2) /\ UNCHANGED failures
         \/ failures' = failures + 1 /\ Fail(a, ar2) /\ UNCHANGED header
  BY DEF HeadWrite, Doing
<1>2. TypeOK /\ ar \in AreaStates /\ StateFits(ar) /\ ar.open /\ Len(file) \in Nat /\ Counted(ar, Len(file))
  BY <1>1, AtStep
<1>3. ar2 \in AreaStates
  BY <1>2, AreaExcept
<1>4. /\ ar2.open = ar.open /\ ar2.fRecordChanged = ar.fRecordChanged /\ ar2.fPositioned = ar.fPositioned
      /\ ar2.fValidBuffer = ar.fValidBuffer /\ ar2.edits = ar.edits /\ ar2.fAppend = ar.fAppend
      /\ ar2.ulRecNo = ar.ulRecNo /\ SameLocks(ar, ar2) /\ ar2.ulRecCount = ar.ulRecCount
      /\ ar2.fUpdateHeader = FALSE
  BY <1>2 DEF AreaStates, SameLocks
<1>5. StateFits(ar2) /\ Effect(ar, x, ar2)
  BY <1>1, <1>2, <1>4 DEF StateFits, Effect, SameLocks
<1>6. ar2.ulRecCount \in Nat
  BY <1>2, <1>4, AreaFields
<1> HIDE DEF ar2
<1>7. DataOK' /\ Len(file) <= Len(file') /\ Counted(ar2, Len(file'))
  BY <1>1, <1>2, <1>4, <1>6 DEF Counted, DataOK, TypeOK
<1>8. CASE Done(a, ar2)
  BY <1>1, <1>2, <1>3, <1>4, <1>5, <1>7, <1>8, QuietDone
<1>9. CASE Fail(a, ar2)
  <2> DEFINE q == IF x.try THEN Rest(a) ELSE Abort(Rest(a))
  <2>1. Go(a, ar2, q)
    BY <1>9 DEF Fail
  <2>2. ar2.fHeaderLocked = ar.fHeaderLocked
    BY <1>4 DEF SameLocks
  <2>3. q \in Seq(Steps) /\ Fits(ar2, q)
    BY <1>1, <1>2, <1>3, <1>4, <1>5, <2>2, FailFits
  <2> HIDE DEF q
  <2> QED BY <1>1, <1>3, <1>4, <1>7, <2>1, <2>3, QuietStep
<1> QED BY <1>1, <1>8, <1>9

\* GoTo and GoBottom
LEMMA PositionedKeeps ==
    ASSUME NEW a \in Areas, LocksInv, todo[a] # <<>>, Head(todo[a]).op \in {"goTo", "goBottom"},
           NEW ar \in AreaStates, SameLocks(area[a], ar), StateFits(ar), ar.open, Counted(ar, Len(file)),
           ar.fRecordChanged = area[a].fRecordChanged, ar.fUpdateHeader = area[a].fUpdateHeader,
           NEW r \in Nat, Done(a, Positioned(ar, r)),
           UNCHANGED <<load, file, header, locked, history>>
    PROVE  LocksInv'
<1> DEFINE x == Head(todo[a])
           ar2 == Positioned(ar, r)
<1>1. TypeOK /\ area[a] \in AreaStates /\ StateFits(area[a]) /\ StepFits(area[a], todo[a], 1)
      /\ file \in Seq(Nat) /\ todo[a][1] = x
  BY AtStep
<1>2. ~area[a].fRecordChanged
  <2>1. ~Cleaned(todo[a], 1)
    BY DEF Cleaned
  <2> QED BY <1>1, <2>1 DEF StepFits, ChangeFits
<1> HIDE DEF ar2
<1>3. /\ ar2 \in AreaStates /\ StateFits(ar2) /\ ar2.open /\ SameLocks(ar, ar2)
      /\ ~ar2.fRecordChanged /\ ar2.fUpdateHeader = ar.fUpdateHeader /\ Counted(ar2, Len(file))
  BY <1>1, <1>2, PositionedProps DEF ar2
<1>4. Effect(area[a], x, ar2) /\ SameLocks(area[a], ar2)
  <2>1. area[a].fRecordChanged = FALSE /\ ar2.fRecordChanged = FALSE
    BY <1>1, <1>2, <1>3, AreaFields
  <2> QED BY <1>3, <2>1 DEF Effect, SameLocks
<1>5. DataOK' /\ Len(file) <= Len(file') /\ Counted(ar2, Len(file')) /\ Done(a, ar2)
  BY <1>1, <1>3, DataSame DEF ar2
<1> QED BY <1>3, <1>4, <1>5, QuietDone

\* GoTo
LEMMA GoToKeeps ==
    ASSUME NEW a \in Areas, LocksInv, GoTo(a), load' = load
    PROVE  LocksInv'
<1>1. todo[a] # <<>> /\ Head(todo[a]).op = "goTo" /\ Done(a, Positioned(area[a], Rec(a)))
      /\ UNCHANGED <<load, file, header, locked, history>>
  BY DEF GoTo, Doing
<1>2. area[a] \in AreaStates /\ StateFits(area[a]) /\ area[a].open /\ Counted(area[a], Len(file))
      /\ Rec(a) \in Nat /\ SameLocks(area[a], area[a])
  BY <1>1, AtStep DEF Rec, Steps, SameLocks
<1> QED BY <1>1, <1>2, PositionedKeeps

\* GoBottom
LEMMA GoBottomKeeps ==
    ASSUME NEW a \in Areas, LocksInv, GoBottom(a), load' = load
    PROVE  LocksInv'
<1> DEFINE ar == [area[a] EXCEPT !.ulRecCount = CalcRecCount]
<1>1. todo[a] # <<>> /\ Head(todo[a]).op = "goBottom" /\ Done(a, Positioned(ar, CalcRecCount))
      /\ UNCHANGED <<load, file, header, locked, history>>
  BY DEF GoBottom, Doing
<1>2. area[a] \in AreaStates /\ StateFits(area[a]) /\ area[a].open /\ Len(file) \in Nat /\ CalcRecCount = Len(file)
      /\ Counted(area[a], Len(file))
  BY <1>1, AtStep DEF CalcRecCount
<1>3. ar \in AreaStates
  BY <1>2, AreaExcept
<1>4. /\ ar.open /\ ar.fRecordChanged = area[a].fRecordChanged /\ ar.fPositioned = area[a].fPositioned
      /\ ar.fValidBuffer = area[a].fValidBuffer /\ ar.edits = area[a].edits /\ ar.fAppend = area[a].fAppend
      /\ ar.ulRecNo = area[a].ulRecNo /\ SameLocks(area[a], ar) /\ ar.ulRecCount = Len(file)
      /\ ar.fUpdateHeader = area[a].fUpdateHeader
  BY <1>2 DEF AreaStates, SameLocks
<1>5. StateFits(ar) /\ Counted(ar, Len(file))
  BY <1>2, <1>4 DEF StateFits, SameLocks, Counted
<1> HIDE DEF ar
<1> QED BY <1>1, <1>2, <1>3, <1>4, <1>5, PositionedKeeps

\* ReadRecord
LEMMA ReadRecordKeeps ==
    ASSUME NEW a \in Areas, LocksInv, ReadRecord(a), load' = load
    PROVE  LocksInv'
<1> DEFINE ar == area[a]
           x == Head(todo[a])
           count == IF ar.ulRecNo > ar.ulRecCount THEN CalcRecCount ELSE ar.ulRecCount
           c == IF ar.fPositioned THEN count ELSE ar.ulRecCount
           v == IF ar.fPositioned /\ ar.ulRecNo <= count THEN file[ar.ulRecNo] ELSE ar.pRecord
           ar2 == [ar EXCEPT !.fValidBuffer = TRUE, !.ulRecCount = c, !.pRecord = v]
<1>1. /\ TypeOK /\ ar \in AreaStates /\ StateFits(ar) /\ ar.open
      /\ file \in Seq(Nat) /\ Len(file) \in Nat /\ CalcRecCount = Len(file) /\ Counted(ar, Len(file))
      /\ ~NothingToDo(ar, x)
  BY AtStep DEF ReadRecord, Doing, CalcRecCount
<1>2. todo[a] # <<>> /\ x.op = "read" /\ UNCHANGED <<load, file, header, locked, history>>
      /\ Done(a, ar2)
  BY <1>1 DEF ReadRecord, Doing, AreaStates
<1>3. ar.ulRecNo \in Nat /\ ar.ulRecNo > 0 /\ ar.ulRecCount \in Nat /\ ar.pRecord \in Nat
      /\ ~ar.fRecordChanged /\ ~ar.fAppend /\ ar.ulRecCount <= Len(file)
  <2>1. ar.ulRecNo \in Nat /\ ar.ulRecNo > 0 /\ ar.ulRecCount \in Nat /\ ar.pRecord \in Nat
    BY <1>1, AreaFields DEF StateFits
  <2>2. ~ar.fRecordChanged
    BY <1>1, <1>2 DEF NothingToDo, StateFits
  <2> QED BY <1>1, <2>1, <2>2 DEF StateFits, Counted
<1>4. c \in Nat /\ c <= Len(file) /\ v \in Nat
  <2>1. count \in Nat /\ count <= Len(file)
    BY <1>1, <1>3
  <2> HIDE DEF count
  <2>2. ar.ulRecNo <= count => file[ar.ulRecNo] \in Nat
    BY <1>1, <1>3, <2>1
  <2> QED BY <1>3, <2>1, <2>2
<1> HIDE DEF c, v, count
<1>5. ar2 \in AreaStates
  <2> DEFINE a1 == [ar EXCEPT !.fValidBuffer = TRUE]
             a2 == [a1 EXCEPT !.ulRecCount = c]
  <2>1. a1 \in AreaStates
    BY <1>1, AreaExcept
  <2> HIDE DEF a1
  <2>2. a2 \in AreaStates
    BY <1>4, <2>1, AreaExcept
  <2> HIDE DEF a2
  <2>3. [a2 EXCEPT !.pRecord = v] \in AreaStates
    BY <1>4, <2>2, AreaExcept
  <2> QED BY <2>3 DEF a1, a2
<1>6. /\ ar2.open = ar.open /\ ar2.fRecordChanged = ar.fRecordChanged /\ ar2.fPositioned = ar.fPositioned
      /\ ar2.fValidBuffer /\ ar2.edits = ar.edits /\ ar2.fAppend = ar.fAppend
      /\ ar2.ulRecNo = ar.ulRecNo /\ SameLocks(ar, ar2) /\ ar2.ulRecCount = c
      /\ ar2.fUpdateHeader = ar.fUpdateHeader
  BY <1>1 DEF AreaStates, SameLocks
<1> HIDE DEF ar2
<1>7. StateFits(ar2) /\ Effect(ar, x, ar2)
  BY <1>1, <1>2, <1>3, <1>6 DEF StateFits, Effect, SameLocks
<1>8. DataOK' /\ Len(file) <= Len(file') /\ Counted(ar2, Len(file'))
  BY <1>1, <1>2, <1>4, <1>6, DataSame DEF Counted
<1> QED BY <1>1, <1>2, <1>5, <1>6, <1>7, <1>8, QuietDone

\* PutValue
LEMMA PutValueKeeps ==
    ASSUME NEW a \in Areas, LocksInv, PutValue(a), load' = load
    PROVE  LocksInv'
<1> DEFINE ar == area[a]
           x == Head(todo[a])
           put == [ar EXCEPT !.fRecordChanged = TRUE, !.pRecord = ar.pRecord + 1, !.edits = ar.edits + 1]
           ar2 == IF ar.fPositioned /\ MayGoHot(ar) THEN put ELSE ar
<1>1. /\ todo[a] # <<>> /\ x.op = "put" /\ UNCHANGED <<load, file, header, locked, history>>
  BY DEF PutValue, Doing
<1>2. /\ TypeOK /\ ar \in AreaStates /\ StateFits(ar) /\ ar.open /\ StepFits(ar, todo[a], 1) /\ todo[a][1] = x
      /\ file \in Seq(Nat) /\ Len(file) \in Nat /\ Counted(ar, Len(file))
  BY <1>1, AtStep
<1>3. ar.fValidBuffer /\ ar.pRecord \in Nat /\ ar.edits \in Nat
  BY <1>1, <1>2, AreaFields DEF StepFits, ChangeFits
<1>4. Done(a, ar2)
  BY <1>2 DEF PutValue, AreaStates
<1>5. put \in AreaStates
  <2> DEFINE a1 == [ar EXCEPT !.fRecordChanged = TRUE]
             n == ar.pRecord + 1
             m == ar.edits + 1
             a2 == [a1 EXCEPT !.pRecord = n]
  <2>1. a1 \in AreaStates
    BY <1>2, AreaExcept
  <2>2. n \in Nat /\ m \in Nat
    BY <1>3
  <2> HIDE DEF a1, n, m
  <2>3. a2 \in AreaStates
    BY <2>1, <2>2, AreaExcept
  <2> HIDE DEF a2
  <2>4. [a2 EXCEPT !.edits = m] \in AreaStates
    BY <2>2, <2>3, AreaExcept
  <2> QED BY <2>4 DEF a1, a2, n, m
<1>6. /\ put.open = ar.open /\ put.fRecordChanged /\ put.fPositioned = ar.fPositioned
      /\ put.fValidBuffer = ar.fValidBuffer /\ put.fAppend = ar.fAppend
      /\ put.ulRecNo = ar.ulRecNo /\ SameLocks(ar, put) /\ put.ulRecCount = ar.ulRecCount
      /\ put.fUpdateHeader = ar.fUpdateHeader
  BY <1>2 DEF AreaStates, SameLocks
<1> HIDE DEF put
<1>7. ar.fPositioned => StateFits(put)
  BY <1>2, <1>3, <1>6 DEF StateFits, SameLocks
<1>8. Effect(ar, x, put) /\ Effect(ar, x, ar) /\ Counted(put, Len(file)) /\ SameLocks(ar, ar)
  BY <1>1, <1>2, <1>6 DEF Effect, SameLocks, Counted
<1>9. /\ ar2 \in AreaStates /\ StateFits(ar2) /\ ar2.open /\ SameLocks(ar, ar2)
      /\ Effect(ar, x, ar2) /\ Counted(ar2, Len(file))
  BY <1>2, <1>5, <1>6, <1>7, <1>8
<1> HIDE DEF ar2
<1>10. DataOK' /\ Len(file) <= Len(file') /\ Counted(ar2, Len(file'))
  BY <1>1, <1>2, <1>9, DataSame
<1> QED BY <1>1, <1>4, <1>9, <1>10, QuietDone

-----------------------------------------------------------------------------
(* Steps that take and give back locks.                                    *)

\* What an area has and does stays, but for its locks.
SameButLocks(ar, ar2) ==
    /\ ar2.open = ar.open /\ ar2.fRecordChanged = ar.fRecordChanged /\ ar2.fPositioned = ar.fPositioned
    /\ ar2.fValidBuffer = ar.fValidBuffer /\ ar2.edits = ar.edits /\ ar2.fAppend = ar.fAppend
    /\ ar2.ulRecNo = ar.ulRecNo /\ ar2.ulRecCount = ar.ulRecCount
    /\ ar2.fUpdateHeader = ar.fUpdateHeader

\* The flag of the header changes.
LEMMA HeaderFlag ==
    ASSUME NEW ar \in AreaStates, NEW b \in BOOLEAN, NEW ar2, ar2 = [ar EXCEPT !.fHeaderLocked = b]
    PROVE  /\ ar2 \in AreaStates /\ SameButLocks(ar, ar2) /\ ar2.fHeaderLocked = b
           /\ ar2.fFLocked = ar.fFLocked /\ ar2.pLocksPos = ar.pLocksPos
<1>1. [ar EXCEPT !.fHeaderLocked = b] \in AreaStates
  BY AreaExcept
<1> QED BY <1>1 DEF AreaStates, SameButLocks

\* The flag of the file changes.
LEMMA FileFlag ==
    ASSUME NEW ar \in AreaStates, NEW b \in BOOLEAN, NEW ar2, ar2 = [ar EXCEPT !.fFLocked = b]
    PROVE  /\ ar2 \in AreaStates /\ SameButLocks(ar, ar2) /\ ar2.fFLocked = b
           /\ ar2.fHeaderLocked = ar.fHeaderLocked /\ ar2.pLocksPos = ar.pLocksPos
<1>1. [ar EXCEPT !.fFLocked = b] \in AreaStates
  BY AreaExcept
<1> QED BY <1>1 DEF AreaStates, SameButLocks

\* The list of records changes.
LEMMA LocksPos ==
    ASSUME NEW ar \in AreaStates, NEW S \in SUBSET Nat, NEW ar2, ar2 = [ar EXCEPT !.pLocksPos = S]
    PROVE  /\ ar2 \in AreaStates /\ SameButLocks(ar, ar2) /\ ar2.pLocksPos = S
           /\ ar2.fHeaderLocked = ar.fHeaderLocked /\ ar2.fFLocked = ar.fFLocked
<1>1. [ar EXCEPT !.pLocksPos = S] \in AreaStates
  BY AreaExcept
<1> QED BY <1>1 DEF AreaStates, SameButLocks

\* The area counts what it counted.
LEMMA CountedSame ==
    ASSUME NEW ar, NEW ar2, SameButLocks(ar, ar2), NEW n, Counted(ar, n)
    PROVE  Counted(ar2, n)
BY DEF SameButLocks, Counted

\* HeadLock
LEMMA HeadLockKeeps ==
    ASSUME NEW a \in Areas, LocksInv, HeadLock(a), load' = load
    PROVE  LocksInv'
<1> DEFINE ar == area[a]
           x == Head(todo[a])
           ar2 == [ar EXCEPT !.fHeaderLocked = TRUE]
<1>1. todo[a] # <<>> /\ x.op = "headLock" /\ Done(a, ar2) /\ UNCHANGED <<load, file, header, history>>
      /\ Free({HeadByte}) /\ Take(a, {HeadByte})
  BY DEF HeadLock, Doing
<1>2. TypeOK /\ ar \in AreaStates /\ StateFits(ar) /\ ar.open /\ Counted(ar, Len(file))
  BY <1>1, AtStep
<1>3. ar2 \in AreaStates /\ SameButLocks(ar, ar2) /\ ar2.fHeaderLocked
      /\ ar2.fFLocked = ar.fFLocked /\ ar2.pLocksPos = ar.pLocksPos
  <2>1. [ar EXCEPT !.fHeaderLocked = TRUE] \in AreaStates
    BY <1>2, AreaExcept
  <2> QED BY <1>2, <2>1 DEF AreaStates, SameButLocks
<1> HIDE DEF ar2
<1>4. StateFits(ar2) /\ Effect(ar, x, ar2) /\ ar2.open /\ Counted(ar2, Len(file))
  <2>1. StateFits(ar2) /\ ar2.open
    BY <1>2, <1>3 DEF StateFits, SameButLocks
  <2>2. Effect(ar, x, ar2)
    BY <1>1, <1>3 DEF Effect, SameButLocks
  <2> QED BY <1>2, <1>3, <2>1, <2>2, CountedSame
<1>5. Rest(a) \in Seq(Steps) /\ Fits(ar2, Rest(a)) /\ Go(a, ar2, Rest(a))
  BY <1>1, <1>3, <1>4, DoneFits DEF Done
<1>6. Takes(ar, ar2, {HeadByte})
  BY <1>3 DEF Takes
<1>7. locked' \in [Areas -> SUBSET Int] /\ LocksAgree' /\ LocksApart'
  BY <1>1, <1>3, <1>5, <1>6, LockTaken
<1>8. DataOK' /\ Len(file) <= Len(file') /\ Counted(ar2, Len(file'))
  BY <1>1, <1>2, <1>4, DataSame
<1> QED BY <1>1, <1>3, <1>5, <1>7, <1>8, GoKeeps

\* HeadUnlock
LEMMA HeadUnlockKeeps ==
    ASSUME NEW a \in Areas, LocksInv, HeadUnlock(a), load' = load
    PROVE  LocksInv'
<1> DEFINE ar == area[a]
           x == Head(todo[a])
           ar2 == [ar EXCEPT !.fHeaderLocked = FALSE]
<1>1. todo[a] # <<>> /\ x.op = "headUnlock" /\ Done(a, ar2) /\ UNCHANGED <<load, file, header, history>>
      /\ GiveBack({HeadByte})
  BY DEF HeadUnlock, Doing
<1>2. TypeOK /\ ar \in AreaStates /\ StateFits(ar) /\ ar.open /\ Counted(ar, Len(file))
      /\ ar.fHeaderLocked
  BY <1>1, AtStep DEF NothingToDo
<1>3. ar2 \in AreaStates /\ SameButLocks(ar, ar2) /\ ~ar2.fHeaderLocked
      /\ ar2.fFLocked = ar.fFLocked /\ ar2.pLocksPos = ar.pLocksPos
  <2>1. ar2 = [ar EXCEPT !.fHeaderLocked = FALSE] /\ FALSE \in BOOLEAN
    BY <1>2
  <2> HIDE DEF ar2
  <2> QED BY ZenonT(30), <1>2, <2>1, HeaderFlag
<1> HIDE DEF ar2
<1>4. StateFits(ar2) /\ Effect(ar, x, ar2) /\ ar2.open /\ Counted(ar2, Len(file))
  <2>1. StateFits(ar2) /\ ar2.open
    BY <1>2, <1>3 DEF StateFits, SameButLocks
  <2>2. Effect(ar, x, ar2)
    BY <1>1, <1>3 DEF Effect, SameButLocks
  <2> QED BY <1>2, <1>3, <2>1, <2>2, CountedSame
<1>5. Rest(a) \in Seq(Steps) /\ Fits(ar2, Rest(a)) /\ Go(a, ar2, Rest(a))
  BY <1>1, <1>3, <1>4, DoneFits DEF Done
<1>6. Gives(ar, ar2, {HeadByte})
  BY <1>2, <1>3 DEF Gives
<1>7. locked' \in [Areas -> SUBSET Int] /\ LocksAgree' /\ LocksApart'
  BY <1>1, <1>3, <1>5, <1>6, LockGiven
<1>8. DataOK' /\ Len(file) <= Len(file') /\ Counted(ar2, Len(file'))
  BY <1>1, <1>2, <1>4, DataSame
<1> QED BY <1>1, <1>3, <1>5, <1>7, <1>8, GoKeeps

\* UnlockRecord
LEMMA UnlockRecordKeeps ==
    ASSUME NEW a \in Areas, LocksInv, UnlockRecord(a), load' = load
    PROVE  LocksInv'
<1> DEFINE ar == area[a]
           x == Head(todo[a])
           S == ar.pLocksPos \ {x.rec}
           ar2 == [ar EXCEPT !.pLocksPos = S]
<1>1. /\ TypeOK /\ ar \in AreaStates /\ StateFits(ar) /\ ar.open /\ Counted(ar, Len(file))
      /\ StepFits(ar, todo[a], 1) /\ todo[a][1] = x /\ S \in SUBSET Nat
  BY AtStep DEF UnlockRecord, Doing, AreaStates
<1>2. todo[a] # <<>> /\ x.op = "unlockRecord" /\ Done(a, ar2) /\ GiveBack({RecByte(x.rec)})
      /\ UNCHANGED <<load, file, header, ledger, appended, failures, crashes>>
      /\ unsafe' = (unsafe \/ UnsafeUnlock(ar, {x.rec}))
  BY <1>1 DEF UnlockRecord, Doing, Rec, AreaStates
<1>3. x.rec \in ar.pLocksPos
  BY <1>1, <1>2 DEF StepFits, UnlockFits
<1>4. IsFiniteSet(ar.pLocksPos) /\ ar.fFLocked = FALSE
  BY <1>1, <1>3, AreaFields DEF StateFits
<1>5. IsFiniteSet(S)
  BY <1>4, FS_RemoveElement
<1> HIDE DEF S
<1>6. ar2 \in AreaStates /\ SameButLocks(ar, ar2) /\ ar2.fHeaderLocked = ar.fHeaderLocked
      /\ ar2.fFLocked = ar.fFLocked /\ ar2.pLocksPos = S
  <2>1. ar2 = [ar EXCEPT !.pLocksPos = S] /\ S \in SUBSET Nat
    BY <1>1
  <2> HIDE DEF ar2
  <2> QED BY <1>1, <2>1, LocksPos
<1> HIDE DEF ar2
<1>7. StateFits(ar2) /\ Effect(ar, x, ar2) /\ ar2.open /\ Counted(ar2, Len(file))
  <2>1. StateFits(ar2) /\ ar2.open
    BY <1>1, <1>4, <1>5, <1>6 DEF StateFits, SameButLocks
  <2>2. Effect(ar, x, ar2)
    BY <1>2, <1>6 DEF Effect, SameButLocks, S
  <2> QED BY <1>1, <1>6, <2>1, <2>2, CountedSame
<1>8. Rest(a) \in Seq(Steps) /\ Fits(ar2, Rest(a)) /\ Go(a, ar2, Rest(a))
  BY <1>2, <1>6, <1>7, DoneFits DEF Done
<1>9. Gives(ar, ar2, {RecByte(x.rec)})
  BY <1>3, <1>4, <1>6 DEF Gives, S
<1>10. locked' \in [Areas -> SUBSET Int] /\ LocksAgree' /\ LocksApart'
  BY <1>2, <1>6, <1>8, <1>9, LockGiven
<1>11. DataOK' /\ Len(file) <= Len(file') /\ Counted(ar2, Len(file'))
  BY <1>1, <1>2, <1>7, LenProperties DEF DataOK, TypeOK
<1> QED BY <1>2, <1>6, <1>8, <1>10, <1>11, GoKeeps

\* FileUnlock
LEMMA FileUnlockKeeps ==
    ASSUME NEW a \in Areas, LocksInv, FileUnlock(a), load' = load
    PROVE  LocksInv'
<1> DEFINE ar == area[a]
           x == Head(todo[a])
           ar2 == [ar EXCEPT !.fFLocked = FALSE]
<1>1. todo[a] # <<>> /\ x.op = "fileUnlock" /\ Done(a, ar2) /\ GiveBack(FileBytes)
      /\ UNCHANGED <<load, file, header, ledger, appended, failures, crashes>>
      /\ unsafe' = (unsafe \/ UnsafeUnlock(ar, {ar.ulRecNo}))
  BY DEF FileUnlock, Doing
<1>2. /\ TypeOK /\ ar \in AreaStates /\ StateFits(ar) /\ ar.open /\ Counted(ar, Len(file))
      /\ StepFits(ar, todo[a], 1) /\ todo[a][1] = x
  BY <1>1, AtStep
<1>3. ar.fFLocked /\ ar.pLocksPos = {}
  BY <1>1, <1>2 DEF StepFits, UnlockFits, StateFits
<1>4. ar2 \in AreaStates /\ SameButLocks(ar, ar2) /\ ar2.fHeaderLocked = ar.fHeaderLocked
      /\ ~ar2.fFLocked /\ ar2.pLocksPos = ar.pLocksPos
  <2>1. ar2 = [ar EXCEPT !.fFLocked = FALSE] /\ FALSE \in BOOLEAN
    BY <1>2
  <2> HIDE DEF ar2
  <2> QED BY ZenonT(30), <1>2, <2>1, FileFlag
<1> HIDE DEF ar2
<1>5. StateFits(ar2) /\ Effect(ar, x, ar2) /\ ar2.open /\ Counted(ar2, Len(file))
  <2>1. StateFits(ar2) /\ ar2.open
    BY <1>2, <1>4 DEF StateFits, SameButLocks
  <2>2. Effect(ar, x, ar2)
    BY <1>1, <1>4 DEF Effect, SameButLocks
  <2> QED BY <1>2, <1>4, <2>1, <2>2, CountedSame
<1>6. Rest(a) \in Seq(Steps) /\ Fits(ar2, Rest(a)) /\ Go(a, ar2, Rest(a))
  BY <1>1, <1>4, <1>5, DoneFits DEF Done
<1>7. Gives(ar, ar2, FileBytes)
  BY <1>3, <1>4 DEF Gives
<1>8. locked' \in [Areas -> SUBSET Int] /\ LocksAgree' /\ LocksApart'
  BY <1>1, <1>4, <1>6, <1>7, LockGiven
<1>9. DataOK' /\ Len(file) <= Len(file') /\ Counted(ar2, Len(file'))
  BY <1>1, <1>2, <1>5, LenProperties DEF DataOK, TypeOK
<1> QED BY <1>1, <1>4, <1>6, <1>8, <1>9, GoKeeps

\* LockFile
LEMMA LockFileKeeps ==
    ASSUME NEW a \in Areas, LocksInv, LockFile(a), load' = load
    PROVE  LocksInv'
<1> DEFINE ar == area[a]
           x == Head(todo[a])
           ar1 == [ar EXCEPT !.fFLocked = TRUE]
           ar2 == Refreshed(ar1)
           ar3 == Refreshed(ar)
<1>1. todo[a] # <<>> /\ x.op = "lockFile" /\ UNCHANGED <<load, file, header, history>>
      /\ \/ Free(FileBytes) /\ Take(a, FileBytes) /\ Done(a, ar2)
         \/ Done(a, ar3) /\ UNCHANGED locked
  BY DEF LockFile, Doing
<1>2. /\ TypeOK /\ ar \in AreaStates /\ StateFits(ar) /\ ar.open /\ Counted(ar, Len(file))
      /\ StepFits(ar, todo[a], 1) /\ todo[a][1] = x /\ file \in Seq(Nat)
  BY <1>1, AtStep
<1>3. ar.pLocksPos = {}
  <2>1. Releases(ar, todo[a], 1)
    BY <1>1, <1>2 DEF StepFits, LockFits
  <2> QED BY <2>1 DEF Releases, Released
<1>4. DataOK' /\ Len(file) <= Len(file') /\ file' = file
  BY <1>1, <1>2, DataSame
<1>5. CASE Free(FileBytes) /\ Take(a, FileBytes) /\ Done(a, ar2)
  <2>1. ar1 \in AreaStates /\ SameButLocks(ar, ar1) /\ ar1.fFLocked = TRUE
        /\ ar1.fHeaderLocked = ar.fHeaderLocked /\ ar1.pLocksPos = ar.pLocksPos
    <3>1. [ar EXCEPT !.fFLocked = TRUE] \in AreaStates
      BY <1>2, AreaExcept
    <3> QED BY <1>2, <3>1 DEF AreaStates, SameButLocks
  <2> HIDE DEF ar1
  <2>2. StateFits(ar1) /\ ar1.open /\ Counted(ar1, Len(file))
    <3>1. StateFits(ar1) /\ ar1.open
      BY <1>2, <1>3, <2>1 DEF StateFits, SameButLocks
    <3> QED BY <1>2, <2>1, <3>1, CountedSame
  <2>3. /\ ar2 \in AreaStates /\ StateFits(ar2) /\ ar2.open /\ SameLocks(ar1, ar2)
        /\ ar2.fRecordChanged = ar1.fRecordChanged /\ ar2.fUpdateHeader = ar1.fUpdateHeader
        /\ Counted(ar2, Len(file))
    BY <1>2, <2>1, <2>2, RefreshedProps
  <2> HIDE DEF ar2
  <2>4. Effect(ar, x, ar2)
    BY <1>1, <2>1, <2>3 DEF Effect, SameButLocks, SameLocks
  <2>5. Rest(a) \in Seq(Steps) /\ Fits(ar2, Rest(a)) /\ Go(a, ar2, Rest(a))
    BY <1>1, <1>5, <2>3, <2>4, DoneFits DEF Done
  <2>6. Takes(ar, ar2, FileBytes)
    BY <1>3, <2>1, <2>3 DEF Takes, SameLocks
  <2>7. locked' \in [Areas -> SUBSET Int] /\ LocksAgree' /\ LocksApart'
    BY <1>1, <1>5, <2>3, <2>5, <2>6, LockTaken
  <2> QED BY <1>1, <1>4, <2>3, <2>5, <2>7, GoKeeps
<1>6. CASE Done(a, ar3) /\ UNCHANGED locked
  <2>1. /\ ar3 \in AreaStates /\ StateFits(ar3) /\ ar3.open /\ SameLocks(ar, ar3)
        /\ ar3.fRecordChanged = ar.fRecordChanged /\ ar3.fUpdateHeader = ar.fUpdateHeader
        /\ Counted(ar3, Len(file))
    BY <1>2, RefreshedProps
  <2> HIDE DEF ar3
  <2>2. Effect(ar, x, ar3)
    BY <1>1, <2>1 DEF Effect, SameLocks
  <2> QED BY <1>1, <1>4, <1>6, <2>1, <2>2, QuietDone
<1> QED BY <1>1, <1>5, <1>6

\* RawLock
LEMMA RawLockKeeps ==
    ASSUME NEW a \in Areas, LocksInv, RawLock(a), load' = load
    PROVE  LocksInv'
<1> DEFINE ar == area[a]
           x == Head(todo[a])
           S == ar.pLocksPos \cup {x.rec}
           ar1 == [ar EXCEPT !.pLocksPos = S]
           ar2 == IF x.rec = ar1.ulRecNo THEN Refreshed(ar1) ELSE ar1
<1>1. todo[a] # <<>> /\ x.op = "rawLock" /\ UNCHANGED <<load, file, header, ledger, appended, failures, crashes>>
  BY DEF RawLock, Doing
<1>2. /\ TypeOK /\ ar \in AreaStates /\ StateFits(ar) /\ ar.open /\ Counted(ar, Len(file))
      /\ StepFits(ar, todo[a], 1) /\ todo[a][1] = x /\ file \in Seq(Nat) /\ x.rec \in Nat
      /\ S \in SUBSET Nat
  BY <1>1, AtStep DEF Steps, AreaStates
<1>3. \/ /\ Free({RecByte(x.rec)}) /\ Take(a, {RecByte(x.rec)}) /\ Done(a, ar2)
         /\ unsafe' = (unsafe \/ UnsafeLock(x.rec))
      \/ /\ Fail(a, ar) /\ UNCHANGED <<locked, unsafe>>
  BY <1>2 DEF RawLock, Rec, AreaStates
<1>4. ar.fFLocked = FALSE
  BY <1>1, <1>2, AreaFields DEF StepFits, LockFits
<1>5. DataOK' /\ Len(file) <= Len(file') /\ file' = file
  <2>1. unsafe' \in BOOLEAN
    BY <1>2, <1>3 DEF TypeOK
  <2> QED BY <1>1, <1>2, <2>1, LenProperties DEF DataOK, TypeOK
<1>6. CASE Free({RecByte(x.rec)}) /\ Take(a, {RecByte(x.rec)}) /\ Done(a, ar2)
  <2>1. ar1 \in AreaStates /\ SameButLocks(ar, ar1) /\ ar1.pLocksPos = S
        /\ ar1.fHeaderLocked = ar.fHeaderLocked /\ ar1.fFLocked = ar.fFLocked
    <3> HIDE DEF S
    <3>1. [ar EXCEPT !.pLocksPos = S] \in AreaStates
      BY <1>2, AreaExcept
    <3> QED BY <1>2, <3>1 DEF AreaStates, SameButLocks
  <2> HIDE DEF ar1
  <2>2. StateFits(ar1) /\ ar1.open /\ Counted(ar1, Len(file))
    <3>1. IsFiniteSet(S)
      <4>1. IsFiniteSet(ar.pLocksPos)
        BY <1>2 DEF StateFits
      <4> QED BY <4>1, FS_AddElement
    <3>2. StateFits(ar1) /\ ar1.open
      BY <1>2, <1>4, <2>1, <3>1 DEF StateFits, SameButLocks
    <3> QED BY <1>2, <2>1, <3>2, CountedSame
  <2>3. /\ ar2 \in AreaStates /\ StateFits(ar2) /\ ar2.open /\ SameLocks(ar1, ar2)
        /\ ar2.fRecordChanged = ar1.fRecordChanged /\ ar2.fUpdateHeader = ar1.fUpdateHeader
        /\ Counted(ar2, Len(file))
    <3>1. CASE x.rec = ar1.ulRecNo
      BY <1>2, <2>1, <2>2, <3>1, RefreshedProps
    <3>2. CASE x.rec # ar1.ulRecNo
      BY <2>1, <2>2, <3>2 DEF SameLocks
    <3> QED BY <3>1, <3>2
  <2> HIDE DEF ar2
  <2>4. Effect(ar, x, ar2)
    BY <1>1, <2>1, <2>3 DEF Effect, SameButLocks, SameLocks
  <2>5. Rest(a) \in Seq(Steps) /\ Fits(ar2, Rest(a)) /\ Go(a, ar2, Rest(a))
    BY <1>1, <1>6, <2>3, <2>4, DoneFits DEF Done
  <2>6. Takes(ar, ar2, {RecByte(x.rec)})
    BY <1>2, <2>1, <2>3 DEF Takes, SameLocks
  <2>7. locked' \in [Areas -> SUBSET Int] /\ LocksAgree' /\ LocksApart'
    BY <1>1, <1>6, <2>3, <2>5, <2>6, LockTaken
  <2> QED BY <1>1, <1>5, <2>3, <2>5, <2>7, GoKeeps
<1>7. CASE Fail(a, ar) /\ UNCHANGED locked
  <2> DEFINE q == IF x.try THEN Rest(a) ELSE Abort(Rest(a))
  <2>1. Go(a, ar, q)
    BY <1>7 DEF Fail
  <2>2. Effect(ar, x, ar) /\ SameLocks(ar, ar)
    BY <1>1 DEF Effect, SameLocks
  <2>3. q \in Seq(Steps) /\ Fits(ar, q)
    BY <1>1, <1>2, <2>2, FailFits
  <2> HIDE DEF q
  <2> QED BY <1>1, <1>2, <1>5, <1>7, <2>1, <2>2, <2>3, QuietStep
<1> QED BY <1>3, <1>6, <1>7

-----------------------------------------------------------------------------
(* Steps that put others before the rest.                                  *)

\* What SELF_WRITEDBHEADER() does.
LEMMA HeaderWrite ==
    ASSUME NEW ar, NEW try \in BOOLEAN, ar.fHeaderLocked \in BOOLEAN
    PROVE  LET p == WriteDBHeader(ar, try)
           IN  /\ p \in Seq(Steps)
               /\ ar.fHeaderLocked => Len(p) = 2 /\ p[1].op = "headCount" /\ p[2].op = "headWrite"
               /\ ~ar.fHeaderLocked => /\ Len(p) = 4 /\ p[1].op = "headLock" /\ p[2].op = "headCount"
                                       /\ p[3].op = "headWrite" /\ p[4].op = "headUnlock"
<1> DEFINE w == [Do("headWrite") EXCEPT !.try = try]
           p2 == <<Do("headCount"), w>>
           p1 == <<Do("headLock")>>
           p4 == <<Do("headUnlock")>>
<1>1. /\ Do("headCount") \in Steps /\ Do("headLock") \in Steps /\ Do("headUnlock") \in Steps /\ w \in Steps
      /\ w.op = "headWrite"
  <2>1. Do("headWrite") \in Steps
    BY StepTypes DEF Ops
  <2> QED BY <2>1, StepTypes DEF Ops, Steps, Do, Step
<1>2. Do("headCount").op = "headCount" /\ Do("headLock").op = "headLock" /\ Do("headUnlock").op = "headUnlock"
  BY DEF Do, Step
<1>3. WriteDBHeader(ar, try) = IF ar.fHeaderLocked THEN p2 ELSE p1 \o p2 \o p4
  BY DEF WriteDBHeader
<1> HIDE DEF w
<1>4. p2 \in Seq(Steps) /\ Len(p2) = 2 /\ p2[1].op = "headCount" /\ p2[2].op = "headWrite"
  BY <1>1, <1>2
<1>5. p1 \in Seq(Steps) /\ Len(p1) = 1 /\ p1[1].op = "headLock"
  BY <1>1, <1>2
<1>6. p4 \in Seq(Steps) /\ Len(p4) = 1 /\ p4[1].op = "headUnlock"
  BY <1>1, <1>2
<1> HIDE DEF p1, p2, p4
<1>7. p1 \o p2 \in Seq(Steps) /\ Len(p1 \o p2) = 3
      /\ \A i \in 1 .. 3 : (p1 \o p2)[i] = IF i <= 1 THEN p1[i] ELSE p2[i - 1]
  <2>1. /\ p1 \o p2 \in Seq(Steps) /\ Len(p1 \o p2) = Len(p1) + Len(p2)
        /\ \A i \in 1 .. Len(p1) + Len(p2) : (p1 \o p2)[i] = IF i <= Len(p1) THEN p1[i] ELSE p2[i - Len(p1)]
    BY <1>4, <1>5, ConcatProperties
  <2>2. Len(p1) = 1 /\ Len(p2) = 2 /\ 1 + 2 = 3
    BY <1>4, <1>5
  <2> QED BY <2>1, <2>2
<1>8. (p1 \o p2)[1].op = "headLock" /\ (p1 \o p2)[2].op = "headCount" /\ (p1 \o p2)[3].op = "headWrite"
  <2>1. (p1 \o p2)[1] = p1[1] /\ (p1 \o p2)[2] = p2[1] /\ (p1 \o p2)[3] = p2[2]
    BY <1>7
  <2> QED BY <1>4, <1>5, <2>1
<1> DEFINE p3 == p1 \o p2
<1> HIDE DEF p3
<1>9. p3 \o p4 \in Seq(Steps) /\ Len(p3 \o p4) = 4
      /\ \A i \in 1 .. 4 : (p3 \o p4)[i] = IF i <= 3 THEN p3[i] ELSE p4[i - 3]
  BY SMTT(20), <1>6, <1>7, ConcatProperties DEF p3
<1>10. (p3 \o p4)[1] = p3[1] /\ (p3 \o p4)[2] = p3[2] /\ (p3 \o p4)[3] = p3[3] /\ (p3 \o p4)[4] = p4[1]
  BY <1>9
<1> QED BY <1>3, <1>4, <1>6, <1>8, <1>9, <1>10 DEF p3

\* The steps p fit before the rest of s.
WritesHeader(ar2, s, p, q) ==
    /\ q \in Seq(Steps) /\ Spliced(s, q, Len(p), 2)
    /\ \A i \in 1 .. Len(p) : StepFits(ar2, q, i)
    /\ OnlyBefore(q, Len(p) + 1, {"headLock", "headCount", "headWrite", "headUnlock"})
    /\ Earlier(q, Len(p) + 1, {"headWrite"})
    /\ ar2.fHeaderLocked => \A j \in 1 .. Len(p) : q[j].op \notin {"headLock", "headUnlock"}

\* What it does fits.
LEMMA HeaderWriteFits ==
    ASSUME NEW ar, NEW ar2, NEW try \in BOOLEAN, ar.fHeaderLocked \in BOOLEAN, ar2.fHeaderLocked = ar.fHeaderLocked,
           NEW s \in Seq(Steps), s # <<>>, NEW p, NEW q,
           p = WriteDBHeader(ar, try), q = p \o Tail(s)
    PROVE  WritesHeader(ar2, s, p, q)
<1>1. /\ p \in Seq(Steps)
      /\ ar.fHeaderLocked => Len(p) = 2 /\ p[1].op = "headCount" /\ p[2].op = "headWrite"
      /\ ~ar.fHeaderLocked => /\ Len(p) = 4 /\ p[1].op = "headLock" /\ p[2].op = "headCount"
                              /\ p[3].op = "headWrite" /\ p[4].op = "headUnlock"
  BY HeaderWrite
<1>2. /\ q \in Seq(Steps) /\ Spliced(s, q, Len(p), 2) /\ \A i \in 1 .. Len(p) : q[i] = p[i]
      /\ Len(q) >= Len(p) /\ Len(q) \in Nat
  <2>1. q \in Seq(Steps) /\ Spliced(s, q, Len(p), 2) /\ \A i \in 1 .. Len(p) : q[i] = p[i]
    BY <1>1, RestSplice
  <2>2. Len(q) \in Nat /\ Len(p) \in Nat /\ Len(s) \in Nat /\ Len(q) = Len(p) + Len(s) - 2 + 1 /\ Len(s) # 0
    BY <1>1, <2>1, EmptySeq DEF Spliced
  <2> QED BY <2>1, <2>2
<1>3. CASE ar.fHeaderLocked
  <2>1. Len(p) = 2 /\ q[1].op = "headCount" /\ q[2].op = "headWrite"
    <3>1. Len(p) = 2 /\ 1 \in 1 .. 2 /\ 2 \in 1 .. 2
      BY <1>1, <1>3
    <3> QED BY <1>1, <1>2, <1>3, <3>1
  <2>2. StepFits(ar2, q, 1)
    BY <1>3, <2>1 DEF StepFits, UnlockFits, LockFits, CloseFits, HeaderFits, ChangeFits, HeldAt, Kept
  <2>3. StepFits(ar2, q, 2)
    <3>1. OnlyBefore(q, 2, {"headLock", "headCount"}) /\ q[2 - 1].op = "headCount" /\ Kept(q, 0, 2)
      BY <2>1 DEF OnlyBefore, Kept
    <3> QED BY <1>3, <2>1, <3>1 DEF StepFits, UnlockFits, LockFits, CloseFits, HeaderFits, ChangeFits, HeldAt
  <2> QED BY SMTT(20), <1>2, <2>1, <2>2, <2>3 DEF OnlyBefore, Earlier, WritesHeader
<1>4. CASE ~ar.fHeaderLocked
  <2>1. /\ Len(p) = 4 /\ q[1].op = "headLock" /\ q[2].op = "headCount" /\ q[3].op = "headWrite"
        /\ q[4].op = "headUnlock" /\ Len(q) >= 4
    BY <1>1, <1>2, <1>4
  <2>2. Unlocks(q, 1 + 1)
    <3>1. 4 \in 2 .. Len(q) /\ \A j \in 2 .. 4 : q[j].op # "headLock"
      BY SMTT(20), <1>2, <2>1
    <3>2. Unlocks(q, 2)
      BY <2>1, <3>1 DEF Unlocks
    <3>3. 1 + 1 = 2
      OBVIOUS
    <3> QED BY <3>2, <3>3
  <2>3. StepFits(ar2, q, 1)
    BY <2>1, <2>2 DEF StepFits, UnlockFits, LockFits, CloseFits, HeaderFits, ChangeFits
  <2>4. HeldFrom(q, 2) /\ HeldFrom(q, 3)
    BY <2>1 DEF HeldFrom, Kept
  <2>5. StepFits(ar2, q, 2)
    BY <2>1, <2>4 DEF StepFits, UnlockFits, LockFits, CloseFits, HeaderFits, ChangeFits, HeldAt
  <2>6. StepFits(ar2, q, 3)
    <3>1. OnlyBefore(q, 3, {"headLock", "headCount"}) /\ q[3 - 1].op = "headCount"
      BY <2>1 DEF OnlyBefore
    <3> QED BY <2>1, <2>4, <3>1 DEF StepFits, UnlockFits, LockFits, CloseFits, HeaderFits, ChangeFits, HeldAt
  <2>7. StepFits(ar2, q, 4)
    BY <2>1 DEF StepFits, UnlockFits, LockFits, CloseFits, HeaderFits, ChangeFits
  <2>8. \A i \in 1 .. Len(p) : i = 1 \/ i = 2 \/ i = 3 \/ i = 4
    BY <2>1
  <2>9. /\ OnlyBefore(q, Len(p) + 1, {"headLock", "headCount", "headWrite", "headUnlock"})
        /\ Earlier(q, Len(p) + 1, {"headWrite"})
    BY SMTT(20), <2>1 DEF OnlyBefore, Earlier
  <2>10. \A i \in 1 .. Len(p) : StepFits(ar2, q, i)
    BY <2>3, <2>5, <2>6, <2>7, <2>8
  <2> QED BY <1>2, <1>4, <2>9, <2>10 DEF WritesHeader
<1> QED BY <1>3, <1>4

\* The larger of two numbers.
LEMMA MaxOfTwo ==
    ASSUME NEW m \in Nat, NEW n \in Nat
    PROVE  Max({m, n}) \in {m, n} /\ m <= Max({m, n}) /\ n <= Max({m, n})
<1>1. \E x \in {m, n} : \A y \in {m, n} : x >= y
  OBVIOUS
<1> QED BY <1>1 DEF Max

\* The file and the ledger after a write.
LEMMA WrittenData ==
    ASSUME NEW a \in Areas, NEW ar \in AreaStates, TypeOK, load' = load, WriteRecord(a, ar)
    PROVE  /\ DataOK' /\ Len(file) \in Nat /\ Len(file) <= Len(file') /\ ar.ulRecNo <= Len(file')
           /\ Len(file') \in {Len(file), ar.ulRecNo} /\ Len(ledger') = Len(file')
           /\ \A i \in 1 .. Len(file') :
                /\ file'[i] = IF i = ar.ulRecNo THEN ar.pRecord
                              ELSE IF i <= Len(file) THEN file[i] ELSE 0
                /\ ledger'[i] = (IF i <= Len(ledger) THEN ledger[i] ELSE 0)
                                + (IF i = ar.ulRecNo THEN ar.edits ELSE 0)
           /\ appended' = appended + (IF ar.fAppend THEN 1 ELSE 0)
           /\ unsafe' = (unsafe \/ UnsafeWrite(ar))
<1> DEFINE r == ar.ulRecNo
           size == Max({Len(file), r})
           f == [i \in 1 .. size |-> IF i = r THEN ar.pRecord ELSE IF i <= Len(file) THEN file[i] ELSE 0]
           g == [i \in 1 .. size |-> (IF i <= Len(ledger) THEN ledger[i] ELSE 0)
                                      + (IF i = r THEN ar.edits ELSE 0)]
<1>1. /\ Len(file) \in Nat /\ Len(ledger) \in Nat /\ r \in Nat /\ ar.pRecord \in Nat /\ ar.edits \in Nat
      /\ file \in Seq(Nat) /\ ledger \in Seq(Nat)
  BY AreaFields, LenProperties DEF TypeOK
<1>2. size \in {Len(file), r} /\ Len(file) <= size /\ r <= size
  BY <1>1, MaxOfTwo
<1>3. file' = f /\ ledger' = g /\ appended' = appended + (IF ar.fAppend THEN 1 ELSE 0)
      /\ UNCHANGED <<header, failures, crashes>> /\ unsafe' = (unsafe \/ UnsafeWrite(ar))
  BY DEF WriteRecord
<1> HIDE DEF size
<1>4. size \in Nat
  BY <1>1, <1>2
<1>5. ASSUME NEW i \in 1 .. size
      PROVE  f[i] \in Nat /\ g[i] \in Nat
  <2>1. i <= Len(file) => file[i] \in Nat
    BY <1>1, <1>4, <1>5
  <2>2. i <= Len(ledger) => ledger[i] \in Nat
    BY <1>1, <1>4, <1>5
  <2> QED BY <1>1, <1>5, <2>1, <2>2
<1>6. f \in [1 .. size -> Nat] /\ g \in [1 .. size -> Nat]
  BY <1>5
<1>7. f \in Seq(Nat) /\ Len(f) = size /\ g \in Seq(Nat) /\ Len(g) = size
  <2> HIDE DEF f, g
  <2> QED BY <1>4, <1>6
<1>8. appended' \in Nat /\ unsafe' \in BOOLEAN
  BY <1>3 DEF TypeOK
<1> QED BY <1>1, <1>2, <1>3, <1>4, <1>7, <1>8 DEF DataOK, TypeOK

\* The area after a write.
LEMMA WrittenArea ==
    ASSUME NEW ar \in AreaStates, NEW ar2,
           ar2 = [ar EXCEPT !.fRecordChanged = FALSE, !.fAppend = FALSE, !.edits = 0]
    PROVE  /\ ar2 \in AreaStates /\ SameLocks(ar, ar2) /\ ar2.open = ar.open
           /\ ar2.ulRecNo = ar.ulRecNo /\ ar2.ulRecCount = ar.ulRecCount /\ ar2.pRecord = ar.pRecord
           /\ ar2.fPositioned = ar.fPositioned /\ ar2.fValidBuffer = ar.fValidBuffer
           /\ ar2.fUpdateHeader = ar.fUpdateHeader
           /\ ar2.fRecordChanged = FALSE /\ ar2.fAppend = FALSE /\ ar2.edits = 0
<1>1. ar2 \in AreaStates
  <2> DEFINE a1 == [ar EXCEPT !.fRecordChanged = FALSE]
             a2 == [a1 EXCEPT !.fAppend = FALSE]
  <2>1. a1 \in AreaStates
    BY AreaExcept
  <2> HIDE DEF a1
  <2>2. a2 \in AreaStates
    BY <2>1, AreaExcept
  <2> HIDE DEF a2
  <2>3. [a2 EXCEPT !.edits = 0] \in AreaStates
    BY <2>2, AreaExcept
  <2> QED BY <2>3 DEF a1, a2
<1> QED BY <1>1 DEF AreaStates, SameLocks

\* GOCOLD writes the record, and the header if there is a new one.
LEMMA WriteKeeps ==
    ASSUME NEW a \in Areas, LocksInv, todo[a] # <<>>, NEW ar \in AreaStates, load' = load,
           Head(todo[a]).op \in {"goCold", "blank"}, Head(todo[a]).op = "goCold" => ar = area[a],
           StateFits(ar), ar.open, SameLocks(area[a], ar), Counted(ar, Len(file)), WriteRecord(a, ar)
    PROVE  LocksInv'
<1> DEFINE x == Head(todo[a])
           ar2 == [ar EXCEPT !.fRecordChanged = FALSE, !.fAppend = FALSE, !.edits = 0]
           p == IF ar.fUpdateHeader /\ load.writeMode THEN WriteDBHeader(ar, x.try) ELSE <<>>
           q == p \o Rest(a)
<1>1. /\ TypeOK /\ area[a] \in AreaStates /\ todo[a] \in Seq(Steps) /\ Fits(area[a], todo[a])
      /\ todo[a][1] = x /\ x.try \in BOOLEAN /\ Rest(a) = Tail(todo[a])
  BY AtStep DEF Steps, Rest
<1>2. Go(a, ar2, q) /\ UNCHANGED <<load, locked>>
  BY DEF WriteRecord
<1>3. /\ ar2 \in AreaStates /\ SameLocks(ar, ar2) /\ ar2.open = ar.open
      /\ ar2.ulRecNo = ar.ulRecNo /\ ar2.ulRecCount = ar.ulRecCount
      /\ ar2.fUpdateHeader = ar.fUpdateHeader
      /\ ar2.fRecordChanged = FALSE /\ ar2.fAppend = FALSE /\ ar2.edits = 0
  BY ZenonT(30), WrittenArea
<1> HIDE DEF ar2
<1>4. /\ DataOK' /\ Len(file) \in Nat /\ Len(file) <= Len(file') /\ ar.ulRecNo <= Len(file')
      /\ Len(file') \in Nat
  BY <1>1, WrittenData, LenProperties DEF DataOK
<1>5. Counted(ar2, Len(file'))
  <2>1. ar.ulRecCount \in Nat /\ ar.ulRecNo \in Nat
    BY AreaFields
  <2> QED BY <1>3, <1>4, <2>1 DEF Counted
<1>6. StateFits(ar2) /\ Effect(area[a], x, ar2) /\ SameLocks(area[a], ar2)
  <2>1. StateFits(ar2)
    BY <1>3 DEF StateFits, SameLocks
  <2>2. Effect(area[a], x, ar2)
    BY <1>3 DEF Effect, SameLocks
  <2> QED BY <1>3, <2>1, <2>2 DEF SameLocks
<1>7. q \in Seq(Steps) /\ Fits(ar2, q)
  <2>1. CASE ar.fUpdateHeader /\ load.writeMode
    <3>1. p = WriteDBHeader(ar, x.try)
      BY <2>1
    <3>2. ar2.fHeaderLocked = ar.fHeaderLocked /\ ar.fHeaderLocked \in BOOLEAN
      BY <1>3, AreaFields DEF SameLocks
    <3>6. q = p \o Tail(todo[a])
      BY <1>1
    <3> HIDE DEF p, q
    <3>3. WritesHeader(ar2, todo[a], p, q)
      BY <1>1, <3>1, <3>2, <3>6, HeaderWriteFits
    <3>4. Expands(x, q, Len(p), ar2)
      BY <3>3 DEF Expands, WritesHeader
    <3> QED BY ZenonT(30), <1>1, <1>3, <1>6, <3>3, <3>4, StepKeeps DEF WritesHeader
  <2>2. CASE ~(ar.fUpdateHeader /\ load.writeMode)
    <3>1. q = Rest(a)
      <4>1. Rest(a) \in Seq(Steps) /\ p = <<>>
        BY <1>1, <2>2, RestSplice
      <4> QED BY <4>1, ConcatEmptySeq
    <3>2. x.op \notin {"headIf", "unlockRecords", "unlockFile"} /\ ar2.open
      BY <1>3
    <3> QED BY <1>3, <1>6, <3>1, <3>2, DoneFits
  <2> QED BY <2>1, <2>2
<1> HIDE DEF q
<1> QED BY <1>2, <1>3, <1>4, <1>5, <1>6, <1>7, QuietStep

\* GOCOLD fails.
LEMMA WriteFailsKeeps ==
    ASSUME NEW a \in Areas, LocksInv, todo[a] # <<>>, NEW ar \in AreaStates, load' = load,
           Head(todo[a]).op \in {"goCold", "blank"}, Head(todo[a]).op = "goCold" => ar = area[a],
           StateFits(ar), ar.open, SameLocks(area[a], ar), Counted(ar, Len(file)), WriteFails(a, ar)
    PROVE  LocksInv'
<1> DEFINE x == Head(todo[a])
           q == IF x.try THEN Rest(a) ELSE Abort(Rest(a))
<1>1. TypeOK
  BY AtStep
<1>2. Go(a, ar, q) /\ UNCHANGED <<load, file, header, locked, ledger, appended, crashes, unsafe>>
      /\ failures' = failures + 1
  BY DEF WriteFails, Fail
<1>3. DataOK' /\ Len(file) <= Len(file') /\ Counted(ar, Len(file'))
  BY <1>1, <1>2, LenProperties DEF DataOK, TypeOK
<1>4. x.try => Effect(area[a], x, ar)
  BY DEF Effect, SameLocks
<1>5. q \in Seq(Steps) /\ Fits(ar, q)
  BY <1>4, FailFits DEF SameLocks
<1> HIDE DEF q
<1> QED BY <1>2, <1>3, <1>5, QuietStep

\* GoCold
LEMMA GoColdKeeps ==
    ASSUME NEW a \in Areas, LocksInv, GoCold(a), load' = load
    PROVE  LocksInv'
<1>1. todo[a] # <<>> /\ Head(todo[a]).op = "goCold"
  BY DEF GoCold, Doing
<1>2. area[a] \in AreaStates /\ StateFits(area[a]) /\ area[a].open /\ Counted(area[a], Len(file))
      /\ SameLocks(area[a], area[a])
  BY <1>1, AtStep DEF SameLocks
<1>3. WriteRecord(a, area[a]) \/ WriteFails(a, area[a])
  BY DEF GoCold
<1> QED BY <1>1, <1>2, <1>3, WriteKeeps, WriteFailsKeeps

\* The area of a record that is added.
Blank(ar) ==
    [ar EXCEPT !.pRecord = 0, !.edits = 0, !.fValidBuffer = TRUE,
               !.fUpdateHeader = TRUE, !.fRecordChanged = TRUE,
               !.fAppend = TRUE, !.fPositioned = TRUE,
               !.ulRecCount = ar.ulRecCount + 1, !.ulRecNo = ar.ulRecCount + 1]

\* What it is.
LEMMA BlankProps ==
    ASSUME NEW ar \in AreaStates, NEW ar2, ar2 = Blank(ar)
    PROVE  /\ ar2 \in AreaStates /\ SameLocks(ar, ar2) /\ ar2.open = ar.open
           /\ ar2.pRecord = 0 /\ ar2.edits = 0 /\ ar2.fUpdateHeader = TRUE
           /\ ar2.fRecordChanged = TRUE /\ ar2.fAppend = TRUE
           /\ ar2.fPositioned = TRUE /\ ar2.fValidBuffer = TRUE
           /\ ar2.ulRecCount = ar.ulRecCount + 1 /\ ar2.ulRecNo = ar.ulRecCount + 1
           /\ ar.ulRecCount \in Nat
<1> DEFINE new == ar.ulRecCount + 1
<1>1. ar.ulRecCount \in Nat /\ new \in Nat
  BY AreaFields
<1>2. ar2 = [ar EXCEPT !.pRecord = 0, !.edits = 0, !.fValidBuffer = TRUE,
                       !.fUpdateHeader = TRUE, !.fRecordChanged = TRUE,
                       !.fAppend = TRUE, !.fPositioned = TRUE,
                       !.ulRecCount = new, !.ulRecNo = new]
  BY DEF Blank
<1>3. new = ar.ulRecCount + 1
  OBVIOUS
<1> HIDE DEF new
<1>4. ar2 \in AreaStates
  <2> DEFINE a1 == [ar EXCEPT !.pRecord = 0]
             a2 == [a1 EXCEPT !.edits = 0]
             a3 == [a2 EXCEPT !.fValidBuffer = TRUE]
             a4 == [a3 EXCEPT !.fUpdateHeader = TRUE]
             a5 == [a4 EXCEPT !.fRecordChanged = TRUE]
             a6 == [a5 EXCEPT !.fAppend = TRUE]
             a7 == [a6 EXCEPT !.fPositioned = TRUE]
             a8 == [a7 EXCEPT !.ulRecCount = new]
             a9 == [a8 EXCEPT !.ulRecNo = new]
  <2>0. ar2 = a9
    BY <1>2
  <2>1. a1 \in AreaStates
    BY AreaExcept
  <2> HIDE DEF a1
  <2>2. a2 \in AreaStates
    BY <2>1, AreaExcept
  <2> HIDE DEF a2
  <2>3. a3 \in AreaStates
    BY <2>2, AreaExcept
  <2> HIDE DEF a3
  <2>4. a4 \in AreaStates
    BY <2>3, AreaExcept
  <2> HIDE DEF a4
  <2>5. a5 \in AreaStates
    BY <2>4, AreaExcept
  <2> HIDE DEF a5
  <2>6. a6 \in AreaStates
    BY <2>5, AreaExcept
  <2> HIDE DEF a6
  <2>7. a7 \in AreaStates
    BY <2>6, AreaExcept
  <2> HIDE DEF a7
  <2>8. a8 \in AreaStates
    BY <1>1, <2>7, AreaExcept
  <2> HIDE DEF a8
  <2>9. a9 \in AreaStates
    BY <1>1, <2>8, AreaExcept
  <2> QED BY <2>0, <2>9
<1>5. /\ SameLocks(ar, ar2) /\ ar2.open = ar.open
      /\ ar2.pRecord = 0 /\ ar2.edits = 0 /\ ar2.fUpdateHeader = TRUE
      /\ ar2.fRecordChanged = TRUE /\ ar2.fAppend = TRUE
      /\ ar2.fPositioned = TRUE /\ ar2.fValidBuffer = TRUE /\ ar2.ulRecCount = new /\ ar2.ulRecNo = new
  BY <1>2 DEF AreaStates, SameLocks
<1> QED BY <1>1, <1>3, <1>4, <1>5

\* AppendBlank
LEMMA AppendBlankKeeps ==
    ASSUME NEW a \in Areas, LocksInv, AppendBlank(a), load' = load
    PROVE  LocksInv'
<1> DEFINE ar == Blank(area[a])
<1>1. todo[a] # <<>> /\ Head(todo[a]).op = "blank" /\ (WriteRecord(a, ar) \/ WriteFails(a, ar))
  BY DEF AppendBlank, Doing, Blank
<1>2. area[a] \in AreaStates /\ StateFits(area[a]) /\ area[a].open
  BY <1>1, AtStep
<1>3. ar = Blank(area[a])
  OBVIOUS
<1> HIDE DEF ar
<1>4. /\ ar \in AreaStates /\ SameLocks(area[a], ar) /\ ar.open = area[a].open
      /\ ar.fRecordChanged = TRUE /\ ar.fAppend = TRUE /\ ar.fPositioned = TRUE /\ ar.fValidBuffer = TRUE
      /\ ar.ulRecCount = area[a].ulRecCount + 1 /\ ar.ulRecNo = area[a].ulRecCount + 1
      /\ area[a].ulRecCount \in Nat
  BY <1>2, <1>3, BlankProps
<1>5. StateFits(ar) /\ ar.open /\ Counted(ar, Len(file))
  <2>1. StateFits(ar)
    BY <1>2, <1>4 DEF StateFits, SameLocks
  <2> QED BY <1>2, <1>4, <2>1 DEF Counted
<1> QED BY <1>1, <1>4, <1>5, WriteKeeps, WriteFailsKeeps

\* HeadIf
LEMMA HeadIfKeeps ==
    ASSUME NEW a \in Areas, LocksInv, HeadIf(a), load' = load
    PROVE  LocksInv'
<1> DEFINE ar == area[a]
           x == Head(todo[a])
           p == WriteDBHeader(ar, TRUE)
           q == p \o Tail(todo[a])
<1>1. todo[a] # <<>> /\ x.op = "headIf" /\ Go(a, ar, q) /\ UNCHANGED <<load, file, header, locked, history>>
  BY DEF HeadIf, Doing, Rest
<1>2. /\ TypeOK /\ ar \in AreaStates /\ StateFits(ar) /\ ar.open /\ Counted(ar, Len(file))
      /\ Fits(ar, todo[a]) /\ todo[a] \in Seq(Steps) /\ todo[a][1] = x
  BY <1>1, AtStep
<1>3. WritesHeader(ar, todo[a], p, q)
  <2>1. p = WriteDBHeader(ar, TRUE) /\ q = p \o Tail(todo[a])
    OBVIOUS
  <2>2. TRUE \in BOOLEAN /\ ar.fHeaderLocked \in BOOLEAN
    BY <1>2, AreaFields
  <2> HIDE DEF p, q
  <2> QED BY <1>1, <1>2, <2>1, <2>2, HeaderWriteFits
<1> HIDE DEF p, q
<1>4. Expands(x, q, Len(p), ar) /\ Effect(ar, x, ar) /\ SameLocks(ar, ar)
  BY <1>1, <1>3 DEF Expands, Effect, SameLocks, WritesHeader
<1>5. Fits(ar, q) /\ q \in Seq(Steps)
  BY <1>1, <1>2, <1>3, <1>4, StepKeeps DEF WritesHeader
<1>6. DataOK' /\ Len(file) <= Len(file') /\ file' = file
  BY <1>1, <1>2, DataSame
<1> QED BY <1>1, <1>2, <1>4, <1>5, <1>6, QuietStep

\* What hb_dbfUnlockFile() does.
LEMMA UnlockFileSteps ==
    ASSUME NEW s \in Seq(Steps), s # <<>>, NEW q, q = <<Try("goCold"), Do("fileUnlock")>> \o Tail(s)
    PROVE  /\ q \in Seq(Steps) /\ Spliced(s, q, 2, 2)
           /\ q[1].op = "goCold" /\ q[1].try /\ q[2].op = "fileUnlock"
<1> DEFINE p == <<Try("goCold"), Do("fileUnlock")>>
<1>1. /\ p \in Seq(Steps) /\ Len(p) = 2
      /\ p[1].op = "goCold" /\ p[1].try /\ p[2].op = "fileUnlock"
  <2>1. Try("goCold") \in Steps /\ Do("fileUnlock") \in Steps
    BY StepTypes DEF Ops
  <2> QED BY <2>1 DEF Try, Do, Step
<1>2. q = p \o Tail(s)
  OBVIOUS
<1> HIDE DEF p
<1>3. q \in Seq(Steps) /\ Spliced(s, q, Len(p), 2) /\ \A i \in 1 .. Len(p) : q[i] = p[i]
  <2>1. /\ p \o Tail(s) \in Seq(Steps) /\ Spliced(s, p \o Tail(s), Len(p), 2)
        /\ \A i \in 1 .. Len(p) : (p \o Tail(s))[i] = p[i]
    BY <1>1, RestSplice
  <2> QED BY <1>2, <2>1
<1>4. 1 \in 1 .. Len(p) /\ 2 \in 1 .. Len(p)
  BY <1>1
<1> QED BY <1>1, <1>3, <1>4

\* UnlockFile
LEMMA UnlockFileKeeps ==
    ASSUME NEW a \in Areas, LocksInv, UnlockFile(a), load' = load
    PROVE  LocksInv'
<1> DEFINE ar == area[a]
           x == Head(todo[a])
           p == <<Try("goCold"), Do("fileUnlock")>>
           q == p \o Tail(todo[a])
<1>1. todo[a] # <<>> /\ x.op = "unlockFile" /\ Go(a, ar, q) /\ UNCHANGED <<load, file, header, locked, history>>
  BY DEF UnlockFile, Doing, Rest
<1>2. /\ TypeOK /\ ar \in AreaStates /\ StateFits(ar) /\ ar.open /\ Counted(ar, Len(file))
      /\ Fits(ar, todo[a]) /\ todo[a] \in Seq(Steps) /\ todo[a][1] = x /\ ar.fFLocked
  BY <1>1, AtStep DEF NothingToDo
<1>4. /\ q \in Seq(Steps) /\ Spliced(todo[a], q, 2, 2)
      /\ q[1].op = "goCold" /\ q[1].try /\ q[2].op = "fileUnlock"
  <2>1. q = p \o Tail(todo[a])
    OBVIOUS
  <2> HIDE DEF q
  <2> QED BY <1>1, <1>2, <2>1, UnlockFileSteps
<1> HIDE DEF p, q
<1>5. StepFits(ar, q, 1)
  BY <1>4 DEF StepFits, UnlockFits, LockFits, CloseFits, HeaderFits, ChangeFits
<1>6. StepFits(ar, q, 2)
  <2>1. OnlyBefore(q, 2, HeaderSteps)
    BY <1>4 DEF OnlyBefore, HeaderSteps
  <2> QED BY <1>2, <1>4, <2>1 DEF StepFits, UnlockFits, LockFits, CloseFits, HeaderFits, ChangeFits
<1>7. Expands(x, q, 2, ar)
  <2>1. OnlyBefore(q, 3, CloseSteps) /\ Earlier(q, 3, {"fileUnlock"})
    BY <1>4 DEF OnlyBefore, Earlier, CloseSteps, UnlockSteps, HeaderSteps
  <2>2. \A j \in 1 .. 2 : q[j].op \notin {"headLock", "headUnlock"}
    BY <1>4
  <2>3. 2 + 1 = 3
    OBVIOUS
  <2> QED BY <1>1, <2>1, <2>2, <2>3 DEF Expands
<1>8. Effect(ar, x, ar) /\ SameLocks(ar, ar)
  BY <1>1 DEF Effect, SameLocks
<1>9. Fits(ar, q)
  <2>1. \A i \in 1 .. 2 : StepFits(ar, q, i)
    BY <1>5, <1>6
  <2> QED BY <1>1, <1>2, <1>4, <1>7, <1>8, <2>1, StepKeeps
<1>10. DataOK' /\ Len(file) <= Len(file') /\ file' = file
  BY <1>1, <1>2, DataSame
<1> QED BY <1>1, <1>2, <1>4, <1>8, <1>9, <1>10, QuietStep

\* CloseFile
LEMMA CloseFileKeeps ==
    ASSUME NEW a \in Areas, LocksInv, CloseFile(a), load' = load
    PROVE  LocksInv'
<1> DEFINE ar == area[a]
           x == Head(todo[a])
<1>1. todo[a] # <<>> /\ x.op = "close" /\ Go(a, Closed, Rest(a)) /\ UNCHANGED <<load, file, header, locked, history>>
  BY DEF CloseFile, Doing, Done
<1>2. /\ TypeOK /\ ar \in AreaStates /\ StateFits(ar) /\ ar.open /\ Len(file) \in Nat
      /\ Fits(ar, todo[a]) /\ todo[a] \in Seq(Steps) /\ todo[a][1] = x /\ StepFits(ar, todo[a], 1)
  BY <1>1, AtStep
<1>3. Releases(ar, todo[a], 1) /\ ~Earlier(todo[a], 1, {"unlockFile", "fileUnlock"}) /\ Len(todo[a]) = 1
      /\ ~ar.fFLocked
  BY <1>1, <1>2 DEF StepFits, CloseFits, Earlier
<1>4. ar.pLocksPos = {}
  BY <1>3 DEF Releases, Released
<1>5. ~ar.fHeaderLocked
  BY <1>1, <1>2, <1>3 DEF Fits, Unlocks
<1>6. Closed \in AreaStates /\ StateFits(Closed) /\ SameLocks(ar, Closed) /\ Counted(Closed, Len(file))
  <2>1. Closed \in AreaStates
    BY DEF Closed, AreaStates
  <2>2. ar.fFLocked = FALSE /\ ar.fHeaderLocked = FALSE
    BY <1>2, <1>3, <1>5, AreaFields
  <2>3. IsFiniteSet({})
    BY FS_EmptySet
  <2>4. /\ Closed.open = FALSE /\ Closed.ulRecCount = 0 /\ Closed.fRecordChanged = FALSE
        /\ Closed.fAppend = FALSE /\ Closed.fFLocked = FALSE /\ Closed.fHeaderLocked = FALSE
        /\ Closed.pLocksPos = {} /\ Closed.edits = 0 /\ Closed.fPositioned = FALSE
    BY DEF Closed
  <2>5. StateFits(Closed)
    BY <2>3, <2>4 DEF StateFits
  <2>6. SameLocks(ar, Closed)
    BY <1>4, <2>2, <2>4 DEF SameLocks
  <2>7. Counted(Closed, Len(file))
    BY <1>2, <2>4 DEF Counted
  <2> QED BY <2>1, <2>5, <2>6, <2>7
<1>7. Rest(a) = <<>>
  <2>1. Rest(a) \in Seq(Steps) /\ Len(Rest(a)) = 0
    BY <1>1, <1>2, <1>3, HeadTailProperties DEF Rest
  <2> QED BY <2>1, EmptySeq
<1>8. Fits(Closed, Rest(a)) /\ Rest(a) \in Seq(Steps)
  BY <1>6, <1>7 DEF Fits, Closed
<1>9. DataOK' /\ Len(file) <= Len(file') /\ file' = file
  BY <1>1, <1>2, DataSame
<1> QED BY <1>1, <1>6, <1>8, <1>9, QuietStep

\* The records of a set in a row.
LEMMA SetToSeqProps ==
    ASSUME NEW S, IsFiniteSet(S), NEW f, f = SetToSeq(S)
    PROVE  /\ Cardinality(S) \in Nat /\ f \in [1 .. Cardinality(S) -> S]
           /\ \A i, j \in 1 .. Cardinality(S) : f[i] = f[j] => i = j
           /\ \A x \in S : \E i \in 1 .. Cardinality(S) : f[i] = x
<1> DEFINE n == Cardinality(S)
           T == 1 .. n
<1>1. n \in Nat /\ ExistsBijection(T, S)
  BY FS_CardinalityType
<1>2. PICK g \in Bijection(T, S) : TRUE
  BY <1>1 DEF ExistsBijection
<1>3. g \in [T -> S] /\ \A a, b \in T : g[a] = g[b] => a = b
  BY <1>2 DEF Bijection, Injection, IsInjective
<1>4. IsInjective(g)
  BY <1>3 DEF IsInjective
<1>5. f \in [T -> S] /\ IsInjective(f)
  BY <1>3, <1>4 DEF SetToSeq
<1>6. \A a, b \in T : f[a] = f[b] => a = b
  BY <1>5 DEF IsInjective
<1>7. f \in Injection(T, S)
  BY <1>5, <1>6 DEF Injection, IsInjective
<1>8. IsFiniteSet(T) /\ Cardinality(T) = n
  BY <1>1, FS_Interval
<1>9. f \in Surjection(T, S)
  BY <1>7, <1>8, FS_Injection
<1> QED BY <1>1, <1>5, <1>6, <1>9 DEF Surjection

\* q is the steps that unlock the n records of S, in a row, and the rest of s.
UnlocksAll(S, s, q, n, locks) ==
    /\ n \in Nat /\ locks \in [1 .. n -> S]
    /\ \A i, j \in 1 .. n : locks[i] = locks[j] => i = j
    /\ \A r \in S : \E i \in 1 .. n : locks[i] = r
    /\ q \in Seq(Steps) /\ Spliced(s, q, n + 1, 2)
    /\ q[1].op = "goCold" /\ q[1].try
    /\ \A i \in 2 .. n + 1 : /\ q[i].op = "unlockRecord" /\ q[i].rec = locks[i - 1]
                             /\ i - 1 \in 1 .. n /\ i \in 1 .. n + 1
    /\ \A i \in 1 .. n + 1 : i = 1 \/ i \in 2 .. n + 1

\* What hb_dbfUnlockAllRecords() does.
LEMMA UnlockAllSteps ==
    ASSUME NEW S \in SUBSET Nat, IsFiniteSet(S), NEW s \in Seq(Steps), s # <<>>
    PROVE  LET locks == SetToSeq(S)
               q == <<Try("goCold")>> \o [i \in DOMAIN locks |-> Step("unlockRecord", locks[i])] \o Tail(s)
           IN  UnlocksAll(S, s, q, Cardinality(S), locks)
<1> DEFINE locks == SetToSeq(S)
           n == Cardinality(S)
           u == [i \in DOMAIN locks |-> Step("unlockRecord", locks[i])]
           p == <<Try("goCold")>> \o u
           q == p \o Tail(s)
<1>3. /\ n \in Nat /\ locks \in [1 .. n -> S]
      /\ \A i, j \in 1 .. n : locks[i] = locks[j] => i = j
      /\ \A r \in S : \E i \in 1 .. n : locks[i] = r
  <2>1. locks = SetToSeq(S)
    OBVIOUS
  <2> HIDE DEF locks
  <2> QED BY <2>1, SetToSeqProps
<1> HIDE DEF locks, n
<1>4. /\ u \in Seq(Steps) /\ Len(u) = n
      /\ \A i \in 1 .. n : u[i] = Step("unlockRecord", locks[i])
  <2>1. DOMAIN locks = 1 .. n /\ \A i \in 1 .. n : locks[i] \in Nat
    BY <1>3
  <2>2. \A i \in 1 .. n : Step("unlockRecord", locks[i]) \in Steps
    BY <2>1, StepTypes DEF Ops
  <2>3. u \in [1 .. n -> Steps]
    BY <2>1, <2>2
  <2>4. u \in Seq(Steps) /\ Len(u) = n
    <3> HIDE DEF u
    <3> QED BY <1>3, <2>3
  <2> QED BY <2>1, <2>4
<1>5. <<Try("goCold")>> \in Seq(Steps) /\ Len(<<Try("goCold")>>) = 1 /\ <<Try("goCold")>>[1] = Try("goCold")
  <2>1. Try("goCold") \in Steps
    BY StepTypes DEF Ops
  <2> QED BY <2>1
<1> DEFINE g == <<Try("goCold")>>
<1> HIDE DEF u, g
<1>6. /\ p \in Seq(Steps) /\ Len(p) = n + 1 /\ p[1] = Try("goCold")
      /\ \A i \in 2 .. n + 1 : p[i] = Step("unlockRecord", locks[i - 1])
  <2>1. /\ g \o u \in Seq(Steps) /\ Len(g \o u) = Len(g) + Len(u)
        /\ \A i \in 1 .. Len(g) + Len(u) : (g \o u)[i] = IF i <= Len(g) THEN g[i] ELSE u[i - Len(g)]
    BY <1>4, <1>5, ConcatProperties DEF g
  <2>2. Len(g) = 1 /\ Len(u) = n /\ g[1] = Try("goCold") /\ p = g \o u
    BY <1>4, <1>5 DEF g
  <2>3. p \in Seq(Steps) /\ Len(p) = n + 1 /\ p[1] = Try("goCold")
    BY <1>3, <2>1, <2>2
  <2>4. ASSUME NEW i \in 2 .. n + 1
        PROVE  p[i] = Step("unlockRecord", locks[i - 1])
    <3>1. i \in 1 .. 1 + n /\ ~(i <= 1) /\ i - 1 \in 1 .. n
      BY <1>3, <2>4
    <3>2. p[i] = u[i - 1]
      BY <2>1, <2>2, <3>1
    <3> QED BY <1>4, <3>1, <3>2
  <2> QED BY <2>3, <2>4
<1> HIDE DEF p
<1>7. q \in Seq(Steps) /\ Spliced(s, q, n + 1, 2) /\ \A i \in 1 .. n + 1 : q[i] = p[i]
  <2>1. q \in Seq(Steps) /\ Spliced(s, q, Len(p), 2) /\ \A i \in 1 .. Len(p) : q[i] = p[i]
    BY <1>6, RestSplice
  <2> QED BY <1>6, <2>1
<1> HIDE DEF q
<1>8. /\ q[1].op = "goCold" /\ q[1].try
      /\ \A i \in 2 .. n + 1 : /\ q[i].op = "unlockRecord" /\ q[i].rec = locks[i - 1]
                               /\ i - 1 \in 1 .. n /\ i \in 1 .. n + 1
      /\ \A i \in 1 .. n + 1 : i = 1 \/ i \in 2 .. n + 1
  <2>1. 1 \in 1 .. n + 1 /\ \A i \in 2 .. n + 1 : i \in 1 .. n + 1 /\ i - 1 \in 1 .. n
    BY <1>3
  <2>2. q[1] = Try("goCold") /\ \A i \in 2 .. n + 1 : q[i] = Step("unlockRecord", locks[i - 1])
    BY <1>6, <1>7, <2>1
  <2>3. \A i \in 1 .. n + 1 : i = 1 \/ i \in 2 .. n + 1
    BY <1>3
  <2>4. q[1].op = "goCold" /\ q[1].try
    BY <2>2 DEF Try
  <2>5. ASSUME NEW i \in 2 .. n + 1
        PROVE  q[i].op = "unlockRecord" /\ q[i].rec = locks[i - 1]
    <3>1. q[i] = Step("unlockRecord", locks[i - 1])
      BY <2>2
    <3> QED BY <3>1 DEF Step
  <2> QED BY <2>1, <2>3, <2>4, <2>5
<1>9. UnlocksAll(S, s, q, n, locks)
  BY <1>3, <1>7, <1>8 DEF UnlocksAll
<1> QED BY <1>9 DEF q, p, u, g, locks, n

\* UnlockAllRecords
LEMMA UnlockAllRecordsKeeps ==
    ASSUME NEW a \in Areas, LocksInv, UnlockAllRecords(a), load' = load
    PROVE  LocksInv'
<1> DEFINE ar == area[a]
           x == Head(todo[a])
           locks == SetToSeq(ar.pLocksPos)
           n == Cardinality(ar.pLocksPos)
           u == [i \in DOMAIN locks |-> Step("unlockRecord", locks[i])]
           p == <<Try("goCold")>> \o u
           q == p \o Tail(todo[a])
<1>1. todo[a] # <<>> /\ x.op = "unlockRecords" /\ Go(a, ar, q) /\ UNCHANGED <<load, file, header, locked, history>>
  BY DEF UnlockAllRecords, Doing, Rest
<1>2. /\ TypeOK /\ ar \in AreaStates /\ StateFits(ar) /\ ar.open /\ Counted(ar, Len(file))
      /\ Fits(ar, todo[a]) /\ todo[a] \in Seq(Steps) /\ todo[a][1] = x
      /\ IsFiniteSet(ar.pLocksPos) /\ ar.pLocksPos \in SUBSET Nat
  BY <1>1, AtStep, AreaFields DEF StateFits
<1>3. UnlocksAll(ar.pLocksPos, todo[a], q, n, locks)
  BY <1>1, <1>2, UnlockAllSteps
<1> HIDE DEF locks, n, u, p, q
<1>4. /\ n \in Nat /\ locks \in [1 .. n -> ar.pLocksPos]
      /\ \A i, j \in 1 .. n : locks[i] = locks[j] => i = j
      /\ \A r \in ar.pLocksPos : \E i \in 1 .. n : locks[i] = r
  BY <1>3 DEF UnlocksAll
<1>7. q \in Seq(Steps) /\ Spliced(todo[a], q, n + 1, 2)
  BY <1>3 DEF UnlocksAll
<1>8. /\ q[1].op = "goCold" /\ q[1].try
      /\ \A i \in 2 .. n + 1 : /\ q[i].op = "unlockRecord" /\ q[i].rec = locks[i - 1]
                               /\ i - 1 \in 1 .. n /\ i \in 1 .. n + 1
      /\ \A i \in 1 .. n + 1 : i = 1 \/ i \in 2 .. n + 1
  BY <1>3 DEF UnlocksAll
<1>9. ASSUME NEW i \in 1 .. n + 1
      PROVE  StepFits(ar, q, i)
  <2>1. CASE i = 1
    BY <1>8, <2>1 DEF StepFits, UnlockFits, LockFits, CloseFits, HeaderFits, ChangeFits
  <2>2. CASE i \in 2 .. n + 1
    <3>1. q[i].op = "unlockRecord" /\ q[i].rec = locks[i - 1] /\ i - 1 \in 1 .. n
      BY <1>8, <2>2
    <3>2. q[i].rec \in ar.pLocksPos
      BY <1>4, <3>1
    <3>3. \A j \in 1 .. i - 1 : j \in 1 .. n + 1
      BY <1>4, <2>2
    <3>4. OnlyBefore(q, i, HeaderSteps \cup {"unlockRecord"})
      BY <1>8, <3>3 DEF OnlyBefore, HeaderSteps
    <3>5. NotUnlocked(q, i, q[i].rec)
      <4> SUFFICES ASSUME NEW j \in 1 .. i - 1, q[j].op = "unlockRecord", q[j].rec = q[i].rec
                   PROVE  FALSE
        BY DEF NotUnlocked
      <4>1. j \in 2 .. n + 1 /\ j # i
        BY <1>4, <1>8, <2>2, <3>3
      <4>2. locks[j - 1] = locks[i - 1] /\ j - 1 \in 1 .. n
        BY <1>8, <3>1, <4>1
      <4>3. j - 1 = i - 1
        BY <1>4, <3>1, <4>2
      <4> QED BY <1>4, <2>2, <4>1, <4>3
    <3> QED BY <3>1, <3>2, <3>4, <3>5 DEF StepFits, UnlockFits, LockFits, CloseFits, HeaderFits, ChangeFits
  <2> QED BY <1>8, <2>1, <2>2
<1>10. Expands(x, q, n + 1, ar)
  <2>1. \A j \in 1 .. n + 1 + 1 - 1 : j \in 1 .. n + 1
    BY <1>4
  <2>2. OnlyBefore(q, n + 1 + 1, UnlockSteps)
    <3>1. \A j \in 1 .. n + 1 : q[j].op \in UnlockSteps
      BY <1>8 DEF UnlockSteps, HeaderSteps
    <3> QED BY <1>4, <2>1, <3>1 DEF OnlyBefore
  <2>3. \A r \in ar.pLocksPos : Released(q, n + 1 + 1, r)
    <3> TAKE r \in ar.pLocksPos
    <3>1. PICK i \in 1 .. n : locks[i] = r
      BY <1>4
    <3>2. i + 1 \in 2 .. n + 1 /\ (i + 1) - 1 = i /\ i + 1 \in 1 .. n + 1 + 1 - 1
      BY <1>4
    <3>3. q[i + 1].op = "unlockRecord" /\ q[i + 1].rec = locks[(i + 1) - 1]
      BY <1>8, <3>2
    <3>4. q[i + 1].rec = r
      BY <3>1, <3>2, <3>3
    <3> QED BY <1>4, <3>2, <3>3, <3>4 DEF Released
  <2>4. \A j \in 1 .. n + 1 : q[j].op \notin {"headLock", "headUnlock"}
    BY <1>8
  <2> QED BY <1>1, <2>2, <2>3, <2>4 DEF Expands
<1>11. Effect(ar, x, ar) /\ SameLocks(ar, ar)
  BY <1>1 DEF Effect, SameLocks
<1>12. Fits(ar, q)
  BY <1>1, <1>2, <1>7, <1>9, <1>10, <1>11, StepKeeps
<1>13. DataOK' /\ Len(file) <= Len(file') /\ file' = file
  BY <1>1, <1>2, DataSame
<1> QED BY <1>1, <1>2, <1>7, <1>11, <1>12, <1>13, QuietStep

\* Steps that only unlock and lock records.
OnlyLocks(ar, p, r) ==
    /\ p \in Seq(Steps)
    /\ \A i \in 1 .. Len(p) :
          /\ p[i].op \in {"unlockRecords", "rawLock"}
          /\ p[i].op = "rawLock" => /\ ~ar.fFLocked /\ p[i].rec = r
                                    /\ \A j \in 1 .. i - 1 : p[j].op = "unlockRecords"

\* What hb_dbfLockRecord() does before it waits for nothing.
LEMMA LockRecordProps ==
    ASSUME NEW ar, NEW r \in Nat, NEW e
    PROVE  OnlyLocks(ar, LockRecord(ar, r, e), r) /\ OnlyLocks(ar, <<>>, r)
<1> DEFINE u == Do("unlockRecords")
           l == Step("rawLock", r)
<1>1. u \in Steps /\ l \in Steps /\ u.op = "unlockRecords" /\ l.op = "rawLock" /\ l.rec = r
  BY StepTypes DEF Ops, Do, Step
<1> HIDE DEF u, l
<1>2. OnlyLocks(ar, <<>>, r)
  BY DEF OnlyLocks
<1>3. ~ar.fFLocked => OnlyLocks(ar, <<l>>, r) /\ OnlyLocks(ar, <<u, l>>, r)
  <2>1. /\ <<l>> \in Seq(Steps) /\ Len(<<l>>) = 1 /\ <<l>>[1] = l
        /\ <<u, l>> \in Seq(Steps) /\ Len(<<u, l>>) = 2 /\ <<u, l>>[1] = u /\ <<u, l>>[2] = l
    BY <1>1
  <2> QED BY <1>1, <2>1 DEF OnlyLocks
<1>4. LockRecord(ar, r, e) = <<>> \/ (~ar.fFLocked /\ LockRecord(ar, r, e) \in {<<l>>, <<u, l>>})
  BY DEF LockRecord, u, l
<1> QED BY <1>2, <1>3, <1>4

\* They fit wherever they begin.
LEMMA OnlyLocksFit ==
    ASSUME NEW ar, NEW p, NEW r \in Nat, r > 0, OnlyLocks(ar, p, r), NEW q,
           \A i \in 1 .. Len(p) : q[i] = p[i]
    PROVE  \A i \in 1 .. Len(p) : StepFits(ar, q, i) /\ q[i].op \in {"unlockRecords", "rawLock"}
<1> SUFFICES ASSUME NEW i \in 1 .. Len(p)
             PROVE  StepFits(ar, q, i) /\ q[i].op \in {"unlockRecords", "rawLock"}
  OBVIOUS
<1>1. Len(p) \in Nat /\ \A j \in 1 .. i - 1 : j \in 1 .. Len(p)
  <2>1. Len(p) \in Nat
    BY LenProperties DEF OnlyLocks
  <2> QED BY <2>1
<1>2. /\ q[i].op \in {"unlockRecords", "rawLock"}
      /\ q[i].op = "rawLock" => /\ ~ar.fFLocked /\ q[i].rec = r
                                /\ \A j \in 1 .. i - 1 : q[j].op = "unlockRecords"
  BY <1>1 DEF OnlyLocks
<1>3. q[i].op = "rawLock" => OnlyBefore(q, i, UnlockSteps)
  BY <1>2 DEF OnlyBefore, UnlockSteps
<1> QED BY <1>2, <1>3 DEF StepFits, UnlockFits, LockFits, CloseFits, HeaderFits, ChangeFits

\* AppendCount
LEMMA AppendCountKeeps ==
    ASSUME NEW a \in Areas, LocksInv, AppendCount(a), load' = load
    PROVE  LocksInv'
<1> DEFINE ar == area[a]
           x == Head(todo[a])
           ar2 == [ar EXCEPT !.ulRecCount = CalcRecCount]
           new == CalcRecCount + 1
           p == IF IsLocked(ar2, new) THEN <<>> ELSE LockRecord(ar2, new, x.rec = 1)
           q == p \o Tail(todo[a])
<1>1. todo[a] # <<>> /\ x.op = "append" /\ Go(a, ar2, q) /\ UNCHANGED <<load, file, header, locked, history>>
  BY DEF AppendCount, Doing, Rest, Rec
<1>2. /\ TypeOK /\ ar \in AreaStates /\ StateFits(ar) /\ ar.open /\ Len(file) \in Nat /\ CalcRecCount = Len(file)
      /\ Counted(ar, Len(file)) /\ Fits(ar, todo[a]) /\ todo[a] \in Seq(Steps) /\ todo[a][1] = x
  BY <1>1, AtStep DEF CalcRecCount
<1>3. ar2 \in AreaStates
  BY <1>2, AreaExcept
<1>4. /\ ar2.open = ar.open /\ ar2.fRecordChanged = ar.fRecordChanged /\ ar2.fPositioned = ar.fPositioned
      /\ ar2.fValidBuffer = ar.fValidBuffer /\ ar2.edits = ar.edits /\ ar2.fAppend = ar.fAppend
      /\ ar2.ulRecNo = ar.ulRecNo /\ SameLocks(ar, ar2) /\ ar2.ulRecCount = Len(file)
      /\ ar2.fUpdateHeader = ar.fUpdateHeader
  BY <1>2 DEF AreaStates, SameLocks
<1> HIDE DEF ar2
<1>5. StateFits(ar2) /\ Effect(ar, x, ar2)
  BY <1>1, <1>2, <1>4 DEF StateFits, Effect, SameLocks
<1>6. new \in Nat /\ new > 0
  BY <1>2
<1> HIDE DEF new
<1>7. OnlyLocks(ar2, p, new)
  BY <1>6, LockRecordProps
<1> HIDE DEF p
<1>8. q \in Seq(Steps) /\ Spliced(todo[a], q, Len(p), 2) /\ \A i \in 1 .. Len(p) : q[i] = p[i]
  <2>1. p \in Seq(Steps)
    BY <1>7 DEF OnlyLocks
  <2> QED BY <1>1, <1>2, <2>1, RestSplice
<1> HIDE DEF q
<1>9. \A i \in 1 .. Len(p) : StepFits(ar2, q, i) /\ q[i].op \in {"unlockRecords", "rawLock"}
  BY <1>6, <1>7, <1>8, OnlyLocksFit
<1>10. Expands(x, q, Len(p), ar2)
  BY <1>1, <1>9 DEF Expands
<1>11. Fits(ar2, q)
  BY ZenonT(30), <1>1, <1>2, <1>3, <1>4, <1>5, <1>8, <1>9, <1>10, StepKeeps
<1>12. DataOK' /\ Len(file) <= Len(file') /\ Counted(ar2, Len(file'))
  BY <1>1, <1>2, <1>4, DataSame DEF Counted
<1> QED BY <1>1, <1>3, <1>4, <1>8, <1>11, <1>12, QuietStep

-----------------------------------------------------------------------------
(* Methods called by the program.                                          *)

\* A method is called, all of whose steps fit.
LEMMA CallKeeps ==
    ASSUME NEW a \in Areas, LocksInv, load' = load, NEW p \in Seq(Steps), Call(a, p),
           \A i \in 1 .. Len(p) : StepFits(area[a], p, i)
    PROVE  LocksInv'
<1> DEFINE ar == area[a]
<1>1. ar.open /\ todo[a] = <<>> /\ Go(a, ar, p) /\ UNCHANGED <<load, file, header, locked, history>>
  BY DEF Call
<1>2. TypeOK /\ ar \in AreaStates /\ Fits(ar, todo[a]) /\ StateFits(ar) /\ Counted(ar, Len(file))
  BY DEF LocksInv, TypeOK, StepsFit, CountsFit, Fits
<1>3. ~ar.fHeaderLocked
  BY <1>1, <1>2 DEF Fits, Unlocks
<1>4. Fits(ar, p)
  BY <1>1, <1>2, <1>3, NewFits
<1>5. DataOK' /\ Len(file) <= Len(file') /\ file' = file
  BY <1>1, <1>2, DataSame
<1>6. SameLocks(ar, ar)
  BY DEF SameLocks
<1> QED BY <1>1, <1>2, <1>4, <1>5, <1>6, QuietStep

\* Close
LEMMA CloseKeeps ==
    ASSUME NEW a \in Areas, LocksInv, Close(a), load' = load
    PROVE  LocksInv'
<1> DEFINE s1 == Try("goCold")
           s2 == Do("unlockRecords")
           s3 == Do("unlockFile")
           s4 == Do("headIf")
           s5 == Do("close")
           p == <<s1, s2, s3, s4, s5>>
<1>1. Call(a, p)
  BY DEF Close
<1>2. /\ s1 \in Steps /\ s2 \in Steps /\ s3 \in Steps /\ s4 \in Steps /\ s5 \in Steps
      /\ s1.op = "goCold" /\ s2.op = "unlockRecords" /\ s3.op = "unlockFile"
      /\ s4.op = "headIf" /\ s5.op = "close"
  BY StepTypes DEF Ops, Try, Do, Step
<1> HIDE DEF s1, s2, s3, s4, s5
<1>3. /\ p \in Seq(Steps) /\ Len(p) = 5
      /\ p[1].op = "goCold" /\ p[2].op = "unlockRecords" /\ p[3].op = "unlockFile"
      /\ p[4].op = "headIf" /\ p[5].op = "close"
  BY <1>2
<1> HIDE DEF p
<1>4. StepFits(area[a], p, 1) /\ StepFits(area[a], p, 2) /\ StepFits(area[a], p, 3)
  BY <1>3 DEF StepFits, UnlockFits, LockFits, CloseFits, HeaderFits, ChangeFits
<1>5. /\ OnlyBefore(p, 4, CloseSteps) /\ OnlyBefore(p, 5, CloseSteps)
      /\ Releases(area[a], p, 4) /\ Releases(area[a], p, 5)
      /\ Earlier(p, 4, {"unlockFile", "fileUnlock"}) /\ Earlier(p, 5, {"unlockFile", "fileUnlock"})
      /\ Earlier(p, 5, {"headIf", "headWrite"})
  <2>1. OnlyBefore(p, 4, CloseSteps) /\ OnlyBefore(p, 5, CloseSteps)
    BY <1>3 DEF OnlyBefore, CloseSteps, UnlockSteps, HeaderSteps
  <2>2. 2 \in 1 .. 4 - 1 /\ 2 \in 1 .. 5 - 1 /\ 3 \in 1 .. 4 - 1 /\ 3 \in 1 .. 5 - 1 /\ 4 \in 1 .. 5 - 1
    OBVIOUS
  <2>3. Releases(area[a], p, 4) /\ Releases(area[a], p, 5)
    BY <1>3, <2>2 DEF Releases, Released
  <2> QED BY <1>3, <2>1, <2>2, <2>3 DEF Earlier
<1>6. StepFits(area[a], p, 4) /\ StepFits(area[a], p, 5)
  BY <1>3, <1>5 DEF StepFits, UnlockFits, LockFits, CloseFits, HeaderFits, ChangeFits
<1>7. \A i \in 1 .. Len(p) : StepFits(area[a], p, i)
  <2>1. \A i \in 1 .. Len(p) : i = 1 \/ i = 2 \/ i = 3 \/ i = 4 \/ i = 5
    BY <1>3
  <2> QED BY <1>4, <1>6, <2>1
<1> QED BY <1>1, <1>3, <1>7, CallKeeps

\* DbGoTo, DbGoBottom and Commit
LEMMA MoveKeeps ==
    ASSUME NEW a \in Areas, LocksInv, load' = load, NEW y \in Steps, y.op \in {"goTo", "goBottom"},
           Call(a, <<Do("goCold"), y>>) \/ Call(a, <<Do("goCold")>>)
    PROVE  LocksInv'
<1> DEFINE x == Do("goCold")
           p == <<x, y>>
           q == <<x>>
<1>1. Call(a, p) \/ Call(a, q)
  OBVIOUS
<1>2. x \in Steps /\ x.op = "goCold" /\ ~x.try
  BY StepTypes DEF Ops, Do, Step
<1> HIDE DEF x
<1>3. /\ p \in Seq(Steps) /\ Len(p) = 2 /\ p[1] = x /\ p[2] = y
      /\ q \in Seq(Steps) /\ Len(q) = 1 /\ q[1] = x
  BY <1>2
<1> HIDE DEF p, q
<1>4. StepFits(area[a], p, 1) /\ StepFits(area[a], q, 1)
  BY <1>2, <1>3 DEF StepFits, UnlockFits, LockFits, CloseFits, HeaderFits, ChangeFits
<1>5. Cleaned(p, 2)
  BY <1>2, <1>3 DEF Cleaned
<1>6. StepFits(area[a], p, 2)
  BY <1>3, <1>5 DEF StepFits, UnlockFits, LockFits, CloseFits, HeaderFits, ChangeFits
<1>7. \A i \in 1 .. Len(p) : StepFits(area[a], p, i)
  <2>1. \A i \in 1 .. Len(p) : i = 1 \/ i = 2
    BY <1>3
  <2> QED BY <1>4, <1>6, <2>1
<1>8. \A i \in 1 .. Len(q) : StepFits(area[a], q, i)
  BY <1>3, <1>4
<1> QED BY <1>1, <1>3, <1>7, <1>8, CallKeeps

\* RLock and DbRLock
LEMMA RecordLockKeeps ==
    ASSUME NEW a \in Areas, LocksInv, load' = load, NEW r \in Nat, r > 0, NEW e,
           Call(a, LockRecord(area[a], r, e))
    PROVE  LocksInv'
<1> DEFINE p == LockRecord(area[a], r, e)
<1>1. OnlyLocks(area[a], p, r)
  BY LockRecordProps
<1>2. Call(a, p)
  OBVIOUS
<1> HIDE DEF p
<1>3. p \in Seq(Steps)
  BY <1>1 DEF OnlyLocks
<1>4. \A i \in 1 .. Len(p) : StepFits(area[a], p, i)
  BY <1>1, OnlyLocksFit
<1> QED BY <1>2, <1>3, <1>4, CallKeeps

\* FLock and UnLock
LEMMA FileLockKeeps ==
    ASSUME NEW a \in Areas, LocksInv, load' = load, NEW o \in {"lockFile", "unlockFile"},
           Call(a, <<Do("unlockRecords"), Do(o)>>)
    PROVE  LocksInv'
<1> DEFINE x == Do("unlockRecords")
           y == Do(o)
           p == <<x, y>>
<1>1. Call(a, p)
  OBVIOUS
<1>2. x \in Steps /\ y \in Steps /\ x.op = "unlockRecords" /\ y.op = o
  BY StepTypes DEF Ops, Do, Step
<1> HIDE DEF x, y
<1>3. p \in Seq(Steps) /\ Len(p) = 2 /\ p[1] = x /\ p[2] = y
  BY <1>2
<1> HIDE DEF p
<1>4. StepFits(area[a], p, 1)
  BY <1>2, <1>3 DEF StepFits, UnlockFits, LockFits, CloseFits, HeaderFits, ChangeFits
<1>5. OnlyBefore(p, 2, UnlockSteps) /\ Releases(area[a], p, 2)
  <2>1. OnlyBefore(p, 2, UnlockSteps)
    BY <1>2, <1>3 DEF OnlyBefore, UnlockSteps
  <2>2. 1 \in 1 .. 2 - 1
    OBVIOUS
  <2> QED BY <1>2, <1>3, <2>1, <2>2 DEF Releases, Released
<1>6. StepFits(area[a], p, 2)
  BY <1>2, <1>3, <1>5 DEF StepFits, UnlockFits, LockFits, CloseFits, HeaderFits, ChangeFits
<1>7. \A i \in 1 .. Len(p) : StepFits(area[a], p, i)
  <2>1. \A i \in 1 .. Len(p) : i = 1 \/ i = 2
    BY <1>3
  <2> QED BY <1>4, <1>6, <2>1
<1> QED BY <1>1, <1>3, <1>7, CallKeeps

\* DbRUnlock
LEMMA DbRUnlockKeeps ==
    ASSUME NEW a \in Areas, LocksInv, load' = load, NEW r \in Nat, DbRUnlock(a, r)
    PROVE  LocksInv'
<1> DEFINE x == Try("goCold")
           y == Step("unlockRecord", r)
           z == Do("unlockFile")
           p == <<x, y, z>>
<1>1. r \in area[a].pLocksPos /\ Call(a, p)
  BY DEF DbRUnlock, IsLocked
<1>2. x \in Steps /\ y \in Steps /\ z \in Steps
      /\ x.op = "goCold" /\ y.op = "unlockRecord" /\ y.rec = r /\ z.op = "unlockFile"
  BY StepTypes DEF Ops, Try, Do, Step
<1> HIDE DEF x, y, z
<1>3. p \in Seq(Steps) /\ Len(p) = 3 /\ p[1] = x /\ p[2] = y /\ p[3] = z
  BY <1>2
<1> HIDE DEF p
<1>4. StepFits(area[a], p, 1) /\ StepFits(area[a], p, 3)
  BY <1>2, <1>3 DEF StepFits, UnlockFits, LockFits, CloseFits, HeaderFits, ChangeFits
<1>5. OnlyBefore(p, 2, HeaderSteps \cup {"unlockRecord"}) /\ NotUnlocked(p, 2, r)
  BY <1>2, <1>3 DEF OnlyBefore, NotUnlocked, HeaderSteps
<1>6. StepFits(area[a], p, 2)
  BY <1>1, <1>2, <1>3, <1>5 DEF StepFits, UnlockFits, LockFits, CloseFits, HeaderFits, ChangeFits
<1>7. \A i \in 1 .. Len(p) : StepFits(area[a], p, i)
  <2>1. \A i \in 1 .. Len(p) : i = 1 \/ i = 2 \/ i = 3
    BY <1>3
  <2> QED BY <1>4, <1>6, <2>1
<1> QED BY <1>1, <1>3, <1>7, CallKeeps

\* Replace
LEMMA ReplaceKeeps ==
    ASSUME NEW a \in Areas, LocksInv, load' = load, Replace(a)
    PROVE  LocksInv'
<1> DEFINE x == Do("read")
           y == Do("put")
           p == <<x, y>>
<1>1. Call(a, p)
  BY DEF Replace
<1>2. x \in Steps /\ y \in Steps /\ x.op = "read" /\ y.op = "put"
  BY StepTypes DEF Ops, Do, Step
<1> HIDE DEF x, y
<1>3. p \in Seq(Steps) /\ Len(p) = 2 /\ p[1] = x /\ p[2] = y
  BY <1>2
<1> HIDE DEF p
<1>4. StepFits(area[a], p, 1)
  BY <1>2, <1>3 DEF StepFits, UnlockFits, LockFits, CloseFits, HeaderFits, ChangeFits
<1>5. OnlyBefore(p, 2, {"read"})
  BY <1>2, <1>3 DEF OnlyBefore
<1>6. StepFits(area[a], p, 2)
  BY <1>2, <1>3, <1>5 DEF StepFits, UnlockFits, LockFits, CloseFits, HeaderFits, ChangeFits
<1>7. \A i \in 1 .. Len(p) : StepFits(area[a], p, i)
  <2>1. \A i \in 1 .. Len(p) : i = 1 \/ i = 2
    BY <1>3
  <2> QED BY <1>4, <1>6, <2>1
<1> QED BY <1>1, <1>3, <1>7, CallKeeps

\* DbAppend
LEMMA DbAppendKeeps ==
    ASSUME NEW a \in Areas, LocksInv, load' = load, NEW all \in {0, 1}, DbAppend(a, all)
    PROVE  LocksInv'
<1> DEFINE s1 == Do("goCold")
           s2 == Do("headLock")
           s3 == Step("append", all)
           s4 == Try("blank")
           s5 == Do("headUnlock")
           p == <<s1, s2, s3, s4, s5>>
<1>1. Call(a, p)
  BY DEF DbAppend
<1>2. /\ s1 \in Steps /\ s2 \in Steps /\ s3 \in Steps /\ s4 \in Steps /\ s5 \in Steps
      /\ s1.op = "goCold" /\ ~s1.try /\ s2.op = "headLock" /\ s3.op = "append"
      /\ s4.op = "blank" /\ s5.op = "headUnlock"
  BY StepTypes DEF Ops, Try, Do, Step
<1> HIDE DEF s1, s2, s3, s4, s5
<1>3. /\ p \in Seq(Steps) /\ Len(p) = 5
      /\ p[1].op = "goCold" /\ ~p[1].try /\ p[2].op = "headLock" /\ p[3].op = "append"
      /\ p[4].op = "blank" /\ p[5].op = "headUnlock"
  BY <1>2
<1> HIDE DEF p
<1>4. Unlocks(p, 2 + 1)
  <2>1. 5 \in 2 + 1 .. Len(p) /\ \A j \in 2 + 1 .. 5 : j = 3 \/ j = 4 \/ j = 5
    BY <1>3
  <2> QED BY <1>3, <2>1 DEF Unlocks
<1>5. /\ HeldFrom(p, 3) /\ HeldFrom(p, 4) /\ Cleaned(p, 3) /\ Cleaned(p, 4)
  <2>1. /\ 2 \in 1 .. 3 - 1 /\ 2 \in 1 .. 4 - 1 /\ 1 \in 1 .. 3 - 1 /\ 1 \in 1 .. 4 - 1
        /\ (\A j \in 2 + 1 .. 3 - 1 : FALSE) /\ \A j \in 2 + 1 .. 4 - 1 : j = 3
    OBVIOUS
  <2> QED BY <1>3, <2>1 DEF HeldFrom, Cleaned, Kept
<1>6. StepFits(area[a], p, 1) /\ StepFits(area[a], p, 5)
  BY <1>3 DEF StepFits, UnlockFits, LockFits, CloseFits, HeaderFits, ChangeFits
<1>7. StepFits(area[a], p, 2)
  BY <1>3, <1>4 DEF StepFits, UnlockFits, LockFits, CloseFits, HeaderFits, ChangeFits
<1>8. StepFits(area[a], p, 3)
  <2>1. p[3 + 1].op = "blank" /\ 3 < Len(p)
    BY <1>3
  <2> QED BY <1>3, <1>5, <2>1 DEF StepFits, UnlockFits, LockFits, CloseFits, HeaderFits, ChangeFits, HeldAt
<1>9. StepFits(area[a], p, 4)
  <2>1. \A j \in 4 + 1 .. Len(p) : p[j].op = "headUnlock"
    BY <1>3
  <2> QED BY <1>3, <1>5, <2>1 DEF StepFits, UnlockFits, LockFits, CloseFits, HeaderFits, ChangeFits, HeldAt
<1>10. \A i \in 1 .. Len(p) : StepFits(area[a], p, i)
  <2>1. \A i \in 1 .. Len(p) : i = 1 \/ i = 2 \/ i = 3 \/ i = 4 \/ i = 5
    BY <1>3
  <2> QED BY <1>6, <1>7, <1>8, <1>9, <2>1
<1> QED BY <1>1, <1>3, <1>10, CallKeeps

\* A closed area has no locks and nothing to do.
LEMMA ClosedProps ==
    /\ Closed \in AreaStates /\ StateFits(Closed) /\ Fits(Closed, <<>>)
    /\ Closed.open = FALSE /\ Closed.ulRecCount = 0 /\ Closed.fRecordChanged = FALSE
    /\ Closed.fAppend = FALSE /\ Closed.fFLocked = FALSE /\ Closed.fHeaderLocked = FALSE
    /\ Closed.pLocksPos = {} /\ Closed.edits = 0 /\ Closed.fUpdateHeader = FALSE
    /\ Closed.fPositioned = FALSE /\ Closed.fValidBuffer = FALSE
    /\ \A n \in Nat : Counted(Closed, n)
<1>1. Closed \in AreaStates
  BY DEF Closed, AreaStates
<1>2. /\ Closed.open = FALSE /\ Closed.ulRecCount = 0 /\ Closed.fRecordChanged = FALSE
      /\ Closed.fAppend = FALSE /\ Closed.fFLocked = FALSE /\ Closed.fHeaderLocked = FALSE
      /\ Closed.pLocksPos = {} /\ Closed.edits = 0 /\ Closed.fUpdateHeader = FALSE
      /\ Closed.fPositioned = FALSE /\ Closed.fValidBuffer = FALSE
  BY DEF Closed
<1>3. IsFiniteSet({})
  BY FS_EmptySet
<1>4. StateFits(Closed)
  BY <1>2, <1>3 DEF StateFits
<1>5. Fits(Closed, <<>>)
  BY <1>2, <1>4 DEF Fits
<1>6. \A n \in Nat : Counted(Closed, n)
  BY <1>2 DEF Counted
<1> QED BY <1>1, <1>2, <1>4, <1>5, <1>6

\* Open
LEMMA OpenKeeps ==
    ASSUME NEW a \in Areas, LocksInv, Open(a), load' = load
    PROVE  LocksInv'
<1> DEFINE ar == [Closed EXCEPT !.open = TRUE, !.ulRecCount = CalcRecCount]
           ar2 == Positioned(ar, 1)
<1>1. ~area[a].open /\ Go(a, ar2, <<>>) /\ UNCHANGED <<load, file, header, locked, history>>
  BY DEF Open
<1>2. TypeOK /\ area[a] \in AreaStates /\ file \in Seq(Nat) /\ StateFits(area[a]) /\ Len(file) \in Nat
  BY LenProperties DEF LocksInv, TypeOK, StepsFit, Fits
<1>3. area[a] = Closed
  BY <1>1, <1>2 DEF StateFits
<1>4. ar \in AreaStates
  <2>1. CalcRecCount \in Nat
    BY <1>2 DEF CalcRecCount
  <2>2. [Closed EXCEPT !.open = TRUE] \in AreaStates
    BY ClosedProps, AreaExcept
  <2> QED BY <2>1, <2>2, AreaExcept
<1>5. /\ ar.open = TRUE /\ ar.ulRecCount = Len(file) /\ ar.fRecordChanged = FALSE
      /\ ar.fAppend = FALSE /\ ar.fFLocked = FALSE /\ ar.fHeaderLocked = FALSE
      /\ ar.pLocksPos = {} /\ ar.edits = 0 /\ ar.fPositioned = FALSE
  BY DEF Closed, CalcRecCount
<1> HIDE DEF ar
<1>6. /\ ar2 \in AreaStates /\ ar2.open /\ ar2.fHeaderLocked = FALSE
      /\ ar2.fFLocked = FALSE /\ ar2.pLocksPos = {} /\ Counted(ar2, Len(file)) /\ StateFits(ar2)
  <2>1. ar2 = Positioned(ar, 1) /\ 1 \in Nat /\ ar.open /\ ~ar.fRecordChanged /\ ~ar.fAppend
        /\ (ar.fFLocked => ar.pLocksPos = {})
    BY <1>5
  <2>2. Counted(ar, Len(file)) /\ IsFiniteSet(ar.pLocksPos)
    BY <1>2, <1>5, FS_EmptySet DEF Counted
  <2> HIDE DEF ar2
  <2>3. /\ ar2 \in AreaStates /\ StateFits(ar2) /\ ar2.open /\ SameLocks(ar, ar2) /\ Counted(ar2, Len(file))
    BY <1>2, <1>4, <1>5, <2>1, <2>2, PositionedOpen
  <2> QED BY <1>5, <2>3 DEF SameLocks
<1> HIDE DEF ar2
<1>7. SameLocks(area[a], ar2)
  BY <1>3, <1>6, ClosedProps DEF SameLocks
<1>8. <<>> \in Seq(Steps) /\ Fits(ar2, <<>>)
  BY <1>6 DEF Fits
<1>9. DataOK' /\ Len(file) <= Len(file') /\ file' = file
  BY <1>1, <1>2, DataSame
<1> QED BY <1>1, <1>6, <1>7, <1>8, <1>9, QuietStep

\* RecCount
LEMMA RecCountKeeps ==
    ASSUME NEW a \in Areas, LocksInv, RecCount(a), load' = load
    PROVE  LocksInv'
<1> DEFINE ar == area[a]
           ar2 == [ar EXCEPT !.ulRecCount = CalcRecCount]
<1>1. ar.open /\ todo[a] = <<>> /\ Go(a, ar2, <<>>) /\ UNCHANGED <<load, file, header, locked, history>>
  BY DEF RecCount
<1>2. TypeOK /\ ar \in AreaStates /\ Fits(ar, todo[a]) /\ StateFits(ar) /\ Len(file) \in Nat /\ CalcRecCount = Len(file)
  BY LenProperties DEF LocksInv, TypeOK, StepsFit, Fits, CalcRecCount
<1>9. Counted(ar, Len(file))
  BY DEF LocksInv, CountsFit
<1>3. ar2 \in AreaStates
  BY <1>2, AreaExcept
<1>4. /\ ar2.open = ar.open /\ ar2.fRecordChanged = ar.fRecordChanged /\ ar2.fPositioned = ar.fPositioned
      /\ ar2.fValidBuffer = ar.fValidBuffer /\ ar2.edits = ar.edits /\ ar2.fAppend = ar.fAppend
      /\ ar2.ulRecNo = ar.ulRecNo /\ SameLocks(ar, ar2) /\ ar2.ulRecCount = Len(file)
  BY <1>2 DEF AreaStates, SameLocks
<1> HIDE DEF ar2
<1>5. StateFits(ar2)
  BY <1>1, <1>2, <1>4 DEF StateFits, SameLocks
<1>6. ~ar.fHeaderLocked
  BY <1>1, <1>2 DEF Fits, Unlocks
<1>7. <<>> \in Seq(Steps) /\ Fits(ar2, <<>>)
  BY <1>1, <1>4, <1>5, <1>6 DEF Fits, SameLocks
<1>8. DataOK' /\ Len(file) <= Len(file') /\ Counted(ar2, Len(file'))
  BY <1>1, <1>2, <1>4, <1>9, DataSame DEF Counted
<1> QED BY <1>1, <1>3, <1>4, <1>7, <1>8, QuietStep

\* Crash
LEMMA CrashKeeps ==
    ASSUME NEW a \in Areas, LocksInv, Crash(a), load' = load
    PROVE  LocksInv'
<1>1. Go(a, Closed, <<>>) /\ UNCHANGED <<load, file, header, ledger, appended, failures>>
      /\ crashes' = crashes + 1 /\ locked' = [locked EXCEPT ![a] = {}]
      /\ unsafe' = (unsafe \/ UnsafeEnd(a))
  BY DEF Crash
<1>2. TypeOK /\ LocksAgree /\ LocksApart /\ Len(file) \in Nat
  BY LenProperties DEF LocksInv, TypeOK
<1>3. <<>> \in Seq(Steps)
  OBVIOUS
<1>4. area'[a] = Closed /\ \A b \in Areas \ {a} : area'[b] = area[b]
  BY <1>1, <1>2, <1>3, GoProps DEF TypeOK
<1>5. HeadByte' = HeadByte /\ FileBytes' = FileBytes /\ \A r : RecByte(r)' = RecByte(r)
  BY PlacesKept
<1>6. /\ locked' \in [Areas -> SUBSET Int] /\ locked'[a] = {}
      /\ \A b \in Areas \ {a} : locked'[b] = locked[b]
  BY <1>1, <1>2 DEF TypeOK
<1>7. LocksAgree'
  <2>1. (locked[a] = BytesOf(area[a]))'
    BY <1>4, <1>6, ClosedProps DEF BytesOf
  <2>2. ASSUME NEW b \in Areas \ {a}
        PROVE  (locked[b] = BytesOf(area[b]))'
    BY <1>2, <1>4, <1>5, <1>6 DEF LocksAgree, BytesOf
  <2>3. ASSUME NEW b \in Areas, NEW c \in Areas, b # c
        PROVE  locked'[b] \cap locked'[c] = {}
    BY <1>2, <1>6, <2>3 DEF LocksAgree
  <2> QED BY <2>1, <2>2, <2>3 DEF LocksAgree
<1>8. LocksApart'
  <2>1. ASSUME NEW b \in Areas \ {a}
        PROVE  Apart(area[b])'
    BY <1>2, <1>4, <1>5 DEF LocksApart, Apart
  <2>2. Apart(area[a])'
    BY <1>4, ClosedProps DEF Apart
  <2> QED BY <2>1, <2>2 DEF LocksApart
<1>9. DataOK' /\ Len(file) <= Len(file') /\ Counted(Closed, Len(file'))
  BY <1>1, <1>2, ClosedProps DEF DataOK, TypeOK
<1> QED BY <1>1, <1>3, <1>6, <1>7, <1>8, <1>9, ClosedProps, GoKeeps

-----------------------------------------------------------------------------
(* Locks and what the program knows of them agree.                         *)

\* The inductive invariant holds at first.
LEMMA LocksInit == Init => LocksInv
<1> SUFFICES ASSUME Init
             PROVE  LocksInv
  OBVIOUS
<1>1. /\ load \in Loads /\ IsLoad(load)
      /\ file = [r \in 1 .. load.records |-> 0] /\ header = load.records
      /\ locked = [a \in Areas |-> {}] /\ area = [a \in Areas |-> Closed]
      /\ todo = [a \in Areas |-> <<>>] /\ ledger = file /\ appended = 0
      /\ failures = 0 /\ crashes = 0 /\ unsafe = FALSE
  BY DbfAssumption DEF Init
<1>2. load.records \in Nat
  BY <1>1 DEF IsLoad
<1>3. file \in Seq(Nat) /\ Len(file) = load.records
  <2>1. file \in [1 .. load.records -> Nat]
    BY <1>1
  <2> QED BY <1>2, <2>1
<1>4. TypeOK
  <2>1. area \in [Areas -> AreaStates]
    BY <1>1, ClosedProps
  <2>2. todo \in [Areas -> Seq(Steps)] /\ locked \in [Areas -> SUBSET Int]
    BY <1>1
  <2>3. 0 \in Nat /\ FALSE \in BOOLEAN
    OBVIOUS
  <2> QED BY <1>1, <1>2, <1>3, <2>1, <2>2, <2>3 DEF TypeOK
<1>5. LocksAgree
  BY <1>1, ClosedProps DEF LocksAgree, BytesOf
<1>6. LocksApart /\ CountsFit
  BY <1>1, <1>2, <1>3, ClosedProps DEF LocksApart, Apart, CountsFit
<1>7. StepsFit
  BY <1>1, ClosedProps DEF StepsFit, Ready
<1> QED BY <1>4, <1>5, <1>6, <1>7 DEF LocksInv

\* Every step keeps it.
LEMMA LocksStep == LocksInv /\ [Next]_vars => LocksInv'
<1> SUFFICES ASSUME LocksInv, [Next]_vars
             PROVE  LocksInv'
  OBVIOUS
<1>1. CASE UNCHANGED vars
  <2>1. TypeOK' /\ CountsFit' /\ StepsFit'
    BY <1>1 DEF vars, LocksInv, TypeOK, CountsFit, StepsFit
  <2>2. HeadByte' = HeadByte /\ FileBytes' = FileBytes /\ \A r : RecByte(r)' = RecByte(r)
    BY <1>1, PlacesKept DEF vars
  <2>3. LocksAgree' /\ LocksApart'
    BY <1>1, <2>2 DEF vars, LocksInv, LocksAgree, BytesOf, LocksApart, Apart
  <2> QED BY <2>1, <2>3 DEF LocksInv
<1>2. CASE Next
  <2>1. PICK a \in Areas : AreaNext(a)
    BY <1>2 DEF Next
  <2>2. load' = load
    BY <1>2 DEF Next
  <2>3. CASE StepOf(a)
    BY <2>2, <2>3, GoColdKeeps, HeadUnlockKeeps, HeadCountKeeps, HeadWriteKeeps, HeadIfKeeps,
       RawLockKeeps, UnlockAllRecordsKeeps, UnlockRecordKeeps, LockFileKeeps, UnlockFileKeeps,
       FileUnlockKeeps, GoToKeeps, GoBottomKeeps, ReadRecordKeeps, PutValueKeeps,
       AppendCountKeeps, AppendBlankKeeps, CloseFileKeeps DEF StepOf
  <2>4. CASE HeadLock(a)
    BY <2>2, <2>4, HeadLockKeeps
  <2>5. CASE Calls(a)
    <3>1. CASE Open(a) \/ Close(a) \/ RecCount(a) \/ Replace(a) \/ \E all \in {0, 1} : DbAppend(a, all)
      BY <2>2, <3>1, OpenKeeps, CloseKeeps, RecCountKeeps, ReplaceKeeps, DbAppendKeeps
    <3>2. CASE DbGoBottom(a) \/ Commit(a)
      <4>1. Do("goBottom") \in Steps /\ Do("goBottom").op = "goBottom"
        BY StepTypes DEF Ops, Do, Step
      <4> QED BY <2>2, <3>2, <4>1, MoveKeeps DEF DbGoBottom, Commit
    <3>3. CASE FLock(a) \/ UnLock(a)
      BY <2>2, <3>3, FileLockKeeps DEF FLock, UnLock
    <3>4. CASE RLock(a)
      <4>1. area[a].open /\ area[a] \in AreaStates /\ StateFits(area[a])
        BY <3>4 DEF RLock, Call, LocksInv, TypeOK, StepsFit, Fits
      <4>2. area[a].ulRecNo \in Nat /\ area[a].ulRecNo > 0
        BY <4>1, AreaFields DEF StateFits
      <4> QED BY <2>2, <3>4, <4>2, RecordLockKeeps DEF RLock
    <3>5. CASE \E r \in 1 .. load.maxRecords : DbGoTo(a, r) \/ DbRLock(a, r) \/ DbRUnlock(a, r)
      <4>1. PICK r \in 1 .. load.maxRecords : DbGoTo(a, r) \/ DbRLock(a, r) \/ DbRUnlock(a, r)
        BY <3>5
      <4>2. IsLoad(load)
        BY DbfAssumption DEF LocksInv, TypeOK
      <4>3. r \in Nat /\ r > 0
        BY <4>2 DEF IsLoad
      <4>4. Step("goTo", r) \in Steps /\ Step("goTo", r).op = "goTo"
        BY <4>3, StepTypes DEF Ops, Step
      <4>5. CASE DbGoTo(a, r)
        BY <2>2, <4>4, <4>5, MoveKeeps DEF DbGoTo
      <4>6. CASE DbRLock(a, r)
        BY <2>2, <4>3, <4>6, RecordLockKeeps DEF DbRLock
      <4>7. CASE DbRUnlock(a, r)
        BY <2>2, <4>3, <4>7, DbRUnlockKeeps
      <4> QED BY <4>1, <4>5, <4>6, <4>7
    <3> QED BY <2>5, <3>1, <3>2, <3>3, <3>4, <3>5 DEF Calls
  <2>6. CASE Crash(a)
    BY <2>2, <2>6, CrashKeeps
  <2> QED BY <2>1, <2>3, <2>4, <2>5, <2>6 DEF AreaNext
<1> QED BY <1>1, <1>2

\* Locks, flags, lists and the steps to do agree in every state.
THEOREM LocksInvHolds == Spec => []LocksInv
BY LocksInit, LocksStep, PTL DEF Spec

\* No lock is forgotten, in whichever way a method ended: the bytes an area has
\* locked are those its flags and its list tell, no byte is locked twice, and
\* who has the header locked will unlock it before it waits for it again.
THEOREM LocksAreKeptAlways == Spec => []LocksAreKept
<1>1. LocksInv => LocksAreKept
  <2> SUFFICES ASSUME LocksInv
               PROVE  LocksAreKept
    OBVIOUS
  <2>1. TypeOK /\ LocksAgree
    BY DEF LocksInv
  <2>2. HeaderIsGivenBack
    <3> SUFFICES ASSUME NEW a \in Areas, area[a].fHeaderLocked
                 PROVE  \E i \in DOMAIN todo[a] :
                            todo[a][i].op = "headUnlock" /\ \A j \in 1 .. i : todo[a][j].op # "headLock"
      BY DEF HeaderIsGivenBack
    <3>1. Unlocks(todo[a], 1) /\ todo[a] \in Seq(Steps)
      BY DEF LocksInv, TypeOK, StepsFit, Fits
    <3> QED BY <3>1 DEF Unlocks
  <2> QED BY <2>1, <2>2 DEF LocksAreKept
<1> QED BY <1>1, LocksInvHolds, PTL

-----------------------------------------------------------------------------
(* Changes are written before they lose their lock.                        *)

\* What Go passes over is not the write of changes.
LEMMA PassedWrites ==
    ASSUME NEW ar, NEW q \in Seq(Steps), NEW t, NEW n, Passed(ar, q, t, n), WritesFirst(ar, q)
    PROVE  WritesFirst(ar, t)
<1> SUFFICES ASSUME ar.fRecordChanged, NEW i \in DOMAIN t, t[i].op \in {"fileUnlock", "unlockRecord"}
             PROVE  Earlier(t, i, {"goCold"})
  BY DEF WritesFirst
<1>1. /\ Len(q) \in Nat /\ Len(t) \in Nat /\ DOMAIN q = 1 .. Len(q) /\ DOMAIN t = 1 .. Len(t)
      /\ n \in 1 .. Len(q) + 1 /\ Len(t) = Len(q) - n + 1
      /\ \A j \in 1 .. Len(t) : t[j] = q[n + j - 1]
      /\ \A j \in 1 .. n - 1 : NothingToDo(ar, q[j])
  BY DEF Passed
<1>2. n + i - 1 \in 1 .. Len(q) /\ t[i] = q[n + i - 1]
  BY <1>1
<1>3. PICK j \in 1 .. (n + i - 1) - 1 : q[j].op = "goCold"
  BY <1>1, <1>2 DEF WritesFirst, Earlier
<1>4. j \notin 1 .. n - 1
  BY <1>1, <1>3 DEF NothingToDo
<1>5. j - n + 1 \in 1 .. i - 1 /\ j - n + 1 \in 1 .. Len(t) /\ n + (j - n + 1) - 1 = j
  BY <1>1, <1>2, <1>3, <1>4
<1>6. t[j - n + 1] = q[j]
  BY <1>1, <1>5
<1> QED BY <1>3, <1>5, <1>6 DEF Earlier

\* An area goes on with steps that write first.
LEMMA WrittenKeeps ==
    ASSUME NEW a \in Areas, TypeOK, WrittenBeforeUnlock, NEW ar2, NEW q \in Seq(Steps), Go(a, ar2, q),
           failures' = 0 => failures = 0 /\ ~ar2.fAppend /\ WritesFirst(ar2, q)
    PROVE  WrittenBeforeUnlock'
<1> SUFFICES ASSUME failures' = 0
             PROVE  \A b \in Areas : ~area'[b].fAppend /\ WritesFirst(area'[b], todo'[b])
  BY DEF WrittenBeforeUnlock
<1>1. /\ area'[a] = ar2 /\ \A b \in Areas \ {a} : area'[b] = area[b] /\ todo'[b] = todo[b]
      /\ \E n \in Nat : Passed(ar2, q, todo'[a], n)
  BY GoProps DEF TypeOK
<1>2. ~ar2.fAppend /\ WritesFirst(ar2, todo'[a])
  BY <1>1, PassedWrites
<1>3. \A b \in Areas \ {a} : ~area[b].fAppend /\ WritesFirst(area[b], todo[b])
  BY DEF WrittenBeforeUnlock
<1> QED BY <1>1, <1>2, <1>3

\* The rest of the steps writes first, and so do those put before it.
LEMMA RestWrites ==
    ASSUME NEW ar, NEW ar2, NEW s \in Seq(Steps), NEW q \in Seq(Steps), NEW k, s # <<>>,
           Spliced(s, q, k, 2), WritesFirst(ar, s),
           ar2.fRecordChanged => (ar.fRecordChanged /\ s[1].op # "goCold") \/ q = <<>>,
           \A i \in 1 .. k : q[i].op \in {"fileUnlock", "unlockRecord"} => Earlier(q, i, {"goCold"})
    PROVE  WritesFirst(ar2, q)
<1> SUFFICES ASSUME ar2.fRecordChanged, NEW i \in DOMAIN q, q[i].op \in {"fileUnlock", "unlockRecord"}
             PROVE  Earlier(q, i, {"goCold"})
  BY DEF WritesFirst
<1>1. Len(q) \in Nat /\ k \in Nat /\ i \in 1 .. Len(q) /\ q # <<>>
  BY DEF Spliced
<1>2. CASE i \in 1 .. k
  BY <1>2
<1>3. CASE i \notin 1 .. k
  <2>1. Same(s, q, k, 2, i, i - k + 2 - 1)
    BY <1>1, <1>3 DEF Same
  <2> DEFINE o == i - k + 2 - 1
  <2> HIDE DEF o
  <2>2. Before(s, q, k, 2, i, o)
    BY <2>1, BeforeSplice DEF o
  <2>3. Earlier(s, o, {"goCold"})
    BY <1>1, <2>2 DEF WritesFirst, Before
  <2>4. ~Earlier(s, 2, {"goCold"})
    BY <1>1 DEF Earlier
  <2> QED BY <2>2, <2>3, <2>4 DEF Before
<1> QED BY <1>2, <1>3

-----------------------------------------------------------------------------
(* The header.                                                             *)

\* The records are counted before the header is written, n being their number.
CountsFirst(ar, q, n) ==
    \A i \in DOMAIN q : q[i].op = "headWrite" =>
        IF i = 1 THEN ar.ulRecCount = n ELSE q[i - 1].op = "headCount"

\* What Go passes over is neither the count nor the write of the header.
LEMMA PassedHeader ==
    ASSUME NEW a \in Areas, TypeOK, NEW ar2, NEW q \in Seq(Steps), Go(a, ar2, q),
           NEW n0, CountsFirst(ar2, q, n0)
    PROVE  /\ Doing(a, "headWrite")' => ar2.ulRecCount = n0
           /\ HeaderPending(ar2, q) => HeaderPending(ar2, todo'[a])
<1>1. todo' \in [Areas -> Seq(Steps)]
  BY GoProps DEF TypeOK
<1>2. PICK n \in Nat : Passed(ar2, q, todo'[a], n)
  BY GoProps DEF TypeOK
<1> DEFINE t == todo'[a]
<1> HIDE DEF t
<1>3. /\ Len(q) \in Nat /\ Len(t) \in Nat /\ DOMAIN q = 1 .. Len(q) /\ DOMAIN t = 1 .. Len(t)
      /\ n \in 1 .. Len(q) + 1 /\ Len(t) = Len(q) - n + 1
      /\ \A j \in 1 .. Len(t) : t[j] = q[n + j - 1]
      /\ \A j \in 1 .. n - 1 : NothingToDo(ar2, q[j])
  BY <1>1, <1>2 DEF Passed, t
<1>5. ASSUME Doing(a, "headWrite")'
      PROVE  ar2.ulRecCount = n0
  <2>1. t # <<>> /\ Head(t).op = "headWrite" /\ t \in Seq(Steps)
    BY <1>1, <1>5 DEF Doing, t
  <2>2. 1 \in 1 .. Len(t) /\ t[1].op = "headWrite"
    BY <2>1
  <2>3. q[n].op = "headWrite" /\ n \in DOMAIN q
    BY <1>3, <2>2
  <2>4. n = 1
    <3> SUFFICES ASSUME n # 1
                 PROVE  FALSE
      OBVIOUS
    <3>1. n - 1 \in 1 .. n - 1
      BY <1>3
    <3>2. q[n - 1].op = "headCount"
      BY <2>3 DEF CountsFirst
    <3> QED BY <1>3, <3>1, <3>2 DEF NothingToDo
  <2> QED BY <2>3, <2>4 DEF CountsFirst
<1>6. ASSUME HeaderPending(ar2, q)
      PROVE  HeaderPending(ar2, t)
  <2> SUFFICES ASSUME NEW i \in DOMAIN q, q[i].op = "headWrite"
               PROVE  \E j \in DOMAIN t : t[j].op = "headWrite"
    BY <1>6 DEF HeaderPending
  <2>1. i \notin 1 .. n - 1
    BY <1>3 DEF NothingToDo
  <2>2. i - n + 1 \in DOMAIN t /\ n + (i - n + 1) - 1 = i
    BY <1>3, <2>1
  <2> QED BY <1>3, <2>2
<1> QED BY <1>5, <1>6 DEF t

\* An area goes on, and neither the file nor the header is changed.
LEMMA HeaderKeeps ==
    ASSUME NEW a \in Areas, TypeOK, HeaderInv, NEW ar2, NEW q \in Seq(Steps), Go(a, ar2, q),
           UNCHANGED <<load, file, header>>, failures' = 0 => failures = 0, crashes' = 0 => crashes = 0,
           CountsFirst(ar2, q, Len(file)),
           failures' = 0 /\ crashes' = 0 /\ HeaderPending(area[a], todo[a]) => HeaderPending(ar2, q)
    PROVE  HeaderInv'
<1>1. area'[a] = ar2 /\ \A b \in Areas \ {a} : area'[b] = area[b] /\ todo'[b] = todo[b]
  BY GoProps DEF TypeOK
<1>4. Len(file) \in Nat
  BY LenProperties DEF TypeOK
<1>5. /\ Doing(a, "headWrite")' => ar2.ulRecCount = Len(file)
      /\ HeaderPending(ar2, q) => HeaderPending(ar2, todo'[a])
  BY PassedHeader
<1>7. ASSUME NEW b \in Areas, Doing(b, "headWrite")'
      PROVE  area'[b].ulRecCount <= Len(file) /\ (failures' = 0 => area'[b].ulRecCount = Len(file))
  <2>1. CASE b = a
    BY <1>1, <1>4, <1>5, <1>7, <2>1
  <2>2. CASE b # a
    <3>1. Doing(b, "headWrite")
      BY <1>1, <1>7, <2>2 DEF Doing
    <3> QED BY <1>1, <2>2, <3>1 DEF HeaderInv
  <2> QED BY <2>1, <2>2
<1>8. ASSUME failures' = 0, crashes' = 0, header # Len(file)
      PROVE  \E b \in Areas : HeaderPending(area'[b], todo'[b])
  <2>1. PICK b \in Areas : HeaderPending(area[b], todo[b])
    BY <1>8 DEF HeaderInv
  <2>2. CASE b = a
    BY <1>1, <1>5, <1>8, <2>1, <2>2
  <2>3. CASE b # a
    BY <1>1, <2>1, <2>3
  <2> QED BY <2>2, <2>3
<1>9. (\E b \in Areas : HeaderPending(area'[b], todo'[b])) => (\E b \in Areas : HeaderPending(area[b], todo[b]))'
  BY DEF HeaderPending
<1> QED BY <1>7, <1>8, <1>9 DEF HeaderInv

\* The records are counted before the rest writes the header.
LEMMA RestCounts ==
    ASSUME NEW ar, NEW ar2, NEW s \in Seq(Steps), NEW q \in Seq(Steps), NEW k, NEW n, s # <<>>,
           Spliced(s, q, k, 2), Fits(ar, s),
           s[1].op = "headCount" => k = 0 /\ ar2.ulRecCount = n,
           \A i \in 1 .. k : q[i].op = "headWrite" => i > 1 /\ q[i - 1].op = "headCount"
    PROVE  CountsFirst(ar2, q, n)
<1> SUFFICES ASSUME NEW i \in DOMAIN q, q[i].op = "headWrite"
             PROVE  IF i = 1 THEN ar2.ulRecCount = n ELSE q[i - 1].op = "headCount"
  BY DEF CountsFirst
<1>1. Len(q) \in Nat /\ k \in Nat /\ i \in 1 .. Len(q) /\ Len(s) \in Nat
  BY DEF Spliced
<1>2. CASE i \in 1 .. k
  BY <1>2
<1>3. CASE i \notin 1 .. k
  <2> DEFINE o == i - k + 2 - 1
  <2>1. Same(s, q, k, 2, i, o) /\ o \in Nat /\ o > 1
    BY <1>1, <1>3 DEF Same
  <2>2. i = k + 1 => o = 2
    BY <1>1
  <2> HIDE DEF o
  <2>3. Before(s, q, k, 2, i, o) /\ After(s, q, k, 2, i, o)
    BY <2>1, BeforeSplice, AfterSplice
  <2>4. s[o - 1].op = "headCount"
    BY <2>1, <2>3 DEF Before, Fits, StepFits, HeaderFits
  <2>5. CASE i > k + 1
    BY <1>1, <2>3, <2>4, <2>5 DEF After
  <2>6. CASE i = k + 1
    <3>1. s[2 - 1].op = "headCount"
      BY <2>2, <2>4, <2>6
    <3>2. 2 - 1 = 1
      OBVIOUS
    <3> QED BY <2>6, <3>1, <3>2
  <2> QED BY <1>1, <1>3, <2>5, <2>6
<1> QED BY <1>2, <1>3

\* The header that was to be written is among the rest.
LEMMA RestPending ==
    ASSUME NEW ar, NEW ar2, NEW s \in Seq(Steps), NEW q \in Seq(Steps), NEW k, s # <<>>,
           Spliced(s, q, k, 2), s[1].op # "headWrite", ar.fUpdateHeader => ar2.fUpdateHeader,
           HeaderPending(ar, s)
    PROVE  HeaderPending(ar2, q)
<1> SUFFICES ASSUME NEW o \in DOMAIN s, s[o].op = "headWrite"
             PROVE  \E i \in DOMAIN q : q[i].op = "headWrite"
  BY DEF HeaderPending
<1>1. Len(q) \in Nat /\ k \in Nat /\ Len(s) \in Nat /\ o \in 2 .. Len(s) /\ DOMAIN q = 1 .. Len(q)
      /\ Len(q) = k + Len(s) - 2 + 1
  BY DEF Spliced
<1>2. o + k - 1 \in k + 1 .. Len(q) /\ (o + k - 1) - k + 2 - 1 = o /\ o + k - 1 \in DOMAIN q
  BY SMTT(20), <1>1
<1>3. q[o + k - 1] = s[o]
  BY <1>2 DEF Spliced
<1> QED BY <1>2, <1>3

-----------------------------------------------------------------------------
(* The records: what an area knows of them, and the areas that add some.   *)

\* What Go passes over does not affect it.
LEMMA PassedData ==
    ASSUME NEW ar, NEW q \in Seq(Steps), NEW t, NEW m, Passed(ar, q, t, m), NEW f, NEW n, NEW late,
           BufferFits(ar, q, f), AppendFits(ar, q, n, late)
    PROVE  BufferFits(ar, t, f) /\ AppendFits(ar, t, n, late)
<1>1. /\ Len(q) \in Nat /\ Len(t) \in Nat /\ DOMAIN q = 1 .. Len(q) /\ DOMAIN t = 1 .. Len(t)
      /\ m \in 1 .. Len(q) + 1 /\ Len(t) = Len(q) - m + 1
      /\ \A j \in 1 .. Len(t) : t[j] = q[m + j - 1]
      /\ \A j \in 1 .. m - 1 : NothingToDo(ar, q[j])
  BY DEF Passed
<1>2. \A i \in DOMAIN t : m + i - 1 \in DOMAIN q /\ t[i] = q[m + i - 1]
  BY <1>1
<1>3. BufferFits(ar, t, f)
  BY <1>2 DEF BufferFits
<1>4. AppendFits(ar, t, n, late)
  <2> SUFFICES ASSUME NEW i \in DOMAIN t, Adds(t, i)
               PROVE  /\ ar.fHeaderLocked /\ ~ar.fRecordChanged
                      /\ IF i = 1 THEN ar.ulRecCount = n /\ Holds(ar, n + 1)
                         ELSE /\ t[i - 1].op = "rawLock" /\ t[i - 1].rec = ar.ulRecCount + 1 /\ ~t[i - 1].try
                              /\ OnlyBefore(t, i - 1, {"unlockRecords", "goCold", "unlockRecord"})
                              /\ ar.ulRecCount = n \/ late
    BY DEF AppendFits
  <2> DEFINE o == m + i - 1
  <2>1. o \in DOMAIN q /\ t[i] = q[o] /\ (i = 1 => o = m) /\ o \in Nat /\ m \in Nat /\ i \in Nat
    BY <1>1
  <2>2. \A j \in 1 .. o - 1 : j \in 1 .. m - 1 \/ (j - m + 1 \in 1 .. i - 1 /\ t[j - m + 1] = q[j])
    <3> TAKE j \in 1 .. o - 1
    <3>1. CASE j < m
      BY <1>1, <2>1, <3>1
    <3>2. CASE ~(j < m)
      <4>1. j - m + 1 \in 1 .. i - 1 /\ j - m + 1 \in 1 .. Len(t) /\ m + (j - m + 1) - 1 = j
        BY <1>1, <3>2
      <4> QED BY <1>1, <4>1
    <3> QED BY <3>1, <3>2
  <2>3. /\ o # 1 => /\ i # 1 => o - 1 \in 1 .. Len(q) /\ i - 1 \in 1 .. Len(t) /\ t[i - 1] = q[o - 1]
                    /\ i = 1 => o - 1 \in 1 .. m - 1
        /\ o = 1 => i = 1
    <3>1. i # 1 => /\ o - 1 \in 1 .. Len(q) /\ i - 1 \in 1 .. Len(t) /\ m + (i - 1) - 1 = o - 1
      BY <1>1
    <3>2. o # 1 /\ i = 1 => o - 1 \in 1 .. m - 1
      BY <1>1
    <3>3. i # 1 => t[i - 1] = q[o - 1]
      BY <1>1, <3>1
    <3> QED BY <1>1, <3>1, <3>2, <3>3
  <2> HIDE DEF o
  <2>4. ~Earlier(q, o, {"append"})
    <3> SUFFICES ASSUME NEW j \in 1 .. o - 1, q[j].op = "append"
                 PROVE  FALSE
      BY DEF Earlier
    <3>1. j \notin 1 .. m - 1
      BY <1>1 DEF NothingToDo
    <3> QED BY <2>2, <3>1 DEF Adds, Earlier
  <2>5. Adds(q, o)
    BY <2>1, <2>4 DEF Adds
  <2>6. /\ ar.fHeaderLocked /\ ~ar.fRecordChanged
        /\ IF o = 1 THEN ar.ulRecCount = n /\ Holds(ar, n + 1)
           ELSE /\ q[o - 1].op = "rawLock" /\ q[o - 1].rec = ar.ulRecCount + 1 /\ ~q[o - 1].try
                /\ OnlyBefore(q, o - 1, {"unlockRecords", "goCold", "unlockRecord"})
                /\ ar.ulRecCount = n \/ late
    BY <2>1, <2>5 DEF AppendFits
  <2>7. CASE o = 1
    BY <2>3, <2>6, <2>7
  <2>8. CASE o # 1
    <3>1. i # 1
      <4> SUFFICES ASSUME i = 1
                   PROVE  FALSE
        OBVIOUS
      <4>1. NothingToDo(ar, q[o - 1]) /\ q[o - 1].op = "rawLock"
        BY <1>1, <2>3, <2>6, <2>8
      <4> QED BY <4>1 DEF NothingToDo
    <3>2. t[i - 1] = q[o - 1]
      BY <2>3, <2>8, <3>1
    <3>3. OnlyBefore(t, i - 1, {"unlockRecords", "goCold", "unlockRecord"})
      <4> SUFFICES ASSUME NEW j \in 1 .. (i - 1) - 1
                   PROVE  t[j].op \in {"unlockRecords", "goCold", "unlockRecord"}
        BY DEF OnlyBefore
      <4>1. j \in 1 .. Len(t) /\ m + j - 1 \in 1 .. (o - 1) - 1
        BY <1>1, <2>1 DEF o
      <4> QED BY <1>1, <2>6, <2>8, <4>1 DEF OnlyBefore
    <3> QED BY <2>6, <2>8, <3>1, <3>2, <3>3
  <2> QED BY <2>7, <2>8
<1> QED BY <1>3, <1>4

\* What is known of an area that becomes ar and goes on with q.
AreaFits(a, ar, q) ==
    /\ InFile(ar) /\ BufferFits(ar, q, file)
    /\ AppendFits(ar, q, Len(file), Late(a, ar.ulRecCount + 1))

\* The wait for the header of an area that added a record late goes on.
LEMMA LateStays ==
    ASSUME NEW a \in Areas, NEW b \in Areas, failures > 0 => failures' > 0,
           \A c \in Areas \ {a} : area'[c] = area[c] /\ todo'[c] = todo[c],
           b # a => ~(failures > 0 /\ Doing(a, "headLock")), NEW r, Late(b, r)
    PROVE  Late(b, r)'
BY DEF Late, Doing

\* An area goes on, and the file is not changed.
LEMMA DataKeeps ==
    ASSUME NEW a \in Areas, TypeOK, DataInv, NEW ar2, NEW q \in Seq(Steps), Go(a, ar2, q),
           UNCHANGED <<load, file, ledger, appended>>, failures > 0 => failures' > 0,
           ~unsafe' => /\ ~unsafe /\ AreaFits(a, ar2, q)
                       /\ failures > 0 /\ Doing(a, "headLock") =>
                             \A b \in Areas \ {a} : ~area[b].fHeaderLocked
    PROVE  DataInv'
<1> SUFFICES ASSUME ~unsafe'
             PROVE  /\ file' = ledger' /\ Len(file') = load'.records + appended'
                    /\ \A b \in Areas :
                          /\ InFile(area[b])'
                          /\ BufferFits(area'[b], todo'[b], file')
                          /\ AppendFits(area'[b], todo'[b], Len(file'), Late(b, area[b].ulRecCount + 1)')
  BY DEF DataInv
<1>1. /\ area'[a] = ar2 /\ \A b \in Areas \ {a} : area'[b] = area[b] /\ todo'[b] = todo[b]
      /\ \E n \in Nat : Passed(ar2, q, todo'[a], n)
  BY GoProps DEF TypeOK
<1>2. /\ file = ledger /\ Len(file) = load.records + appended
      /\ \A b \in Areas : /\ InFile(area[b]) /\ BufferFits(area[b], todo[b], file)
                          /\ AppendFits(area[b], todo[b], Len(file), Late(b, area[b].ulRecCount + 1))
  BY DEF DataInv
<1>3. FileBytes' = FileBytes /\ \A r : RecByte(r)' = RecByte(r)
  BY PlacesKept
<1>4. \A b \in Areas \ {a} : InFile(area[b])' /\ BufferFits(area'[b], todo'[b], file')
  BY <1>1, <1>2, <1>3 DEF InFile
<1>5. ASSUME NEW b \in Areas \ {a}
      PROVE  AppendFits(area'[b], todo'[b], Len(file'), Late(b, area[b].ulRecCount + 1)')
  <2>1. AppendFits(area[b], todo[b], Len(file), Late(b, area[b].ulRecCount + 1))
    BY <1>2
  <2>2. area'[b] = area[b] /\ todo'[b] = todo[b] /\ Len(file') = Len(file)
    BY <1>1
  <2>3. area[b].fHeaderLocked /\ Late(b, area[b].ulRecCount + 1) => Late(b, area[b].ulRecCount + 1)'
    <3> SUFFICES ASSUME area[b].fHeaderLocked, Late(b, area[b].ulRecCount + 1)
                 PROVE  Late(b, area[b].ulRecCount + 1)'
      OBVIOUS
    <3>1. ~(failures > 0 /\ Doing(a, "headLock"))
      OBVIOUS
    <3> DEFINE r == area[b].ulRecCount + 1
    <3>2. r' = r
      BY <2>2
    <3> HIDE DEF r
    <3>3. Late(b, r)
      BY DEF r
    <3> QED BY <1>1, <2>2, <3>1, <3>2, <3>3, LateStays DEF r, Late
  <2> QED BY <2>1, <2>2, <2>3 DEF AppendFits
<1>6. /\ InFile(area[a])' /\ BufferFits(area'[a], todo'[a], file')
      /\ AppendFits(area'[a], todo'[a], Len(file'), Late(a, area[a].ulRecCount + 1)')
  <2>1. InFile(area[a])'
    BY <1>1, <1>3 DEF AreaFits, InFile
  <2>2. BufferFits(ar2, todo'[a], file) /\ AppendFits(ar2, todo'[a], Len(file), Late(a, ar2.ulRecCount + 1))
    BY <1>1, PassedData DEF AreaFits
  <2>3. Late(a, ar2.ulRecCount + 1) => Late(a, area[a].ulRecCount + 1)'
    BY <1>1 DEF Late, Doing
  <2> QED BY <1>1, <2>1, <2>2, <2>3 DEF AppendFits
<1> QED BY <1>2, <1>4, <1>5, <1>6

\* No step adds a record.
NoAdds(q) == \A i \in DOMAIN q : ~Adds(q, i)

\* The steps of q that are not new are steps of s.
LEMMA RestOf ==
    ASSUME NEW s \in Seq(Steps), NEW q \in Seq(Steps), NEW k, Spliced(s, q, k, 2), NEW i \in DOMAIN q, i \notin 1 .. k
    PROVE  \E o \in DOMAIN s : /\ o = i - k + 1 /\ o > 1 /\ Before(s, q, k, 2, i, o) /\ After(s, q, k, 2, i, o)
                               /\ i \in k + 1 .. Len(q)
<1>1. Len(q) \in Nat /\ k \in Nat /\ i \in 1 .. Len(q) /\ Len(s) \in Nat
  BY DEF Spliced
<1> DEFINE o == i - k + 1
<1>2. i - k + 2 - 1 = o /\ i \in k + 1 .. Len(q) /\ o > 1
  BY <1>1
<1>3. Same(s, q, k, 2, i, o)
  BY <1>2 DEF Same
<1> HIDE DEF o
<1>4. Before(s, q, k, 2, i, o) /\ After(s, q, k, 2, i, o)
  BY <1>3, BeforeSplice, AfterSplice
<1>5. o \in DOMAIN s
  BY <1>4 DEF Before
<1> QED BY <1>2, <1>4, <1>5 DEF o

\* A record that the rest adds, the method was to add before.
LEMMA RestAdding ==
    ASSUME NEW s \in Seq(Steps), NEW q \in Seq(Steps), NEW k, s # <<>>, Spliced(s, q, k, 2),
           s[1].op # "append", NEW i \in DOMAIN q, i \notin 1 .. k, Adds(q, i)
    PROVE  \E o \in DOMAIN s : /\ o = i - k + 1 /\ o > 1 /\ Before(s, q, k, 2, i, o) /\ After(s, q, k, 2, i, o)
                               /\ i \in k + 1 .. Len(q) /\ Adds(s, o)
<1>1. PICK o \in DOMAIN s : /\ o = i - k + 1 /\ o > 1 /\ Before(s, q, k, 2, i, o) /\ After(s, q, k, 2, i, o)
                            /\ i \in k + 1 .. Len(q)
  BY RestOf
<1>2. ~Earlier(s, 2, {"append"})
  BY DEF Earlier
<1>3. q[i] = s[o] /\ (Earlier(s, o, {"append"}) => Earlier(q, i, {"append"}))
  BY <1>1, <1>2 DEF Before
<1>4. Adds(s, o)
  BY <1>3 DEF Adds
<1> QED BY <1>1, <1>4

\* Steps that may come before a record is added, and those that may not.
LEMMA RestAddsNone ==
    ASSUME NEW ar, NEW s \in Seq(Steps), NEW q \in Seq(Steps), NEW k, s # <<>>, Spliced(s, q, k, 2),
           Fits(ar, s), NEW n, NEW late, AppendFits(ar, s, n, late),
           \A i \in 1 .. k : q[i].op # "blank", s[1].op # "append",
           ar.fRecordChanged \/ s[1].op \notin {"unlockRecords", "goCold", "unlockRecord", "rawLock"}
    PROVE  NoAdds(q)
<1> SUFFICES ASSUME NEW i \in DOMAIN q, Adds(q, i)
             PROVE  FALSE
  BY DEF NoAdds
<1>1. i \notin 1 .. k
  BY DEF Adds
<1>2. PICK o \in DOMAIN s : o > 1 /\ Adds(s, o)
  BY <1>1, RestAdding
<1>3. /\ o # 1 /\ ~ar.fRecordChanged /\ s[o - 1].op = "rawLock"
      /\ OnlyBefore(s, o - 1, {"unlockRecords", "goCold", "unlockRecord"})
  BY <1>2 DEF AppendFits
<1>4. o = 2 \/ 1 \in 1 .. (o - 1) - 1
  BY <1>2
<1>5. CASE o = 2
  <2>1. o - 1 = 1
    BY <1>5
  <2> QED BY <1>3, <2>1
<1>6. CASE 1 \in 1 .. (o - 1) - 1
  BY <1>3, <1>6 DEF OnlyBefore
<1> QED BY <1>4, <1>5, <1>6

\* Records are unlocked before one is added.
LEMMA RestAdds ==
    ASSUME NEW ar, NEW ar2, NEW s \in Seq(Steps), NEW q \in Seq(Steps), NEW k, s # <<>>, Spliced(s, q, k, 2),
           NEW n, NEW late, AppendFits(ar, s, n, late), s[1].op \in {"unlockRecords", "unlockRecord"},
           \A i \in 1 .. k : q[i].op \in {"goCold", "unlockRecord"},
           ar2.fHeaderLocked = ar.fHeaderLocked, ar2.fRecordChanged = ar.fRecordChanged,
           ar2.ulRecCount = ar.ulRecCount
    PROVE  AppendFits(ar2, q, n, late)
<1> SUFFICES ASSUME NEW i \in DOMAIN q, Adds(q, i)
             PROVE  /\ ar.fHeaderLocked /\ ~ar.fRecordChanged /\ i # 1
                    /\ q[i - 1].op = "rawLock" /\ q[i - 1].rec = ar.ulRecCount + 1 /\ ~q[i - 1].try
                    /\ OnlyBefore(q, i - 1, {"unlockRecords", "goCold", "unlockRecord"})
                    /\ ar.ulRecCount = n \/ late
  BY DEF AppendFits
<1>1. i \notin 1 .. k
  BY DEF Adds
<1>2. PICK o \in DOMAIN s : /\ o = i - k + 1 /\ o > 1 /\ Before(s, q, k, 2, i, o) /\ After(s, q, k, 2, i, o)
                            /\ i \in k + 1 .. Len(q) /\ Adds(s, o)
  BY <1>1, RestAdding
<1>3. /\ ar.fHeaderLocked /\ ~ar.fRecordChanged
      /\ s[o - 1].op = "rawLock" /\ s[o - 1].rec = ar.ulRecCount + 1 /\ ~s[o - 1].try
      /\ OnlyBefore(s, o - 1, {"unlockRecords", "goCold", "unlockRecord"})
      /\ ar.ulRecCount = n \/ late
  BY <1>2 DEF AppendFits
<1>4. k \in Nat /\ Len(q) \in Nat /\ Len(s) \in Nat /\ o \in 1 .. Len(s) /\ DOMAIN q = 1 .. Len(q)
  BY DEF Spliced
<1>5. i > k + 1
  <2> SUFFICES ASSUME o = 2
               PROVE  FALSE
    BY <1>2, <1>4
  <2>1. o - 1 = 1
    OBVIOUS
  <2> QED BY <1>3, <2>1
<1>6. i # 1 /\ q[i - 1] = s[o - 1]
  BY <1>2, <1>4, <1>5 DEF After
<1>7. OnlyBefore(q, i - 1, {"unlockRecords", "goCold", "unlockRecord"})
  <2>0. o = i - k + 1 /\ i \in k + 1 .. Len(q) /\ k \in Nat /\ Len(q) \in Nat
    BY <1>2, <1>4
  <2>1. i - 1 \in DOMAIN q /\ i - 1 \notin 1 .. k /\ (i - 1) - k + 1 = o - 1
    <3>1. i \in Nat /\ i - 1 \in 1 .. Len(q) /\ ~(i - 1 <= k)
      BY <1>5, <2>0
    <3>2. (i - 1) - k + 1 = (i - k + 1) - 1
      BY <2>0, <3>1
    <3>3. i - 1 \in DOMAIN q
      BY <1>4, <3>1
    <3>4. i - 1 \notin 1 .. k
      BY <2>0, <3>1
    <3> QED BY <2>0, <3>2, <3>3, <3>4
  <2>2. Before(s, q, k, 2, i - 1, o - 1)
    BY <2>1, RestOf
  <2>3. OnlyBefore(q, k + 1, {"unlockRecords", "goCold", "unlockRecord"})
    <3>1. (k + 1) - 1 = k
      BY <1>4
    <3> QED BY <3>1 DEF OnlyBefore
  <2> QED BY <1>3, <2>2, <2>3 DEF Before
<1> QED BY <1>3, <1>6, <1>7

\* No new step writes the header, and the others are those it had.
LEMMA RestWritesNoHeader ==
    ASSUME NEW s \in Seq(Steps), NEW q \in Seq(Steps), NEW k, Spliced(s, q, k, 2),
           \A i \in DOMAIN s : s[i].op # "headWrite", \A i \in 1 .. k : q[i].op # "headWrite"
    PROVE  \A i \in DOMAIN q : q[i].op # "headWrite"
<1> SUFFICES ASSUME NEW i \in DOMAIN q, i \notin 1 .. k
             PROVE  q[i].op # "headWrite"
  OBVIOUS
<1>1. \E o \in DOMAIN s : q[i] = s[o]
  BY RestOf DEF Before
<1> QED BY <1>1

\* An area goes on, and nothing but itself is changed.
LEMMA QuietInv ==
    ASSUME NEW a \in Areas, Inv, LocksInv', NEW ar2, NEW q \in Seq(Steps), Go(a, ar2, q),
           UNCHANGED <<load, file, header, ledger, appended>>,
           failures' \in {failures, failures + 1}, crashes' \in {crashes, crashes + 1},
           failures' = failures => (~ar2.fAppend /\ WritesFirst(ar2, q)) \/ failures > 0,
           CountsFirst(ar2, q, Len(file)),
           failures' = failures /\ crashes' = crashes /\ HeaderPending(area[a], todo[a]) => HeaderPending(ar2, q),
           ~unsafe' => /\ ~unsafe /\ AreaFits(a, ar2, q)
                       /\ failures > 0 /\ Doing(a, "headLock") =>
                             \A b \in Areas \ {a} : ~area[b].fHeaderLocked
    PROVE  Inv'
<1>1. TypeOK /\ failures \in Nat /\ crashes \in Nat /\ WrittenBeforeUnlock /\ HeaderInv /\ DataInv
  BY DEF Inv, LocksInv, TypeOK
<1>2. /\ failures' = 0 => failures = 0 /\ failures' = failures
      /\ crashes' = 0 => crashes = 0 /\ crashes' = crashes
      /\ failures > 0 => failures' > 0
  BY <1>1
<1>3. WrittenBeforeUnlock'
  <2>1. failures' = 0 => failures = 0 /\ ~ar2.fAppend /\ WritesFirst(ar2, q)
    BY <1>1, <1>2
  <2> QED BY <1>1, <2>1, WrittenKeeps
<1>4. HeaderInv'
  BY <1>1, <1>2, HeaderKeeps
<1>5. DataInv'
  BY <1>1, <1>2, DataKeeps
<1> QED BY <1>3, <1>4, <1>5 DEF Inv

\* A step is done that changes nothing but its area: what it puts before the
\* rest, and what becomes of the area, is k steps and ar2.
LEMMA RestInv ==
    ASSUME NEW a \in Areas, Inv, LocksInv', todo[a] # <<>>, NEW ar2, NEW q \in Seq(Steps), NEW k,
           Go(a, ar2, q), Spliced(todo[a], q, k, 2),
           UNCHANGED <<load, file, header, ledger, appended, failures, crashes>>,
           ar2.fUpdateHeader = area[a].fUpdateHeader, ar2.fAppend => area[a].fAppend,
           ar2.fRecordChanged => (area[a].fRecordChanged /\ todo[a][1].op # "goCold") \/ q = <<>>,
           todo[a][1].op # "headWrite",
           todo[a][1].op = "headCount" => k = 0 /\ ar2.ulRecCount = Len(file),
           \A i \in 1 .. k : /\ q[i].op \in {"fileUnlock", "unlockRecord"} => Earlier(q, i, {"goCold"})
                             /\ q[i].op = "headWrite" => i > 1 /\ q[i - 1].op = "headCount",
           ~unsafe' => /\ ~unsafe /\ AreaFits(a, ar2, q)
                       /\ Doing(a, "headLock") => \A b \in Areas \ {a} : ~area[b].fHeaderLocked
    PROVE  Inv'
<1>1. /\ LocksInv /\ WrittenBeforeUnlock /\ TypeOK /\ failures \in Nat /\ crashes \in Nat
      /\ Fits(area[a], todo[a]) /\ todo[a] \in Seq(Steps)
  BY AtStep DEF Inv, TypeOK
<1>2. failures = 0 => ~ar2.fAppend /\ WritesFirst(ar2, q)
  <2> SUFFICES ASSUME failures = 0
               PROVE  ~ar2.fAppend /\ WritesFirst(ar2, q)
    OBVIOUS
  <2>1. ~area[a].fAppend /\ WritesFirst(area[a], todo[a])
    BY <1>1 DEF WrittenBeforeUnlock
  <2> QED BY <1>1, <2>1, RestWrites
<1>3. CountsFirst(ar2, q, Len(file))
  BY <1>1, RestCounts
<1>4. HeaderPending(area[a], todo[a]) => HeaderPending(ar2, q)
  BY <1>1, RestPending
<1>5. failures > 0 \/ failures = 0
  BY <1>1
<1> QED BY <1>1, <1>2, <1>3, <1>4, <1>5, QuietInv

-----------------------------------------------------------------------------
(* Steps that change neither the file nor its header.                      *)

\* What the area knows of its record stays.
SameBuffer(ar, ar2) ==
    /\ ar2.pRecord = ar.pRecord /\ ar2.ulRecNo = ar.ulRecNo /\ ar2.edits = ar.edits
    /\ ar2.fRecordChanged = ar.fRecordChanged /\ ar2.fPositioned = ar.fPositioned
    /\ ar2.fValidBuffer = ar.fValidBuffer /\ ar2.fAppend = ar.fAppend
    /\ ar2.fUpdateHeader = ar.fUpdateHeader

SameRecords(ar, ar2) == ar2.fFLocked = ar.fFLocked /\ ar2.pLocksPos = ar.pLocksPos

\* It knows what it knew.
LEMMA BufferKept ==
    ASSUME NEW ar, NEW ar2, NEW s, NEW q, NEW f, BufferFits(ar, s, f),
           SameBuffer(ar, ar2), SameRecords(ar, ar2),
           ar.fRecordChanged /\ (\A i \in DOMAIN s : s[i].op # "headWrite") =>
               \A i \in DOMAIN q : q[i].op # "headWrite"
    PROVE  BufferFits(ar2, q, f)
BY DEF BufferFits, SameBuffer, SameRecords, Holds, IsLocked

\* What is known of each area.
LEMMA Known ==
    ASSUME NEW a \in Areas, Inv, ~unsafe
    PROVE  AreaFits(a, area[a], todo[a])
BY DEF Inv, DataInv, AreaFits

\* A step that leaves the buffer and the records as they are.
LEMMA KeptFits ==
    ASSUME NEW a \in Areas, Inv, ~unsafe, todo[a] # <<>>, NEW ar2, NEW q \in Seq(Steps), NEW k,
           Spliced(todo[a], q, k, 2), SameBuffer(area[a], ar2), SameRecords(area[a], ar2),
           \A i \in 1 .. k : q[i].op # "blank",
           area[a].fRecordChanged => \A i \in 1 .. k : q[i].op # "headWrite",
           todo[a][1].op # "append",
           area[a].fRecordChanged \/ todo[a][1].op \notin {"unlockRecords", "goCold", "unlockRecord", "rawLock"}
    PROVE  AreaFits(a, ar2, q)
<1> DEFINE ar == area[a]
           s == todo[a]
<1>1. /\ InFile(ar) /\ BufferFits(ar, s, file) /\ AppendFits(ar, s, Len(file), Late(a, ar.ulRecCount + 1))
  BY Known DEF AreaFits
<1>2. s \in Seq(Steps) /\ Fits(ar, s)
  BY AtStep DEF Inv
<1>3. InFile(ar2)
  BY <1>1 DEF InFile, SameRecords
<1>4. BufferFits(ar2, q, file)
  <2>1. ar.fRecordChanged /\ (\A i \in DOMAIN s : s[i].op # "headWrite") => \A i \in DOMAIN q : q[i].op # "headWrite"
    BY <1>2, RestWritesNoHeader
  <2> QED BY <1>1, <2>1, BufferKept
<1>5. NoAdds(q)
  BY <1>1, <1>2, RestAddsNone
<1> QED BY <1>3, <1>4, <1>5 DEF AreaFits, AppendFits, NoAdds

\* The rest of what an area has to do.
LEMMA RestIs ==
    ASSUME NEW a \in Areas, LocksInv, todo[a] # <<>>
    PROVE  /\ Rest(a) \in Seq(Steps) /\ Spliced(todo[a], Rest(a), 0, 2)
           /\ Head(todo[a]) = todo[a][1] /\ todo[a] \in Seq(Steps)
           /\ area[a] \in AreaStates /\ StateFits(area[a]) /\ StepFits(area[a], todo[a], 1)
BY AtStep, RestSplice DEF Rest

\* A step that only leaves the rest, and the buffer and the records as they are.
LEMMA DoneKept ==
    ASSUME NEW a \in Areas, Inv, ~unsafe, todo[a] # <<>>, NEW ar2,
           SameBuffer(area[a], ar2), SameRecords(area[a], ar2),
           Head(todo[a]).op \notin {"append", "unlockRecords", "goCold", "unlockRecord", "rawLock"}
    PROVE  AreaFits(a, ar2, Rest(a))
<1>1. /\ Rest(a) \in Seq(Steps) /\ Spliced(todo[a], Rest(a), 0, 2) /\ Head(todo[a]) = todo[a][1]
  BY RestIs DEF Inv
<1>2. \A i \in 1 .. 0 : FALSE
  OBVIOUS
<1> DEFINE q == Rest(a)
<1> HIDE DEF q
<1>3. /\ q \in Seq(Steps) /\ Spliced(todo[a], q, 0, 2)
      /\ todo[a][1].op # "append"
      /\ todo[a][1].op \notin {"unlockRecords", "goCold", "unlockRecord", "rawLock"}
  BY <1>1 DEF q
<1>4. AreaFits(a, ar2, q)
  BY <1>2, <1>3, KeptFits
<1> QED BY <1>4 DEF q

\* A step is done that changes nothing but its area.
LEMMA DoneInv ==
    ASSUME NEW a \in Areas, Inv, LocksInv', todo[a] # <<>>, NEW ar2, Done(a, ar2),
           UNCHANGED <<load, file, header, ledger, appended, failures, crashes>>,
           ar2.fUpdateHeader = area[a].fUpdateHeader, ar2.fAppend => area[a].fAppend,
           ar2.fRecordChanged => area[a].fRecordChanged \/ Rest(a) = <<>>,
           Head(todo[a]).op \notin {"goCold", "headWrite"},
           Head(todo[a]).op = "headCount" => ar2.ulRecCount = Len(file),
           ~unsafe' => /\ ~unsafe /\ AreaFits(a, ar2, Rest(a))
                       /\ Doing(a, "headLock") => \A b \in Areas \ {a} : ~area[b].fHeaderLocked
    PROVE  Inv'
<1>1. /\ Rest(a) \in Seq(Steps) /\ Spliced(todo[a], Rest(a), 0, 2) /\ Head(todo[a]) = todo[a][1]
  BY RestIs DEF Inv
<1>2. \A i \in 1 .. 0 : FALSE
  OBVIOUS
<1>3. Go(a, ar2, Rest(a))
  BY DEF Done
<1> DEFINE q == Rest(a)
<1> HIDE DEF q
<1>4. /\ q \in Seq(Steps) /\ Spliced(todo[a], q, 0, 2) /\ Go(a, ar2, q)
      /\ todo[a][1].op # "headWrite" /\ todo[a][1].op # "goCold"
      /\ todo[a][1].op = "headCount" => ar2.ulRecCount = Len(file)
      /\ ar2.fRecordChanged => area[a].fRecordChanged \/ q = <<>>
      /\ ~unsafe' => /\ ~unsafe /\ AreaFits(a, ar2, q)
                     /\ Doing(a, "headLock") => \A b \in Areas \ {a} : ~area[b].fHeaderLocked
  BY <1>1, <1>3 DEF q
<1> QED BY <1>2, <1>4, RestInv

\* HeadLock
LEMMA HeadLockInv ==
    ASSUME NEW a \in Areas, Inv, LocksInv', HeadLock(a), load' = load
    PROVE  Inv'
<1> DEFINE ar == area[a]
           ar2 == [ar EXCEPT !.fHeaderLocked = TRUE]
<1>1. /\ LocksInv /\ TypeOK /\ LocksAgree /\ todo[a] # <<>> /\ Head(todo[a]).op = "headLock" /\ Done(a, ar2)
      /\ UNCHANGED <<load, file, header, ledger, appended, failures, crashes, unsafe>> /\ Free({HeadByte})
  BY DEF HeadLock, Doing, Inv, LocksInv, history
<1>2. /\ Rest(a) \in Seq(Steps) /\ Spliced(todo[a], Rest(a), 0, 2) /\ todo[a][1].op = "headLock" /\ ar \in AreaStates
  BY <1>1, RestIs
<1>3. SameBuffer(ar, ar2) /\ SameRecords(ar, ar2)
  BY <1>2 DEF AreaStates, SameBuffer, SameRecords
<1> HIDE DEF ar2
<1>5. \A b \in Areas : ~area[b].fHeaderLocked
  BY <1>1 DEF Free, LocksAgree, BytesOf
<1>6. ~unsafe' => ~unsafe /\ AreaFits(a, ar2, Rest(a))
  BY <1>1, <1>2, <1>3, DoneKept
<1> QED BY <1>1, <1>2, <1>3, <1>5, <1>6, DoneInv DEF SameBuffer

\* HeadUnlock
LEMMA HeadUnlockInv ==
    ASSUME NEW a \in Areas, Inv, LocksInv', HeadUnlock(a), load' = load
    PROVE  Inv'
<1> DEFINE ar == area[a]
           ar2 == [ar EXCEPT !.fHeaderLocked = FALSE]
<1>1. /\ LocksInv /\ todo[a] # <<>> /\ Head(todo[a]).op = "headUnlock" /\ Done(a, ar2)
      /\ UNCHANGED <<load, file, header, ledger, appended, failures, crashes, unsafe>>
  BY DEF HeadUnlock, Doing, Inv, history
<1>2. /\ Rest(a) \in Seq(Steps) /\ Spliced(todo[a], Rest(a), 0, 2) /\ todo[a][1].op = "headUnlock" /\ ar \in AreaStates
  BY <1>1, RestIs
<1>3. SameBuffer(ar, ar2) /\ SameRecords(ar, ar2)
  BY <1>2 DEF AreaStates, SameBuffer, SameRecords
<1> HIDE DEF ar2
<1>4. ~Doing(a, "headLock")
  BY <1>1 DEF Doing
<1>5. ~unsafe' => ~unsafe /\ AreaFits(a, ar2, Rest(a))
  BY <1>1, <1>2, <1>3, DoneKept
<1> QED BY <1>1, <1>2, <1>3, <1>4, <1>5, DoneInv DEF SameBuffer

\* HeadCount
LEMMA HeadCountInv ==
    ASSUME NEW a \in Areas, Inv, LocksInv', HeadCount(a), load' = load
    PROVE  Inv'
<1> DEFINE ar == area[a]
           ar2 == [ar EXCEPT !.ulRecCount = CalcRecCount]
<1>1. /\ LocksInv /\ todo[a] # <<>> /\ Head(todo[a]).op = "headCount" /\ Done(a, ar2)
      /\ UNCHANGED <<load, file, header, ledger, appended, failures, crashes, unsafe>>
  BY DEF HeadCount, Doing, Inv, history
<1>2. /\ Rest(a) \in Seq(Steps) /\ Spliced(todo[a], Rest(a), 0, 2) /\ todo[a][1].op = "headCount" /\ ar \in AreaStates
  BY <1>1, RestIs
<1>3. SameBuffer(ar, ar2) /\ SameRecords(ar, ar2) /\ ar2.ulRecCount = Len(file)
  BY <1>2 DEF AreaStates, SameBuffer, SameRecords, CalcRecCount
<1> HIDE DEF ar2
<1>4. ~Doing(a, "headLock")
  BY <1>1 DEF Doing
<1>5. ~unsafe' => ~unsafe /\ AreaFits(a, ar2, Rest(a))
  BY <1>1, <1>2, <1>3, DoneKept
<1> QED BY <1>1, <1>2, <1>3, <1>4, <1>5, DoneInv DEF SameBuffer

\* What SELF_WRITEDBHEADER() puts before the rest.
HeaderFirst(q, k) ==
    /\ k \in Nat
    /\ \A i \in 1 .. k : /\ q[i].op \in {"headLock", "headCount", "headWrite", "headUnlock"}
                         /\ q[i].op = "headWrite" => i > 1 /\ q[i - 1].op = "headCount"
    /\ \E i \in 1 .. k : i \in DOMAIN q /\ q[i].op = "headWrite"

\* It writes the header after the records are counted.
LEMMA HeaderFirstIs ==
    ASSUME NEW q \in Seq(Steps), NEW k, k \in 1 .. Len(q),
           \/ k = 2 /\ q[1].op = "headCount" /\ q[2].op = "headWrite"
           \/ /\ k = 4 /\ q[1].op = "headLock" /\ q[2].op = "headCount"
              /\ q[3].op = "headWrite" /\ q[4].op = "headUnlock"
    PROVE  HeaderFirst(q, k)
<1>1. k \in Nat /\ 1 .. k \subseteq DOMAIN q
  BY LenProperties
<1>2. CASE k = 2 /\ q[1].op = "headCount" /\ q[2].op = "headWrite"
  <2>1. \A i \in 1 .. k : i = 1 \/ (i = 2 /\ i > 1 /\ i - 1 = 1)
    BY <1>2
  <2>2. \E i \in 1 .. k : i \in DOMAIN q /\ q[i].op = "headWrite"
    BY <1>1, <1>2
  <2>3. \A i \in 1 .. k : q[i].op \in {"headLock", "headCount", "headWrite", "headUnlock"}
    BY <1>2, <2>1
  <2>4. \A i \in 1 .. k : q[i].op = "headWrite" => i > 1 /\ q[i - 1].op = "headCount"
    BY <1>2, <2>1
  <2> QED BY <1>1, <2>2, <2>3, <2>4 DEF HeaderFirst
<1>3. CASE /\ k = 4 /\ q[1].op = "headLock" /\ q[2].op = "headCount"
           /\ q[3].op = "headWrite" /\ q[4].op = "headUnlock"
  <2>1. \A i \in 1 .. k : i = 1 \/ i = 2 \/ (i = 3 /\ i > 1 /\ i - 1 = 2) \/ i = 4
    BY <1>3
  <2>2. \E i \in 1 .. k : i \in DOMAIN q /\ q[i].op = "headWrite"
    BY <1>1, <1>3
  <2>3. \A i \in 1 .. k : q[i].op \in {"headLock", "headCount", "headWrite", "headUnlock"}
    BY <1>3, <2>1
  <2>4. \A i \in 1 .. k : q[i].op = "headWrite" => i > 1 /\ q[i - 1].op = "headCount"
    BY <1>3, <2>1
  <2> QED BY <1>1, <2>2, <2>3, <2>4 DEF HeaderFirst
<1> QED BY <1>2, <1>3

\* The header is written after the records are counted, and before the rest.
LEMMA HeaderComes ==
    ASSUME NEW ar, NEW try \in BOOLEAN, ar.fHeaderLocked \in BOOLEAN,
           NEW s \in Seq(Steps), s # <<>>, NEW p, NEW q,
           p = WriteDBHeader(ar, try), q = p \o Tail(s)
    PROVE  q \in Seq(Steps) /\ Spliced(s, q, Len(p), 2) /\ HeaderFirst(q, Len(p))
<1>1. /\ p \in Seq(Steps)
      /\ ar.fHeaderLocked => Len(p) = 2 /\ p[1].op = "headCount" /\ p[2].op = "headWrite"
      /\ ~ar.fHeaderLocked => /\ Len(p) = 4 /\ p[1].op = "headLock" /\ p[2].op = "headCount"
                              /\ p[3].op = "headWrite" /\ p[4].op = "headUnlock"
  BY HeaderWrite
<1>2. q \in Seq(Steps) /\ Spliced(s, q, Len(p), 2) /\ \A i \in 1 .. Len(p) : q[i] = p[i]
  BY <1>1, RestSplice
<1>3. Len(p) \in 1 .. Len(q)
  <2>1. /\ Len(q) \in Nat /\ Len(p) \in Nat /\ Len(s) \in Nat /\ Len(q) = Len(p) + Len(s) - 2 + 1 /\ Len(s) # 0
        /\ Len(p) >= 2
    BY <1>1, <1>2, EmptySeq DEF Spliced
  <2> QED BY <2>1
<1>4. CASE ar.fHeaderLocked
  <2>1. Len(p) = 2 /\ 1 \in 1 .. 2 /\ 2 \in 1 .. 2
    BY <1>1, <1>4
  <2>2. q[1].op = "headCount" /\ q[2].op = "headWrite"
    BY <1>1, <1>2, <1>4, <2>1
  <2> QED BY <1>2, <1>3, <2>1, <2>2, HeaderFirstIs
<1>5. CASE ~ar.fHeaderLocked
  <2>1. Len(p) = 4 /\ 1 \in 1 .. 4 /\ 2 \in 1 .. 4 /\ 3 \in 1 .. 4 /\ 4 \in 1 .. 4
    BY <1>1, <1>5
  <2>2. q[1].op = "headLock" /\ q[2].op = "headCount" /\ q[3].op = "headWrite" /\ q[4].op = "headUnlock"
    BY <1>1, <1>2, <1>5, <2>1
  <2> QED BY <1>2, <1>3, <2>1, <2>2, HeaderFirstIs
<1> QED BY <1>4, <1>5

\* HeadIf
LEMMA HeadIfInv ==
    ASSUME NEW a \in Areas, Inv, LocksInv', HeadIf(a), load' = load
    PROVE  Inv'
<1> DEFINE ar == area[a]
           s == todo[a]
           p == WriteDBHeader(ar, TRUE)
           q == p \o Tail(s)
<1>1. /\ LocksInv /\ s # <<>> /\ Head(s).op = "headIf" /\ Go(a, ar, q)
      /\ UNCHANGED <<load, file, header, ledger, appended, failures, crashes, unsafe>>
  BY DEF HeadIf, Doing, Inv, history, Rest
<1>2. /\ s \in Seq(Steps) /\ s[1].op = "headIf" /\ ar \in AreaStates /\ StepFits(ar, s, 1)
  BY <1>1, RestIs
<1>3. q \in Seq(Steps) /\ Spliced(s, q, Len(p), 2) /\ HeaderFirst(q, Len(p))
  <2>1. p = WriteDBHeader(ar, TRUE) /\ q = p \o Tail(s)
    OBVIOUS
  <2>2. TRUE \in BOOLEAN /\ ar.fHeaderLocked \in BOOLEAN
    BY <1>2, AreaFields
  <2> HIDE DEF p, q
  <2> QED BY <1>1, <1>2, <2>1, <2>2, HeaderComes
<1> HIDE DEF p, q
<1>4. ~unsafe => ~ar.fRecordChanged
  <2>1. Releases(ar, s, 1) /\ ~ar.fFLocked
    BY <1>2 DEF StepFits, CloseFits, Earlier
  <2>2. ~Holds(ar, ar.ulRecNo)
    BY <2>1 DEF Releases, Released, Holds, IsLocked
  <2> QED BY <2>2, Known DEF AreaFits, BufferFits
<1>5. SameBuffer(ar, ar) /\ SameRecords(ar, ar)
  BY DEF SameBuffer, SameRecords
<1>6. ~unsafe' => ~unsafe /\ AreaFits(a, ar, q)
  BY <1>1, <1>2, <1>3, <1>4, <1>5, KeptFits DEF HeaderFirst
<1>7. ~Doing(a, "headLock")
  BY <1>1 DEF Doing
<1> QED BY <1>1, <1>2, <1>3, <1>6, <1>7, RestInv DEF HeaderFirst

\* UnlockFile
LEMMA UnlockFileInv ==
    ASSUME NEW a \in Areas, Inv, LocksInv', UnlockFile(a), load' = load
    PROVE  Inv'
<1> DEFINE ar == area[a]
           s == todo[a]
           q == <<Try("goCold"), Do("fileUnlock")>> \o Tail(s)
<1>1. /\ LocksInv /\ s # <<>> /\ Head(s).op = "unlockFile" /\ Go(a, ar, q)
      /\ UNCHANGED <<load, file, header, ledger, appended, failures, crashes, unsafe>>
  BY DEF UnlockFile, Doing, Inv, history, Rest
<1>2. /\ s \in Seq(Steps) /\ s[1].op = "unlockFile"
  BY <1>1, RestIs
<1>3. q \in Seq(Steps) /\ Spliced(s, q, 2, 2) /\ q[1].op = "goCold" /\ q[2].op = "fileUnlock"
  <2>1. q = <<Try("goCold"), Do("fileUnlock")>> \o Tail(s)
    OBVIOUS
  <2> HIDE DEF q
  <2> QED BY <1>1, <1>2, <2>1, UnlockFileSteps
<1> HIDE DEF q
<1>4. /\ \A i \in 1 .. 2 : q[i].op \in {"goCold", "fileUnlock"}
      /\ \A i \in 1 .. 2 : q[i].op \in {"fileUnlock", "unlockRecord"} => Earlier(q, i, {"goCold"})
  <2>1. \A i \in 1 .. 2 : i = 1 \/ (i = 2 /\ 1 \in 1 .. i - 1)
    OBVIOUS
  <2> QED BY <1>3, <2>1 DEF Earlier
<1>5. SameBuffer(ar, ar) /\ SameRecords(ar, ar)
  BY DEF SameBuffer, SameRecords
<1>6. ~unsafe' => ~unsafe /\ AreaFits(a, ar, q)
  BY <1>1, <1>2, <1>3, <1>4, <1>5, KeptFits
<1>7. ~Doing(a, "headLock")
  BY <1>1 DEF Doing
<1> QED BY <1>1, <1>2, <1>3, <1>4, <1>6, <1>7, RestInv

\* UnlockAllRecords
LEMMA UnlockAllRecordsInv ==
    ASSUME NEW a \in Areas, Inv, LocksInv', UnlockAllRecords(a), load' = load
    PROVE  Inv'
<1> DEFINE ar == area[a]
           s == todo[a]
           locks == SetToSeq(ar.pLocksPos)
           n == Cardinality(ar.pLocksPos)
           q == <<Try("goCold")>> \o [i \in DOMAIN locks |-> Step("unlockRecord", locks[i])] \o Tail(s)
<1>1. /\ LocksInv /\ s # <<>> /\ Head(s).op = "unlockRecords" /\ Go(a, ar, q)
      /\ UNCHANGED <<load, file, header, ledger, appended, failures, crashes, unsafe>>
  BY DEF UnlockAllRecords, Doing, Inv, history, Rest
<1>2. /\ s \in Seq(Steps) /\ s[1].op = "unlockRecords" /\ ar \in AreaStates
      /\ IsFiniteSet(ar.pLocksPos) /\ ar.pLocksPos \in SUBSET Nat
  BY <1>1, RestIs, AreaFields DEF StateFits
<1>3. UnlocksAll(ar.pLocksPos, s, q, n, locks)
  BY <1>1, <1>2, UnlockAllSteps
<1> HIDE DEF q, n, locks
<1>4. /\ q \in Seq(Steps) /\ Spliced(s, q, n + 1, 2)
      /\ \A i \in 1 .. n + 1 : q[i].op \in {"goCold", "unlockRecord"}
      /\ \A i \in 1 .. n + 1 : q[i].op \in {"fileUnlock", "unlockRecord"} => Earlier(q, i, {"goCold"})
  <2>1. q \in Seq(Steps) /\ Spliced(s, q, n + 1, 2) /\ n \in Nat
    BY <1>3 DEF UnlocksAll
  <2>2. \A i \in 1 .. n + 1 : (i = 1 /\ q[i].op = "goCold") \/ (i \in 2 .. n + 1 /\ q[i].op = "unlockRecord")
    BY <1>3 DEF UnlocksAll
  <2>3. \A i \in 2 .. n + 1 : Earlier(q, i, {"goCold"})
    <3>1. \A i \in 2 .. n + 1 : 1 \in 1 .. i - 1
      BY <2>1
    <3>2. q[1].op = "goCold"
      BY <1>3 DEF UnlocksAll
    <3> QED BY <3>1, <3>2 DEF Earlier
  <2>4. \A i \in 1 .. n + 1 : q[i].op \in {"goCold", "unlockRecord"}
    BY <2>2
  <2>5. \A i \in 1 .. n + 1 : q[i].op \in {"fileUnlock", "unlockRecord"} => Earlier(q, i, {"goCold"})
    BY <2>2, <2>3
  <2> QED BY <2>1, <2>4, <2>5
<1> DEFINE k == n + 1
<1> HIDE DEF k
<1>5. /\ Spliced(s, q, k, 2) /\ \A i \in 1 .. k : q[i].op \in {"goCold", "unlockRecord"}
      /\ \A i \in 1 .. k : q[i].op \in {"fileUnlock", "unlockRecord"} => Earlier(q, i, {"goCold"})
  BY <1>4 DEF k
<1>6. ASSUME ~unsafe
      PROVE  AreaFits(a, ar, q)
  <2>1. /\ InFile(ar) /\ BufferFits(ar, s, file) /\ AppendFits(ar, s, Len(file), Late(a, ar.ulRecCount + 1))
    BY <1>6, Known DEF AreaFits
  <2>2. SameBuffer(ar, ar) /\ SameRecords(ar, ar)
    BY DEF SameBuffer, SameRecords
  <2>3. (\A i \in DOMAIN s : s[i].op # "headWrite") => \A i \in DOMAIN q : q[i].op # "headWrite"
    BY <1>2, <1>4, <1>5, RestWritesNoHeader
  <2>4. BufferFits(ar, q, file)
    BY <2>1, <2>2, <2>3, BufferKept
  <2>5. AppendFits(ar, q, Len(file), Late(a, ar.ulRecCount + 1))
    BY <1>1, <1>2, <1>4, <1>5, <2>1, RestAdds
  <2> QED BY <2>1, <2>4, <2>5 DEF AreaFits
<1>7. ~Doing(a, "headLock")
  BY <1>1 DEF Doing
<1> QED BY <1>1, <1>2, <1>4, <1>5, <1>6, <1>7, RestInv

\* The area keeps the lock of what it has changed.
LEMMA BufferLess ==
    ASSUME NEW ar, NEW ar2, NEW s, NEW q, NEW f, BufferFits(ar, s, f), SameBuffer(ar, ar2),
           \A r : Holds(ar2, r) => Holds(ar, r), ar.fRecordChanged => Holds(ar2, ar.ulRecNo),
           (\A i \in DOMAIN s : s[i].op # "headWrite") => \A i \in DOMAIN q : q[i].op # "headWrite"
    PROVE  BufferFits(ar2, q, f)
BY DEF BufferFits, SameBuffer

\* UnlockRecord
LEMMA UnlockRecordInv ==
    ASSUME NEW a \in Areas, Inv, LocksInv', UnlockRecord(a), load' = load
    PROVE  Inv'
<1> DEFINE ar == area[a]
           s == todo[a]
           r == Rec(a)
           ar2 == [ar EXCEPT !.pLocksPos = @ \ {r}]
           q == Rest(a)
<1>1. /\ LocksInv /\ s # <<>> /\ Head(s).op = "unlockRecord" /\ Go(a, ar2, q) /\ Done(a, ar2)
      /\ UNCHANGED <<load, file, header, ledger, appended, failures, crashes>>
      /\ unsafe' = (unsafe \/ UnsafeUnlock(ar, {r}))
  BY DEF UnlockRecord, Doing, Inv, Done
<1>2. /\ s \in Seq(Steps) /\ s[1].op = "unlockRecord" /\ Head(s) = s[1] /\ ar \in AreaStates
      /\ q \in Seq(Steps) /\ Spliced(s, q, 0, 2) /\ failures \in Nat /\ StepFits(ar, s, 1)
  BY <1>1, RestIs DEF LocksInv, TypeOK
<1>3. /\ SameBuffer(ar, ar2) /\ ar2.fFLocked = ar.fFLocked /\ ar2.pLocksPos = ar.pLocksPos \ {r}
      /\ ar2.fHeaderLocked = ar.fHeaderLocked /\ ar2.ulRecCount = ar.ulRecCount
  BY <1>2 DEF AreaStates, SameBuffer
<1> HIDE DEF ar2, q
<1>4. \A i \in 1 .. 0 : FALSE
  OBVIOUS
<1>5. ASSUME ~unsafe'
      PROVE  ~unsafe /\ AreaFits(a, ar2, q)
  <2>1. ~unsafe /\ ~UnsafeUnlock(ar, {r})
    BY <1>1, <1>5
  <2>2. /\ InFile(ar) /\ BufferFits(ar, s, file) /\ AppendFits(ar, s, Len(file), Late(a, ar.ulRecCount + 1))
    BY <2>1, Known DEF AreaFits
  <2>3. InFile(ar2)
    BY <1>3, <2>2 DEF InFile
  <2>4. ar.fRecordChanged => r # ar.ulRecNo
    <3> SUFFICES ASSUME ar.fRecordChanged, r = ar.ulRecNo
                 PROVE  FALSE
      OBVIOUS
    <3>1. failures = 0
      BY <1>2, <2>1 DEF UnsafeUnlock
    <3>2. WritesFirst(ar, s)
      BY <3>1 DEF Inv, WrittenBeforeUnlock
    <3>3. 1 \in DOMAIN s
      BY <1>1, <1>2, EmptySeq
    <3>4. Earlier(s, 1, {"goCold"})
      BY <1>2, <3>2, <3>3 DEF WritesFirst
    <3> QED BY <3>4 DEF Earlier
  <2>5. ar.fRecordChanged => Holds(ar2, ar.ulRecNo)
    <3> SUFFICES ASSUME ar.fRecordChanged
                 PROVE  Holds(ar2, ar.ulRecNo)
      OBVIOUS
    <3>1. Holds(ar, ar.ulRecNo)
      BY <2>2 DEF BufferFits
    <3> QED BY <1>3, <2>4, <3>1 DEF Holds, IsLocked
  <2>6. \A x : Holds(ar2, x) => Holds(ar, x)
    BY <1>3 DEF Holds, IsLocked
  <2>7. (\A i \in DOMAIN s : s[i].op # "headWrite") => \A i \in DOMAIN q : q[i].op # "headWrite"
    BY <1>2, <1>4, RestWritesNoHeader
  <2>8. BufferFits(ar2, q, file)
    BY <1>3, <2>2, <2>5, <2>6, <2>7, BufferLess
  <2>9. AppendFits(ar2, q, Len(file), Late(a, ar.ulRecCount + 1))
    <3>1. ar2.fRecordChanged = ar.fRecordChanged
      BY <1>3 DEF SameBuffer
    <3> QED BY <1>1, <1>2, <1>3, <1>4, <2>2, <3>1, RestAdds
  <2> QED BY <1>3, <2>1, <2>3, <2>8, <2>9 DEF AreaFits
<1>6. ~Doing(a, "headLock")
  BY <1>1 DEF Doing
<1>7. /\ ar2.fUpdateHeader = ar.fUpdateHeader /\ (ar2.fAppend => ar.fAppend)
      /\ (ar2.fRecordChanged => ar.fRecordChanged)
  BY <1>3 DEF SameBuffer
<1> QED BY <1>1, <1>2, <1>4, <1>5, <1>6, <1>7, RestInv

\* FileUnlock
LEMMA FileUnlockInv ==
    ASSUME NEW a \in Areas, Inv, LocksInv', FileUnlock(a), load' = load
    PROVE  Inv'
<1> DEFINE ar == area[a]
           s == todo[a]
           ar2 == [ar EXCEPT !.fFLocked = FALSE]
           q == Rest(a)
<1>1. /\ LocksInv /\ s # <<>> /\ Head(s).op = "fileUnlock" /\ Go(a, ar2, q)
      /\ UNCHANGED <<load, file, header, ledger, appended, failures, crashes>>
      /\ unsafe' = (unsafe \/ UnsafeUnlock(ar, {ar.ulRecNo}))
  BY DEF FileUnlock, Doing, Inv, Done
<1>2. /\ s \in Seq(Steps) /\ s[1].op = "fileUnlock" /\ Head(s) = s[1] /\ ar \in AreaStates
      /\ q \in Seq(Steps) /\ Spliced(s, q, 0, 2) /\ failures \in Nat /\ Fits(ar, s)
  BY <1>1, RestIs, AtStep DEF LocksInv, TypeOK
<1>3. /\ SameBuffer(ar, ar2) /\ ar2.fFLocked = FALSE /\ ar2.pLocksPos = ar.pLocksPos
      /\ ar2.fHeaderLocked = ar.fHeaderLocked /\ ar2.ulRecCount = ar.ulRecCount
  BY <1>2 DEF AreaStates, SameBuffer
<1> HIDE DEF ar2, q
<1>4. \A i \in 1 .. 0 : FALSE
  OBVIOUS
<1>5. ASSUME ~unsafe'
      PROVE  ~unsafe /\ AreaFits(a, ar2, q)
  <2>1. ~unsafe /\ ~UnsafeUnlock(ar, {ar.ulRecNo})
    BY <1>1, <1>5
  <2>2. /\ InFile(ar) /\ BufferFits(ar, s, file) /\ AppendFits(ar, s, Len(file), Late(a, ar.ulRecCount + 1))
    BY <2>1, Known DEF AreaFits
  <2>3. InFile(ar2)
    BY <1>3, <2>2 DEF InFile
  <2>4. ~ar.fRecordChanged
    <3> SUFFICES ASSUME ar.fRecordChanged
                 PROVE  FALSE
      OBVIOUS
    <3>1. failures = 0
      BY <1>2, <2>1 DEF UnsafeUnlock
    <3>2. WritesFirst(ar, s)
      BY <3>1 DEF Inv, WrittenBeforeUnlock
    <3>3. 1 \in DOMAIN s
      BY <1>1, <1>2, EmptySeq
    <3>4. Earlier(s, 1, {"goCold"})
      BY <1>2, <3>2, <3>3 DEF WritesFirst
    <3> QED BY <3>4 DEF Earlier
  <2>5. \A x : Holds(ar2, x) => Holds(ar, x)
    BY <1>3 DEF Holds, IsLocked
  <2>6. (\A i \in DOMAIN s : s[i].op # "headWrite") => \A i \in DOMAIN q : q[i].op # "headWrite"
    BY <1>2, <1>4, RestWritesNoHeader
  <2>7. BufferFits(ar2, q, file)
    BY <1>3, <2>2, <2>4, <2>5, <2>6, BufferLess
  <2>8. NoAdds(q)
    BY <1>1, <1>2, <1>4, <2>2, RestAddsNone
  <2> QED BY <1>3, <2>1, <2>3, <2>7, <2>8 DEF AreaFits, AppendFits, NoAdds
<1>6. ~Doing(a, "headLock")
  BY <1>1 DEF Doing
<1>7. /\ ar2.fUpdateHeader = ar.fUpdateHeader /\ (ar2.fAppend => ar.fAppend)
      /\ (ar2.fRecordChanged => ar.fRecordChanged)
  BY <1>3 DEF SameBuffer
<1> QED BY <1>1, <1>2, <1>4, <1>5, <1>6, <1>7, RestInv

\* What the area knows when it has nothing changed and has read nothing.
LEMMA UnreadFits ==
    ASSUME NEW ar, NEW q, NEW f, ~ar.fRecordChanged, ~ar.fAppend, ~(ar.fPositioned /\ ar.fValidBuffer)
    PROVE  BufferFits(ar, q, f)
BY DEF BufferFits

\* The area goes to a record, and its buffer is still to be read.
LEMMA PositionedUnread ==
    ASSUME NEW ar \in AreaStates, NEW r, NEW ar2, ar2 = Positioned(ar, r)
    PROVE  /\ ~(ar2.fPositioned /\ ar2.fValidBuffer) /\ ar2.fRecordChanged = ar.fRecordChanged
           /\ ar2.fAppend = ar.fAppend /\ ar2.fUpdateHeader = ar.fUpdateHeader
           /\ ar2.pLocksPos = ar.pLocksPos /\ ar2.fFLocked = ar.fFLocked /\ ar2.fHeaderLocked = ar.fHeaderLocked
           /\ ar2.ulRecCount = IF r > ar.ulRecCount THEN CalcRecCount ELSE ar.ulRecCount
<1> DEFINE count == IF r > ar.ulRecCount THEN CalcRecCount ELSE ar.ulRecCount
           found == r \in 1 .. count
<1>1. ar2 = [ar EXCEPT !.ulRecCount = count,
                       !.ulRecNo = IF found THEN r ELSE count + 1,
                       !.fPositioned = found,
                       !.fValidBuffer = ~found,
                       !.pRecord = 0]
  BY DEF Positioned
<1> HIDE DEF count, found
<1> QED BY <1>1 DEF AreaStates, count

\* GoTo and GoBottom
LEMMA PositionedInv ==
    ASSUME NEW a \in Areas, Inv, LocksInv', todo[a] # <<>>, Head(todo[a]).op \in {"goTo", "goBottom"},
           NEW ar \in AreaStates, SameLocks(area[a], ar), ar.fRecordChanged = area[a].fRecordChanged,
           ar.fAppend = area[a].fAppend, ar.fUpdateHeader = area[a].fUpdateHeader,
           NEW r, Done(a, Positioned(ar, r)),
           UNCHANGED <<load, file, header, locked, history>>
    PROVE  Inv'
<1> DEFINE s == todo[a]
           ar2 == Positioned(ar, r)
           q == Rest(a)
<1>1. /\ LocksInv /\ StateFits(area[a]) /\ StepFits(area[a], s, 1) /\ Fits(area[a], s) /\ Head(s) = s[1]
      /\ q \in Seq(Steps) /\ Spliced(s, q, 0, 2) /\ s \in Seq(Steps)
  BY RestIs, AtStep DEF Inv
<1>2. ~area[a].fRecordChanged /\ ~area[a].fAppend
  <2>1. ~Cleaned(s, 1)
    BY DEF Cleaned
  <2> QED BY <1>1, <2>1 DEF StepFits, ChangeFits, StateFits
<1>3. ar2 = Positioned(ar, r) /\ Done(a, ar2)
  OBVIOUS
<1> HIDE DEF ar2, q
<1>4. /\ ~(ar2.fPositioned /\ ar2.fValidBuffer) /\ ~ar2.fRecordChanged /\ ~ar2.fAppend
      /\ ar2.fUpdateHeader = ar.fUpdateHeader /\ ar2.pLocksPos = ar.pLocksPos
  BY <1>2, <1>3, PositionedUnread
<1>5. ASSUME ~unsafe
      PROVE  AreaFits(a, ar2, q)
  <2>1. /\ InFile(area[a])
        /\ AppendFits(area[a], s, Len(file), Late(a, area[a].ulRecCount + 1))
    BY <1>5, Known DEF AreaFits
  <2>2. \A i \in 1 .. 0 : FALSE
    OBVIOUS
  <2>3. NoAdds(q)
    BY <1>1, <2>1, <2>2, RestAddsNone
  <2>4. InFile(ar2)
    BY <1>4, <2>1 DEF InFile, SameLocks
  <2> QED BY <1>4, <2>3, <2>4, UnreadFits DEF AreaFits, AppendFits, NoAdds
<1>6. UNCHANGED <<load, file, header, ledger, appended, failures, crashes, unsafe>> /\ ~Doing(a, "headLock")
  BY DEF history, Doing
<1> QED BY <1>3, <1>4, <1>5, <1>6, DoneInv DEF q

\* GoTo
LEMMA GoToInv ==
    ASSUME NEW a \in Areas, Inv, LocksInv', GoTo(a), load' = load
    PROVE  Inv'
<1>1. todo[a] # <<>> /\ Head(todo[a]).op = "goTo" /\ Done(a, Positioned(area[a], Rec(a)))
      /\ UNCHANGED <<load, file, header, locked, history>>
  BY DEF GoTo, Doing
<1>2. area[a] \in AreaStates /\ SameLocks(area[a], area[a])
  BY <1>1, AtStep DEF Inv, SameLocks
<1> QED BY <1>1, <1>2, PositionedInv

\* GoBottom
LEMMA GoBottomInv ==
    ASSUME NEW a \in Areas, Inv, LocksInv', GoBottom(a), load' = load
    PROVE  Inv'
<1> DEFINE ar == [area[a] EXCEPT !.ulRecCount = CalcRecCount]
<1>1. todo[a] # <<>> /\ Head(todo[a]).op = "goBottom" /\ Done(a, Positioned(ar, CalcRecCount))
      /\ UNCHANGED <<load, file, header, locked, history>>
  BY DEF GoBottom, Doing
<1>2. area[a] \in AreaStates /\ Len(file) \in Nat /\ CalcRecCount = Len(file)
  BY <1>1, AtStep DEF CalcRecCount, Inv
<1>3. ar \in AreaStates
  BY <1>2, AreaExcept
<1>4. /\ ar.fRecordChanged = area[a].fRecordChanged /\ ar.fAppend = area[a].fAppend
      /\ SameLocks(area[a], ar) /\ ar.fUpdateHeader = area[a].fUpdateHeader
  BY <1>2 DEF AreaStates, SameLocks
<1> HIDE DEF ar
<1> QED BY <1>1, <1>3, <1>4, PositionedInv

\* The area reads its buffer again, having at least the locks of ar0.
LEMMA RefreshedFits ==
    ASSUME NEW ar0, NEW ar \in AreaStates, StateFits(ar), SameBuffer(ar0, ar), NEW s, NEW q, NEW f,
           \A r : Holds(ar0, r) => Holds(ar, r), BufferFits(ar0, s, f),
           (\A i \in DOMAIN s : s[i].op # "headWrite") => \A i \in DOMAIN q : q[i].op # "headWrite",
           NEW ar2, ar2 = Refreshed(ar)
    PROVE  BufferFits(ar2, q, f)
<1>1. ar.fRecordChanged => ar.fPositioned /\ ar.fValidBuffer
  BY DEF StateFits
<1>2. CASE ~ar.fPositioned
  <2>1. ar2 = Positioned(ar, ar.ulRecNo)
    BY <1>2 DEF Refreshed
  <2>2. ~ar.fRecordChanged /\ ~ar.fAppend
    BY <1>1, <1>2 DEF StateFits
  <2> QED BY <2>1, <2>2, PositionedUnread, UnreadFits
<1>3. CASE ar.fPositioned /\ ~ar.fRecordChanged
  <2>1. ar2 = [ar EXCEPT !.fValidBuffer = FALSE, !.pRecord = 0]
    BY <1>3 DEF Refreshed
  <2>2. ~ar2.fValidBuffer /\ ar2.fRecordChanged = ar.fRecordChanged /\ ar2.fAppend = ar.fAppend
    BY <2>1 DEF AreaStates
  <2>3. ~ar2.fRecordChanged /\ ~ar2.fAppend
    BY <1>3, <2>2 DEF StateFits
  <2> QED BY <2>2, <2>3, UnreadFits
<1>4. CASE ar.fPositioned /\ ar.fRecordChanged
  <2>1. ar2 = ar
    BY <1>4 DEF Refreshed
  <2>2. ar0.fRecordChanged /\ ar.fRecordChanged
    BY <1>4 DEF SameBuffer
  <2> QED BY <2>1, <2>2 DEF BufferFits, SameBuffer
<1> QED BY <1>2, <1>3, <1>4

\* LockFile
LEMMA LockFileInv ==
    ASSUME NEW a \in Areas, Inv, LocksInv', LockFile(a), load' = load
    PROVE  Inv'
<1> DEFINE ar == area[a]
           s == todo[a]
           q == Rest(a)
           ar1 == [ar EXCEPT !.fFLocked = TRUE]
<1>1. /\ LocksInv /\ s # <<>> /\ Head(s).op = "lockFile"
      /\ UNCHANGED <<load, file, header, ledger, appended, failures, crashes, unsafe>>
      /\ Done(a, Refreshed(ar1)) \/ Done(a, Refreshed(ar))
  BY DEF LockFile, Doing, Inv, history
<1>2. /\ s \in Seq(Steps) /\ s[1].op = "lockFile" /\ ar \in AreaStates /\ StateFits(ar) /\ ar.open
      /\ q \in Seq(Steps) /\ Spliced(s, q, 0, 2) /\ Fits(ar, s) /\ StepFits(ar, s, 1)
      /\ Counted(ar, Len(file)) /\ file \in Seq(Nat)
  BY <1>1, RestIs, AtStep
<1>3. PICK b \in {ar1, ar} : Done(a, Refreshed(b))
  BY <1>1
<1>4. /\ b \in AreaStates /\ SameBuffer(ar, b) /\ SameButLocks(ar, b) /\ b.pLocksPos = ar.pLocksPos
      /\ b.fFLocked = ar.fFLocked \/ b.fFLocked = TRUE
  <2>1. CASE b = ar
    BY <1>2, <2>1 DEF SameBuffer, SameButLocks
  <2>2. CASE b = ar1
    <3>1. ar1 \in AreaStates
      BY <1>2, AreaExcept
    <3>2. SameBuffer(ar, ar1) /\ SameButLocks(ar, ar1) /\ ar1.pLocksPos = ar.pLocksPos /\ ar1.fFLocked = TRUE
      BY <1>2 DEF AreaStates, SameBuffer, SameButLocks
    <3> QED BY <2>2, <3>1, <3>2
  <2> QED BY <1>3, <2>1, <2>2
<1> HIDE DEF ar1, q
<1>5. ar.pLocksPos = {}
  <2>1. Releases(ar, s, 1)
    BY <1>2 DEF StepFits, LockFits
  <2> QED BY <2>1 DEF Releases, Released
<1>6. StateFits(b) /\ b.open /\ Counted(b, Len(file))
  <2>1. StateFits(b) /\ b.open
    BY <1>2, <1>4, <1>5 DEF StateFits, SameButLocks
  <2> QED BY <1>2, <1>4, <2>1, CountedSame
<1> DEFINE ar2 == Refreshed(b)
<1>7. ar2 = Refreshed(b) /\ Done(a, ar2)
  BY <1>3
<1> HIDE DEF ar2
<1>8. /\ ar2.fRecordChanged = ar.fRecordChanged /\ ar2.fUpdateHeader = ar.fUpdateHeader
      /\ ar2.fAppend = ar.fAppend /\ ar2.pLocksPos = ar.pLocksPos
  BY <1>2, <1>4, <1>6, <1>7, RefreshedProps DEF SameButLocks, SameLocks
<1>9. ASSUME ~unsafe
      PROVE  AreaFits(a, ar2, q)
  <2>1. InFile(ar) /\ BufferFits(ar, s, file) /\ AppendFits(ar, s, Len(file), Late(a, ar.ulRecCount + 1))
    BY <1>9, Known DEF AreaFits
  <2>2. \A i \in 1 .. 0 : FALSE
    OBVIOUS
  <2>3. NoAdds(q)
    BY <1>1, <1>2, <2>1, <2>2, RestAddsNone
  <2>4. InFile(ar2)
    BY <1>8, <2>1 DEF InFile
  <2>5. \A r : Holds(ar, r) => Holds(b, r)
    BY <1>4 DEF Holds, IsLocked
  <2>6. (\A i \in DOMAIN s : s[i].op # "headWrite") => \A i \in DOMAIN q : q[i].op # "headWrite"
    BY <1>2, <2>2, RestWritesNoHeader
  <2>7. BufferFits(ar2, q, file)
    BY <1>4, <1>6, <1>7, <2>1, <2>5, <2>6, RefreshedFits
  <2> QED BY <2>3, <2>4, <2>7 DEF AreaFits, AppendFits, NoAdds
<1>10. ~Doing(a, "headLock")
  BY <1>1 DEF Doing
<1> QED BY <1>1, <1>7, <1>8, <1>9, <1>10, DoneInv DEF q

\* The lock of a record of a table that is not too large is one of those of a
\* lock of the file.
LEMMA LockInFile ==
    ASSUME load \in Loads, NEW r \in Nat, r > 0, ~UnsafeLock(r)
    PROVE  RecByte(r) \in FileBytes
<1> DEFINE pos == load.scheme.pos
           size == load.scheme.flSize
           len == load.scheme.headerLen
           w == (r - 1) * load.scheme.recordLen
<1>1. /\ pos \in Nat /\ size \in Nat /\ size > 0 /\ len \in Nat /\ load.scheme.recordLen \in Nat
      /\ load.scheme.dir \in {-1, 1, 2} /\ (load.scheme.dir = 2 => len > 0)
  BY DbfAssumption DEF IsLoad
<1>2. w \in Nat
  <2>1. r - 1 \in Nat
    OBVIOUS
  <2> QED BY <1>1, <2>1
<1> HIDE DEF w, pos, size, len
<1>3. CASE load.scheme.dir = -1
  <2>1. r <= size
    BY <1>1, <1>3 DEF UnsafeLock, size
  <2>2. RecByte(r) = pos - r /\ FileBytes = pos - size .. pos - size + size - 1
    BY <1>3 DEF RecByte, FileBytes, pos, size
  <2> QED BY <1>1, <2>1, <2>2
<1>4. CASE load.scheme.dir = 1
  <2>1. r <= size
    BY <1>1, <1>4 DEF UnsafeLock, size
  <2>2. RecByte(r) = pos + r /\ FileBytes = pos + 1 .. pos + 1 + size - 1
    BY <1>4 DEF RecByte, FileBytes, pos, size
  <2> QED BY <1>1, <2>1, <2>2
<1>5. CASE load.scheme.dir = 2
  <2>1. w + len <= size
    BY <1>1, <1>2, <1>5 DEF UnsafeLock, size, w, len
  <2>2. RecByte(r) = pos + w + len /\ FileBytes = pos + 1 .. pos + 1 + size - 1
    BY <1>5 DEF RecByte, FileBytes, pos, size, w, len
  <2> QED BY <1>1, <1>2, <1>5, <2>1, <2>2
<1> QED BY <1>1, <1>3, <1>4, <1>5

\* Who holds a record has its byte locked.
LEMMA HeldByte ==
    ASSUME NEW b \in Areas, LocksAgree, NEW r, RecByte(r) \in FileBytes, Holds(area[b], r)
    PROVE  RecByte(r) \in locked[b]
BY DEF LocksAgree, BytesOf, Holds, IsLocked

\* A method that fails has at most the header to unlock.
LEMMA AbortIs ==
    ASSUME NEW s
    PROVE  Abort(s) \in Seq(Steps) /\ \A i \in DOMAIN Abort(s) : Abort(s)[i].op = "headUnlock"
<1>1. Do("headUnlock") \in Steps /\ Do("headUnlock").op = "headUnlock"
  BY StepTypes DEF Ops, Do, Step
<1>2. Abort(s) = <<>> \/ Abort(s) = <<Do("headUnlock")>>
  BY DEF Abort
<1> DEFINE u == Do("headUnlock")
<1> HIDE DEF u
<1>3. <<u>> \in Seq(Steps) /\ \A i \in DOMAIN <<u>> : <<u>>[i].op = "headUnlock"
  BY <1>1 DEF u
<1>4. <<>> \in Seq(Steps) /\ \A i \in DOMAIN <<>> : <<>>[i].op = "headUnlock"
  OBVIOUS
<1>5. CASE Abort(s) = <<>>
  BY <1>4, <1>5
<1>6. CASE Abort(s) = <<u>>
  BY <1>3, <1>6
<1> QED BY <1>2, <1>5, <1>6 DEF u

\* The area is left with nothing to do but to unlock the header.
LEMMA AbortInv ==
    ASSUME NEW a \in Areas, Inv, LocksInv', NEW ar2, NEW q \in Seq(Steps), Go(a, ar2, q),
           \A i \in DOMAIN q : q[i].op = "headUnlock",
           UNCHANGED <<load, file, header, ledger, appended>>,
           failures' \in {failures, failures + 1}, crashes' \in {crashes, crashes + 1},
           failures' = failures => ~ar2.fAppend \/ failures > 0,
           failures' = failures /\ crashes' = crashes /\ HeaderPending(area[a], todo[a]) =>
               ar2.fUpdateHeader /\ ~load.writeMode,
           ~unsafe' => /\ ~unsafe /\ InFile(ar2) /\ BufferFits(ar2, q, file)
                       /\ failures > 0 /\ Doing(a, "headLock") =>
                             \A b \in Areas \ {a} : ~area[b].fHeaderLocked
    PROVE  Inv'
<1>1. WritesFirst(ar2, q)
  BY DEF WritesFirst
<1>2. CountsFirst(ar2, q, Len(file))
  BY DEF CountsFirst
<1>3. NoAdds(q)
  BY DEF NoAdds, Adds
<1>4. ~unsafe' => ~unsafe /\ AreaFits(a, ar2, q)
  BY <1>3 DEF AreaFits, AppendFits, NoAdds
<1>5. ar2.fUpdateHeader /\ ~load.writeMode => HeaderPending(ar2, q)
  BY DEF HeaderPending
<1> QED BY <1>1, <1>2, <1>4, <1>5, QuietInv

\* A record is added only when its lock is granted, and if that is so then no
\* other area has added it late.
LEMMA LockedAdds ==
    ASSUME NEW a \in Areas, Inv, ~unsafe, todo[a] # <<>>, Head(todo[a]).op = "rawLock",
           NEW i \in DOMAIN Rest(a), Adds(Rest(a), i)
    PROVE  /\ i = 1 /\ ~Head(todo[a]).try /\ Rec(a) = area[a].ulRecCount + 1
           /\ area[a].fHeaderLocked /\ ~area[a].fRecordChanged
           /\ area[a].ulRecCount = Len(file) \/ Late(a, area[a].ulRecCount + 1)
<1> DEFINE ar == area[a]
           s == todo[a]
           q == Rest(a)
<1>1. /\ s \in Seq(Steps) /\ Head(s) = s[1] /\ q \in Seq(Steps) /\ Spliced(s, q, 0, 2)
      /\ AppendFits(ar, s, Len(file), Late(a, ar.ulRecCount + 1))
  BY RestIs, Known DEF Inv, AreaFits
<1>2. i \in DOMAIN q /\ Adds(q, i)
  OBVIOUS
<1> HIDE DEF q
<1>3. i \notin 1 .. 0
  OBVIOUS
<1>4. PICK o \in DOMAIN s : o = i - 0 + 1 /\ o > 1 /\ i \in 0 + 1 .. Len(q) /\ Adds(s, o)
  BY <1>1, <1>2, <1>3, RestAdding
<1>5. /\ o # 1 /\ ar.fHeaderLocked /\ ~ar.fRecordChanged
      /\ s[o - 1].op = "rawLock" /\ s[o - 1].rec = ar.ulRecCount + 1 /\ ~s[o - 1].try
      /\ OnlyBefore(s, o - 1, {"unlockRecords", "goCold", "unlockRecord"})
      /\ ar.ulRecCount = Len(file) \/ Late(a, ar.ulRecCount + 1)
  BY <1>1, <1>4 DEF AppendFits
<1>6. o - 1 = 1
  <2>1. o = 2 \/ 1 \in 1 .. (o - 1) - 1
    BY <1>4
  <2>2. s[1].op = "rawLock"
    BY <1>1
  <2> QED BY <1>5, <2>1, <2>2 DEF OnlyBefore
<1>7. i = 1
  BY <1>4, <1>6
<1> QED BY <1>1, <1>5, <1>6, <1>7 DEF Rec

\* An area that has counted the records counts no others when it reads again.
LEMMA RefreshedCount ==
    ASSUME NEW ar \in AreaStates, ar.ulRecCount = CalcRecCount, NEW ar2, ar2 = Refreshed(ar)
    PROVE  ar2.ulRecCount = CalcRecCount
<1>1. CASE ~ar.fPositioned
  <2>1. ar2 = Positioned(ar, ar.ulRecNo)
    BY <1>1 DEF Refreshed
  <2> QED BY <2>1, PositionedUnread
<1>2. CASE ar.fPositioned
  <2>1. ar2 \in {[ar EXCEPT !.fValidBuffer = FALSE, !.pRecord = 0], ar}
    BY <1>2 DEF Refreshed
  <2> QED BY <2>1 DEF AreaStates
<1> QED BY <1>1, <1>2

\* RawLock when the lock is granted
LEMMA LockGrantedInv ==
    ASSUME NEW a \in Areas, Inv, LocksInv', todo[a] # <<>>, Head(todo[a]).op = "rawLock", load' = load,
           Free({RecByte(Rec(a))}), NEW ar1, ar1 = [area[a] EXCEPT !.pLocksPos = @ \cup {Rec(a)}],
           NEW ar2, ar2 = IF Rec(a) = ar1.ulRecNo THEN Refreshed(ar1) ELSE ar1, Done(a, ar2),
           unsafe' = (unsafe \/ UnsafeLock(Rec(a))),
           UNCHANGED <<file, header, ledger, appended, failures, crashes>>
    PROVE  Inv'
<1> DEFINE ar == area[a]
           s == todo[a]
           q == Rest(a)
           r == Rec(a)
           S == ar.pLocksPos \cup {r}
<1>1. /\ LocksInv /\ TypeOK /\ LocksAgree /\ s \in Seq(Steps) /\ Head(s) = s[1] /\ ar \in AreaStates /\ StateFits(ar) /\ ar.open
      /\ q \in Seq(Steps) /\ Spliced(s, q, 0, 2) /\ StepFits(ar, s, 1)
      /\ Counted(ar, Len(file)) /\ file \in Seq(Nat) /\ r \in Nat /\ S \in SUBSET Nat /\ load \in Loads
      /\ CalcRecCount = Len(file) /\ Len(file) \in Nat
  BY ZenonT(30), RestIs, AtStep DEF Inv, LocksInv, TypeOK, Rec, Steps, AreaStates, CalcRecCount
<1>2. ~ar.fFLocked /\ r > 0
  BY <1>1 DEF StepFits, LockFits, Rec
<1>3. ar1 \in AreaStates /\ SameButLocks(ar, ar1) /\ SameBuffer(ar, ar1) /\ ar1.pLocksPos = S
      /\ ar1.fHeaderLocked = ar.fHeaderLocked /\ ar1.fFLocked = ar.fFLocked
  <2> HIDE DEF S
  <2>1. ar1 = [ar EXCEPT !.pLocksPos = S]
    BY <1>1 DEF S, AreaStates
  <2>2. [ar EXCEPT !.pLocksPos = S] \in AreaStates
    BY <1>1, AreaExcept
  <2> QED BY ZenonT(30), <1>1, <2>1, <2>2 DEF AreaStates, SameButLocks, SameBuffer
<1>4. StateFits(ar1) /\ ar1.open /\ Counted(ar1, Len(file))
  <2>1. IsFiniteSet(S)
    <3>1. IsFiniteSet(ar.pLocksPos)
      BY <1>1 DEF StateFits
    <3> QED BY <3>1, FS_AddElement
  <2>2. StateFits(ar1) /\ ar1.open
    BY <1>1, <1>2, <1>3, <2>1 DEF StateFits, SameButLocks
  <2> QED BY <1>1, <1>3, <2>2, CountedSame
<1>5. ar2 = Refreshed(ar1) \/ (ar2 = ar1 /\ r # ar.ulRecNo)
  BY <1>3 DEF SameBuffer
<1>6. /\ ar2.fRecordChanged = ar.fRecordChanged /\ ar2.fUpdateHeader = ar.fUpdateHeader
      /\ ar2.fAppend = ar.fAppend /\ SameLocks(ar1, ar2)
  <2>1. CASE ar2 = Refreshed(ar1)
    BY <1>1, <1>3, <1>4, <2>1, RefreshedProps DEF SameButLocks
  <2>2. CASE ar2 = ar1
    BY <1>3, <2>2 DEF SameButLocks, SameLocks
  <2> QED BY <1>5, <2>1, <2>2
<1> HIDE DEF q, S
<1>7. ASSUME ~unsafe'
      PROVE  ~unsafe /\ AreaFits(a, ar2, q)
  <2>1. ~unsafe /\ ~UnsafeLock(r)
    BY <1>7
  <2>2. InFile(ar) /\ BufferFits(ar, s, file)
    BY <2>1, Known DEF AreaFits
  <2>3. RecByte(r) \in FileBytes
    BY <1>1, <1>2, <2>1, LockInFile
  <2>4. InFile(ar2)
    BY <1>3, <1>6, <2>2, <2>3 DEF InFile, SameLocks, S
  <2>5. (\A i \in DOMAIN s : s[i].op # "headWrite") => \A i \in DOMAIN q : q[i].op # "headWrite"
    <3>1. \A i \in 1 .. 0 : FALSE
      OBVIOUS
    <3> QED BY <1>1, <3>1, RestWritesNoHeader
  <2>6. BufferFits(ar2, q, file)
    <3>1. CASE ar2 = Refreshed(ar1)
      <4>1. \A x : Holds(ar, x) => Holds(ar1, x)
        BY <1>3 DEF Holds, IsLocked, S
      <4> QED BY <1>3, <1>4, <2>2, <2>5, <3>1, <4>1, RefreshedFits
    <3>2. CASE ar2 = ar1 /\ r # ar.ulRecNo
      <4>1. Holds(ar1, ar.ulRecNo) = Holds(ar, ar.ulRecNo)
        BY <1>3, <3>2 DEF Holds, IsLocked, S
      <4>2. \A x : x = ar.ulRecNo => Holds(ar2, x) = Holds(ar, x)
        BY <3>2, <4>1
      <4> QED BY ZenonT(30), <1>3, <2>2, <2>5, <3>2, <4>2 DEF BufferFits, SameBuffer
    <3> QED BY <1>5, <3>1, <3>2
  <2>7. AppendFits(ar2, q, Len(file), Late(a, ar2.ulRecCount + 1))
    <3> SUFFICES ASSUME NEW i \in DOMAIN q, Adds(q, i)
                 PROVE  /\ i = 1 /\ ar2.fHeaderLocked /\ ~ar2.fRecordChanged
                        /\ ar2.ulRecCount = Len(file) /\ Holds(ar2, Len(file) + 1)
      BY DEF AppendFits
    <3>1. /\ i = 1 /\ r = ar.ulRecCount + 1 /\ ar.fHeaderLocked /\ ~ar.fRecordChanged
          /\ ar.ulRecCount = Len(file) \/ Late(a, ar.ulRecCount + 1)
      <4>1. i \in DOMAIN Rest(a) /\ Adds(Rest(a), i)
        BY DEF q
      <4> QED BY <2>1, <4>1, LockedAdds
    <3>2. ~Late(a, r)
      <4> SUFFICES ASSUME NEW b \in Areas \ {a}, Holds(area[b], r)
                   PROVE  FALSE
        BY DEF Late
      <4>1. RecByte(r) \in locked[b]
        BY <1>1, <2>3, HeldByte
      <4> QED BY <4>1 DEF Free
    <3>3. ar.ulRecCount = Len(file) /\ r = Len(file) + 1
      BY <3>1, <3>2
    <3>4. ar1.ulRecCount = Len(file)
      BY <1>3, <3>3 DEF SameButLocks
    <3>5. ar2.ulRecCount = Len(file)
      <4>1. CASE ar2 = ar1
        BY <3>4, <4>1
      <4>2. CASE ar2 = Refreshed(ar1)
        BY <1>1, <1>3, <3>4, <4>2, RefreshedCount
      <4> QED BY <1>5, <4>1, <4>2
    <3>6. Holds(ar2, Len(file) + 1)
      BY <1>3, <1>6, <3>3 DEF Holds, IsLocked, SameLocks, S
    <3> QED BY <1>3, <1>6, <3>1, <3>5, <3>6 DEF SameLocks
  <2> QED BY <2>1, <2>4, <2>6, <2>7 DEF AreaFits
<1>8. ~Doing(a, "headLock")
  BY DEF Doing
<1> QED BY <1>6, <1>7, <1>8, DoneInv DEF q

\* RawLock
LEMMA RawLockInv ==
    ASSUME NEW a \in Areas, Inv, LocksInv', RawLock(a), load' = load
    PROVE  Inv'
<1> DEFINE ar == area[a]
           s == todo[a]
           ar1 == [ar EXCEPT !.pLocksPos = @ \cup {Rec(a)}]
           ar2 == IF Rec(a) = ar1.ulRecNo THEN Refreshed(ar1) ELSE ar1
<1>1. /\ LocksInv /\ s # <<>> /\ Head(s).op = "rawLock"
      /\ UNCHANGED <<load, file, header, ledger, appended, failures, crashes>>
      /\ \/ Free({RecByte(Rec(a))}) /\ Done(a, ar2) /\ unsafe' = (unsafe \/ UnsafeLock(Rec(a)))
         \/ Fail(a, ar) /\ unsafe' = unsafe
  BY DEF RawLock, Doing, Inv
<1>2. /\ s \in Seq(Steps) /\ s[1] = Head(s) /\ Fits(ar, s) /\ Rest(a) \in Seq(Steps) /\ Spliced(s, Rest(a), 0, 2)
      /\ ~Doing(a, "headLock") /\ failures \in Nat /\ crashes \in Nat
  BY <1>1, RestIs, AtStep DEF Doing, LocksInv, TypeOK
<1>3. ar1 = [area[a] EXCEPT !.pLocksPos = @ \cup {Rec(a)}] /\ ar2 = IF Rec(a) = ar1.ulRecNo THEN Refreshed(ar1) ELSE ar1
  OBVIOUS
<1> HIDE DEF ar1, ar2
<1>4. CASE Free({RecByte(Rec(a))}) /\ Done(a, ar2) /\ unsafe' = (unsafe \/ UnsafeLock(Rec(a)))
  BY <1>1, <1>3, <1>4, LockGrantedInv
<1>5. SameBuffer(ar, ar) /\ SameRecords(ar, ar)
  BY DEF SameBuffer, SameRecords
<1>6. CASE Fail(a, ar) /\ unsafe' = unsafe /\ Head(s).try
  <2>1. Done(a, ar)
    BY <1>6 DEF Fail, Done
  <2>2. ASSUME ~unsafe
        PROVE  AreaFits(a, ar, Rest(a))
    <3>1. InFile(ar) /\ BufferFits(ar, s, file)
      BY <2>2, Known DEF AreaFits
    <3>2. NoAdds(Rest(a))
      BY <1>1, <1>6, <2>2, LockedAdds DEF NoAdds
    <3>3. \A i \in 1 .. 0 : FALSE
      OBVIOUS
    <3> DEFINE q == Rest(a)
    <3>4. q = Rest(a)
      OBVIOUS
    <3> HIDE DEF q
    <3>5. (\A i \in DOMAIN s : s[i].op # "headWrite") => \A i \in DOMAIN q : q[i].op # "headWrite"
      BY <1>2, <3>3, <3>4, RestWritesNoHeader
    <3>6. BufferFits(ar, q, file)
      BY <1>5, <3>1, <3>5, BufferKept
    <3> QED BY <3>1, <3>2, <3>4, <3>6 DEF AreaFits, AppendFits, NoAdds
  <2> QED BY <1>1, <1>2, <1>6, <2>1, <2>2, DoneInv
<1>7. CASE Fail(a, ar) /\ unsafe' = unsafe /\ ~Head(s).try
  <2> DEFINE q == Abort(Rest(a))
  <2>1. Go(a, ar, q)
    BY <1>7 DEF Fail
  <2>2. q \in Seq(Steps) /\ \A i \in DOMAIN q : q[i].op = "headUnlock"
    BY AbortIs
  <2> HIDE DEF q
  <2>3. HeaderPending(ar, s) => ar.fUpdateHeader /\ ~load.writeMode
    <3> SUFFICES ASSUME NEW i \in DOMAIN s, s[i].op = "headWrite"
                 PROVE  FALSE
      BY DEF HeaderPending
    <3>1. OnlyBefore(s, i, {"headLock", "headCount"})
      BY <1>2 DEF Fits, StepFits, HeaderFits
    <3>2. i # 1 /\ i \in 1 .. Len(s) /\ Len(s) \in Nat
      BY <1>1, <1>2
    <3>3. 1 \in 1 .. i - 1
      BY <3>2
    <3> QED BY <1>1, <1>2, <3>1, <3>3 DEF OnlyBefore
  <2>4. ~unsafe => InFile(ar) /\ BufferFits(ar, q, file)
    <3> SUFFICES ASSUME ~unsafe
                 PROVE  InFile(ar) /\ BufferFits(ar, q, file)
      OBVIOUS
    <3>1. InFile(ar) /\ BufferFits(ar, s, file)
      BY Known DEF AreaFits
    <3>2. \A i \in DOMAIN q : q[i].op # "headWrite"
      BY <2>2
    <3> QED BY <1>5, <3>1, <3>2, BufferKept
  <2>5. ~ar.fAppend \/ failures > 0
    BY <1>2 DEF Inv, WrittenBeforeUnlock
  <2> QED BY <1>1, <1>2, <1>7, <2>1, <2>2, <2>3, <2>4, <2>5, AbortInv
<1> QED BY <1>1, <1>4, <1>6, <1>7

\* ReadRecord
LEMMA ReadRecordInv ==
    ASSUME NEW a \in Areas, Inv, LocksInv', ReadRecord(a), load' = load
    PROVE  Inv'
<1> DEFINE ar == area[a]
           s == todo[a]
           q == Rest(a)
           count == IF ar.ulRecNo > ar.ulRecCount THEN CalcRecCount ELSE ar.ulRecCount
           c == IF ar.fPositioned THEN count ELSE ar.ulRecCount
           v == IF ar.fPositioned /\ ar.ulRecNo <= count THEN file[ar.ulRecNo] ELSE ar.pRecord
           ar2 == [ar EXCEPT !.fValidBuffer = TRUE, !.ulRecCount = c, !.pRecord = v]
<1>1. s # <<>> /\ Head(s).op = "read" /\ LocksInv
  BY DEF ReadRecord, Doing, Inv
<1>2. /\ ar \in AreaStates /\ StateFits(ar) /\ ar.open /\ Fits(ar, s) /\ s[1] = Head(s)
      /\ file \in Seq(Nat) /\ Len(file) \in Nat /\ CalcRecCount = Len(file) /\ Counted(ar, Len(file))
      /\ ~NothingToDo(ar, Head(s)) /\ s \in Seq(Steps) /\ q \in Seq(Steps) /\ Spliced(s, q, 0, 2)
  BY <1>1, RestIs, AtStep DEF CalcRecCount
<1>3. Done(a, ar2) /\ UNCHANGED <<load, file, header, ledger, appended, failures, crashes, unsafe>>
  BY <1>2 DEF ReadRecord, AreaStates, history
<1>4. ar.ulRecNo \in Nat /\ ar.ulRecCount \in Nat /\ ~ar.fRecordChanged /\ ~ar.fAppend
  BY <1>1, <1>2, AreaFields DEF NothingToDo, StateFits
<1>5. ar.fPositioned => v = file[ar.ulRecNo]
  <2>1. ar.fPositioned => ar.ulRecNo <= Len(file)
    BY <1>2, <1>4 DEF Counted
  <2>2. ar.fPositioned => ar.ulRecNo <= count
    BY <1>2, <1>4, <2>1
  <2> QED BY <2>2
<1> HIDE DEF v, c, count
<1>6. /\ ar2.fRecordChanged = ar.fRecordChanged /\ ar2.fAppend = ar.fAppend /\ ar2.fUpdateHeader = ar.fUpdateHeader
      /\ ar2.fPositioned = ar.fPositioned /\ ar2.ulRecNo = ar.ulRecNo /\ ar2.pLocksPos = ar.pLocksPos
      /\ ar2.pRecord = v
  BY <1>2 DEF AreaStates
<1> HIDE DEF ar2, q
<1>7. ASSUME ~unsafe
      PROVE  AreaFits(a, ar2, q)
  <2>1. InFile(ar) /\ AppendFits(ar, s, Len(file), Late(a, ar.ulRecCount + 1))
    BY <1>7, Known DEF AreaFits
  <2>2. InFile(ar2)
    BY <1>6, <2>1 DEF InFile
  <2>3. \A i \in 1 .. 0 : FALSE
    OBVIOUS
  <2>4. NoAdds(q)
    BY <1>1, <1>2, <2>1, <2>3, RestAddsNone
  <2>5. BufferFits(ar2, q, file)
    BY <1>4, <1>5, <1>6 DEF BufferFits
  <2> QED BY <2>2, <2>4, <2>5 DEF AreaFits, AppendFits, NoAdds
<1>8. ~Doing(a, "headLock")
  BY <1>1 DEF Doing
<1> QED BY <1>1, <1>3, <1>4, <1>6, <1>7, <1>8, DoneInv DEF q

\* The program changes a record that it has locked and read.
LEMMA PutFits ==
    ASSUME NEW ar \in AreaStates, NEW s, NEW n, BufferFits(ar, s, file), StateFits(ar), ar.open, ar.fValidBuffer,
           ar.fPositioned, MayGoHot(ar), file \in Seq(Nat), Counted(ar, Len(file)),
           NEW ar2, ar2 = [ar EXCEPT !.fRecordChanged = TRUE, !.pRecord = @ + 1, !.edits = @ + 1]
    PROVE  BufferFits(ar2, <<>>, file)
<1>1. /\ ar2.fRecordChanged /\ ar2.pRecord = ar.pRecord + 1 /\ ar2.edits = ar.edits + 1
      /\ ar2.fAppend = ar.fAppend /\ ar2.ulRecNo = ar.ulRecNo /\ ar2.fUpdateHeader = ar.fUpdateHeader
      /\ ar2.fFLocked = ar.fFLocked /\ ar2.pLocksPos = ar.pLocksPos
  BY DEF AreaStates
<1>2. ar.pRecord \in Nat /\ ar.edits \in Nat /\ ar.ulRecNo \in Nat /\ ar.ulRecNo > 0 /\ Len(file) \in Nat
  BY AreaFields DEF StateFits
<1>3. Holds(ar, ar.ulRecNo)
  BY DEF BufferFits, MayGoHot, Holds
<1>4. FileAt(file, ar.ulRecNo) \in Nat
  BY <1>2 DEF FileAt
<1>5. ar.pRecord = FileAt(file, ar.ulRecNo) + ar.edits
  <2>1. CASE ar.fRecordChanged
    BY <2>1 DEF BufferFits
  <2>2. CASE ~ar.fRecordChanged
    <3>1. ar.edits = 0 /\ ~ar.fAppend
      BY <2>2 DEF StateFits
    <3>2. ar.ulRecNo \in 1 .. Len(file)
      BY <1>2, <3>1 DEF Counted
    <3>3. ar.pRecord = file[ar.ulRecNo]
      BY <1>3, <2>2 DEF BufferFits
    <3> QED BY <1>2, <1>4, <3>1, <3>2, <3>3 DEF FileAt
  <2> QED BY <2>1, <2>2
<1>6. ar2.pRecord = FileAt(file, ar2.ulRecNo) + ar2.edits
  BY <1>1, <1>2, <1>4, <1>5
<1>7. Holds(ar2, ar2.ulRecNo)
  BY <1>1, <1>3 DEF Holds, IsLocked
<1>8. ar2.fAppend => ar2.ulRecNo = Len(file) + 1 /\ ar2.fUpdateHeader
  BY <1>1 DEF BufferFits
<1> QED BY <1>1, <1>6, <1>7, <1>8 DEF BufferFits

\* PutValue
LEMMA PutValueInv ==
    ASSUME NEW a \in Areas, Inv, LocksInv', PutValue(a), load' = load
    PROVE  Inv'
<1> DEFINE ar == area[a]
           s == todo[a]
           put == [ar EXCEPT !.fRecordChanged = TRUE, !.pRecord = @ + 1, !.edits = @ + 1]
           ar2 == IF ar.fPositioned /\ MayGoHot(ar) THEN put ELSE ar
<1>1. /\ s # <<>> /\ Head(s).op = "put" /\ LocksInv /\ Done(a, ar2)
      /\ UNCHANGED <<load, file, header, ledger, appended, failures, crashes, unsafe>>
  BY DEF PutValue, Doing, Inv, history
<1>2. /\ ar \in AreaStates /\ StateFits(ar) /\ ar.open /\ StepFits(ar, s, 1) /\ s[1] = Head(s)
      /\ file \in Seq(Nat) /\ Counted(ar, Len(file)) /\ s \in Seq(Steps) /\ Rest(a) \in Seq(Steps)
  BY <1>1, RestIs, AtStep
<1>3. ar.fValidBuffer /\ Len(s) = 1
  BY <1>1, <1>2 DEF StepFits, ChangeFits
<1>4. Rest(a) = <<>>
  <2>1. Len(Rest(a)) = 0
    BY <1>1, <1>2, <1>3, HeadTailProperties DEF Rest
  <2> QED BY <1>2, <2>1, EmptySeq
<1>5. /\ put.fUpdateHeader = ar.fUpdateHeader /\ put.fAppend = ar.fAppend /\ put.pLocksPos = ar.pLocksPos
  BY <1>2 DEF AreaStates
<1>6. put = [ar EXCEPT !.fRecordChanged = TRUE, !.pRecord = @ + 1, !.edits = @ + 1]
  OBVIOUS
<1> HIDE DEF put
<1>7. ASSUME ~unsafe
      PROVE  AreaFits(a, ar2, Rest(a))
  <2>1. InFile(ar) /\ BufferFits(ar, s, file)
    BY <1>7, Known DEF AreaFits
  <2>2. InFile(ar2)
    BY <1>5, <2>1 DEF InFile
  <2>3. BufferFits(ar2, <<>>, file)
    <3>1. CASE ar.fPositioned /\ MayGoHot(ar)
      <4>1. BufferFits(put, <<>>, file)
        BY <1>2, <1>3, <1>6, <2>1, <3>1, PutFits
      <4> QED BY <3>1, <4>1
    <3>2. CASE ~(ar.fPositioned /\ MayGoHot(ar))
      BY <2>1, <3>2 DEF BufferFits
    <3> QED BY <3>1, <3>2
  <2>4. NoAdds(<<>>)
    BY DEF NoAdds
  <2> QED BY <1>4, <2>2, <2>3, <2>4 DEF AreaFits, AppendFits, NoAdds
<1>8. ~Doing(a, "headLock")
  BY <1>1 DEF Doing
<1>9. ar2.fUpdateHeader = ar.fUpdateHeader /\ (ar2.fAppend => ar.fAppend)
  BY <1>5
<1> HIDE DEF ar2
<1> QED BY <1>1, <1>4, <1>7, <1>8, <1>9, DoneInv

\* The steps p lock record r, if it is not locked.
LocksLast(ar, p, r) ==
    /\ p \in Seq(Steps)
    /\ \A i \in 1 .. Len(p) : p[i].op \in {"unlockRecords", "rawLock"}
    /\ p = <<>> => Holds(ar, r)
    /\ p # <<>> => /\ Len(p) \in 1 .. 2 /\ p[Len(p)] = Step("rawLock", r)
                   /\ \A i \in 1 .. Len(p) - 1 : p[i].op = "unlockRecords"

\* So does hb_dbfLockRecord().
LEMMA LockRecordEnds ==
    ASSUME NEW ar, NEW r \in Nat, NEW e, NEW p, p = LockRecord(ar, r, e)
    PROVE  LocksLast(ar, p, r)
<1> DEFINE u == Do("unlockRecords")
           l == Step("rawLock", r)
<1>1. u \in Steps /\ l \in Steps /\ u.op = "unlockRecords" /\ l.op = "rawLock"
  BY StepTypes DEF Ops, Do, Step
<1>2. (p = <<>> /\ Holds(ar, r)) \/ p = <<l>> \/ p = <<u, l>>
  BY DEF LockRecord, Holds, u, l
<1> HIDE DEF u, l
<1>3. CASE p = <<>> /\ Holds(ar, r)
  BY <1>3 DEF LocksLast
<1>4. CASE p = <<l>>
  <2>1. <<l>> \in Seq(Steps) /\ Len(<<l>>) = 1 /\ <<l>>[1] = l
    BY <1>1
  <2> QED BY <1>1, <1>4, <2>1 DEF l, LocksLast
<1>5. CASE p = <<u, l>>
  <2>1. <<u, l>> \in Seq(Steps) /\ Len(<<u, l>>) = 2 /\ <<u, l>>[1] = u /\ <<u, l>>[2] = l
    BY <1>1
  <2>2. \A i \in 1 .. 2 : i = 1 \/ i = 2
    OBVIOUS
  <2>3. \A i \in 1 .. 2 - 1 : i = 1
    OBVIOUS
  <2> QED BY <1>1, <1>5, <2>1, <2>2, <2>3 DEF l, LocksLast
<1> QED BY <1>2, <1>3, <1>4, <1>5

\* AppendCount
LEMMA AppendCountInv ==
    ASSUME NEW a \in Areas, Inv, LocksInv', AppendCount(a), load' = load
    PROVE  Inv'
<1> DEFINE ar == area[a]
           s == todo[a]
           ar2 == [ar EXCEPT !.ulRecCount = CalcRecCount]
           new == CalcRecCount + 1
           e == Rec(a) = 1
           p == IF IsLocked(ar2, new) THEN <<>> ELSE LockRecord(ar2, new, e)
           q == p \o Tail(s)
           k == Len(p)
<1>1. /\ s # <<>> /\ Head(s).op = "append" /\ LocksInv /\ Go(a, ar2, q)
      /\ UNCHANGED <<load, file, header, ledger, appended, failures, crashes, unsafe>>
  BY DEF AppendCount, Doing, Inv, history, Rest
<1>2. /\ ar \in AreaStates /\ StateFits(ar) /\ Fits(ar, s) /\ StepFits(ar, s, 1) /\ s[1] = Head(s) /\ s \in Seq(Steps)
      /\ CalcRecCount = Len(file) /\ Len(file) \in Nat
  BY <1>1, RestIs, AtStep DEF CalcRecCount
<1>3. /\ SameBuffer(ar, ar2) /\ SameRecords(ar, ar2) /\ ar2.ulRecCount = Len(file)
      /\ ar2.fHeaderLocked = ar.fHeaderLocked
  BY <1>2 DEF AreaStates, SameBuffer, SameRecords
<1> HIDE DEF ar2
<1>4. /\ ~ar.fRecordChanged /\ ar.fHeaderLocked /\ 1 < Len(s) /\ s[2].op = "blank"
  <2>1. ~Cleaned(s, 1) /\ ~HeldFrom(s, 1) /\ 1 + 1 = 2
    BY DEF Cleaned, HeldFrom
  <2>2. s[1 + 1].op = "blank"
    BY <1>1, <1>2 DEF StepFits, ChangeFits
  <2> QED BY <1>1, <1>2, <2>1, <2>2 DEF StepFits, ChangeFits, HeaderFits, HeldAt
<1>5. \A o \in DOMAIN s : o > 2 => s[o].op = "headUnlock"
  <2>1. 2 \in DOMAIN s
    BY <1>2, <1>4
  <2>2. StepFits(ar, s, 2)
    BY <1>2, <2>1 DEF Fits
  <2> QED BY <1>2, <1>4, <2>2 DEF StepFits, ChangeFits
<1>6. /\ new \in Nat /\ new = Len(file) + 1
  BY <1>2
<1> HIDE DEF new
<1>7. /\ p \in Seq(Steps) /\ k \in Nat
      /\ \A i \in 1 .. k : p[i].op \in {"unlockRecords", "rawLock"}
      /\ k = 0 => Holds(ar2, new)
      /\ k # 0 => /\ k \in 1 .. 2 /\ p[k] = Step("rawLock", new)
                  /\ \A i \in 1 .. k - 1 : p[i].op = "unlockRecords"
  <2>1. CASE IsLocked(ar2, new)
    <3>1. p = <<>> /\ k = 0
      BY <2>1
    <3> QED BY <2>1, <3>1 DEF Holds
  <2>2. CASE ~IsLocked(ar2, new)
    <3>1. p = LockRecord(ar2, new, e)
      BY <2>2
    <3> HIDE DEF p, e
    <3>2. LocksLast(ar2, p, new)
      BY <1>6, <3>1, LockRecordEnds
    <3>3. k \in Nat /\ (k = 0 <=> p = <<>>)
      BY <3>2, EmptySeq DEF LocksLast
    <3> QED BY <3>2, <3>3 DEF LocksLast
  <2> QED BY <2>1, <2>2
<1>8. q \in Seq(Steps) /\ Spliced(s, q, k, 2) /\ \A i \in 1 .. k : q[i] = p[i]
  BY <1>1, <1>2, <1>7, RestSplice
<1> HIDE DEF p, q, k
<1>9. \A i \in 1 .. k : q[i].op \in {"unlockRecords", "rawLock"}
  BY <1>7, <1>8
<1>10. ASSUME ~unsafe
       PROVE  AreaFits(a, ar2, q)
  <2>1. InFile(ar) /\ BufferFits(ar, s, file)
    BY <1>10, Known DEF AreaFits
  <2>2. InFile(ar2)
    BY <1>3, <2>1 DEF InFile, SameRecords
  <2>3. BufferFits(ar2, q, file)
    BY <1>3, <1>4, <2>1, BufferKept
  <2>4. ASSUME NEW i \in DOMAIN q, Adds(q, i)
        PROVE  i = k + 1
    <3>1. i \notin 1 .. k
      BY <1>9, <2>4 DEF Adds
    <3>2. PICK o \in DOMAIN s : o = i - k + 1 /\ o > 1 /\ i \in k + 1 .. Len(q) /\ Before(s, q, k, 2, i, o)
      BY <1>2, <1>8, <3>1, RestOf
    <3>3. q[i] = s[o]
      BY <3>2 DEF Before
    <3>4. ~(o > 2)
      BY <1>5, <2>4, <3>3 DEF Adds
    <3> QED BY <1>7, <3>2, <3>4
  <2>5. AppendFits(ar2, q, Len(file), Late(a, ar2.ulRecCount + 1))
    <3> SUFFICES ASSUME NEW i \in DOMAIN q, Adds(q, i)
                 PROVE  /\ ar2.fHeaderLocked /\ ~ar2.fRecordChanged /\ ar2.ulRecCount = Len(file)
                        /\ IF i = 1 THEN Holds(ar2, Len(file) + 1)
                           ELSE /\ q[i - 1].op = "rawLock" /\ q[i - 1].rec = ar2.ulRecCount + 1 /\ ~q[i - 1].try
                                /\ OnlyBefore(q, i - 1, {"unlockRecords", "goCold", "unlockRecord"})
      BY DEF AppendFits
    <3>1. i = k + 1 /\ ar2.fHeaderLocked /\ ~ar2.fRecordChanged
      BY <1>3, <1>4, <2>4 DEF SameBuffer
    <3>2. CASE k = 0
      BY <1>3, <1>6, <1>7, <3>1, <3>2
    <3>3. CASE k # 0
      <4>1. i # 1 /\ i - 1 = k /\ k \in 1 .. k
        BY <1>7, <3>1, <3>3
      <4>2. q[k] = Step("rawLock", new)
        BY <1>7, <1>8, <3>3, <4>1
      <4>3. q[k].op = "rawLock" /\ q[k].rec = new /\ ~q[k].try
        BY <4>2 DEF Step
      <4>4. \A j \in 1 .. k - 1 : j \in 1 .. k /\ p[j].op = "unlockRecords"
        BY <1>7, <3>3
      <4>5. OnlyBefore(q, k, {"unlockRecords", "goCold", "unlockRecord"})
        BY <1>8, <4>4 DEF OnlyBefore
      <4> QED BY <1>3, <1>6, <3>1, <4>1, <4>3, <4>5
    <3> QED BY <3>2, <3>3
  <2> QED BY <2>2, <2>3, <2>5 DEF AreaFits
<1>11. ~Doing(a, "headLock")
  BY <1>1 DEF Doing
<1>12. ar2.fUpdateHeader = ar.fUpdateHeader /\ (ar2.fAppend => ar.fAppend) /\ ~ar2.fRecordChanged
  BY <1>3, <1>4 DEF SameBuffer
<1>13. s[1].op = "append" /\ \A i \in 1 .. k : q[i].op \notin {"fileUnlock", "unlockRecord", "headWrite"}
  BY <1>1, <1>2, <1>9
<1> QED BY <1>1, <1>8, <1>10, <1>11, <1>12, <1>13, RestInv

\* CloseFile
LEMMA CloseFileInv ==
    ASSUME NEW a \in Areas, Inv, LocksInv', CloseFile(a), load' = load
    PROVE  Inv'
<1> DEFINE ar == area[a]
           s == todo[a]
<1>1. /\ s # <<>> /\ Head(s).op = "close" /\ LocksInv /\ Go(a, Closed, Rest(a))
      /\ UNCHANGED <<load, file, header, ledger, appended, failures, crashes, unsafe>>
  BY DEF CloseFile, Doing, Inv, history, Done
<1>2. StepFits(ar, s, 1) /\ s[1] = Head(s) /\ s \in Seq(Steps) /\ Rest(a) \in Seq(Steps) /\ failures \in Nat /\ crashes \in Nat
  BY <1>1, RestIs, AtStep DEF LocksInv, TypeOK
<1>3. Len(s) = 1 /\ ~ar.fUpdateHeader
  <2>1. ~Earlier(s, 1, {"headIf", "headWrite"})
    BY DEF Earlier
  <2> QED BY <1>1, <1>2, <2>1 DEF StepFits, CloseFits
<1>4. Rest(a) = <<>>
  <2>1. Len(Rest(a)) = 0
    BY <1>1, <1>2, <1>3, HeadTailProperties DEF Rest
  <2> QED BY <1>2, <2>1, EmptySeq
<1>5. ~HeaderPending(ar, s)
  BY <1>3 DEF HeaderPending
<1>6. InFile(Closed) /\ BufferFits(Closed, <<>>, file) /\ Closed.fAppend = FALSE
  BY ClosedProps DEF InFile, BufferFits
<1>7. ~Doing(a, "headLock")
  BY <1>1 DEF Doing
<1>8. \A i \in DOMAIN Rest(a) : Rest(a)[i].op = "headUnlock"
  BY <1>4
<1> QED BY <1>1, <1>2, <1>4, <1>5, <1>6, <1>7, <1>8, AbortInv

-----------------------------------------------------------------------------
(* Methods called by the program.                                          *)

\* A method is called.
LEMMA CallInv ==
    ASSUME NEW a \in Areas, Inv, LocksInv', load' = load, NEW p \in Seq(Steps), Call(a, p),
           \A i \in 1 .. Len(p) : p[i].op # "headWrite", NoAdds(p),
           \A i \in 1 .. Len(p) : p[i].op \in {"fileUnlock", "unlockRecord"} => Earlier(p, i, {"goCold"})
    PROVE  Inv'
<1> DEFINE ar == area[a]
<1>1. /\ todo[a] = <<>> /\ Go(a, ar, p) /\ failures \in Nat /\ crashes \in Nat
      /\ UNCHANGED <<load, file, header, ledger, appended, failures, crashes, unsafe>>
  BY DEF Call, Inv, LocksInv, TypeOK, history
<1>2. DOMAIN p = 1 .. Len(p)
  OBVIOUS
<1>3. WritesFirst(ar, p) /\ CountsFirst(ar, p, Len(file))
  BY <1>2 DEF WritesFirst, CountsFirst
<1>4. ~ar.fAppend \/ failures > 0
  BY <1>1 DEF Inv, WrittenBeforeUnlock
<1>5. HeaderPending(ar, todo[a]) => HeaderPending(ar, p)
  BY <1>1 DEF HeaderPending
<1>6. ~unsafe => AreaFits(a, ar, p)
  <2> SUFFICES ASSUME ~unsafe
               PROVE  AreaFits(a, ar, p)
    OBVIOUS
  <2>1. InFile(ar) /\ BufferFits(ar, todo[a], file)
    BY Known DEF AreaFits
  <2>2. SameBuffer(ar, ar) /\ SameRecords(ar, ar)
    BY DEF SameBuffer, SameRecords
  <2>3. BufferFits(ar, p, file)
    BY <1>2, <2>1, <2>2, BufferKept
  <2> QED BY <2>1, <2>3 DEF AreaFits, AppendFits, NoAdds
<1>7. ~Doing(a, "headLock")
  BY <1>1 DEF Doing
<1> QED BY <1>1, <1>3, <1>4, <1>5, <1>6, <1>7, QuietInv

\* Steps that give back no lock, add no record and do not write the header.
PlainSteps ==
    {"goCold", "unlockRecords", "unlockFile", "headIf", "close", "goTo", "goBottom", "rawLock",
     "lockFile", "read", "put"}

\* A method made of them is called.
LEMMA PlainCall ==
    ASSUME NEW a \in Areas, Inv, LocksInv', load' = load, NEW p \in Seq(Steps), Call(a, p),
           \A i \in 1 .. Len(p) : p[i].op \in PlainSteps
    PROVE  Inv'
<1>1. NoAdds(p)
  <2>1. DOMAIN p = 1 .. Len(p)
    OBVIOUS
  <2> QED BY <2>1 DEF NoAdds, Adds, PlainSteps
<1>2. \A i \in 1 .. Len(p) : p[i].op \notin {"headWrite", "fileUnlock", "unlockRecord"}
  BY DEF PlainSteps
<1> QED BY <1>1, <1>2, CallInv

\* Close
LEMMA CloseInv ==
    ASSUME NEW a \in Areas, Inv, LocksInv', Close(a), load' = load
    PROVE  Inv'
<1> DEFINE s1 == Try("goCold")
           s2 == Do("unlockRecords")
           s3 == Do("unlockFile")
           s4 == Do("headIf")
           s5 == Do("close")
           p == <<s1, s2, s3, s4, s5>>
<1>1. Call(a, p)
  BY DEF Close
<1>2. /\ s1 \in Steps /\ s2 \in Steps /\ s3 \in Steps /\ s4 \in Steps /\ s5 \in Steps
      /\ s1.op \in PlainSteps /\ s2.op \in PlainSteps /\ s3.op \in PlainSteps
      /\ s4.op \in PlainSteps /\ s5.op \in PlainSteps
  BY StepTypes DEF Ops, Try, Do, Step, PlainSteps
<1> HIDE DEF s1, s2, s3, s4, s5
<1>3. /\ p \in Seq(Steps) /\ Len(p) = 5
      /\ p[1] = s1 /\ p[2] = s2 /\ p[3] = s3 /\ p[4] = s4 /\ p[5] = s5
  BY <1>2
<1> HIDE DEF p
<1>4. \A i \in 1 .. Len(p) : i = 1 \/ i = 2 \/ i = 3 \/ i = 4 \/ i = 5
  BY <1>3
<1> QED BY <1>1, <1>2, <1>3, <1>4, PlainCall

\* A method of two steps, and one of one.
LEMMA PairInv ==
    ASSUME NEW a \in Areas, Inv, LocksInv', load' = load, NEW x \in Steps, NEW y \in Steps,
           x.op \in PlainSteps, y.op \in PlainSteps, Call(a, <<x, y>>) \/ Call(a, <<x>>)
    PROVE  Inv'
<1> DEFINE p == <<x, y>>
           q == <<x>>
<1>1. Call(a, p) \/ Call(a, q)
  OBVIOUS
<1>2. /\ p \in Seq(Steps) /\ Len(p) = 2 /\ p[1] = x /\ p[2] = y
      /\ q \in Seq(Steps) /\ Len(q) = 1 /\ q[1] = x
  OBVIOUS
<1> HIDE DEF p, q
<1>3. \A i \in 1 .. Len(p) : p[i].op \in PlainSteps
  <2>1. \A i \in 1 .. Len(p) : i = 1 \/ i = 2
    BY <1>2
  <2> QED BY <1>2, <2>1
<1>4. \A i \in 1 .. Len(q) : q[i].op \in PlainSteps
  BY <1>2
<1> QED BY <1>1, <1>2, <1>3, <1>4, PlainCall

\* RLock and DbRLock
LEMMA RecordLockInv ==
    ASSUME NEW a \in Areas, Inv, LocksInv', load' = load, NEW r \in Nat, NEW e,
           Call(a, LockRecord(area[a], r, e))
    PROVE  Inv'
<1> DEFINE p == LockRecord(area[a], r, e)
<1>1. OnlyLocks(area[a], p, r)
  BY LockRecordProps
<1>2. Call(a, p)
  OBVIOUS
<1> HIDE DEF p
<1>3. p \in Seq(Steps) /\ \A i \in 1 .. Len(p) : p[i].op \in PlainSteps
  BY <1>1 DEF OnlyLocks, PlainSteps
<1> QED BY <1>2, <1>3, PlainCall

\* DbRUnlock
LEMMA DbRUnlockInv ==
    ASSUME NEW a \in Areas, Inv, LocksInv', load' = load, NEW r \in Nat, DbRUnlock(a, r)
    PROVE  Inv'
<1> DEFINE x == Try("goCold")
           y == Step("unlockRecord", r)
           z == Do("unlockFile")
           p == <<x, y, z>>
<1>1. Call(a, p)
  BY DEF DbRUnlock
<1>2. /\ x \in Steps /\ y \in Steps /\ z \in Steps
      /\ x.op = "goCold" /\ y.op = "unlockRecord" /\ z.op = "unlockFile"
  BY StepTypes DEF Ops, Try, Do, Step
<1> HIDE DEF x, y, z
<1>3. p \in Seq(Steps) /\ Len(p) = 3 /\ p[1] = x /\ p[2] = y /\ p[3] = z
  BY <1>2
<1> HIDE DEF p
<1>4. \A i \in 1 .. Len(p) : i = 1 \/ (i = 2 /\ 1 \in 1 .. i - 1) \/ i = 3
  BY <1>3
<1>5. /\ \A i \in 1 .. Len(p) : p[i].op \in {"goCold", "unlockRecord", "unlockFile"}
      /\ \A i \in 1 .. Len(p) : p[i].op \in {"fileUnlock", "unlockRecord"} => Earlier(p, i, {"goCold"})
  BY <1>2, <1>3, <1>4 DEF Earlier
<1>6. NoAdds(p)
  <2>1. DOMAIN p = 1 .. Len(p)
    BY <1>3
  <2> QED BY <1>5, <2>1 DEF NoAdds, Adds
<1>7. \A i \in 1 .. Len(p) : p[i].op # "headWrite"
  BY <1>5
<1> QED BY <1>1, <1>3, <1>5, <1>6, <1>7, CallInv

\* DbAppend
LEMMA DbAppendInv ==
    ASSUME NEW a \in Areas, Inv, LocksInv', load' = load, NEW all \in {0, 1}, DbAppend(a, all)
    PROVE  Inv'
<1> DEFINE s1 == Do("goCold")
           s2 == Do("headLock")
           s3 == Step("append", all)
           s4 == Try("blank")
           s5 == Do("headUnlock")
           p == <<s1, s2, s3, s4, s5>>
<1>1. Call(a, p)
  BY DEF DbAppend
<1>2. /\ s1 \in Steps /\ s2 \in Steps /\ s3 \in Steps /\ s4 \in Steps /\ s5 \in Steps
      /\ s1.op = "goCold" /\ s2.op = "headLock" /\ s3.op = "append" /\ s4.op = "blank" /\ s5.op = "headUnlock"
  BY StepTypes DEF Ops, Try, Do, Step
<1> HIDE DEF s1, s2, s3, s4, s5
<1>3. /\ p \in Seq(Steps) /\ Len(p) = 5
      /\ p[1] = s1 /\ p[2] = s2 /\ p[3] = s3 /\ p[4] = s4 /\ p[5] = s5
  BY <1>2
<1> HIDE DEF p
<1>4. \A i \in 1 .. Len(p) : i = 1 \/ i = 2 \/ i = 3 \/ (i = 4 /\ 3 \in 1 .. i - 1) \/ i = 5
  BY <1>3
<1>5. \A i \in 1 .. Len(p) : p[i].op \notin {"headWrite", "fileUnlock", "unlockRecord"}
  BY <1>2, <1>3, <1>4
<1>6. NoAdds(p)
  <2>1. DOMAIN p = 1 .. Len(p)
    BY <1>3
  <2> QED BY <1>2, <1>3, <1>4, <2>1 DEF NoAdds, Adds, Earlier
<1> QED BY <1>1, <1>3, <1>5, <1>6, CallInv

\* Open
LEMMA OpenInv ==
    ASSUME NEW a \in Areas, Inv, LocksInv', Open(a), load' = load
    PROVE  Inv'
<1> DEFINE ar == [Closed EXCEPT !.open = TRUE, !.ulRecCount = CalcRecCount]
           ar2 == Positioned(ar, 1)
<1>1. /\ ~area[a].open /\ Go(a, ar2, <<>>) /\ LocksInv
      /\ UNCHANGED <<load, file, header, ledger, appended, failures, crashes, unsafe>>
  BY DEF Open, Inv, history
<1>2. /\ area[a] \in AreaStates /\ file \in Seq(Nat) /\ Len(file) \in Nat /\ Fits(area[a], todo[a])
      /\ failures \in Nat /\ crashes \in Nat
  BY <1>1, LenProperties DEF LocksInv, TypeOK, StepsFit
<1>3. area[a] = Closed /\ todo[a] = <<>>
  BY <1>1, <1>2 DEF StateFits, Fits
<1>4. ar \in AreaStates
  <2>1. CalcRecCount \in Nat
    BY <1>2 DEF CalcRecCount
  <2>2. [Closed EXCEPT !.open = TRUE] \in AreaStates
    BY ClosedProps, AreaExcept
  <2> QED BY <2>1, <2>2, AreaExcept
<1>5. /\ ar.fRecordChanged = FALSE /\ ar.fAppend = FALSE /\ ar.pLocksPos = {}
  BY DEF Closed
<1>6. ar2 = Positioned(ar, 1)
  OBVIOUS
<1> HIDE DEF ar, ar2
<1>7. /\ ~(ar2.fPositioned /\ ar2.fValidBuffer) /\ ar2.fRecordChanged = FALSE
      /\ ar2.fAppend = FALSE /\ ar2.pLocksPos = {}
  BY <1>4, <1>5, <1>6, PositionedUnread
<1>8. InFile(ar2) /\ BufferFits(ar2, <<>>, file)
  BY <1>7, UnreadFits DEF InFile
<1>9. ~HeaderPending(area[a], todo[a])
  BY <1>3, ClosedProps DEF HeaderPending
<1>10. ~Doing(a, "headLock") /\ <<>> \in Seq(Steps) /\ \A i \in DOMAIN <<>> : <<>>[i].op = "headUnlock"
  BY <1>3 DEF Doing
<1> QED BY <1>1, <1>2, <1>7, <1>8, <1>9, <1>10, AbortInv

\* RecCount
LEMMA RecCountInv ==
    ASSUME NEW a \in Areas, Inv, LocksInv', RecCount(a), load' = load
    PROVE  Inv'
<1> DEFINE ar == area[a]
           ar2 == [ar EXCEPT !.ulRecCount = CalcRecCount]
<1>1. /\ LocksInv /\ todo[a] = <<>> /\ Go(a, ar2, <<>>)
      /\ UNCHANGED <<load, file, header, ledger, appended, failures, crashes, unsafe>>
  BY DEF RecCount, Inv, history
<1>2. ar \in AreaStates /\ failures \in Nat /\ crashes \in Nat
  BY <1>1 DEF LocksInv, TypeOK
<1>3. SameBuffer(ar, ar2) /\ SameRecords(ar, ar2)
  BY <1>2 DEF AreaStates, SameBuffer, SameRecords
<1> HIDE DEF ar2
<1>4. \A i \in DOMAIN <<>> : FALSE
  OBVIOUS
<1>5. ~unsafe => InFile(ar2) /\ BufferFits(ar2, <<>>, file)
  <2> SUFFICES ASSUME ~unsafe
               PROVE  InFile(ar2) /\ BufferFits(ar2, <<>>, file)
    OBVIOUS
  <2>1. InFile(ar) /\ BufferFits(ar, todo[a], file)
    BY Known DEF AreaFits
  <2>2. BufferFits(ar2, <<>>, file)
    BY <1>3, <1>4, <2>1, BufferKept
  <2> QED BY <1>3, <2>1, <2>2 DEF InFile, SameRecords
<1>6. HeaderPending(ar, todo[a]) => ar2.fUpdateHeader /\ ~load.writeMode
  BY <1>1, <1>3, <1>4 DEF HeaderPending, SameBuffer
<1>7. ~ar2.fAppend \/ failures > 0
  BY <1>2, <1>3 DEF Inv, WrittenBeforeUnlock, SameBuffer
<1>8. ~Doing(a, "headLock") /\ <<>> \in Seq(Steps) /\ \A i \in DOMAIN <<>> : <<>>[i].op = "headUnlock"
  BY <1>1, <1>4 DEF Doing
<1> QED BY <1>1, <1>2, <1>5, <1>6, <1>7, <1>8, AbortInv

\* Crash
LEMMA CrashInv ==
    ASSUME NEW a \in Areas, Inv, LocksInv', Crash(a), load' = load
    PROVE  Inv'
<1>1. /\ Go(a, Closed, <<>>) /\ UNCHANGED <<load, file, header, ledger, appended, failures>>
      /\ crashes' = crashes + 1 /\ unsafe' = (unsafe \/ UnsafeEnd(a))
  BY DEF Crash
<1>2. failures \in Nat /\ crashes \in Nat
  BY DEF Inv, LocksInv, TypeOK
<1>3. InFile(Closed) /\ BufferFits(Closed, <<>>, file) /\ Closed.fAppend = FALSE
  BY ClosedProps DEF InFile, BufferFits
<1>4. ~unsafe' => ~unsafe /\ ~(failures > 0 /\ Doing(a, "headLock"))
  BY <1>1 DEF UnsafeEnd
<1>5. <<>> \in Seq(Steps) /\ \A i \in DOMAIN <<>> : <<>>[i].op = "headUnlock"
  OBVIOUS
<1>6. crashes' # crashes /\ crashes' \in {crashes, crashes + 1}
  BY <1>1, <1>2
<1> QED BY <1>1, <1>3, <1>4, <1>5, <1>6, AbortInv

-----------------------------------------------------------------------------
(* The header is written.                                                  *)

\* Nothing but the header is then to be written.
LEMMA WrittenOnce ==
    ASSUME NEW a \in Areas, LocksInv, todo[a] # <<>>, Head(todo[a]).op = "headWrite"
    PROVE  \A i \in DOMAIN Rest(a) : Rest(a)[i].op # "headWrite"
<1> DEFINE s == todo[a]
           q == Rest(a)
<1>1. s \in Seq(Steps) /\ s[1] = Head(s) /\ Fits(area[a], s) /\ q \in Seq(Steps) /\ Spliced(s, q, 0, 2)
  BY RestIs, AtStep
<1> SUFFICES ASSUME NEW i \in DOMAIN q, q[i].op = "headWrite"
             PROVE  FALSE
  OBVIOUS
<1> HIDE DEF q
<1>2. i \notin 1 .. 0
  OBVIOUS
<1>3. PICK o \in DOMAIN s : o > 1 /\ Before(s, q, 0, 2, i, o)
  BY <1>1, <1>2, RestOf
<1>4. s[o].op = "headWrite"
  BY <1>3 DEF Before
<1>5. OnlyBefore(s, o, {"headLock", "headCount"})
  BY <1>1, <1>4 DEF Fits, StepFits, HeaderFits
<1>6. 1 \in 1 .. o - 1
  BY <1>1, <1>3
<1> QED BY <1>1, <1>5, <1>6 DEF OnlyBefore

\* An area that writes the header has nothing else to write.
LEMMA HeadWriteFits ==
    ASSUME NEW a \in Areas, Inv, ~unsafe, todo[a] # <<>>, Head(todo[a]).op = "headWrite",
           NEW ar2, ar2 = [area[a] EXCEPT !.fUpdateHeader = FALSE]
    PROVE  /\ InFile(ar2) /\ (\A q : BufferFits(ar2, q, file)) /\ AreaFits(a, ar2, Rest(a))
<1> DEFINE ar == area[a]
           s == todo[a]
           q == Rest(a)
<1>1. /\ LocksInv /\ ar \in AreaStates /\ StateFits(ar) /\ s \in Seq(Steps) /\ s[1] = Head(s) /\ 1 \in DOMAIN s
      /\ q \in Seq(Steps) /\ Spliced(s, q, 0, 2) /\ Fits(ar, s)
  BY RestIs, AtStep, RestSplice DEF Inv
<1>2. InFile(ar) /\ BufferFits(ar, s, file) /\ AppendFits(ar, s, Len(file), Late(a, ar.ulRecCount + 1))
  BY Known DEF AreaFits
<1>3. ~ar.fRecordChanged /\ ~ar.fAppend
  BY <1>1, <1>2 DEF BufferFits, StateFits
<1>4. /\ ar2.fAppend = ar.fAppend /\ ar2.fRecordChanged = ar.fRecordChanged /\ SameRecords(ar, ar2)
      /\ ar2.fPositioned = ar.fPositioned /\ ar2.fValidBuffer = ar.fValidBuffer
      /\ ar2.pRecord = ar.pRecord /\ ar2.ulRecNo = ar.ulRecNo
  BY <1>1 DEF AreaStates, SameRecords
<1>5. \A t : BufferFits(ar2, t, file)
  BY <1>2, <1>3, <1>4 DEF BufferFits, SameRecords, Holds, IsLocked
<1>6. NoAdds(q)
  <2>1. \A i \in 1 .. 0 : FALSE
    OBVIOUS
  <2>2. \A i \in 1 .. 0 : q[i].op # "blank"
    BY <2>1
  <2> HIDE DEF q
  <2> QED BY <1>1, <1>2, <2>2, RestAddsNone
<1> QED BY <1>2, <1>4, <1>5, <1>6 DEF AreaFits, AppendFits, NoAdds, InFile, SameRecords

\* HeadWrite
LEMMA HeadWriteInv ==
    ASSUME NEW a \in Areas, Inv, LocksInv', HeadWrite(a), load' = load
    PROVE  Inv'
<1> DEFINE ar == area[a]
           s == todo[a]
           q == Rest(a)
           ar2 == [ar EXCEPT !.fUpdateHeader = FALSE]
<1>1. /\ s # <<>> /\ Head(s).op = "headWrite" /\ LocksInv /\ Doing(a, "headWrite")
      /\ UNCHANGED <<load, file, ledger, appended, crashes, unsafe>>
      /\ \/ header' = ar2.ulRecCount /\ Go(a, ar2, q) /\ UNCHANGED failures
         \/ failures' = failures + 1 /\ Fail(a, ar2) /\ UNCHANGED header
  BY DEF HeadWrite, Doing, Inv, Done
<1>2. /\ ar \in AreaStates /\ s \in Seq(Steps) /\ s[1] = Head(s) /\ q \in Seq(Steps) /\ Spliced(s, q, 0, 2)
      /\ TypeOK /\ failures \in Nat /\ crashes \in Nat
  BY <1>1, RestIs, AtStep DEF TypeOK
<1>3. \A i \in DOMAIN q : q[i].op # "headWrite"
  BY <1>1, WrittenOnce
<1>4. ar2.fAppend = ar.fAppend /\ ar2.fRecordChanged = ar.fRecordChanged /\ ar2.ulRecCount = ar.ulRecCount
  BY <1>2 DEF AreaStates
<1>5. ~unsafe => InFile(ar2) /\ (\A t : BufferFits(ar2, t, file)) /\ AreaFits(a, ar2, q)
  BY <1>1, HeadWriteFits
<1>6. ~Doing(a, "headLock") /\ ~(failures > 0 /\ Doing(a, "headLock"))
  BY <1>1 DEF Doing
<1> HIDE DEF ar2, q
<1>7. CASE header' = ar2.ulRecCount /\ Go(a, ar2, q) /\ UNCHANGED failures
  <2>1. WrittenBeforeUnlock'
    <3>1. failures' = 0 => failures = 0 /\ ~ar2.fAppend /\ WritesFirst(ar2, q)
      <4> SUFFICES ASSUME failures = 0
                   PROVE  ~ar2.fAppend /\ WritesFirst(ar2, q)
        BY <1>7
      <4>1. ~ar.fAppend /\ WritesFirst(ar, s)
        BY DEF Inv, WrittenBeforeUnlock
      <4>2. \A i \in 1 .. 0 : q[i].op \in {"fileUnlock", "unlockRecord"} => Earlier(q, i, {"goCold"})
        OBVIOUS
      <4>3. ar2.fRecordChanged => (ar.fRecordChanged /\ s[1].op # "goCold") \/ q = <<>>
        BY <1>1, <1>2, <1>4
      <4> QED BY <1>1, <1>2, <1>4, <4>1, <4>2, <4>3, RestWrites
    <3> QED BY <1>2, <1>7, <3>1, WrittenKeeps DEF Inv
  <2>2. DataInv'
    BY <1>1, <1>2, <1>5, <1>6, <1>7, DataKeeps DEF Inv
  <2>3. HeaderInv'
    <3>1. header' <= Len(file) /\ (failures = 0 => header' = Len(file))
      BY <1>1, <1>4, <1>7 DEF Inv, HeaderInv
    <3>2. \A b \in Areas \ {a} : area'[b] = area[b] /\ todo'[b] = todo[b]
      BY <1>2, <1>7, GoProps DEF TypeOK
    <3>3. ~Doing(a, "headWrite")'
      <4> SUFFICES ASSUME todo'[a] # <<>>, Head(todo'[a]).op = "headWrite"
                   PROVE  FALSE
        BY DEF Doing
      <4>1. PICK n \in Nat : Passed(ar2, q, todo'[a], n)
        BY <1>2, <1>7, GoProps DEF TypeOK
      <4>2. todo'[a] \in Seq(Steps)
        BY DEF LocksInv, TypeOK
      <4> DEFINE t == todo'[a]
      <4> HIDE DEF t
      <4>3. t[1].op = "headWrite" /\ Len(t) \in Nat /\ Len(t) # 0
        BY <4>2, EmptySeq, RestSplice DEF t
      <4>4. n \in 1 .. Len(q) + 1 /\ Len(t) = Len(q) - n + 1 /\ \A j \in 1 .. Len(t) : t[j] = q[n + j - 1]
        BY <4>1 DEF Passed, t
      <4>5. t[1] = q[n + 1 - 1] /\ n \in DOMAIN q /\ n + 1 - 1 = n
        <5>1. Len(q) \in Nat /\ DOMAIN q = 1 .. Len(q) /\ 1 \in 1 .. Len(t)
          BY <1>2, <4>3, LenProperties
        <5> QED BY <4>3, <4>4, <5>1
      <4> QED BY <1>3, <4>3, <4>5
    <3>4. \A b \in Areas : Doing(b, "headWrite")' =>
              area'[b] = area[b] /\ Doing(b, "headWrite")
      BY <3>2, <3>3 DEF Doing
    <3>5. /\ header' <= Len(file') /\ (failures' = 0 => header' = Len(file'))
          /\ \A b \in Areas : Doing(b, "headWrite")' =>
                /\ area'[b].ulRecCount <= Len(file')
                /\ failures' = 0 => area'[b].ulRecCount = Len(file')
      BY <1>1, <1>7, <3>1, <3>4 DEF Inv, HeaderInv
    <3> QED BY <3>5 DEF HeaderInv
  <2> QED BY <2>1, <2>2, <2>3 DEF Inv
<1>8. CASE failures' = failures + 1 /\ Fail(a, ar2) /\ UNCHANGED header
  <2>1. failures' # failures
    BY <1>2, <1>8
  <2>2. CASE Head(s).try
    <3>1. Go(a, ar2, q)
      BY <1>8, <2>2 DEF Fail, q
    <3>2. CountsFirst(ar2, q, Len(file))
      BY <1>3 DEF CountsFirst
    <3> QED BY <1>1, <1>2, <1>5, <1>6, <1>8, <2>1, <3>1, <3>2, QuietInv
  <2>3. CASE ~Head(s).try
    <3> DEFINE u == Abort(q)
    <3>1. Go(a, ar2, u)
      BY <1>8, <2>3 DEF Fail, q
    <3>2. u \in Seq(Steps) /\ \A i \in DOMAIN u : u[i].op = "headUnlock"
      BY AbortIs
    <3> HIDE DEF u
    <3> QED BY <1>1, <1>2, <1>5, <1>6, <1>8, <2>1, <3>1, <3>2, AbortInv
  <2> QED BY <2>2, <2>3
<1> QED BY <1>1, <1>7, <1>8

-----------------------------------------------------------------------------
(* The writing of records.                                                 *)

\* A record is added: what is left to do is to unlock the header.
LEMMA BlankRest ==
    ASSUME NEW a \in Areas, LocksInv, todo[a] # <<>>, Head(todo[a]).op = "blank"
    PROVE  \A i \in DOMAIN Rest(a) : Rest(a)[i].op = "headUnlock"
<1> DEFINE s == todo[a]
           q == Rest(a)
<1>1. /\ s \in Seq(Steps) /\ s[1] = Head(s) /\ StepFits(area[a], s, 1)
      /\ Len(s) \in Nat \ {0} /\ Len(q) = Len(s) - 1 /\ \A i \in 1 .. Len(q) : q[i] = s[i + 1]
  BY AtStep, HeadTailProperties DEF Rest
<1>2. \A j \in 1 + 1 .. Len(s) : s[j].op = "headUnlock"
  BY <1>1 DEF StepFits, ChangeFits
<1>3. q \in Seq(Steps) /\ DOMAIN q = 1 .. Len(q)
  BY RestIs
<1> SUFFICES ASSUME NEW i \in 1 .. Len(q)
             PROVE  q[i].op = "headUnlock"
  BY <1>3
<1> HIDE DEF q
<1>4. i + 1 \in 1 + 1 .. Len(s)
  BY <1>1
<1> QED BY <1>1, <1>2, <1>4

\* A record is added, which is the first that is not in the file, and locked.
LEMMA BlankFits ==
    ASSUME NEW a \in Areas, Inv, ~unsafe, todo[a] # <<>>, Head(todo[a]).op = "blank",
           NEW ar, ar = Blank(area[a])
    PROVE  /\ InFile(ar) /\ area[a].fHeaderLocked /\ ar.ulRecNo = Len(file) + 1 /\ Holds(ar, ar.ulRecNo)
           /\ ~area[a].fRecordChanged
           /\ \A q : (\A i \in DOMAIN q : q[i].op # "headWrite") => BufferFits(ar, q, file)
<1>1. /\ area[a] \in AreaStates /\ todo[a][1].op = "blank" /\ 1 \in DOMAIN todo[a]
      /\ file \in Seq(Nat) /\ Len(file) \in Nat /\ DOMAIN file = 1 .. Len(file)
  BY AtStep, RestSplice DEF Inv
<1>2. InFile(area[a]) /\ AppendFits(area[a], todo[a], Len(file), Late(a, area[a].ulRecCount + 1))
  BY Known DEF AreaFits
<1>3. Adds(todo[a], 1)
  BY <1>1 DEF Adds, Earlier
<1>4. /\ area[a].fHeaderLocked /\ ~area[a].fRecordChanged
      /\ area[a].ulRecCount = Len(file) /\ Holds(area[a], Len(file) + 1)
  BY <1>1, <1>2, <1>3 DEF AppendFits
<1>5. /\ SameLocks(area[a], ar)
      /\ ar.pRecord = 0 /\ ar.edits = 0 /\ ar.fUpdateHeader = TRUE
      /\ ar.fRecordChanged = TRUE /\ ar.fAppend = TRUE
      /\ ar.fPositioned = TRUE /\ ar.fValidBuffer = TRUE /\ ar.ulRecNo = area[a].ulRecCount + 1
  BY <1>1, BlankProps
<1>6. InFile(ar)
  BY <1>2, <1>5 DEF InFile, SameLocks
<1>7. ar.ulRecNo = Len(file) + 1 /\ Holds(ar, ar.ulRecNo)
  BY <1>4, <1>5 DEF Holds, IsLocked, SameLocks
<1>8. FileAt(file, ar.ulRecNo) = 0
  BY <1>1, <1>7 DEF FileAt
<1>9. ar.pRecord = FileAt(file, ar.ulRecNo) + ar.edits
  BY <1>5, <1>8
<1> QED BY <1>4, <1>5, <1>6, <1>7, <1>9 DEF BufferFits

\* A record is not written.
LEMMA WriteFailsInv ==
    ASSUME NEW a \in Areas, Inv, LocksInv', todo[a] # <<>>, load' = load,
           Head(todo[a]).op \in {"goCold", "blank"}, NEW ar, WriteFails(a, ar),
           ~unsafe => /\ InFile(ar) /\ AreaFits(a, ar, Rest(a))
                      /\ \A q : (\A i \in DOMAIN q : q[i].op # "headWrite") => BufferFits(ar, q, file)
    PROVE  Inv'
<1> DEFINE s == todo[a]
           q == Rest(a)
<1>1. /\ LocksInv /\ UNCHANGED <<load, file, header, ledger, appended, crashes, unsafe>>
      /\ failures' = failures + 1 /\ Fail(a, ar)
  BY DEF WriteFails, Inv
<1>2. /\ s \in Seq(Steps) /\ s[1] = Head(s) /\ q \in Seq(Steps) /\ Spliced(s, q, 0, 2) /\ Fits(area[a], s)
      /\ failures \in Nat /\ crashes \in Nat
  BY <1>1, RestIs, AtStep DEF LocksInv, TypeOK
<1>3. failures' # failures /\ ~(failures > 0 /\ Doing(a, "headLock"))
  BY <1>1, <1>2 DEF Doing
<1> HIDE DEF q
<1>4. CASE Head(s).try
  <2>1. Go(a, ar, q)
    BY <1>1, <1>4 DEF Fail, q
  <2>2. CountsFirst(ar, q, Len(file))
    <3>1. \A i \in 1 .. 0 : q[i].op = "headWrite" => i > 1 /\ q[i - 1].op = "headCount"
      OBVIOUS
    <3> QED BY <1>2, <3>1, RestCounts
  <2>3. ~unsafe' => ~unsafe /\ AreaFits(a, ar, q)
    BY <1>1 DEF q
  <2> QED BY <1>1, <1>2, <1>3, <2>1, <2>2, <2>3, QuietInv
<1>5. CASE ~Head(s).try
  <2> DEFINE u == Abort(q)
  <2>1. Go(a, ar, u)
    BY <1>1, <1>5 DEF Fail, q
  <2>2. u \in Seq(Steps) /\ \A i \in DOMAIN u : u[i].op = "headUnlock"
    BY AbortIs
  <2> HIDE DEF u
  <2>3. \A i \in DOMAIN u : u[i].op # "headWrite"
    BY <2>2
  <2>4. ~unsafe' => ~unsafe /\ InFile(ar) /\ BufferFits(ar, u, file)
    BY <1>1, <2>3
  <2> QED BY <1>1, <1>2, <1>3, <2>1, <2>2, <2>4, AbortInv
<1> QED BY <1>4, <1>5

\* GOCOLD fails: the changes are still in the buffer.
LEMMA GoColdFailsInv ==
    ASSUME NEW a \in Areas, Inv, LocksInv', Doing(a, "goCold"), load' = load, WriteFails(a, area[a])
    PROVE  Inv'
<1> DEFINE ar == area[a]
           s == todo[a]
           q == Rest(a)
<1>1. /\ LocksInv /\ s # <<>> /\ Head(s).op = "goCold" /\ s[1] = Head(s) /\ ~NothingToDo(ar, Head(s))
      /\ q \in Seq(Steps) /\ Spliced(s, q, 0, 2)
  BY RestIs, AtStep DEF Doing, Inv
<1>2. ar.fRecordChanged
  BY <1>1 DEF NothingToDo
<1>3. SameBuffer(ar, ar) /\ SameRecords(ar, ar)
  BY DEF SameBuffer, SameRecords
<1>4. ASSUME ~unsafe
      PROVE  /\ InFile(ar) /\ AreaFits(a, ar, q)
             /\ \A t : (\A i \in DOMAIN t : t[i].op # "headWrite") => BufferFits(ar, t, file)
  <2>1. InFile(ar) /\ BufferFits(ar, s, file)
    BY <1>4, Known DEF AreaFits
  <2>2. \A t : (\A i \in DOMAIN t : t[i].op # "headWrite") => BufferFits(ar, t, file)
    BY <1>3, <2>1, BufferKept
  <2>3. AreaFits(a, ar, q)
    <3>1. \A i \in 1 .. 0 : q[i].op # "blank" /\ q[i].op # "headWrite"
      OBVIOUS
    <3> HIDE DEF q
    <3> QED BY <1>1, <1>2, <1>3, <1>4, <3>1, KeptFits
  <2> QED BY <2>1, <2>2, <2>3
<1> QED BY <1>1, <1>4, WriteFailsInv

\* The first write of a record fails: it is still in the buffer.
LEMMA BlankFailsInv ==
    ASSUME NEW a \in Areas, Inv, LocksInv', Doing(a, "blank"), load' = load,
           NEW ar, ar = Blank(area[a]), WriteFails(a, ar)
    PROVE  Inv'
<1> DEFINE q == Rest(a)
<1>1. LocksInv /\ todo[a] # <<>> /\ Head(todo[a]).op = "blank"
  BY DEF Doing, Inv
<1>2. \A i \in DOMAIN q : q[i].op = "headUnlock"
  BY <1>1, BlankRest
<1> HIDE DEF q
<1>3. ~unsafe => /\ InFile(ar) /\ BufferFits(ar, q, file)
                 /\ \A t : (\A i \in DOMAIN t : t[i].op # "headWrite") => BufferFits(ar, t, file)
  BY <1>1, <1>2, BlankFits
<1>4. ~unsafe => AreaFits(a, ar, q)
  BY <1>2, <1>3 DEF AreaFits, AppendFits, Adds
<1> QED BY <1>1, <1>3, <1>4, WriteFailsInv DEF q

\* A record is locked by one area.
LEMMA HoldsOnce ==
    ASSUME NEW a \in Areas, NEW b \in Areas, TypeOK, LocksAgree, InFile(area[a]), InFile(area[b]),
           NEW r, Holds(area[a], r), Holds(area[b], r)
    PROVE  a = b
<1>1. CASE RecByte(r) \in FileBytes
  <2>1. RecByte(r) \in locked[a] /\ RecByte(r) \in locked[b]
    BY <1>1, HeldByte
  <2> QED BY <2>1 DEF LocksAgree
<1>2. CASE RecByte(r) \notin FileBytes
  <2>1. area[a].fFLocked /\ area[b].fFLocked
    BY <1>2 DEF InFile, Holds, IsLocked
  <2>2. \E x : x \in FileBytes
    <3> DEFINE first == IF load.scheme.dir < 0 THEN load.scheme.pos - load.scheme.flSize ELSE load.scheme.pos + 1
               size == load.scheme.flSize
    <3>1. IsLoad(load)
      BY DbfAssumption DEF TypeOK
    <3>2. load.scheme.pos \in Nat /\ load.scheme.dir \in {-1, 1, 2} /\ size \in Nat \ {0}
      BY <3>1 DEF IsLoad
    <3>3. first \in Int
      BY <3>2
    <3>4. FileBytes = first .. first + size - 1
      BY DEF FileBytes
    <3> HIDE DEF first, size
    <3>5. first \in first .. first + size - 1
      BY <3>2, <3>3
    <3> QED BY <3>4, <3>5
  <2>3. PICK x : x \in FileBytes
    BY <2>2
  <2>4. x \in BytesOf(area[a]) /\ x \in BytesOf(area[b])
    BY <2>1, <2>3 DEF BytesOf
  <2>5. x \in locked[a] /\ x \in locked[b]
    BY <2>4 DEF LocksAgree
  <2> QED BY <2>5 DEF LocksAgree
<1> QED BY <1>1, <1>2

\* The header is locked by one area.
LEMMA HeaderOnce ==
    ASSUME NEW a \in Areas, NEW b \in Areas, LocksAgree, area[a].fHeaderLocked, area[b].fHeaderLocked
    PROVE  a = b
<1>1. HeadByte \in locked[a] /\ HeadByte \in locked[b]
  BY DEF LocksAgree, BytesOf
<1> QED BY <1>1 DEF LocksAgree

\* It is locked when it is written and when a record is added.
LEMMA HeaderHeld ==
    ASSUME NEW a \in Areas, LocksInv, Doing(a, "headWrite") \/ Doing(a, "blank")
    PROVE  area[a].fHeaderLocked
<1>1. StepFits(area[a], todo[a], 1) /\ todo[a][1].op \in {"blank", "headWrite"}
  BY AtStep DEF Doing
<1>2. HeldAt(area[a], todo[a], 1)
  BY <1>1 DEF StepFits, HeaderFits
<1>3. \A k \in 1 .. 1 - 1 : FALSE
  OBVIOUS
<1> QED BY <1>2, <1>3 DEF HeldAt, HeldFrom

\* The steps after a write: those that write the header, if there is a new
\* record to tell, and the rest.
HeaderOrRest(ar, s, q, k) ==
    /\ q \in Seq(Steps) /\ Spliced(s, q, k, 2)
    /\ \A i \in 1 .. k : /\ q[i].op \in {"headLock", "headCount", "headWrite", "headUnlock"}
                         /\ q[i].op = "headWrite" => i > 1 /\ q[i - 1].op = "headCount"
    /\ ar.fUpdateHeader /\ load.writeMode =>
          /\ \E i \in DOMAIN q : q[i].op = "headWrite"
          /\ ~ar.fHeaderLocked => q # <<>> /\ q[1].op = "headLock"

\* GOCOLD goes on with them.
LEMMA HeaderOrRestIs ==
    ASSUME NEW ar \in AreaStates, NEW try \in BOOLEAN, NEW s \in Seq(Steps), s # <<>>, NEW p, NEW q,
           p = IF ar.fUpdateHeader /\ load.writeMode THEN WriteDBHeader(ar, try) ELSE <<>>,
           q = p \o Tail(s)
    PROVE  HeaderOrRest(ar, s, q, Len(p))
<1>1. CASE ar.fUpdateHeader /\ load.writeMode
  <2>1. p = WriteDBHeader(ar, try) /\ ar.fHeaderLocked \in BOOLEAN
    BY <1>1, AreaFields
  <2>2. q \in Seq(Steps) /\ Spliced(s, q, Len(p), 2) /\ HeaderFirst(q, Len(p))
    BY <2>1, HeaderComes
  <2>3. ~ar.fHeaderLocked => q # <<>> /\ q[1].op = "headLock"
    <3> SUFFICES ASSUME ~ar.fHeaderLocked
                 PROVE  q # <<>> /\ q[1].op = "headLock"
      OBVIOUS
    <3>1. p \in Seq(Steps) /\ Len(p) = 4 /\ p[1].op = "headLock"
      BY <2>1, HeaderWrite
    <3>2. \A i \in 1 .. Len(p) : q[i] = p[i]
      BY <3>1, RestSplice
    <3>3. 1 \in 1 .. Len(p) /\ Len(q) = Len(p) + Len(s) - 2 + 1 /\ Len(s) \in Nat
      BY <2>2, <3>1 DEF Spliced
    <3>4. Len(q) # 0
      BY <3>1, <3>3
    <3> QED BY <2>2, <3>1, <3>2, <3>3, <3>4, EmptySeq
  <2> QED BY <2>2, <2>3 DEF HeaderOrRest, HeaderFirst
<1>2. CASE ~(ar.fUpdateHeader /\ load.writeMode)
  <2>1. p = <<>> /\ Len(p) = 0 /\ p \in Seq(Steps)
    BY <1>2
  <2>2. q \in Seq(Steps) /\ Spliced(s, q, 0, 2)
    BY <2>1, RestSplice
  <2>3. \A i \in 1 .. 0 : FALSE
    OBVIOUS
  <2> QED BY <1>2, <2>1, <2>2, <2>3 DEF HeaderOrRest
<1> QED BY <1>1, <1>2

\* What a write makes of the area.
Written(ar, ar2) ==
    /\ SameLocks(ar, ar2) /\ ar2.ulRecNo = ar.ulRecNo /\ ar2.pRecord = ar.pRecord
    /\ ar2.fUpdateHeader = ar.fUpdateHeader /\ ~ar2.fRecordChanged /\ ~ar2.fAppend

\* How it goes on.
LEMMA WriteGoes ==
    ASSUME NEW a \in Areas, LocksInv, todo[a] # <<>>, NEW ar \in AreaStates, WriteRecord(a, ar)
    PROVE  \E ar2, q, k : Go(a, ar2, q) /\ HeaderOrRest(ar, todo[a], q, k) /\ Written(ar, ar2)
<1> DEFINE x == Head(todo[a])
           ar2 == [ar EXCEPT !.fRecordChanged = FALSE, !.fAppend = FALSE, !.edits = 0]
           p == IF ar.fUpdateHeader /\ load.writeMode THEN WriteDBHeader(ar, x.try) ELSE <<>>
           q == p \o Tail(todo[a])
<1>1. todo[a] \in Seq(Steps) /\ x.try \in BOOLEAN
  BY AtStep DEF Steps
<1>2. Go(a, ar2, q)
  BY DEF WriteRecord, Rest
<1>3. Written(ar, ar2)
  <2>1. ar2 = [ar EXCEPT !.fRecordChanged = FALSE, !.fAppend = FALSE, !.edits = 0]
    OBVIOUS
  <2> HIDE DEF ar2
  <2> QED BY <2>1, WrittenArea DEF Written
<1>4. /\ p = IF ar.fUpdateHeader /\ load.writeMode THEN WriteDBHeader(ar, x.try) ELSE <<>>
      /\ q = p \o Tail(todo[a])
  OBVIOUS
<1> HIDE DEF ar2, p, q
<1>5. HeaderOrRest(ar, todo[a], q, Len(p))
  BY <1>1, <1>4, HeaderOrRestIs
<1> QED BY <1>2, <1>3, <1>5

\* An area with a changed record, or one that is added, writes it.
Writing(a, ar) ==
    /\ todo[a] # <<>> /\ Head(todo[a]).op \in {"goCold", "blank"}
    /\ Head(todo[a]).op = "goCold" => ar = area[a]
    /\ Head(todo[a]).op = "blank" => ar = Blank(area[a])
    /\ WriteRecord(a, ar)

\* What it is.
LEMMA WritingProps ==
    ASSUME NEW a \in Areas, LocksInv, NEW ar, Writing(a, ar)
    PROVE  /\ ar \in AreaStates /\ SameLocks(area[a], ar) /\ ar.fPositioned /\ ar.fRecordChanged /\ ar.ulRecNo > 0
           /\ area[a].fUpdateHeader => ar.fUpdateHeader
           /\ ~ar.fAppend => ar.ulRecNo <= Len(file)
           /\ Head(todo[a]).op = "goCold" => area[a].fRecordChanged
           /\ Head(todo[a]).op = "blank" => ar.fUpdateHeader /\ ar.fAppend
           /\ ~Doing(a, "headLock") /\ Head(todo[a]) = todo[a][1]
<1>1. /\ todo[a] # <<>> /\ Head(todo[a]).op \in {"goCold", "blank"}
      /\ area[a] \in AreaStates /\ StateFits(area[a]) /\ area[a].open /\ ~NothingToDo(area[a], Head(todo[a]))
      /\ Counted(area[a], Len(file)) /\ Head(todo[a]) = todo[a][1]
  BY AtStep DEF Writing
<1>2. CASE Head(todo[a]).op = "goCold"
  <2>1. ar = area[a] /\ ar.fRecordChanged
    BY <1>1, <1>2 DEF Writing, NothingToDo
  <2> QED BY <1>1, <1>2, <2>1 DEF StateFits, SameLocks, Counted, Doing
<1>3. CASE Head(todo[a]).op = "blank"
  <2>1. ar = Blank(area[a])
    BY <1>3 DEF Writing
  <2>2. /\ ar \in AreaStates /\ SameLocks(area[a], ar) /\ ar.fUpdateHeader = TRUE
        /\ ar.fRecordChanged = TRUE /\ ar.fAppend = TRUE /\ ar.fPositioned = TRUE
        /\ ar.ulRecNo = area[a].ulRecCount + 1 /\ area[a].ulRecCount \in Nat
    BY <1>1, <2>1, BlankProps
  <2> QED BY <1>1, <1>3, <2>2 DEF Doing
<1> QED BY <1>1, <1>2, <1>3

\* If no write has failed, a record is added only by its append.
LEMMA GrownByBlank ==
    ASSUME NEW a \in Areas, Inv, load' = load, NEW ar, Writing(a, ar), failures = 0, Len(file') # Len(file)
    PROVE  Head(todo[a]).op = "blank"
<1> SUFFICES ASSUME Head(todo[a]).op = "goCold"
             PROVE  FALSE
  BY DEF Writing
<1>1. LocksInv /\ TypeOK /\ ~area[a].fAppend
  BY DEF Inv, LocksInv, WrittenBeforeUnlock
<1>2. ar = area[a]
  BY DEF Writing
<1>3. ar \in AreaStates /\ ar.ulRecNo <= Len(file)
  BY <1>1, <1>2, WritingProps
<1>4. Len(file) \in Nat /\ Len(file) <= Len(file') /\ Len(file') \in {Len(file), ar.ulRecNo}
  BY <1>1, <1>3, WrittenData DEF Writing
<1>5. ar.ulRecNo \in Nat
  BY <1>3, AreaFields
<1> QED BY <1>3, <1>4, <1>5

\* A write keeps what holds of the header.
LEMMA WriteHeaderInv ==
    ASSUME NEW a \in Areas, Inv, LocksInv', load' = load, NEW ar, Writing(a, ar),
           NEW ar2, NEW q, NEW k, Go(a, ar2, q), HeaderOrRest(ar, todo[a], q, k), Written(ar, ar2)
    PROVE  HeaderInv'
<1>1. /\ LocksInv /\ TypeOK /\ HeaderInv /\ LocksAgree /\ todo[a] \in Seq(Steps) /\ todo[a] # <<>>
      /\ Fits(area[a], todo[a]) /\ q \in Seq(Steps) /\ Spliced(todo[a], q, k, 2)
      /\ todo[a][1] = Head(todo[a]) /\ todo[a][1].op \in {"goCold", "blank"}
      /\ UNCHANGED <<load, header, failures, crashes>>
  BY AtStep DEF Inv, LocksInv, HeaderOrRest, Writing, WriteRecord
<1>2. ar \in AreaStates /\ SameLocks(area[a], ar) /\ (area[a].fUpdateHeader => ar.fUpdateHeader)
      /\ (Head(todo[a]).op = "blank" => ar.fUpdateHeader)
  BY <1>1, WritingProps
<1>3. Len(file) \in Nat /\ Len(file) <= Len(file') /\ Len(file') \in Nat /\ header \in Nat
  BY <1>1, <1>2, WrittenData, LenProperties DEF Writing, DataOK, TypeOK
<1>4. area'[a] = ar2 /\ \A b \in Areas \ {a} : area'[b] = area[b] /\ todo'[b] = todo[b]
  BY <1>1, GoProps DEF TypeOK
<1>5. /\ ~Doing(a, "headWrite")'
      /\ HeaderPending(ar2, q) => HeaderPending(ar2, todo'[a])
  <2>1. \A n : CountsFirst(ar2, q, n)
    BY <1>1, RestCounts DEF HeaderOrRest
  <2>2. /\ Doing(a, "headWrite")' => ar2.ulRecCount = 0
        /\ HeaderPending(ar2, q) => HeaderPending(ar2, todo'[a])
    BY <1>1, <2>1, PassedHeader
  <2>3. Doing(a, "headWrite")' => ar2.ulRecCount = 1
    BY <1>1, <2>1, PassedHeader
  <2> QED BY <2>2, <2>3
<1>6. \A b \in Areas : Doing(b, "headWrite")' =>
          b # a /\ area'[b] = area[b] /\ Doing(b, "headWrite")
  BY <1>4, <1>5 DEF Doing
<1>7. ASSUME failures = 0, Len(file') # Len(file)
      PROVE  Head(todo[a]).op = "blank" /\ area[a].fHeaderLocked
  <2>1. Head(todo[a]).op = "blank"
    BY <1>7, GrownByBlank
  <2>2. Doing(a, "blank")
    BY <1>1, <2>1 DEF Doing
  <2> QED BY <1>1, <2>1, <2>2, HeaderHeld
<1>8. ASSUME NEW b \in Areas, Doing(b, "headWrite")'
      PROVE  area'[b].ulRecCount <= Len(file') /\ (failures' = 0 => area'[b].ulRecCount = Len(file'))
  <2>1. b # a /\ area'[b] = area[b] /\ Doing(b, "headWrite") /\ area[b].ulRecCount \in Nat
    BY <1>1, <1>6, <1>8, AreaFields DEF TypeOK
  <2>2. area[b].ulRecCount <= Len(file) /\ (failures = 0 => area[b].ulRecCount = Len(file))
    BY <1>1, <2>1 DEF HeaderInv
  <2>3. failures = 0 => Len(file') = Len(file)
    <3>1. area[b].fHeaderLocked
      BY <1>1, <2>1, HeaderHeld
    <3> QED BY <1>1, <1>7, <2>1, <3>1, HeaderOnce
  <2> QED BY <1>1, <1>3, <2>1, <2>2, <2>3
<1>9. ASSUME failures' = 0, crashes' = 0, header' # Len(file')
      PROVE  \E b \in Areas : HeaderPending(area'[b], todo'[b])
  <2>1. CASE Len(file') = Len(file)
    <3>1. PICK b \in Areas : HeaderPending(area[b], todo[b])
      BY <1>1, <1>9, <2>1 DEF HeaderInv
    <3>2. CASE b = a
      <4>1. HeaderPending(ar2, q)
        BY <1>1, <1>2, <3>1, <3>2, RestPending DEF Written
      <4> QED BY <1>4, <1>5, <4>1
    <3> QED BY <1>4, <3>1, <3>2
  <2>2. CASE Len(file') # Len(file)
    <3>1. ar.fUpdateHeader
      BY <1>1, <1>2, <1>7, <1>9, <2>2
    <3>2. HeaderPending(ar2, q)
      BY <3>1 DEF HeaderPending, HeaderOrRest, Written
    <3> QED BY <1>4, <1>5, <3>2
  <2> QED BY <2>1, <2>2
<1>10. header' <= Len(file')
  BY <1>1, <1>3 DEF HeaderInv
<1>11. (\E b \in Areas : HeaderPending(area'[b], todo'[b])) => (\E b \in Areas : HeaderPending(area[b], todo[b]))'
  BY DEF HeaderPending
<1> QED BY <1>8, <1>9, <1>10, <1>11 DEF HeaderInv

\* What is known of what is written.
WriteFits(ar) ==
    /\ InFile(ar) /\ Holds(ar, ar.ulRecNo)
    /\ ar.pRecord = FileAt(file, ar.ulRecNo) + ar.edits
    /\ ar.fAppend => ar.ulRecNo = Len(file) + 1 /\ ar.fUpdateHeader

\* It is known.
LEMMA WriteFitsIs ==
    ASSUME NEW a \in Areas, Inv, ~unsafe, NEW ar, Writing(a, ar)
    PROVE  WriteFits(ar)
<1>1. LocksInv /\ todo[a] # <<>> /\ Head(todo[a]).op \in {"goCold", "blank"} /\ ar.fRecordChanged
  BY WritingProps DEF Inv, Writing
<1>2. CASE Head(todo[a]).op = "goCold"
  <2>1. ar = area[a]
    BY <1>2 DEF Writing
  <2>2. InFile(ar) /\ BufferFits(ar, todo[a], file)
    BY <2>1, Known DEF AreaFits
  <2> QED BY <1>1, <2>2 DEF BufferFits, WriteFits
<1>3. CASE Head(todo[a]).op = "blank"
  <2>1. ar = Blank(area[a])
    BY <1>3 DEF Writing
  <2>2. InFile(ar) /\ \A q : (\A i \in DOMAIN q : q[i].op # "headWrite") => BufferFits(ar, q, file)
    BY <1>1, <1>3, <2>1, BlankFits
  <2>3. BufferFits(ar, <<>>, file)
    BY <2>2
  <2> QED BY <1>1, <2>2, <2>3 DEF BufferFits, WriteFits
<1> QED BY <1>1, <1>2, <1>3

\* What the file becomes: record r, and nothing else, is written.
FileWritten(r, v) ==
    /\ Len(file) \in Nat /\ Len(file') \in Nat /\ r \in Nat /\ Len(file) <= Len(file')
    /\ DOMAIN file = 1 .. Len(file) /\ DOMAIN file' = 1 .. Len(file')
    /\ Len(file') = (IF r <= Len(file) THEN Len(file) ELSE r)
    /\ file'[r] = v
    /\ \A i \in 1 .. Len(file') : i # r => file'[i] = FileAt(file, i)

\* Every change that is written is in the record, and every append makes one.
LEMMA WriteLedger ==
    ASSUME NEW a \in Areas, Inv, ~unsafe, load' = load, NEW ar, Writing(a, ar)
    PROVE  /\ FileWritten(ar.ulRecNo, ar.pRecord)
           /\ file' = ledger' /\ Len(file') = load'.records + appended'
           /\ ~ar.fAppend => Len(file') = Len(file)
           /\ ar.fAppend => Len(file') = Len(file) + 1
<1> DEFINE r == ar.ulRecNo
<1>1. /\ LocksInv /\ TypeOK /\ WriteFits(ar) /\ file = ledger /\ Len(file) = load.records + appended
      /\ WriteRecord(a, ar)
  BY WriteFitsIs DEF Inv, LocksInv, DataInv, Writing
<1>2. ar \in AreaStates /\ r > 0 /\ (~ar.fAppend => r <= Len(file))
  BY <1>1, WritingProps
<1>3. r \in Nat /\ ar.edits \in Nat /\ ar.fAppend \in BOOLEAN
  BY <1>2, AreaFields
<1>4. /\ DataOK' /\ Len(file) \in Nat /\ Len(file) <= Len(file') /\ r <= Len(file')
      /\ Len(file') \in {Len(file), r} /\ Len(ledger') = Len(file')
      /\ \A i \in 1 .. Len(file') :
           /\ file'[i] = IF i = r THEN ar.pRecord ELSE IF i <= Len(file) THEN file[i] ELSE 0
           /\ ledger'[i] = (IF i <= Len(ledger) THEN ledger[i] ELSE 0) + (IF i = r THEN ar.edits ELSE 0)
      /\ appended' = appended + (IF ar.fAppend THEN 1 ELSE 0)
  BY <1>1, <1>2, WrittenData
<1>5. /\ file \in Seq(Nat) /\ file' \in Seq(Nat) /\ ledger' \in Seq(Nat) /\ DOMAIN file = 1 .. Len(file)
      /\ DOMAIN file' = 1 .. Len(file') /\ DOMAIN ledger' = 1 .. Len(file') /\ Len(file') \in Nat
      /\ appended \in Nat /\ load.records \in Nat
  BY <1>1, <1>4, LenProperties, DbfAssumption DEF DataOK, TypeOK, IsLoad
<1> HIDE DEF r
<1>13. r > 0 /\ Len(file) \in Nat /\ Len(file') \in Nat /\ DOMAIN file = 1 .. Len(file) /\ r <= Len(file')
       /\ r \in Nat
  BY <1>2, <1>3, <1>4, <1>5 DEF r
<1>6. \A i \in 1 .. Len(file') : FileAt(file, i) = IF i <= Len(file) THEN file[i] ELSE 0
  <2> SUFFICES ASSUME NEW i \in 1 .. Len(file')
               PROVE  FileAt(file, i) = IF i <= Len(file) THEN file[i] ELSE 0
    OBVIOUS
  <2>1. i \in DOMAIN file <=> i <= Len(file)
    BY <1>13
  <2> QED BY <2>1 DEF FileAt
<1>7. r \in 1 .. Len(file')
  BY <1>13
<1>8. Len(file') = IF r <= Len(file) THEN Len(file) ELSE r
  BY <1>3, <1>4
<1>9. FileWritten(r, ar.pRecord)
  <2>1. file'[r] = ar.pRecord
    BY <1>4, <1>7
  <2>2. \A i \in 1 .. Len(file') : i # r => file'[i] = FileAt(file, i)
    BY <1>4, <1>6
  <2> QED BY <1>3, <1>4, <1>5, <1>8, <2>1, <2>2 DEF FileWritten
<1>10. file' = ledger'
  <2>1. ASSUME NEW i \in 1 .. Len(file')
        PROVE  file'[i] = ledger'[i]
    <3>1. ledger'[i] = FileAt(file, i) + (IF i = r THEN ar.edits ELSE 0)
      BY <1>1, <1>4, <1>6
    <3>2. CASE i = r
      <4>1. file'[i] = FileAt(file, i) + ar.edits
        BY <1>1, <1>4, <3>2 DEF WriteFits, r
      <4> QED BY <3>1, <3>2, <4>1
    <3>3. CASE i # r
      <4>1. FileAt(file, i) \in Nat
        <5>1. i <= Len(file) => file[i] \in Nat
          <6>1. i <= Len(file) => i \in 1 .. Len(file)
            BY <1>13
          <6> QED BY <1>5, <6>1
        <5> QED BY <1>6, <5>1
      <4> QED BY <1>4, <1>6, <3>1, <3>3, <4>1
    <3> QED BY <3>2, <3>3
  <2> QED BY <1>5, <2>1
<1>11. (~ar.fAppend => Len(file') = Len(file)) /\ (ar.fAppend => Len(file') = Len(file) + 1)
  BY <1>1, <1>2, <1>4, <1>8 DEF WriteFits, r
<1>12. Len(file') = load'.records + appended'
  <2>1. /\ Len(file) = load.records + appended /\ appended' = appended + (IF ar.fAppend THEN 1 ELSE 0)
        /\ appended \in Nat /\ load.records \in Nat /\ load' = load
    BY <1>1, <1>4, <1>5
  <2> QED BY <1>11, <2>1
<1> QED BY <1>9, <1>10, <1>11, <1>12 DEF r

\* What another area knows of its record is not affected.
LEMMA WriteBuffer ==
    ASSUME NEW a \in Areas, NEW b \in Areas \ {a}, Inv, ~unsafe, load' = load, NEW ar, Writing(a, ar),
           SameLocks(area[a], ar), WriteFits(ar), FileWritten(ar.ulRecNo, ar.pRecord),
           ~ar.fAppend => Len(file') = Len(file)
    PROVE  BufferFits(area[b], todo[b], file')
<1> DEFINE br == area[b]
           r == ar.ulRecNo
           n == area[b].ulRecNo
<1>1. /\ TypeOK /\ LocksAgree /\ br \in AreaStates /\ StateFits(br) /\ Counted(br, Len(file))
      /\ InFile(br) /\ BufferFits(br, todo[b], file) /\ InFile(area[a])
  BY Known DEF Inv, LocksInv, TypeOK, StepsFit, Fits, CountsFit, AreaFits
<1>2. n \in Nat
  BY <1>1, AreaFields
<1>3. Holds(area[a], r)
  BY DEF WriteFits, Holds, IsLocked, SameLocks
<1>4. Holds(br, n) => n # r
  BY <1>1, <1>3, HoldsOnce
<1>5. /\ Len(file) \in Nat /\ Len(file') \in Nat /\ r \in Nat /\ Len(file) <= Len(file')
      /\ DOMAIN file = 1 .. Len(file) /\ DOMAIN file' = 1 .. Len(file')
      /\ \A i \in 1 .. Len(file') : i # r => file'[i] = FileAt(file, i)
  BY DEF FileWritten
<1>6. br.fRecordChanged => Holds(br, n) /\ br.pRecord = FileAt(file, n) + br.edits
  BY <1>1 DEF BufferFits
<1>10. \A i \in Nat : i > 0 /\ i <= Len(file) => i \in DOMAIN file /\ i \in DOMAIN file'
  <2>1. Len(file) \in Nat /\ Len(file') \in Nat /\ Len(file) <= Len(file')
    BY <1>5
  <2>2. \A i \in Nat : i > 0 /\ i <= Len(file) => i \in 1 .. Len(file) /\ i \in 1 .. Len(file')
    BY <2>1
  <2> QED BY <1>5, <2>2
<1>11. \A i \in DOMAIN file : i \in DOMAIN file'
  <2>1. Len(file) \in Nat /\ DOMAIN file = 1 .. Len(file)
    BY <1>5
  <2>2. \A i \in 1 .. Len(file) : i \in Nat /\ i > 0 /\ i <= Len(file)
    BY <2>1
  <2> QED BY <1>10, <2>1, <2>2
<1> HIDE DEF r, n
<1>7. ASSUME br.fAppend
      PROVE  n = Len(file') + 1 /\ br.fUpdateHeader
  <2>1. n = Len(file) + 1 /\ br.fUpdateHeader /\ br.fRecordChanged
    BY <1>1, <1>7 DEF BufferFits, StateFits, n
  <2>2. ~ar.fAppend
    BY <1>4, <1>6, <2>1 DEF WriteFits, r
  <2> QED BY <2>1, <2>2
<1>8. ASSUME br.fRecordChanged
      PROVE  br.pRecord = FileAt(file', n) + br.edits
  <2>1. n # r /\ br.pRecord = FileAt(file, n) + br.edits
    BY <1>4, <1>6, <1>8
  <2>2. CASE n \in DOMAIN file'
    <3>1. FileAt(file', n) = FileAt(file, n)
      BY <1>5, <2>1, <2>2 DEF FileAt
    <3> QED BY <2>1, <3>1
  <2>3. CASE n \notin DOMAIN file'
    <3>1. n \notin DOMAIN file
      BY <1>11, <2>3
    <3> QED BY <2>1, <2>3, <3>1 DEF FileAt
  <2> QED BY <2>2, <2>3
<1>9. ASSUME br.fPositioned, br.fValidBuffer, ~br.fRecordChanged, Holds(br, n)
      PROVE  br.pRecord = file'[n]
  <2>1. br.pRecord = file[n] /\ n # r /\ ~br.fAppend
    BY <1>1, <1>4, <1>9 DEF BufferFits, StateFits, n
  <2>2. br.open
    BY <1>1, <1>9, ClosedProps DEF StateFits
  <2>3. n > 0 /\ n <= Len(file)
    BY <1>1, <1>9, <2>1, <2>2 DEF StateFits, Counted, n
  <2>4. n \in DOMAIN file /\ n \in DOMAIN file'
    BY <1>2, <1>10, <2>3
  <2> QED BY <1>5, <2>1, <2>4 DEF FileAt
<1> QED BY <1>1, <1>6, <1>7, <1>8, <1>9 DEF BufferFits, n

\* Another area adds the record that it has counted, or it fails to lock it.
LEMMA WriteAppend ==
    ASSUME NEW a \in Areas, NEW b \in Areas \ {a}, Inv, ~unsafe', load' = load, NEW ar, Writing(a, ar),
           SameLocks(area[a], ar), WriteFits(ar),
           ~ar.fAppend => Len(file') = Len(file), ar.fAppend => Len(file') = Len(file) + 1,
           NEW ar2, NEW q, NEW k, Go(a, ar2, q), HeaderOrRest(ar, todo[a], q, k), Written(ar, ar2)
    PROVE  AppendFits(area[b], todo[b], Len(file'), Late(b, area[b].ulRecCount + 1)')
<1> DEFINE br == area[b]
           c == area[b].ulRecCount + 1
<1>1. /\ LocksInv /\ TypeOK /\ LocksAgree /\ ~unsafe /\ ~UnsafeWrite(ar) /\ failures' = failures
      /\ failures \in Nat /\ Len(file) \in Nat /\ q \in Seq(Steps) /\ ar \in AreaStates
      /\ ar.ulRecNo \in Nat /\ todo[a] # <<>> /\ Head(todo[a]).op \in {"goCold", "blank"}
  BY WritingProps, AreaFields, LenProperties DEF Inv, LocksInv, TypeOK, Writing, WriteRecord, HeaderOrRest
<1>2. /\ InFile(br) /\ InFile(area[a]) /\ AppendFits(br, todo[b], Len(file), Late(b, c))
  BY <1>1, Known DEF AreaFits
<1>3. /\ area'[a] = ar2 /\ \A e \in Areas \ {a} : area'[e] = area[e] /\ todo'[e] = todo[e]
      /\ \E n \in Nat : Passed(ar2, q, todo'[a], n)
  BY <1>1, GoProps DEF TypeOK
<1>4. Holds(area[a], ar.ulRecNo)
  BY DEF WriteFits, Holds, IsLocked, SameLocks
<1>5. c = br.ulRecCount + 1 /\ br.ulRecCount \in Nat
  BY <1>1, AreaFields DEF TypeOK
<1> HIDE DEF c
<1>6. Late(b, c) => Late(b, c)'
  <2>1. ~Doing(a, "headLock")
    BY <1>1 DEF Doing
  <2>2. c' = c
    BY <1>3 DEF c
  <2> QED BY <1>1, <1>3, <2>1, <2>2, LateStays DEF Late
<1> SUFFICES ASSUME NEW i \in DOMAIN todo[b], Adds(todo[b], i)
             PROVE  /\ br.fHeaderLocked /\ ~br.fRecordChanged
                    /\ IF i = 1 THEN br.ulRecCount = Len(file') /\ Holds(br, Len(file') + 1)
                       ELSE /\ todo[b][i - 1].op = "rawLock" /\ todo[b][i - 1].rec = br.ulRecCount + 1
                            /\ ~todo[b][i - 1].try
                            /\ OnlyBefore(todo[b], i - 1, {"unlockRecords", "goCold", "unlockRecord"})
                            /\ br.ulRecCount = Len(file') \/ Late(b, c)'
  BY DEF AppendFits, c
<1>7. /\ br.fHeaderLocked /\ ~br.fRecordChanged
      /\ IF i = 1 THEN br.ulRecCount = Len(file) /\ Holds(br, Len(file) + 1)
         ELSE /\ todo[b][i - 1].op = "rawLock" /\ todo[b][i - 1].rec = br.ulRecCount + 1
              /\ ~todo[b][i - 1].try
              /\ OnlyBefore(todo[b], i - 1, {"unlockRecords", "goCold", "unlockRecord"})
              /\ br.ulRecCount = Len(file) \/ Late(b, c)
  BY <1>2 DEF AppendFits
<1>8. CASE ~ar.fAppend
  BY <1>6, <1>7, <1>8
<1>9. CASE ar.fAppend
  <2>1. ar.ulRecNo = Len(file) + 1 /\ ar.fUpdateHeader
    BY <1>9 DEF WriteFits
  <2>2. i # 1
    BY <1>1, <1>2, <1>4, <1>7, <2>1, HoldsOnce
  <2>3. ~area[a].fHeaderLocked
    BY <1>1, <1>7, HeaderOnce
  <2>4. ~ar.fHeaderLocked
    BY <2>3 DEF SameLocks
  <2>5. load.writeMode
    BY <1>1, <1>9, <2>4 DEF UnsafeWrite
  <2>6. failures > 0
    <3>1. Head(todo[a]).op # "blank"
      BY <1>1, <2>3, HeaderHeld DEF Doing
    <3>2. area[a].fAppend
      BY <1>1, <1>9, <3>1 DEF Writing
    <3> QED BY <1>1, <3>2 DEF Inv, WrittenBeforeUnlock
  <2>7. Doing(a, "headLock")'
    <3>1. q # <<>> /\ q[1].op = "headLock"
      BY <2>1, <2>4, <2>5 DEF HeaderOrRest
    <3>2. PICK n \in Nat : Passed(ar2, q, todo'[a], n)
      BY <1>3
    <3>3. ~NothingToDo(ar2, q[1])
      BY <3>1 DEF NothingToDo
    <3>4. n = 1
      <4>1. n \in 1 .. Len(q) + 1 /\ Len(q) \in Nat /\ \A j \in 1 .. n - 1 : NothingToDo(ar2, q[j])
        BY <1>1, <3>2, LenProperties DEF Passed
      <4>2. 1 \notin 1 .. n - 1
        BY <3>3, <4>1
      <4> QED BY <4>1, <4>2
    <3> DEFINE t == todo'[a]
    <3>5. /\ t \in Seq(Steps) /\ Len(t) = Len(q) - 1 + 1 /\ \A j \in 1 .. Len(t) : t[j] = q[1 + j - 1]
          /\ Len(q) \in Nat /\ Len(q) # 0
      BY <1>1, <3>1, <3>2, <3>4, EmptySeq, LenProperties DEF Passed
    <3> HIDE DEF t
    <3>6. 1 \in 1 .. Len(t) /\ t[1] = q[1 + 1 - 1] /\ 1 + 1 - 1 = 1
      BY <3>5
    <3>7. t # <<>> /\ Head(t).op = "headLock"
      BY <3>1, <3>5, <3>6
    <3> QED BY <3>7 DEF Doing, t
  <2>8. br.ulRecCount = Len(file) => Late(b, c)'
    <3> SUFFICES ASSUME br.ulRecCount = Len(file)
                 PROVE  Late(b, c)'
      OBVIOUS
    <3>1. c = ar.ulRecNo /\ c' = c
      BY <1>3, <1>5, <2>1 DEF c
    <3>2. Holds(ar2, c)
      BY <3>1 DEF Written, WriteFits, Holds, IsLocked, SameLocks
    <3>3. Holds(area[a], c)'
      BY <1>3, <3>1, <3>2 DEF Holds, IsLocked
    <3>4. a \in Areas \ {b} /\ failures' > 0
      BY <1>1, <2>6
    <3> QED BY <2>7, <3>3, <3>4 DEF Late
  <2> QED BY <1>6, <1>7, <2>2, <2>8
<1> QED BY <1>8, <1>9

\* The area that writes knows what is in its record, and adds no other.
LEMMA WriterFits ==
    ASSUME NEW a \in Areas, Inv, ~unsafe, NEW ar, Writing(a, ar), WriteFits(ar), FileWritten(ar.ulRecNo, ar.pRecord),
           NEW ar2, NEW q, NEW k, HeaderOrRest(ar, todo[a], q, k), Written(ar, ar2)
    PROVE  InFile(ar2) /\ BufferFits(ar2, q, file') /\ NoAdds(q)
<1>1. /\ LocksInv /\ todo[a] \in Seq(Steps) /\ todo[a] # <<>> /\ Fits(area[a], todo[a])
      /\ q \in Seq(Steps) /\ Spliced(todo[a], q, k, 2) /\ todo[a][1].op \in {"goCold", "blank"}
  BY AtStep DEF Inv, Writing, HeaderOrRest
<1>2. AppendFits(area[a], todo[a], Len(file), Late(a, area[a].ulRecCount + 1))
  BY Known DEF AreaFits
<1>3. area[a].fRecordChanged \/ todo[a][1].op \notin {"unlockRecords", "goCold", "unlockRecord", "rawLock"}
  BY <1>1, WritingProps
<1>4. \A i \in 1 .. k : q[i].op # "blank"
  BY DEF HeaderOrRest
<1>5. NoAdds(q)
  BY <1>1, <1>2, <1>3, <1>4, RestAddsNone
<1>6. InFile(ar2)
  BY DEF WriteFits, InFile, Written, SameLocks
<1>7. BufferFits(ar2, q, file')
  BY DEF BufferFits, Written, FileWritten
<1> QED BY <1>5, <1>6, <1>7

\* A write keeps what is known of the records.
LEMMA WriteDataInv ==
    ASSUME NEW a \in Areas, Inv, load' = load, NEW ar, Writing(a, ar),
           NEW ar2, NEW q, NEW k, Go(a, ar2, q), HeaderOrRest(ar, todo[a], q, k), Written(ar, ar2)
    PROVE  DataInv'
<1> SUFFICES ASSUME ~unsafe'
             PROVE  /\ file' = ledger' /\ Len(file') = load'.records + appended'
                    /\ \A b \in Areas :
                          /\ InFile(area[b])'
                          /\ BufferFits(area'[b], todo'[b], file')
                          /\ AppendFits(area'[b], todo'[b], Len(file'), Late(b, area[b].ulRecCount + 1)')
  BY DEF DataInv
<1>1. ~unsafe /\ LocksInv /\ TypeOK /\ q \in Seq(Steps)
  BY DEF Inv, LocksInv, Writing, WriteRecord, HeaderOrRest
<1>2. /\ area'[a] = ar2 /\ \A b \in Areas \ {a} : area'[b] = area[b] /\ todo'[b] = todo[b]
      /\ \E n \in Nat : Passed(ar2, q, todo'[a], n)
  BY <1>1, GoProps DEF TypeOK
<1>3. FileBytes' = FileBytes /\ \A r : RecByte(r)' = RecByte(r)
  BY PlacesKept
<1>4. WriteFits(ar) /\ SameLocks(area[a], ar)
  BY <1>1, WriteFitsIs, WritingProps
<1>5. /\ FileWritten(ar.ulRecNo, ar.pRecord)
      /\ file' = ledger' /\ Len(file') = load'.records + appended'
      /\ ~ar.fAppend => Len(file') = Len(file)
      /\ ar.fAppend => Len(file') = Len(file) + 1
  BY <1>1, WriteLedger
<1>6. ASSUME NEW b \in Areas \ {a}
      PROVE  /\ InFile(area[b])'
             /\ BufferFits(area'[b], todo'[b], file')
             /\ AppendFits(area'[b], todo'[b], Len(file'), Late(b, area[b].ulRecCount + 1)')
  <2>1. InFile(area[b])'
    <3>1. InFile(area[b])
      BY <1>1, Known DEF AreaFits
    <3> QED BY <1>2, <1>3, <3>1 DEF InFile
  <2>2. BufferFits(area[b], todo[b], file')
    BY <1>1, <1>4, <1>5, WriteBuffer
  <2>3. AppendFits(area[b], todo[b], Len(file'), Late(b, area[b].ulRecCount + 1)')
    BY <1>1, <1>4, <1>5, WriteAppend
  <2> QED BY <1>2, <2>1, <2>2, <2>3
<1>7. /\ InFile(area[a])'
      /\ BufferFits(area'[a], todo'[a], file')
      /\ AppendFits(area'[a], todo'[a], Len(file'), Late(a, area[a].ulRecCount + 1)')
  <2>1. InFile(ar2) /\ BufferFits(ar2, q, file') /\ NoAdds(q)
    BY <1>1, <1>4, <1>5, WriterFits
  <2>2. \A n, late : AppendFits(ar2, q, n, late)
    BY <2>1 DEF AppendFits, NoAdds
  <2>3. \A n, late : BufferFits(ar2, todo'[a], file') /\ AppendFits(ar2, todo'[a], n, late)
    BY <1>1, <1>2, <2>1, <2>2, PassedData
  <2>4. InFile(area[a])'
    BY <1>2, <1>3, <2>1 DEF InFile
  <2> QED BY <1>2, <2>3, <2>4
<1> QED BY <1>5, <1>6, <1>7

\* A write keeps the invariant.
LEMMA WriteInv ==
    ASSUME NEW a \in Areas, Inv, LocksInv', load' = load, NEW ar, Writing(a, ar)
    PROVE  Inv'
<1>1. LocksInv /\ TypeOK /\ WriteRecord(a, ar) /\ todo[a] # <<>> /\ failures' = failures /\ ar \in AreaStates
  BY WritingProps DEF Inv, LocksInv, Writing, WriteRecord
<1>2. PICK ar2, q, k : Go(a, ar2, q) /\ HeaderOrRest(ar, todo[a], q, k) /\ Written(ar, ar2)
  BY <1>1, WriteGoes
<1>3. HeaderInv' /\ DataInv'
  BY <1>2, WriteHeaderInv, WriteDataInv
<1>4. WrittenBeforeUnlock'
  <2>1. q \in Seq(Steps) /\ ~ar2.fAppend /\ WritesFirst(ar2, q)
    BY <1>2 DEF Written, HeaderOrRest, WritesFirst
  <2> QED BY <1>1, <1>2, <2>1, WrittenKeeps DEF Inv
<1> QED BY <1>3, <1>4 DEF Inv

\* GoCold
LEMMA GoColdInv ==
    ASSUME NEW a \in Areas, Inv, LocksInv', GoCold(a), load' = load
    PROVE  Inv'
<1>1. Doing(a, "goCold") /\ (WriteRecord(a, area[a]) \/ WriteFails(a, area[a]))
  BY DEF GoCold
<1>2. CASE WriteRecord(a, area[a])
  <2>1. Writing(a, area[a])
    BY <1>1, <1>2 DEF Writing, Doing
  <2> QED BY <2>1, WriteInv
<1> QED BY <1>1, <1>2, GoColdFailsInv

\* AppendBlank
LEMMA AppendBlankInv ==
    ASSUME NEW a \in Areas, Inv, LocksInv', AppendBlank(a), load' = load
    PROVE  Inv'
<1> DEFINE ar == Blank(area[a])
<1>1. Doing(a, "blank") /\ (WriteRecord(a, ar) \/ WriteFails(a, ar))
  BY DEF AppendBlank, Blank
<1>2. ar = Blank(area[a])
  OBVIOUS
<1> HIDE DEF ar
<1>3. CASE WriteRecord(a, ar)
  <2>1. Writing(a, ar)
    BY <1>1, <1>2, <1>3 DEF Writing, Doing
  <2> QED BY <2>1, WriteInv
<1> QED BY <1>1, <1>2, <1>3, BlankFailsInv

-----------------------------------------------------------------------------
(* The invariant, and what follows from it.                                *)

\* It holds at first.
LEMMA InvInit == Init => Inv
<1> SUFFICES ASSUME Init
             PROVE  Inv
  OBVIOUS
<1>1. LocksInv
  BY LocksInit
<1>2. /\ load \in Loads /\ IsLoad(load)
      /\ file = [r \in 1 .. load.records |-> 0] /\ header = load.records
      /\ area = [a \in Areas |-> Closed]
      /\ todo = [a \in Areas |-> <<>>] /\ ledger = file /\ appended = 0
      /\ failures = 0 /\ crashes = 0
  BY DbfAssumption DEF Init
<1>3. load.records \in Nat
  BY <1>2 DEF IsLoad
<1>4. Len(file) = load.records
  <2>1. file \in [1 .. load.records -> Nat]
    BY <1>2
  <2> QED BY <1>3, <2>1
<1>5. WrittenBeforeUnlock
  BY <1>2, ClosedProps DEF WrittenBeforeUnlock, WritesFirst
<1>6. HeaderInv
  BY <1>2, <1>3, <1>4 DEF HeaderInv, Doing
<1>7. DataInv
  <2>1. \A a \in Areas : InFile(area[a]) /\ BufferFits(area[a], todo[a], file)
    BY <1>2, ClosedProps DEF InFile, BufferFits
  <2>2. \A a \in Areas : AppendFits(area[a], todo[a], Len(file), Late(a, area[a].ulRecCount + 1))
    BY <1>2 DEF AppendFits
  <2>3. Len(file) = load.records + appended
    BY <1>2, <1>3, <1>4
  <2> QED BY <1>2, <2>1, <2>2, <2>3 DEF DataInv
<1> QED BY <1>1, <1>5, <1>6, <1>7 DEF Inv

\* A step of a method keeps it.
LEMMA StepOfInv ==
    ASSUME NEW a \in Areas, Inv, LocksInv', load' = load, StepOf(a) \/ HeadLock(a)
    PROVE  Inv'
BY GoColdInv, HeadUnlockInv, HeadCountInv, HeadWriteInv, HeadIfInv, RawLockInv, UnlockAllRecordsInv,
   UnlockRecordInv, LockFileInv, UnlockFileInv, FileUnlockInv, GoToInv, GoBottomInv, ReadRecordInv,
   PutValueInv, AppendCountInv, AppendBlankInv, CloseFileInv, HeadLockInv DEF StepOf

\* A call keeps it.
LEMMA CallsInv ==
    ASSUME NEW a \in Areas, Inv, LocksInv', load' = load, Calls(a)
    PROVE  Inv'
<1>1. CASE Open(a) \/ Close(a) \/ RecCount(a) \/ \E all \in {0, 1} : DbAppend(a, all)
  BY <1>1, OpenInv, CloseInv, RecCountInv, DbAppendInv
<1>2. CASE DbGoBottom(a) \/ Commit(a) \/ FLock(a) \/ UnLock(a) \/ Replace(a)
  <2>1. \A o \in {"goCold", "goBottom", "unlockRecords", "unlockFile", "lockFile", "read", "put"} :
            Do(o) \in Steps /\ Do(o).op \in PlainSteps
    BY StepTypes DEF Ops, Do, Step, PlainSteps
  <2>2. \/ Call(a, <<Do("goCold"), Do("goBottom")>>) \/ Call(a, <<Do("goCold")>>)
        \/ Call(a, <<Do("unlockRecords"), Do("lockFile")>>)
        \/ Call(a, <<Do("unlockRecords"), Do("unlockFile")>>)
        \/ Call(a, <<Do("read"), Do("put")>>)
    BY <1>2 DEF DbGoBottom, Commit, FLock, UnLock, Replace
  <2> QED BY <2>1, <2>2, PairInv
<1>3. CASE RLock(a)
  <2>1. area[a].ulRecNo \in Nat
    BY AreaFields DEF Inv, LocksInv, TypeOK
  <2> QED BY <1>3, <2>1, RecordLockInv DEF RLock
<1>4. CASE \E r \in 1 .. load.maxRecords : DbGoTo(a, r) \/ DbRLock(a, r) \/ DbRUnlock(a, r)
  <2>1. PICK r \in 1 .. load.maxRecords : DbGoTo(a, r) \/ DbRLock(a, r) \/ DbRUnlock(a, r)
    BY <1>4
  <2>2. IsLoad(load)
    BY DbfAssumption DEF Inv, LocksInv, TypeOK
  <2>3. r \in Nat
    BY <2>2 DEF IsLoad
  <2>4. CASE DbGoTo(a, r)
    <3>1. /\ Step("goTo", r) \in Steps /\ Step("goTo", r).op \in PlainSteps
          /\ Do("goCold") \in Steps /\ Do("goCold").op \in PlainSteps
      BY <2>3, StepTypes DEF Ops, Do, Step, PlainSteps
    <3> QED BY <2>4, <3>1, PairInv DEF DbGoTo
  <2>5. CASE DbRLock(a, r)
    BY <2>3, <2>5, RecordLockInv DEF DbRLock
  <2>6. CASE DbRUnlock(a, r)
    BY <2>3, <2>6, DbRUnlockInv
  <2> QED BY <2>1, <2>4, <2>5, <2>6
<1> QED BY <1>1, <1>2, <1>3, <1>4 DEF Calls

\* Every step keeps it.
LEMMA InvStep == Inv /\ [Next]_vars => Inv'
<1> SUFFICES ASSUME Inv, [Next]_vars
             PROVE  Inv'
  OBVIOUS
<1>1. LocksInv'
  BY LocksStep DEF Inv
<1>2. CASE UNCHANGED vars
  <2>1. FileBytes' = FileBytes /\ \A r : RecByte(r)' = RecByte(r)
    BY <1>2, PlacesKept DEF vars
  <2>2. WrittenBeforeUnlock' /\ HeaderInv'
    BY <1>2 DEF vars, Inv, WrittenBeforeUnlock, HeaderInv, Doing, HeaderPending
  <2>3. ASSUME NEW b \in Areas
        PROVE  Late(b, area[b].ulRecCount + 1)' <=> Late(b, area[b].ulRecCount + 1)
    BY <1>2 DEF vars, Late, Doing
  <2>4. \A b \in Areas : InFile(area[b])' <=> InFile(area[b])
    BY <1>2, <2>1 DEF vars, InFile
  <2>5. DataInv'
    <3>1. DataInv /\ UNCHANGED <<load, file, area, todo, ledger, appended, unsafe>>
      BY <1>2 DEF vars, Inv
    <3> SUFFICES ASSUME ~unsafe'
                 PROVE  /\ file' = ledger' /\ Len(file') = load'.records + appended'
                        /\ \A b \in Areas :
                              /\ InFile(area[b])'
                              /\ BufferFits(area'[b], todo'[b], file')
                              /\ AppendFits(area'[b], todo'[b], Len(file'), Late(b, area[b].ulRecCount + 1)')
      BY DEF DataInv
    <3>2. ASSUME NEW b \in Areas
          PROVE  AppendFits(area'[b], todo'[b], Len(file'), Late(b, area[b].ulRecCount + 1)')
      <4>1. AppendFits(area[b], todo[b], Len(file), Late(b, area[b].ulRecCount + 1))
        BY <3>1 DEF DataInv
      <4> QED BY <2>3, <3>1, <4>1 DEF AppendFits
    <3> QED BY <2>4, <3>1, <3>2 DEF DataInv
  <2> QED BY <1>1, <2>2, <2>5 DEF Inv
<1>3. CASE Next
  <2>1. load' = load /\ \E a \in Areas : AreaNext(a)
    BY <1>3 DEF Next
  <2> QED BY <1>1, <2>1, StepOfInv, CallsInv, CrashInv DEF AreaNext
<1> QED BY <1>2, <1>3

\* What the areas know of their records, and what is written, agrees with the
\* file in every state.
THEOREM InvHolds == Spec => []Inv
BY InvInit, InvStep, PTL DEF Spec

\* The header never tells more records than there are; unless a write failed or
\* a process ended, it tells as many when no method is running and no area that
\* writes it only at its end is open.
THEOREM HeaderCountsAlways == Spec => []HeaderCounts
<1>1. Inv => HeaderCounts
  <2> SUFFICES ASSUME Inv
               PROVE  HeaderCounts
    OBVIOUS
  <2>1. HeaderInv /\ \A a \in Areas : StateFits(area[a])
    BY DEF Inv, LocksInv, StepsFit, Fits
  <2>2. ASSUME failures = 0, crashes = 0, header # Len(file),
               \A a \in Areas : todo[a] = <<>> /\ (load.writeMode \/ ~area[a].open)
        PROVE  FALSE
    <3>1. PICK a \in Areas : HeaderPending(area[a], todo[a])
      BY <2>1, <2>2 DEF HeaderInv
    <3>2. area[a].fUpdateHeader /\ ~area[a].open
      BY <2>2, <3>1 DEF HeaderPending
    <3> QED BY <2>1, <3>2, ClosedProps DEF StateFits
  <2> QED BY <2>1, <2>2 DEF HeaderCounts, HeaderInv
<1> QED BY <1>1, InvHolds, PTL

\* The lock of a record protects its buffer: changes that are not written yet
\* belong to one area, which has the record locked, and who has it locked and has
\* read it sees what is in the file.
THEOREM BuffersAreProtectedAlways == Spec => []BuffersAreProtected
<1>1. Inv => BuffersAreProtected
  <2> SUFFICES ASSUME Inv, ~unsafe
               PROVE  OneWriter /\ LockedBufferIsFresh
    BY DEF BuffersAreProtected, OneWriter, LockedBufferIsFresh
  <2>1. TypeOK /\ LocksAgree
    BY DEF Inv, LocksInv
  <2>2. \A a \in Areas : InFile(area[a]) /\ BufferFits(area[a], todo[a], file)
    BY Known DEF AreaFits
  <2>3. ASSUME NEW a \in Areas, area[a].fRecordChanged
        PROVE  /\ Holds(area[a], area[a].ulRecNo)
               /\ \A b \in Areas \ {a} : ~Holds(area[b], area[a].ulRecNo)
    <3>1. Holds(area[a], area[a].ulRecNo)
      BY <2>2, <2>3 DEF BufferFits
    <3> QED BY <2>1, <2>2, <3>1, HoldsOnce
  <2> QED BY <2>2, <2>3 DEF OneWriter, LockedBufferIsFresh, BufferFits
<1> QED BY <1>1, InvHolds, PTL

\* Every change that was written is in the record, whichever areas changed it.
THEOREM NoLostUpdateAlways == Spec => []NoLostUpdate
<1>1. Inv => NoLostUpdate
  BY DEF Inv, DataInv, NoLostUpdate
<1> QED BY <1>1, InvHolds, PTL

\* Every append made a record of its own: no two of them took the same one.
THEOREM AppendsAreDistinctAlways == Spec => []AppendsAreDistinct
<1>1. Inv => AppendsAreDistinct
  BY DEF Inv, DataInv, AppendsAreDistinct
<1> QED BY <1>1, InvHolds, PTL

=============================================================================
