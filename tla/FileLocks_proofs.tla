-------------------------- MODULE FileLocks_proofs --------------------------
(***************************************************************************)
(* The theorems about FileLocks.  The first part is about the list of      *)
(* ranges alone: what the binary search finds, and that testing, locking   *)
(* and unlocking a range do with the list what they do with the set of its *)
(* bytes.  The second part is about the clients.                           *)
(***************************************************************************)
EXTENDS FileLocks, FiniteSetTheorems, SequenceTheorems, WellFoundedInduction, TLAPS

\* A set of numbers has a smallest one.
LEMMA SmallestExists ==
    ASSUME NEW S \in SUBSET Nat, S # {}
    PROVE  \E m \in S : \A k \in S : m <= k
<1> DEFINE R == OpToRel(<, Nat)
<1>1. IsWellFoundedOn(R, Nat)
  BY NatLessThanWellFounded
<1>2. \A x, y \in Nat : <<y, x>> \in R <=> y < x
  BY DEF OpToRel
<1> HIDE DEF R
<1>3. PICK x \in S : \A y \in S : ~(<<y, x>> \in R)
  BY <1>1, WFMin
<1>4. \A y \in S : x \in Nat /\ y \in Nat /\ ~(y < x)
  BY <1>2, <1>3
<1> QED BY <1>3, <1>4

-----------------------------------------------------------------------------
(* Numbers that wrap.                                                      *)

\* A sum of offsets wraps only if it is the limit.
LEMMA WrapIs ==
    /\ \A n \in -Limit .. Limit - 1 : Wrap(n) = n
    /\ Wrap(Limit) = -Limit
<1>0. Limit \in Nat /\ Limit > 1 BY FileAssumption
<1>1. \A n \in 0 .. 2 * Limit - 1 : n % (2 * Limit) = n BY <1>0
<1>2. (2 * Limit) % (2 * Limit) = 0 BY <1>0
<1>3. ASSUME NEW n \in -Limit .. Limit - 1 PROVE Wrap(n) = n
  <2>1. n + Limit \in 0 .. 2 * Limit - 1 BY <1>0
  <2> QED BY <1>0, <1>1, <2>1 DEF Wrap
<1>4. Wrap(Limit) = -Limit
  <2>1. Limit + Limit = 2 * Limit BY <1>0
  <2> QED BY <1>0, <1>2, <2>1 DEF Wrap
<1> QED BY <1>3, <1>4

\* What an entry stands for.
LEMMA EntryIs ==
    ASSUME NEW e, EntryOK(e)
    PROVE  /\ e.start \in Nat /\ Top(e) \in Nat /\ e.start < Top(e) /\ Top(e) <= Limit
           /\ End(e) = IF Top(e) = Limit THEN -Limit ELSE Top(e)
           /\ BytesOf(e) = e.start .. Top(e) - 1
           /\ e.len <= 0 => e.start = 0 /\ Top(e) = Limit
           /\ e.len > 0 => Top(e) = e.start + e.len
<1>0. Limit \in Nat /\ Limit > 1 BY FileAssumption
<1>1. e.start \in 0 .. Limit - 1 /\ e.len \in -Limit .. Limit - 1 BY DEF EntryOK, Entries, Offsets
<1>2. CASE e.len = -Limit
  <2>1. e.start = 0 /\ Top(e) = Limit BY <1>0, <1>1, <1>2 DEF EntryOK, Top
  <2>2. e.start + e.len = -Limit BY <1>0, <1>2, <2>1
  <2>3. End(e) = -Limit BY <1>0, <2>2, WrapIs DEF End
  <2> QED BY <1>0, <1>1, <1>2, <2>1, <2>3 DEF BytesOf
<1>3. CASE e.len # -Limit
  <2>1. e.len > 0 /\ Top(e) = e.start + e.len /\ Top(e) <= Limit BY <1>0, <1>1, <1>3 DEF EntryOK, Top
  <2>2. End(e) = IF Top(e) = Limit THEN -Limit ELSE Top(e) BY <1>0, <1>1, <2>1, WrapIs DEF End
  <2> QED BY <1>0, <1>1, <2>1, <2>2 DEF BytesOf
<1> QED BY <1>2, <1>3

\* An entry made of where it starts and where it ends.
LEMMA MakeEntry ==
    ASSUME NEW s \in Nat, NEW n \in Nat, n > 0, s + n <= Limit
    PROVE  /\ EntryOK(FLock(s, Wrap(n))) /\ FLock(s, Wrap(n)).start = s
           /\ Top(FLock(s, Wrap(n))) = s + n
           /\ n < Limit => FLock(s, Wrap(n)) = FLock(s, n)
<1>0. Limit \in Nat /\ Limit > 1 BY FileAssumption
<1>1. Wrap(n) = IF n = Limit THEN -Limit ELSE n BY <1>0, WrapIs
<1>2. Wrap(n) \in -Limit .. Limit - 1 /\ s \in Offsets BY <1>0, <1>1 DEF Offsets
<1> DEFINE e == FLock(s, Wrap(n))
<1>3. e \in Entries /\ e.start = s /\ e.len = Wrap(n) BY <1>2 DEF FLock, Entries
<1> HIDE DEF e
<1>4. Top(e) = s + n BY <1>0, <1>1, <1>3 DEF Top
<1>5. EntryOK(e) BY <1>0, <1>1, <1>3, <1>4 DEF EntryOK
<1> QED BY <1>0, <1>1, <1>3, <1>4, <1>5 DEF e

-----------------------------------------------------------------------------
(* The binary search.                                                      *)

\* The body of its definition, as a function of the function it defines.
Halve(list, offset, f, p) ==
    LET mid == (p[1] + p[2]) \div 2
        end == End(list[mid + 1])
    IN  CASE p[1] >= p[2] -> mid
          [] p[1] < p[2] /\ end > 0 /\ end <= offset -> f[<<mid + 1, p[2]>>]
          [] OTHER -> f[<<p[1], mid>>]

Windows(list) == (0 .. Len(list)) \X (0 .. Len(list))

Below(list, offset, k) == End(list[k]) > 0 /\ End(list[k]) <= offset

\* Each step goes to a smaller window.
HalvedAt(list, offset, f, lo, hi, mid) ==
    /\ lo < hi => mid \in lo .. hi - 1
    /\ Halve(list, offset, f, <<lo, hi>>) =
          IF lo >= hi THEN mid
          ELSE IF Below(list, offset, mid + 1) THEN f[<<mid + 1, hi>>] ELSE f[<<lo, mid>>]

\* What one step of the search does with the window from lo to hi.
LEMMA HalveIs ==
    ASSUME NEW list, NEW offset, NEW f, NEW lo \in Nat, NEW hi \in Nat, NEW mid, mid = (lo + hi) \div 2
    PROVE  HalvedAt(list, offset, f, lo, hi, mid)
<1>1. lo < hi => mid \in lo .. hi - 1 OBVIOUS
<1>2. Halve(list, offset, f, <<lo, hi>>) =
        IF lo >= hi THEN mid
        ELSE IF Below(list, offset, mid + 1) THEN f[<<mid + 1, hi>>] ELSE f[<<lo, mid>>]
  <2>1. CASE lo >= hi BY <2>1 DEF Halve
  <2>2. CASE ~(lo >= hi)
    <3>1. lo < hi BY <2>2
    <3>2. CASE Below(list, offset, mid + 1) BY <2>2, <3>1, <3>2 DEF Halve, Below
    <3>3. CASE ~Below(list, offset, mid + 1) BY <2>2, <3>1, <3>3 DEF Halve, Below
    <3> QED BY <2>2, <3>2, <3>3
  <2> QED BY <2>1, <2>2
<1> QED BY <1>1, <1>2 DEF HalvedAt

\* Functions that agree on the smaller windows give the same result for a window.
LEMMA HalveAgrees ==
    ASSUME NEW list \in Seq(Entries), NEW offset, NEW f, NEW g, NEW n \in Nat,
           \A p \in Windows(list) : p[2] - p[1] < n => f[p] = g[p],
           NEW p \in Windows(list), p[2] - p[1] <= n
    PROVE  Halve(list, offset, f, p) = Halve(list, offset, g, p)
<1>0. PICK lo \in 0 .. Len(list), hi \in 0 .. Len(list) : p = <<lo, hi>> BY DEF Windows
<1>n. lo \in Nat /\ hi \in Nat OBVIOUS
<1>1. PICK mid \in Nat : mid = (lo + hi) \div 2 OBVIOUS
<1>2. HalvedAt(list, offset, f, lo, hi, mid) BY <1>n, <1>1, HalveIs
<1>3. HalvedAt(list, offset, g, lo, hi, mid) BY <1>n, <1>1, HalveIs
<1>4. ASSUME lo < hi PROVE f[<<mid + 1, hi>>] = g[<<mid + 1, hi>>] /\ f[<<lo, mid>>] = g[<<lo, mid>>]
  <2>1. hi - (mid + 1) < n /\ mid - lo < n BY <1>0, <1>2, <1>4 DEF HalvedAt
  <2>2. <<mid + 1, hi>> \in Windows(list) /\ <<lo, mid>> \in Windows(list) BY <1>2, <1>4 DEF Windows, HalvedAt
  <2> QED BY <2>1, <2>2
<1>5. lo >= hi \/ lo < hi OBVIOUS
<1> QED BY <1>0, <1>2, <1>3, <1>4, <1>5 DEF HalvedAt

\* The search is the function its definition describes: for each size there is a
\* function that obeys it for windows up to that size, and so for all.
Obeys(list, offset, f, n) ==
    \A p \in Windows(list) : p[2] - p[1] <= n => f[p] = Halve(list, offset, f, p)

\* A function that obeys the definition for the smaller windows yields one that
\* obeys it for the next size too.
LEMMA ObeysMore ==
    ASSUME NEW list \in Seq(Entries), NEW offset, NEW f, NEW n \in Nat,
           n = 0 \/ Obeys(list, offset, f, n - 1)
    PROVE  Obeys(list, offset, [p \in Windows(list) |-> Halve(list, offset, f, p)], n)
<1> DEFINE g == [p \in Windows(list) |-> Halve(list, offset, f, p)]
<1>0. \A p \in Windows(list) : g[p] = Halve(list, offset, f, p) OBVIOUS
<1> HIDE DEF g
<1>1. ASSUME NEW p \in Windows(list), p[2] - p[1] <= n PROVE g[p] = Halve(list, offset, g, p)
  <2>1. CASE n = 0
    <3>1. PICK lo \in 0 .. Len(list), hi \in 0 .. Len(list) : p = <<lo, hi>> BY DEF Windows
    <3>2. lo >= hi BY <1>1, <2>1, <3>1
    <3>n. lo \in Nat /\ hi \in Nat OBVIOUS
    <3>3. PICK mid \in Nat : mid = (lo + hi) \div 2 OBVIOUS
    <3>4. HalvedAt(list, offset, f, lo, hi, mid) BY <3>n, <3>3, HalveIs
    <3>5. HalvedAt(list, offset, g, lo, hi, mid) BY <3>n, <3>3, HalveIs
    <3> QED BY <1>0, <3>1, <3>2, <3>4, <3>5 DEF HalvedAt
  <2>2. CASE n # 0
    <3>1. ASSUME NEW q \in Windows(list), q[2] - q[1] < n PROVE f[q] = g[q]
      <4>1. q[2] - q[1] <= n - 1 BY <3>1 DEF Windows
      <4> QED BY <1>0, <2>2, <4>1 DEF Obeys
    <3>2. Halve(list, offset, f, p) = Halve(list, offset, g, p) BY <1>1, <3>1, HalveAgrees
    <3> QED BY <1>0, <3>2
  <2> QED BY <2>1, <2>2
<1>2. Obeys(list, offset, g, n) BY <1>1 DEF Obeys
<1> QED BY <1>2 DEF g

\* There is a function that obeys the definition for windows up to any size: else
\* there would be a smallest size for which there is none.
LEMMA SearchExists ==
    ASSUME NEW list \in Seq(Entries), NEW offset, NEW n \in Nat
    PROVE  \E f : Obeys(list, offset, f, n)
<1> DEFINE S == {k \in Nat : ~ \E f : Obeys(list, offset, f, k)}
<1>1. SUFFICES ASSUME S # {} PROVE FALSE OBVIOUS
<1>2. PICK m \in S : \A k \in S : m <= k
  <2>1. S \in SUBSET Nat OBVIOUS
  <2> HIDE DEF S
  <2> QED BY <1>1, <2>1, SmallestExists
<1>3. \E f : m = 0 \/ Obeys(list, offset, f, m - 1)
  <2>1. CASE m = 0 BY <2>1
  <2>2. CASE m # 0
    <3>1. m - 1 \in Nat /\ m - 1 \notin S BY <1>2, <2>2
    <3> QED BY <3>1
  <2> QED BY <2>1, <2>2
<1>4. PICK f : m = 0 \/ Obeys(list, offset, f, m - 1) BY <1>3
<1>5. Obeys(list, offset, [p \in Windows(list) |-> Halve(list, offset, f, p)], m) BY <1>4, ObeysMore
<1> QED BY <1>5

Search(list, offset) == CHOOSE f : f = [p \in Windows(list) |-> Halve(list, offset, f, p)]

\* So the recursive definition of FindOffset() means what it says.
LEMMA SearchObeys ==
    ASSUME NEW list \in Seq(Entries), NEW offset
    PROVE  /\ \A p \in Windows(list) : Search(list, offset)[p] = Halve(list, offset, Search(list, offset), p)
           /\ FindOffset(list, offset) = Search(list, offset)[<<0, Len(list)>>]
<1>1. PICK f : Obeys(list, offset, f, Len(list)) BY SearchExists
<1>2. \A p \in Windows(list) : f[p] = Halve(list, offset, f, p) BY <1>1 DEF Obeys, Windows
<1> DEFINE g == [p \in Windows(list) |-> Halve(list, offset, f, p)]
<1>3. \A p \in Windows(list) : g[p] = f[p] BY <1>2
<1>4. \A p \in Windows(list) : Halve(list, offset, f, p) = Halve(list, offset, g, p)
  <2> HIDE DEF g
  <2> SUFFICES ASSUME NEW p \in Windows(list) PROVE Halve(list, offset, f, p) = Halve(list, offset, g, p) OBVIOUS
  <2>1. p[2] - p[1] <= Len(list) BY DEF Windows
  <2>2. \A q \in Windows(list) : q[2] - q[1] < Len(list) => f[q] = g[q] BY <1>3
  <2> QED BY <2>1, <2>2, HalveAgrees
<1>5. g = [p \in Windows(list) |-> Halve(list, offset, g, p)]
  <2>1. g = [p \in Windows(list) |-> Halve(list, offset, f, p)] OBVIOUS
  <2> HIDE DEF g
  <2> QED BY <1>4, <2>1
<1>6. Search(list, offset) = [p \in Windows(list) |-> Halve(list, offset, Search(list, offset), p)]
  BY <1>5 DEF Search
<1>7. FindOffset(list, offset) = Search(list, offset)[<<0, Len(list)>>]
  BY DEF FindOffset, Search, Halve, Windows
<1> QED BY <1>6, <1>7

\* The entries before the position end before the offset, the others behind it.
Found(list, offset, pos) ==
    /\ pos \in 0 .. Len(list)
    /\ \A i \in 1 .. pos : Top(list[i]) <= offset
    /\ \A i \in pos + 1 .. Len(list) : Top(list[i]) > offset

\* A window outside which the entries are where they should be.
Around(list, offset, lo, hi) ==
    /\ lo \in 0 .. Len(list) /\ hi \in 0 .. Len(list) /\ lo <= hi
    /\ \A i \in 1 .. lo : Top(list[i]) <= offset
    /\ \A i \in hi + 1 .. Len(list) : Top(list[i]) > offset

\* The condition of the search, which looks at ends that wrap, means that the entry
\* ends at or before the offset.
LEMMA BelowIs ==
    ASSUME NEW list, ListOK(list), NEW offset \in Offsets, NEW k \in DOMAIN list
    PROVE  Below(list, offset, k) <=> Top(list[k]) <= offset
<1>1. EntryOK(list[k]) BY DEF ListOK
<1>2. Limit \in Nat /\ offset \in Nat /\ offset < Limit BY FileAssumption DEF Offsets
<1> QED BY <1>1, <1>2, EntryIs DEF Below

\* A smaller window that is still one around the position.
LEMMA NarrowerWindow ==
    ASSUME NEW list, ListOK(list), NEW offset \in Offsets, NEW lo, NEW hi, Around(list, offset, lo, hi),
           lo < hi, NEW mid \in lo .. hi - 1
    PROVE  /\ Below(list, offset, mid + 1) => Around(list, offset, mid + 1, hi)
           /\ ~Below(list, offset, mid + 1) => Around(list, offset, lo, mid)
<1>0. list \in Seq(Entries) /\ Len(list) \in Nat /\ DOMAIN list = 1 .. Len(list) BY DEF ListOK
<1>1. mid + 1 \in DOMAIN list BY <1>0 DEF Around
<1>2. Below(list, offset, mid + 1) <=> Top(list[mid + 1]) <= offset BY <1>1, BelowIs
<1>3. \A i \in DOMAIN list : Top(list[i]) \in Nat /\ list[i].start \in Nat /\ list[i].start < Top(list[i])
  BY EntryIs DEF ListOK
<1>4. offset \in Nat BY DEF Offsets
<1>5. ASSUME Below(list, offset, mid + 1) PROVE Around(list, offset, mid + 1, hi)
  <2>1. ASSUME NEW i \in 1 .. mid + 1 PROVE Top(list[i]) <= offset
    <3>1. i \in DOMAIN list BY <1>0, <1>1
    <3>2. i = mid + 1 \/ Top(list[i]) < list[mid + 1].start BY <1>1, <3>1 DEF ListOK
    <3> QED BY <1>1, <1>2, <1>3, <1>4, <1>5, <3>1, <3>2
  <2> QED BY <1>0, <1>1, <2>1 DEF Around
<1>6. ASSUME ~Below(list, offset, mid + 1) PROVE Around(list, offset, lo, mid)
  <2>1. ASSUME NEW i \in mid + 1 .. Len(list) PROVE Top(list[i]) > offset
    <3>1. i \in DOMAIN list BY <1>0, <1>1
    <3>2. i = mid + 1 \/ Top(list[mid + 1]) < list[i].start BY <1>1, <3>1 DEF ListOK
    <3> QED BY <1>1, <1>2, <1>3, <1>4, <1>6, <3>1, <3>2
  <2>2. mid \in 0 .. Len(list) /\ lo <= mid BY <1>0, <1>1 DEF Around
  <2> QED BY <2>1, <2>2 DEF Around
<1> QED BY <1>5, <1>6

\* By induction on the size of the window, as that there is no smallest one for
\* which the search fails.
LEMMA SearchFinds ==
    ASSUME NEW list, ListOK(list), NEW offset \in Offsets, NEW l, NEW h, Around(list, offset, l, h)
    PROVE  Found(list, offset, Search(list, offset)[<<l, h>>])
<1>0. list \in Seq(Entries) /\ Len(list) \in Nat BY DEF ListOK
<1> DEFINE f == Search(list, offset)
           S == {n \in Nat : \E lo, hi \in 0 .. Len(list) :
                    n = hi - lo /\ Around(list, offset, lo, hi) /\ ~Found(list, offset, f[<<lo, hi>>])}
<1>1. SUFFICES S = {}
  <2>1. h - l \in Nat /\ l \in 0 .. Len(list) /\ h \in 0 .. Len(list) BY <1>0 DEF Around
  <2> QED BY <2>1
<1>2. SUFFICES ASSUME S # {} PROVE FALSE OBVIOUS
<1>3. PICK n \in S : \A k \in S : n <= k
  <2>1. S \in SUBSET Nat OBVIOUS
  <2> HIDE DEF S
  <2> QED BY <1>2, <2>1, SmallestExists
<1>4. PICK lo \in 0 .. Len(list), hi \in 0 .. Len(list) :
        n = hi - lo /\ Around(list, offset, lo, hi) /\ ~Found(list, offset, f[<<lo, hi>>])
  BY <1>3
<1>5. \A a, b \in 0 .. Len(list) : Around(list, offset, a, b) /\ b - a < n => Found(list, offset, f[<<a, b>>])
  <2> SUFFICES ASSUME NEW a \in 0 .. Len(list), NEW b \in 0 .. Len(list),
                      Around(list, offset, a, b), b - a < n, ~Found(list, offset, f[<<a, b>>])
               PROVE  FALSE
    OBVIOUS
  <2>1. b - a \in Nat BY <1>0 DEF Around
  <2>2. b - a \in S BY <2>1
  <2> HIDE DEF S
  <2> QED BY <1>3, <1>4, <2>1, <2>2
<1> HIDE DEF S
<1>6. <<lo, hi>> \in Windows(list) BY DEF Windows
<1>7. f[<<lo, hi>>] = Halve(list, offset, f, <<lo, hi>>) BY <1>0, <1>6, SearchObeys
<1>8. lo \in Nat /\ hi \in Nat /\ lo <= hi BY <1>0, <1>4 DEF Around
<1>9. PICK mid \in Nat : mid = (lo + hi) \div 2 BY <1>8
<1>10. HalvedAt(list, offset, f, lo, hi, mid) BY <1>8, <1>9, HalveIs
<1> HIDE DEF f
<1>11. CASE lo = hi
  <2>1. mid = lo BY <1>8, <1>9, <1>11
  <2>2. f[<<lo, hi>>] = lo BY <1>7, <1>8, <1>10, <1>11, <2>1 DEF HalvedAt
  <2>3. Found(list, offset, lo) BY <1>4, <1>11 DEF Found, Around
  <2> QED BY <1>4, <2>2, <2>3
<1>12. CASE lo < hi
  <2>1. mid \in lo .. hi - 1 BY <1>10, <1>12 DEF HalvedAt
  <2>2. ~(lo >= hi) BY <1>8, <1>12
  <2>3. CASE Below(list, offset, mid + 1)
    <3>1. Around(list, offset, mid + 1, hi) BY <1>4, <1>12, <2>1, <2>3, NarrowerWindow
    <3>2. hi - (mid + 1) < n /\ mid + 1 \in 0 .. Len(list) BY <1>4, <1>8, <2>1
    <3>3. f[<<lo, hi>>] = f[<<mid + 1, hi>>] BY <1>7, <1>10, <2>2, <2>3 DEF HalvedAt
    <3> QED BY <1>4, <1>5, <3>1, <3>2, <3>3
  <2>4. CASE ~Below(list, offset, mid + 1)
    <3>1. Around(list, offset, lo, mid) BY <1>4, <1>12, <2>1, <2>4, NarrowerWindow
    <3>2. mid - lo < n /\ mid \in 0 .. Len(list) BY <1>4, <1>8, <2>1
    <3>3. f[<<lo, hi>>] = f[<<lo, mid>>] BY <1>7, <1>10, <2>2, <2>4 DEF HalvedAt
    <3> QED BY <1>4, <1>5, <3>1, <3>2, <3>3
  <2> QED BY <2>3, <2>4
<1> QED BY <1>8, <1>11, <1>12

\* hb_fileFindOffset()
LEMMA FindOffsetIs ==
    ASSUME NEW list, ListOK(list), NEW offset \in Offsets
    PROVE  Found(list, offset, FindOffset(list, offset))
<1>0. list \in Seq(Entries) /\ Len(list) \in Nat BY DEF ListOK
<1>1. Around(list, offset, 0, Len(list)) BY <1>0 DEF Around
<1>2. Found(list, offset, Search(list, offset)[<<0, Len(list)>>]) BY <1>1, SearchFinds
<1> QED BY <1>0, <1>2, SearchObeys

-----------------------------------------------------------------------------
(* Every operation replaces some entries in the middle of the list.        *)

\* The list m is l with mid instead of the entries between the places p and q.
Spliced(m, l, p, mid, q) ==
    /\ m \in Seq(Entries) /\ Len(m) = p + Len(mid) + (Len(l) - q + 1)
    /\ \A i \in 1 .. p : m[i] = l[i]
    /\ \A i \in 1 .. Len(mid) : m[p + i] = mid[i]
    /\ \A i \in q .. Len(l) : m[i - q + 1 + p + Len(mid)] = l[i]

\* The parts of a list, put together.
LEMMA SpliceIs ==
    ASSUME NEW l \in Seq(Entries), NEW p \in 0 .. Len(l), NEW q \in 1 .. Len(l) + 1, NEW mid \in Seq(Entries)
    PROVE  Spliced((SubSeq(l, 1, p) \o mid) \o SubSeq(l, q, Len(l)), l, p, mid, q)
<1> DEFINE a == SubSeq(l, 1, p)
           b == SubSeq(l, q, Len(l))
<1>0. Len(l) \in Nat /\ Len(mid) \in Nat OBVIOUS
<1>1. a \in Seq(Entries) /\ Len(a) = p /\ \A i \in 1 .. p : a[i] = l[i] OBVIOUS
<1>2. b \in Seq(Entries) /\ Len(b) = Len(l) - q + 1 /\ \A i \in 1 .. Len(l) - q + 1 : b[i] = l[i + q - 1]
  OBVIOUS
<1> HIDE DEF a, b
<1> DEFINE c == a \o mid
<1>3. /\ c \in Seq(Entries) /\ Len(c) = p + Len(mid)
      /\ \A i \in 1 .. p + Len(mid) : c[i] = IF i <= p THEN a[i] ELSE mid[i - p]
  BY <1>1, ConcatProperties
<1> HIDE DEF c
<1> DEFINE m == c \o b
<1>4. /\ m \in Seq(Entries) /\ Len(m) = Len(c) + Len(b)
      /\ \A i \in 1 .. Len(c) + Len(b) : m[i] = IF i <= Len(c) THEN c[i] ELSE b[i - Len(c)]
  BY <1>2, <1>3, ConcatProperties
<1> HIDE DEF m
<1>5. ASSUME NEW i \in 1 .. p PROVE m[i] = l[i]
  <2>0. i \in 1 .. Len(c) + Len(b) /\ i <= Len(c) BY <1>0, <1>2, <1>3
  <2>1. m[i] = c[i] BY <1>4, <2>0
  <2>2. c[i] = a[i] BY <1>0, <1>3
  <2> QED BY <1>1, <2>1, <2>2
<1>6. ASSUME NEW i \in 1 .. Len(mid) PROVE m[p + i] = mid[i]
  <2>0. p + i \in 1 .. Len(c) + Len(b) /\ p + i <= Len(c) BY <1>0, <1>2, <1>3
  <2>1. m[p + i] = c[p + i] BY <1>4, <2>0
  <2>2. c[p + i] = mid[(p + i) - p] /\ (p + i) - p = i BY <1>0, <1>3
  <2> QED BY <2>1, <2>2
<1>7. ASSUME NEW i \in q .. Len(l) PROVE m[i - q + 1 + p + Len(mid)] = l[i]
  <2> DEFINE k == i - q + 1 + p + Len(mid)
  <2>1. k \in 1 .. Len(c) + Len(b) /\ ~(k <= Len(c)) /\ k - Len(c) = i - q + 1 BY <1>0, <1>2, <1>3
  <2> HIDE DEF k
  <2>2. m[k] = b[i - q + 1] BY <1>4, <2>1
  <2>3. b[i - q + 1] = l[(i - q + 1) + q - 1] /\ (i - q + 1) + q - 1 = i BY <1>0, <1>2
  <2> QED BY <2>2, <2>3 DEF k
<1>8. Spliced(m, l, p, mid, q) BY <1>2, <1>3, <1>4, <1>5, <1>6, <1>7 DEF Spliced
<1> QED BY <1>8 DEF m, c, a, b

\* One more entry, one less, another one instead, and two instead of one.
LEMMA InsertIs ==
    ASSUME NEW l \in Seq(Entries), NEW p \in 1 .. Len(l) + 1, NEW e \in Entries
    PROVE  Spliced(InsertAt(l, p, e), l, p - 1, <<e>>, p)
<1>1. <<e>> \in Seq(Entries) /\ p - 1 \in 0 .. Len(l) OBVIOUS
<1> QED BY <1>1, SpliceIs DEF InsertAt

\* RemoveAt(), as a splice.
LEMMA RemoveIs ==
    ASSUME NEW l \in Seq(Entries), NEW p \in 1 .. Len(l)
    PROVE  Spliced(RemoveAt(l, p), l, p - 1, <<>>, p + 1)
<1> DEFINE mid == <<>>
<1>1. mid \in Seq(Entries) /\ p - 1 \in 0 .. Len(l) /\ p + 1 \in 1 .. Len(l) + 1 OBVIOUS
<1>2. SubSeq(l, 1, p - 1) \in Seq(Entries) OBVIOUS
<1>3. SubSeq(l, 1, p - 1) \o mid = SubSeq(l, 1, p - 1) BY <1>2, ConcatEmptySeq
<1> HIDE DEF mid
<1>4. Spliced((SubSeq(l, 1, p - 1) \o mid) \o SubSeq(l, p + 1, Len(l)), l, p - 1, mid, p + 1)
  BY <1>1, SpliceIs
<1>5. Spliced(RemoveAt(l, p), l, p - 1, mid, p + 1) BY <1>3, <1>4 DEF RemoveAt
<1> QED BY <1>5 DEF mid

\* An entry that is replaced, as a splice.
LEMMA ReplaceIs ==
    ASSUME NEW l \in Seq(Entries), NEW p \in 1 .. Len(l), NEW e \in Entries
    PROVE  Spliced([l EXCEPT ![p] = e], l, p - 1, <<e>>, p + 1)
<1> DEFINE m == [l EXCEPT ![p] = e]
<1>0. Len(l) \in Nat /\ DOMAIN l = 1 .. Len(l) OBVIOUS
<1>1. m \in Seq(Entries) /\ Len(m) = Len(l) /\ \A i \in 1 .. Len(l) : m[i] = IF i = p THEN e ELSE l[i] OBVIOUS
<1> HIDE DEF m
<1> DEFINE mid == <<e>>
<1>2. Len(mid) = 1 /\ mid[1] = e OBVIOUS
<1> HIDE DEF mid
<1>3. \A i \in 1 .. p - 1 : m[i] = l[i] BY <1>0, <1>1
<1>4. \A i \in 1 .. Len(mid) : m[(p - 1) + i] = mid[i]
  <2>1. \A i \in 1 .. Len(mid) : i = 1 /\ (p - 1) + i = p BY <1>2
  <2> QED BY <1>1, <1>2, <2>1
<1>5. ASSUME NEW i \in p + 1 .. Len(l) PROVE m[i - (p + 1) + 1 + (p - 1) + Len(mid)] = l[i]
  <2>1. i - (p + 1) + 1 + (p - 1) + Len(mid) = i BY <1>0, <1>2
  <2> QED BY <1>0, <1>1, <2>1
<1>6. Len(m) = (p - 1) + Len(mid) + (Len(l) - (p + 1) + 1) BY <1>0, <1>1, <1>2
<1>7. Spliced(m, l, p - 1, mid, p + 1) BY <1>1, <1>3, <1>4, <1>5, <1>6 DEF Spliced
<1> QED BY <1>7 DEF m, mid

\* An entry that becomes two, as a splice.
LEMMA SplitIs ==
    ASSUME NEW l \in Seq(Entries), NEW p \in 1 .. Len(l), NEW d \in Entries, NEW e \in Entries
    PROVE  \E mid \in Seq(Entries) :
              /\ Len(mid) = 2 /\ mid[1] = d /\ mid[2] = e
              /\ Spliced(SubSeq(l, 1, p - 1) \o <<d>> \o <<e>> \o SubSeq(l, p + 1, Len(l)), l, p - 1, mid, p + 1)
<1> DEFINE a == SubSeq(l, 1, p - 1)
           s == <<d>>
           t == <<e>>
           mid == s \o t
<1>1. s \in Seq(Entries) /\ t \in Seq(Entries) /\ Len(s) = 1 /\ Len(t) = 1 /\ s[1] = d /\ t[1] = e OBVIOUS
<1>2. p - 1 \in 0 .. Len(l) /\ p + 1 \in 1 .. Len(l) + 1 OBVIOUS
<1>3. a \in Seq(Entries) OBVIOUS
<1> HIDE DEF a, s, t
<1>4. /\ mid \in Seq(Entries) /\ Len(mid) = Len(s) + Len(t)
      /\ \A i \in 1 .. Len(s) + Len(t) : mid[i] = IF i <= Len(s) THEN s[i] ELSE t[i - Len(s)]
  BY <1>1, ConcatProperties
<1>5. Len(mid) = 2 /\ mid[1] = d /\ mid[2] = e BY <1>1, <1>4
<1>6. (a \o s) \o t = a \o mid
  BY <1>1, <1>3
<1> HIDE DEF mid
<1>7. Spliced((SubSeq(l, 1, p - 1) \o mid) \o SubSeq(l, p + 1, Len(l)), l, p - 1, mid, p + 1)
  BY <1>2, <1>4, SpliceIs
<1> QED BY <1>4, <1>5, <1>6, <1>7 DEF a, s, t

\* The bytes of a list.
Covers(e, b) == e.start <= b /\ b < Top(e)

\* A byte is in the list if and only if an entry covers it.
LEMMA InList ==
    ASSUME NEW list, ListOK(list), NEW b
    PROVE  b \in BytesIn(list) <=> b \in Int /\ \E i \in DOMAIN list : Covers(list[i], b)
<1>1. \A i \in DOMAIN list : /\ BytesOf(list[i]) = list[i].start .. Top(list[i]) - 1
                             /\ list[i].start \in Nat /\ Top(list[i]) \in Nat
  BY EntryIs DEF ListOK
<1>2. b \in BytesIn(list) <=> \E i \in DOMAIN list : b \in BytesOf(list[i]) BY DEF BytesIn
<1>3. \A i \in DOMAIN list : b \in BytesOf(list[i]) <=> b \in Int /\ Covers(list[i], b)
  BY <1>1 DEF Covers
<1> QED BY <1>2, <1>3

\* The new entries fit between those that stay.
Fits(l, p, mid, q) ==
    /\ p \in 0 .. Len(l) /\ q \in p + 1 .. Len(l) + 1 /\ mid \in Seq(Entries)
    /\ \A k \in 1 .. Len(mid) : EntryOK(mid[k])
    /\ \A k, n \in 1 .. Len(mid) : k < n => Top(mid[k]) < mid[n].start
    /\ \A i \in 1 .. p : \A k \in 1 .. Len(mid) : Top(l[i]) < mid[k].start
    /\ \A i \in q .. Len(l) : \A k \in 1 .. Len(mid) : Top(mid[k]) < l[i].start

\* A list with entries that fit instead of some others is sorted, with gaps, and its
\* bytes are those of the entries that stay and of the new ones.
LEMMA SpliceOK ==
    ASSUME NEW l, ListOK(l), NEW p, NEW q, NEW mid, Fits(l, p, mid, q), NEW m, Spliced(m, l, p, mid, q)
    PROVE  /\ ListOK(m)
           /\ \A b : b \in BytesIn(m) <=>
                 b \in Int /\ \/ \E i \in 1 .. p : Covers(l[i], b)
                              \/ \E k \in 1 .. Len(mid) : Covers(mid[k], b)
                              \/ \E i \in q .. Len(l) : Covers(l[i], b)
<1>0. /\ l \in Seq(Entries) /\ Len(l) \in Nat /\ DOMAIN l = 1 .. Len(l) /\ Len(mid) \in Nat
      /\ m \in Seq(Entries) /\ DOMAIN m = 1 .. Len(m) /\ Len(m) = p + Len(mid) + (Len(l) - q + 1)
      /\ p \in 0 .. Len(l) /\ q \in p + 1 .. Len(l) + 1
  BY DEF ListOK, Fits, Spliced
<1> DEFINE d == q - 1 - p - Len(mid)
<1>d. d \in Int BY <1>0
<1>1. ASSUME NEW i \in DOMAIN m
      PROVE  \/ i \in 1 .. p /\ m[i] = l[i]
             \/ i > p /\ i - p \in 1 .. Len(mid) /\ m[i] = mid[i - p]
             \/ i > p + Len(mid) /\ i + d \in q .. Len(l) /\ m[i] = l[i + d]
  <2>1. CASE i <= p BY <1>0, <2>1 DEF Spliced
  <2>2. CASE i > p /\ i <= p + Len(mid)
    <3>1. i - p \in 1 .. Len(mid) /\ p + (i - p) = i BY <1>0, <2>2
    <3> QED BY <2>2, <3>1 DEF Spliced
  <2>3. CASE i > p + Len(mid)
    <3>1. i + d \in q .. Len(l) /\ (i + d) - q + 1 + p + Len(mid) = i BY <1>0, <2>3, SMTT(30)
    <3>2. m[(i + d) - q + 1 + p + Len(mid)] = l[i + d]
      <4> HIDE DEF d
      <4> QED BY <3>1 DEF Spliced
    <3> HIDE DEF d
    <3> QED BY <2>3, <3>1, <3>2
  <2> QED BY <1>0, <2>1, <2>2, <2>3
<1> HIDE DEF d
<1>2. ASSUME NEW i \in DOMAIN m PROVE EntryOK(m[i])
  <2>1. \A k \in 1 .. Len(l) : EntryOK(l[k]) BY <1>0 DEF ListOK
  <2>2. \A k \in 1 .. Len(mid) : EntryOK(mid[k]) BY DEF Fits
  <2>3. \A k \in q .. Len(l) : k \in 1 .. Len(l) BY <1>0
  <2>4. \A k \in 1 .. p : k \in 1 .. Len(l) BY <1>0
  <2> QED BY <1>1, <2>1, <2>2, <2>3, <2>4
<1>3. ASSUME NEW i \in DOMAIN m, NEW j \in DOMAIN m, i < j PROVE Top(m[i]) < m[j].start
  <2>0. i \in Int /\ j \in Int /\ p \in Int /\ Len(mid) \in Int BY <1>0
  <2>l. \A a, b \in 1 .. Len(l) : a < b => Top(l[a]) < l[b].start BY <1>0 DEF ListOK
  <2>1. CASE i \in 1 .. p /\ m[i] = l[i]
    <3>1. CASE j \in 1 .. p /\ m[j] = l[j] BY <1>0, <1>3, <2>l, <2>1, <3>1
    <3>2. CASE j > p /\ j - p \in 1 .. Len(mid) /\ m[j] = mid[j - p] BY <2>1, <3>2 DEF Fits
    <3>3. CASE j > p + Len(mid) /\ j + d \in q .. Len(l) /\ m[j] = l[j + d]
      <4>1. i < j + d /\ j + d \in 1 .. Len(l) /\ i \in 1 .. Len(l) BY <1>0, <1>d, <2>1, <3>3
      <4> QED BY <2>l, <2>1, <3>3, <4>1
    <3> QED BY <1>1, <3>1, <3>2, <3>3
  <2>2. CASE i > p /\ i - p \in 1 .. Len(mid) /\ m[i] = mid[i - p]
    <3>1. ~(j \in 1 .. p) BY <1>3, <2>0, <2>2
    <3>2. CASE j > p /\ j - p \in 1 .. Len(mid) /\ m[j] = mid[j - p]
      <4>1. i - p < j - p BY <1>3, <2>0
      <4> QED BY <2>2, <3>2, <4>1 DEF Fits
    <3>3. CASE j > p + Len(mid) /\ j + d \in q .. Len(l) /\ m[j] = l[j + d]
      BY <2>2, <3>3 DEF Fits
    <3> QED BY <1>1, <3>1, <3>2, <3>3
  <2>3. CASE i > p + Len(mid) /\ i + d \in q .. Len(l) /\ m[i] = l[i + d]
    <3>1. j > p + Len(mid) /\ ~(j \in 1 .. p) /\ ~(j - p \in 1 .. Len(mid)) BY <1>0, <1>3, <2>0, <2>3
    <3>2. j + d \in q .. Len(l) /\ m[j] = l[j + d] BY <1>1, <3>1
    <3>3. i + d < j + d /\ i + d \in 1 .. Len(l) /\ j + d \in 1 .. Len(l) BY <1>0, <1>d, <1>3, <2>0, <2>3, <3>2, SMTT(30)
    <3> QED BY <2>l, <2>3, <3>2, <3>3
  <2> QED BY <1>1, <2>1, <2>2, <2>3
<1>4. ListOK(m) BY <1>0, <1>2, <1>3 DEF ListOK
<1>5. ASSUME NEW b
      PROVE  (\E i \in DOMAIN m : Covers(m[i], b)) <=>
                \/ \E i \in 1 .. p : Covers(l[i], b)
                \/ \E k \in 1 .. Len(mid) : Covers(mid[k], b)
                \/ \E i \in q .. Len(l) : Covers(l[i], b)
  <2>1. ASSUME NEW i \in 1 .. p PROVE i \in DOMAIN m /\ m[i] = l[i] BY <1>0 DEF Spliced
  <2>2. ASSUME NEW k \in 1 .. Len(mid) PROVE p + k \in DOMAIN m /\ m[p + k] = mid[k] BY <1>0 DEF Spliced
  <2>3. ASSUME NEW i \in q .. Len(l)
        PROVE  i - q + 1 + p + Len(mid) \in DOMAIN m /\ m[i - q + 1 + p + Len(mid)] = l[i]
    BY <1>0 DEF Spliced
  <2>4. ASSUME NEW i \in DOMAIN m, Covers(m[i], b)
        PROVE  \/ \E n \in 1 .. p : Covers(l[n], b)
               \/ \E k \in 1 .. Len(mid) : Covers(mid[k], b)
               \/ \E n \in q .. Len(l) : Covers(l[n], b)
    BY <1>1, <2>4
  <2> QED BY <2>1, <2>2, <2>3, <2>4
<1> QED BY <1>4, <1>5, InList

-----------------------------------------------------------------------------
(* hb_fileTestLock(), hb_fileSetLock() and hb_fileUnlock()                 *)

\* A range that a program locks.
RangeOK(r) == EntryOK(r) /\ r.len > 0

\* What is known of the position of a range.
LEMMA PositionIs ==
    ASSUME NEW l, ListOK(l), NEW r, RangeOK(r), NEW pos, pos = FindOffset(l, r.start)
    PROVE  /\ l \in Seq(Entries) /\ Len(l) \in Nat /\ DOMAIN l = 1 .. Len(l)
           /\ pos \in 0 .. Len(l)
           /\ \A i \in 1 .. Len(l) : EntryOK(l[i]) /\ l[i].start \in Nat /\ Top(l[i]) \in Nat
                                     /\ l[i].start < Top(l[i]) /\ Top(l[i]) <= Limit
           /\ \A i, j \in 1 .. Len(l) : i < j => Top(l[i]) < l[j].start
           /\ \A i \in 1 .. pos : Top(l[i]) <= r.start
           /\ \A i \in pos + 1 .. Len(l) : Top(l[i]) > r.start
           /\ r.start \in Nat /\ Top(r) \in Nat /\ r.start < Top(r) /\ Top(r) <= Limit
           /\ r.len \in Nat /\ Top(r) = r.start + r.len /\ r.len < Limit /\ Limit \in Nat
           /\ End(r) = IF Top(r) = Limit THEN -Limit ELSE Top(r)
<1>1. l \in Seq(Entries) /\ Len(l) \in Nat /\ DOMAIN l = 1 .. Len(l) BY DEF ListOK
<1>2. EntryOK(r) /\ r.len > 0 /\ r.start \in Offsets /\ r.len \in -Limit .. Limit - 1 /\ Limit \in Nat
  BY FileAssumption DEF RangeOK, EntryOK, Entries
<1>3. Found(l, r.start, pos) BY <1>2, FindOffsetIs
<1>4. \A i \in 1 .. Len(l) : EntryOK(l[i]) /\ l[i].start \in Nat /\ Top(l[i]) \in Nat
                             /\ l[i].start < Top(l[i]) /\ Top(l[i]) <= Limit
  BY <1>1, EntryIs DEF ListOK
<1>5. \A i, j \in 1 .. Len(l) : i < j => Top(l[i]) < l[j].start BY <1>1 DEF ListOK
<1>6. /\ r.start \in Nat /\ Top(r) \in Nat /\ r.start < Top(r) /\ Top(r) <= Limit
      /\ Top(r) = r.start + r.len /\ End(r) = IF Top(r) = Limit THEN -Limit ELSE Top(r)
  BY <1>2, EntryIs
<1>7. r.len \in Nat /\ r.len < Limit BY <1>2
<1> QED BY <1>1, <1>2, <1>3, <1>4, <1>5, <1>6, <1>7 DEF Found

\* A range is taken for locked if it reaches the entry at its position.
LEMMA TestReaches ==
    ASSUME NEW l, ListOK(l), NEW r, RangeOK(r), NEW pos, pos = FindOffset(l, r.start)
    PROVE  TestLock(l, r) <=> pos < Len(l) /\ Top(r) > l[pos + 1].start
<1>1. TestLock(l, r) <=> pos < Len(l) /\ (End(r) <= 0 \/ End(r) > l[pos + 1].start) BY DEF TestLock
<1>2. CASE pos < Len(l)
  <2>0. /\ pos + 1 \in 1 .. Len(l) /\ l[pos + 1].start \in Nat /\ l[pos + 1].start < Limit
        /\ Top(r) \in Nat /\ Top(r) > 0 /\ Limit \in Nat /\ Limit > 0
        /\ End(r) = IF Top(r) = Limit THEN -Limit ELSE Top(r)
    BY <1>2, PositionIs
  <2>1. (End(r) <= 0 \/ End(r) > l[pos + 1].start) <=> Top(r) > l[pos + 1].start BY <2>0
  <2> QED BY <1>1, <2>1
<1>3. CASE ~(pos < Len(l)) BY <1>1, <1>3
<1> QED BY <1>2, <1>3

\* A range that is free lies between two entries.
LEMMA FreeIsBetween ==
    ASSUME NEW l, ListOK(l), NEW r, RangeOK(r), NEW pos, pos = FindOffset(l, r.start), ~TestLock(l, r)
    PROVE  \A i \in pos + 1 .. Len(l) : Top(r) <= l[i].start
<1> SUFFICES ASSUME NEW i \in pos + 1 .. Len(l) PROVE Top(r) <= l[i].start OBVIOUS
<1>0. /\ Len(l) \in Nat /\ pos \in 0 .. Len(l) /\ Top(r) \in Nat
      /\ \A k \in 1 .. Len(l) : l[k].start \in Nat /\ Top(l[k]) \in Nat /\ l[k].start < Top(l[k])
      /\ \A k, j \in 1 .. Len(l) : k < j => Top(l[k]) < l[j].start
  BY PositionIs
<1>1. pos + 1 \in 1 .. Len(l) /\ pos < Len(l) /\ i \in 1 .. Len(l) BY <1>0
<1>2. Top(r) <= l[pos + 1].start BY <1>0, <1>1, TestReaches
<1>3. i = pos + 1 \/ pos + 1 < i BY <1>0
<1> QED BY <1>0, <1>1, <1>2, <1>3

\* The test is true if and only if a byte of the range is locked.
LEMMA TestIs ==
    ASSUME NEW l, ListOK(l), NEW r, RangeOK(r)
    PROVE  TestLock(l, r) <=> BytesOf(r) \cap BytesIn(l) # {}
<1> DEFINE pos == FindOffset(l, r.start)
<1>0. /\ Len(l) \in Nat /\ pos \in 0 .. Len(l) /\ r.start \in Nat /\ Top(r) \in Nat /\ r.start < Top(r)
      /\ DOMAIN l = 1 .. Len(l)
      /\ \A i \in 1 .. Len(l) : l[i].start \in Nat /\ Top(l[i]) \in Nat /\ l[i].start < Top(l[i])
      /\ \A i \in 1 .. pos : Top(l[i]) <= r.start
      /\ \A i \in pos + 1 .. Len(l) : Top(l[i]) > r.start
  BY PositionIs
<1>1. BytesOf(r) = r.start .. Top(r) - 1 BY EntryIs DEF RangeOK
<1>2. ASSUME TestLock(l, r) PROVE BytesOf(r) \cap BytesIn(l) # {}
  <2>1. pos < Len(l) /\ Top(r) > l[pos + 1].start BY <1>2, TestReaches
  <2> HIDE DEF pos
  <2>2. pos + 1 \in DOMAIN l /\ Top(l[pos + 1]) > r.start /\ l[pos + 1].start < Top(l[pos + 1])
        /\ l[pos + 1].start \in Nat /\ Top(l[pos + 1]) \in Nat
    BY <1>0, <2>1
  <2>3. PICK b \in Nat : r.start <= b /\ b < Top(r) /\ l[pos + 1].start <= b /\ b < Top(l[pos + 1])
    <3>1. CASE r.start >= l[pos + 1].start BY <1>0, <2>1, <2>2, <3>1
    <3>2. CASE ~(r.start >= l[pos + 1].start)
      <4>1. r.start <= l[pos + 1].start BY <1>0, <2>2, <3>2
      <4> QED BY <2>1, <2>2, <4>1
    <3> QED BY <3>1, <3>2
  <2>4. b \in BytesIn(l) BY <2>2, <2>3, InList DEF Covers
  <2>5. b \in BytesOf(r) BY <1>0, <1>1, <2>3
  <2> QED BY <2>4, <2>5
<1>3. ASSUME ~TestLock(l, r), NEW b \in BytesOf(r), b \in BytesIn(l) PROVE FALSE
  <2>1. \A i \in pos + 1 .. Len(l) : Top(r) <= l[i].start BY <1>3, FreeIsBetween
  <2>2. PICK i \in DOMAIN l : Covers(l[i], b) BY <1>3, InList
  <2>3. b \in Int /\ r.start <= b /\ b < Top(r) BY <1>0, <1>1
  <2> HIDE DEF pos
  <2>4. CASE i <= pos BY <1>0, <2>2, <2>3, <2>4 DEF Covers
  <2>5. CASE i > pos
    <3>1. i \in pos + 1 .. Len(l) BY <1>0, <2>5
    <3> QED BY <1>0, <2>1, <2>2, <2>3, <3>1 DEF Covers
  <2> QED BY <1>0, <2>4, <2>5
<1> QED BY <1>2, <1>3

\* The list with a range more: the new entries stand for the range and the entries
\* they replace.
LEMMA Adds ==
    ASSUME NEW l, ListOK(l), NEW r, RangeOK(r), NEW p, NEW q, NEW mid, Fits(l, p, mid, q),
           NEW m, Spliced(m, l, p, mid, q),
           \A b \in Int : (\E k \in 1 .. Len(mid) : Covers(mid[k], b)) <=>
                             (Covers(r, b) \/ \E i \in p + 1 .. q - 1 : Covers(l[i], b))
    PROVE  ListOK(m) /\ BytesIn(m) = BytesIn(l) \cup BytesOf(r)
<1>0. /\ Len(l) \in Nat /\ DOMAIN l = 1 .. Len(l) /\ p \in 0 .. Len(l) /\ q \in p + 1 .. Len(l) + 1
  BY DEF ListOK, Fits
<1>1. \A i : i \in 1 .. Len(l) <=> i \in 1 .. p \/ i \in p + 1 .. q - 1 \/ i \in q .. Len(l) BY <1>0
<1>2. \A b : b \in BytesOf(r) <=> b \in Int /\ Covers(r, b)
  <2>1. BytesOf(r) = r.start .. Top(r) - 1 /\ r.start \in Nat /\ Top(r) \in Nat BY EntryIs DEF RangeOK
  <2> QED BY <2>1 DEF Covers
<1>3. \A b : b \in BytesIn(l) <=> b \in Int /\ \E i \in 1 .. Len(l) : Covers(l[i], b) BY <1>0, InList
<1>4. /\ ListOK(m)
      /\ \A b : b \in BytesIn(m) <=>
                 b \in Int /\ \/ \E i \in 1 .. p : Covers(l[i], b)
                              \/ \E k \in 1 .. Len(mid) : Covers(mid[k], b)
                              \/ \E i \in q .. Len(l) : Covers(l[i], b)
  BY SpliceOK
<1>5. \A b : b \in BytesIn(m) <=> b \in BytesIn(l) \/ b \in BytesOf(r)
  BY <1>1, <1>2, <1>3, <1>4
<1> QED BY <1>4, <1>5

\* One entry in the place of others.
LEMMA FitsOne ==
    ASSUME NEW l, ListOK(l), NEW p \in 0 .. Len(l), NEW q \in p + 1 .. Len(l) + 1, NEW e, EntryOK(e),
           \A i \in 1 .. p : Top(l[i]) < e.start, \A i \in q .. Len(l) : Top(e) < l[i].start
    PROVE  /\ Fits(l, p, <<e>>, q)
           /\ \A b : (\E k \in 1 .. Len(<<e>>) : Covers(<<e>>[k], b)) <=> Covers(e, b)
<1> DEFINE mid == <<e>>
<1>1. mid \in Seq(Entries) /\ Len(mid) = 1 /\ mid[1] = e BY DEF EntryOK
<1> HIDE DEF mid
<1>2. \A k \in 1 .. Len(mid) : k = 1 /\ mid[k] = e BY <1>1
<1>3. \A k, n \in 1 .. Len(mid) : k < n => Top(mid[k]) < mid[n].start BY <1>2
<1>4. Fits(l, p, mid, q) BY <1>1, <1>2, <1>3 DEF Fits
<1>5. \A b : (\E k \in 1 .. Len(mid) : Covers(mid[k], b)) <=> Covers(e, b) BY <1>1, <1>2
<1> QED BY <1>4, <1>5 DEF mid

\* One entry in the place of two neighbours.
LEMMA JoinIs ==
    ASSUME NEW l \in Seq(Entries), NEW p \in 1 .. Len(l) - 1, NEW e \in Entries
    PROVE  Spliced(RemoveAt([l EXCEPT ![p] = e], p + 1), l, p - 1, <<e>>, p + 2)
<1> DEFINE n == [l EXCEPT ![p] = e]
           m == RemoveAt(n, p + 1)
<1>0. Len(l) \in Nat OBVIOUS
<1>1. n \in Seq(Entries) /\ Len(n) = Len(l) /\ \A i \in 1 .. Len(l) : n[i] = IF i = p THEN e ELSE l[i] OBVIOUS
<1> HIDE DEF n
<1>2. p + 1 \in 1 .. Len(n) BY <1>1
<1>3. Spliced(m, n, (p + 1) - 1, <<>>, (p + 1) + 1) BY <1>1, <1>2, RemoveIs
<1>4. (p + 1) - 1 = p /\ (p + 1) + 1 = p + 2 OBVIOUS
<1>5. Spliced(m, n, p, <<>>, p + 2) BY <1>3, <1>4
<1> DEFINE none == <<>>
           mid == <<e>>
<1>6. Len(none) = 0 /\ Len(mid) = 1 /\ mid[1] = e OBVIOUS
<1> HIDE DEF m, none, mid
<1>7. /\ m \in Seq(Entries) /\ Len(m) = Len(l) - 1
      /\ \A i \in 1 .. p : m[i] = n[i]
      /\ \A i \in p + 2 .. Len(l) : m[i - (p + 2) + 1 + p + Len(none)] = n[i]
  <2>1. Spliced(m, n, p, none, p + 2) BY <1>5 DEF none
  <2> QED BY <1>0, <1>1, <1>6, <2>1 DEF Spliced
<1>8. \A i \in 1 .. p - 1 : m[i] = l[i] BY <1>0, <1>1, <1>7
<1>9. ASSUME NEW k \in 1 .. Len(mid) PROVE m[(p - 1) + k] = mid[k]
  <2>1. k = 1 /\ (p - 1) + k = p BY <1>6
  <2>2. m[p] = n[p] /\ n[p] = e BY <1>0, <1>1, <1>7, SMTT(30)
  <2> QED BY <1>6, <2>1, <2>2
<1>10. ASSUME NEW i \in p + 2 .. Len(l) PROVE m[i - (p + 2) + 1 + (p - 1) + Len(mid)] = l[i]
  <2>1. i - (p + 2) + 1 + (p - 1) + Len(mid) = i - (p + 2) + 1 + p + Len(none) BY <1>0, <1>6
  <2>2. m[i - (p + 2) + 1 + p + Len(none)] = n[i] BY <1>7
  <2>3. n[i] = l[i] BY <1>0, <1>1
  <2> QED BY <2>1, <2>2, <2>3
<1>11. Len(m) = (p - 1) + Len(mid) + (Len(l) - (p + 2) + 1) BY <1>0, <1>6, <1>7
<1>12. Spliced(m, l, p - 1, mid, p + 2) BY <1>7, <1>8, <1>9, <1>10, <1>11 DEF Spliced
<1> QED BY <1>12 DEF m, n, mid

\* hb_fileSetLock(): the list has the bytes of the range as well.
LEMMA SetLockIs ==
    ASSUME NEW l, ListOK(l), NEW r, RangeOK(r), ~TestLock(l, r)
    PROVE  ListOK(SetLock(l, r)) /\ BytesIn(SetLock(l, r)) = BytesIn(l) \cup BytesOf(r)
<1> DEFINE pos == FindOffset(l, r.start)
           left == pos > 0 /\ End(l[pos]) = r.start
           right == pos < Len(l) /\ End(r) = l[pos + 1].start
           m == SetLock(l, r)
<1>0. /\ l \in Seq(Entries) /\ Len(l) \in Nat /\ DOMAIN l = 1 .. Len(l)
      /\ pos \in 0 .. Len(l)
      /\ \A i \in 1 .. Len(l) : EntryOK(l[i]) /\ l[i].start \in Nat /\ Top(l[i]) \in Nat
                                /\ l[i].start < Top(l[i]) /\ Top(l[i]) <= Limit
      /\ \A i, j \in 1 .. Len(l) : i < j => Top(l[i]) < l[j].start
      /\ \A i \in 1 .. pos : Top(l[i]) <= r.start
      /\ \A i \in pos + 1 .. Len(l) : Top(l[i]) > r.start
      /\ r.start \in Nat /\ Top(r) \in Nat /\ r.start < Top(r) /\ Top(r) <= Limit
      /\ r.len \in Nat /\ Top(r) = r.start + r.len /\ r.len < Limit /\ Limit \in Nat
      /\ End(r) = IF Top(r) = Limit THEN -Limit ELSE Top(r)
  BY PositionIs
<1>1. \A i \in pos + 1 .. Len(l) : Top(r) <= l[i].start BY FreeIsBetween
<1>m. m = CASE left /\ right ->
                  RemoveAt([l EXCEPT ![pos].len = Wrap(@ + r.len + l[pos + 1].len)], pos + 1)
            [] left /\ ~right -> [l EXCEPT ![pos].len = Wrap(@ + r.len)]
            [] ~left /\ right -> [l EXCEPT ![pos + 1] = FLock(@.start - r.len, Wrap(@.len + r.len))]
            [] OTHER -> InsertAt(l, pos + 1, r)
  BY DEF SetLock
<1> HIDE DEF pos, m
<1>2. ASSUME pos > 0
      PROVE  /\ pos \in 1 .. Len(l) /\ l[pos] \in Entries /\ l[pos].len \in Nat /\ l[pos].len > 0
             /\ Top(l[pos]) = l[pos].start + l[pos].len /\ End(l[pos]) = Top(l[pos])
  <2>1. pos \in 1 .. Len(l) /\ EntryOK(l[pos]) /\ Top(l[pos]) <= r.start /\ Top(l[pos]) < Limit
    BY <1>0, <1>2
  <2>2. l[pos].len > 0 /\ Top(l[pos]) = l[pos].start + l[pos].len /\ End(l[pos]) = Top(l[pos])
    <3>1. l[pos].len \in Int /\ Top(l[pos]) # Limit BY <1>0, <2>1 DEF EntryOK, Entries
    <3> QED BY <2>1, <3>1, EntryIs
  <2>3. l[pos] \in Entries /\ l[pos].len \in Int BY <2>1 DEF EntryOK, Entries
  <2> QED BY <2>1, <2>2, <2>3
<1>3. ASSUME right
      PROVE  /\ pos + 1 \in 1 .. Len(l) /\ l[pos + 1] \in Entries /\ l[pos + 1].len \in Nat /\ l[pos + 1].len > 0
             /\ Top(l[pos + 1]) = l[pos + 1].start + l[pos + 1].len /\ Top(r) = l[pos + 1].start
  <2>1. pos + 1 \in 1 .. Len(l) /\ EntryOK(l[pos + 1]) /\ l[pos + 1].start \in Nat BY <1>0, <1>3
  <2>2. Top(r) = l[pos + 1].start BY <1>0, <1>3, <2>1
  <2>3. l[pos + 1].start > 0 BY <1>0, <2>2
  <2>4. l[pos + 1] \in Entries /\ l[pos + 1].len \in Int BY <2>1 DEF EntryOK, Entries
  <2>5. l[pos + 1].len > 0 BY <2>1, <2>3, <2>4, EntryIs
  <2>6. Top(l[pos + 1]) = l[pos + 1].start + l[pos + 1].len BY <2>1, <2>5, EntryIs
  <2> QED BY <2>1, <2>2, <2>4, <2>5, <2>6
<1>4. ~left => \A i \in 1 .. pos : Top(l[i]) < r.start
  <2> SUFFICES ASSUME ~left, NEW i \in 1 .. pos PROVE Top(l[i]) < r.start OBVIOUS
  <2>1. pos > 0 /\ pos \in 1 .. Len(l) /\ i \in 1 .. Len(l) BY <1>0
  <2>2. Top(l[pos]) < r.start BY <1>0, <1>2, <2>1, SMTT(30)
  <2>3. i = pos \/ Top(l[i]) < l[pos].start BY <1>0, <2>1
  <2> QED BY <1>0, <2>1, <2>2, <2>3
<1>5. ~right => \A i \in pos + 1 .. Len(l) : Top(r) < l[i].start
  <2> SUFFICES ASSUME ~right, NEW i \in pos + 1 .. Len(l) PROVE Top(r) < l[i].start OBVIOUS
  <2>1. pos < Len(l) /\ pos + 1 \in 1 .. Len(l) /\ i \in 1 .. Len(l) BY <1>0
  <2>2. Top(r) <= l[pos + 1].start /\ l[pos + 1].start < Limit BY <1>0, <1>1, <2>1
  <2>3. Top(r) < l[pos + 1].start BY <1>0, <2>1, <2>2
  <2>4. i = pos + 1 \/ Top(l[pos + 1]) < l[i].start BY <1>0, <2>1
  <2> QED BY <1>0, <2>1, <2>3, <2>4
<1>6. CASE left /\ right
  <2> DEFINE n == l[pos].len + r.len + l[pos + 1].len
             e == FLock(l[pos].start, Wrap(n))
  <2>0. /\ pos > 0 /\ pos < Len(l) /\ pos \in 1 .. Len(l) - 1 /\ pos \in 1 .. Len(l) /\ pos + 1 \in 1 .. Len(l)
        /\ Top(l[pos]) = r.start /\ Top(r) = l[pos + 1].start
    BY <1>0, <1>2, <1>3, <1>6
  <2>1. n \in Nat /\ n > 0 /\ l[pos].start + n = Top(l[pos + 1]) /\ Top(l[pos + 1]) <= Limit /\ l[pos].start \in Nat
    <3>1. l[pos].len \in Nat /\ l[pos].len > 0 /\ Top(l[pos]) = l[pos].start + l[pos].len BY <1>2, <2>0
    <3>2. l[pos + 1].len \in Nat /\ Top(l[pos + 1]) = l[pos + 1].start + l[pos + 1].len BY <1>3, <1>6
    <3>3. Top(l[pos + 1]) <= Limit /\ l[pos].start \in Nat /\ l[pos + 1].start \in Nat BY <1>0, <2>0
    <3>4. r.len \in Nat /\ r.start \in Nat /\ Top(r) = r.start + r.len BY <1>0
    <3>5. Top(l[pos]) = r.start /\ Top(r) = l[pos + 1].start BY <2>0
    <3> QED BY <3>1, <3>2, <3>3, <3>4, <3>5
  <2> HIDE DEF n
  <2>2. EntryOK(e) /\ e.start = l[pos].start /\ Top(e) = Top(l[pos + 1]) BY <2>1, MakeEntry
  <2>3. m = RemoveAt([l EXCEPT ![pos] = e], pos + 1)
    <3>1. m = RemoveAt([l EXCEPT ![pos].len = Wrap(l[pos].len + r.len + l[pos + 1].len)], pos + 1) BY <1>m, <1>6
    <3>2. m = RemoveAt([l EXCEPT ![pos].len = Wrap(n)], pos + 1) BY <3>1 DEF n
    <3>3. [l EXCEPT ![pos].len = Wrap(n)] = [l EXCEPT ![pos] = e]
      <4>1. [l[pos] EXCEPT !.len = Wrap(n)] = e BY <1>2, <2>0 DEF Entries, FLock
      <4> QED BY <4>1
    <3> QED BY <3>2, <3>3
  <2> HIDE DEF e
  <2>4. e \in Entries BY <2>2 DEF EntryOK
  <2>5. Spliced(m, l, pos - 1, <<e>>, pos + 2) BY <1>0, <2>0, <2>3, <2>4, JoinIs
  <2>6. \A i \in 1 .. pos - 1 : Top(l[i]) < e.start BY <1>0, <2>0, <2>2
  <2>7. \A i \in pos + 2 .. Len(l) : Top(e) < l[i].start BY <1>0, <2>0, <2>2
  <2>8. pos - 1 \in 0 .. Len(l) /\ pos + 2 \in (pos - 1) + 1 .. Len(l) + 1 BY <1>0, <2>0, SMTT(30)
  <2>9. /\ Fits(l, pos - 1, <<e>>, pos + 2)
        /\ \A b : (\E k \in 1 .. Len(<<e>>) : Covers(<<e>>[k], b)) <=> Covers(e, b)
    BY <2>2, <2>6, <2>7, <2>8, FitsOne
  <2>10. ASSUME NEW b \in Int
         PROVE  Covers(e, b) <=> (Covers(r, b) \/ \E i \in (pos - 1) + 1 .. (pos + 2) - 1 : Covers(l[i], b))
    <3>1. \A i : i \in (pos - 1) + 1 .. (pos + 2) - 1 <=> i = pos \/ i = pos + 1 BY <1>0
    <3>2. Covers(e, b) <=> Covers(l[pos], b) \/ Covers(r, b) \/ Covers(l[pos + 1], b)
      BY <1>0, <2>0, <2>2, SMTT(30) DEF Covers
    <3> QED BY <3>1, <3>2
  <2> QED BY <2>5, <2>9, <2>10, Adds DEF m
<1>7. CASE left /\ ~right
  <2> DEFINE n == l[pos].len + r.len
             e == FLock(l[pos].start, Wrap(n))
  <2>0. pos > 0 /\ pos \in 1 .. Len(l) /\ Top(l[pos]) = r.start BY <1>0, <1>2, <1>7
  <2>1. n \in Nat /\ n > 0 /\ l[pos].start + n = Top(r) /\ Top(r) <= Limit /\ l[pos].start \in Nat
    BY <1>0, <1>2, <2>0, SMTT(30)
  <2> HIDE DEF n
  <2>2. EntryOK(e) /\ e.start = l[pos].start /\ Top(e) = Top(r) BY <2>1, MakeEntry
  <2>3. m = [l EXCEPT ![pos] = e]
    <3>1. m = [l EXCEPT ![pos].len = Wrap(l[pos].len + r.len)] BY <1>m, <1>7
    <3>2. m = [l EXCEPT ![pos].len = Wrap(n)] BY <3>1 DEF n
    <3>3. [l EXCEPT ![pos].len = Wrap(n)] = [l EXCEPT ![pos] = e]
      <4>1. [l[pos] EXCEPT !.len = Wrap(n)] = e BY <1>2, <2>0 DEF Entries, FLock
      <4> QED BY <4>1
    <3> QED BY <3>2, <3>3
  <2> HIDE DEF e
  <2>4. e \in Entries BY <2>2 DEF EntryOK
  <2>5. Spliced(m, l, pos - 1, <<e>>, pos + 1) BY <1>0, <2>0, <2>3, <2>4, ReplaceIs
  <2>6. \A i \in 1 .. pos - 1 : Top(l[i]) < e.start BY <1>0, <2>0, <2>2
  <2>7. \A i \in pos + 1 .. Len(l) : Top(e) < l[i].start BY <1>5, <1>7, <2>2
  <2>8. pos - 1 \in 0 .. Len(l) /\ pos + 1 \in (pos - 1) + 1 .. Len(l) + 1 BY <1>0, <2>0
  <2>9. /\ Fits(l, pos - 1, <<e>>, pos + 1)
        /\ \A b : (\E k \in 1 .. Len(<<e>>) : Covers(<<e>>[k], b)) <=> Covers(e, b)
    BY <2>2, <2>6, <2>7, <2>8, FitsOne
  <2>10. ASSUME NEW b \in Int
         PROVE  Covers(e, b) <=> (Covers(r, b) \/ \E i \in (pos - 1) + 1 .. (pos + 1) - 1 : Covers(l[i], b))
    <3>1. \A i : i \in (pos - 1) + 1 .. (pos + 1) - 1 <=> i = pos BY <1>0
    <3>2. Covers(e, b) <=> Covers(l[pos], b) \/ Covers(r, b) BY <1>0, <2>0, <2>2 DEF Covers
    <3> QED BY <3>1, <3>2
  <2> QED BY <2>5, <2>9, <2>10, Adds DEF m
<1>8. CASE ~left /\ right
  <2> DEFINE n == l[pos + 1].len + r.len
             e == FLock(r.start, Wrap(n))
  <2>0. pos < Len(l) /\ pos + 1 \in 1 .. Len(l) /\ Top(r) = l[pos + 1].start BY <1>0, <1>3, <1>8
  <2>1. n \in Nat /\ n > 0 /\ r.start + n = Top(l[pos + 1]) /\ Top(l[pos + 1]) <= Limit
        /\ l[pos + 1].start - r.len = r.start
    <3>2. l[pos + 1].len \in Nat /\ Top(l[pos + 1]) = l[pos + 1].start + l[pos + 1].len BY <1>3, <1>8
    <3>3. Top(l[pos + 1]) <= Limit /\ l[pos + 1].start \in Nat BY <1>0, <2>0
    <3>4. r.len \in Nat /\ r.len > 0 /\ r.start \in Nat /\ Top(r) = r.start + r.len BY <1>0 DEF RangeOK
    <3>5. Top(r) = l[pos + 1].start BY <2>0
    <3> QED BY <3>2, <3>3, <3>4, <3>5
  <2> HIDE DEF n
  <2>2. EntryOK(e) /\ e.start = r.start /\ Top(e) = Top(l[pos + 1]) BY <1>0, <2>1, MakeEntry
  <2>3. m = [l EXCEPT ![pos + 1] = e]
    <3>1. m = [l EXCEPT ![pos + 1] = FLock(l[pos + 1].start - r.len, Wrap(l[pos + 1].len + r.len))] BY <1>m, <1>8
    <3> QED BY <2>1, <3>1 DEF n
  <2> HIDE DEF e
  <2>4. e \in Entries BY <2>2 DEF EntryOK
  <2>5. Spliced(m, l, pos, <<e>>, pos + 2)
    <3>1. Spliced(m, l, (pos + 1) - 1, <<e>>, (pos + 1) + 1) BY <1>0, <2>0, <2>3, <2>4, ReplaceIs
    <3>2. (pos + 1) - 1 = pos /\ (pos + 1) + 1 = pos + 2 BY <1>0
    <3> QED BY <3>1, <3>2
  <2>6. \A i \in 1 .. pos : Top(l[i]) < e.start BY <1>4, <1>8, <2>2
  <2>7. \A i \in pos + 2 .. Len(l) : Top(e) < l[i].start BY <1>0, <2>0, <2>2
  <2>8. pos \in 0 .. Len(l) /\ pos + 2 \in pos + 1 .. Len(l) + 1 BY <1>0, <2>0
  <2>9. /\ Fits(l, pos, <<e>>, pos + 2)
        /\ \A b : (\E k \in 1 .. Len(<<e>>) : Covers(<<e>>[k], b)) <=> Covers(e, b)
    BY <2>2, <2>6, <2>7, <2>8, FitsOne
  <2>10. ASSUME NEW b \in Int
         PROVE  Covers(e, b) <=> (Covers(r, b) \/ \E i \in pos + 1 .. (pos + 2) - 1 : Covers(l[i], b))
    <3>1. \A i : i \in pos + 1 .. (pos + 2) - 1 <=> i = pos + 1 BY <1>0
    <3>2. Covers(e, b) <=> Covers(l[pos + 1], b) \/ Covers(r, b) BY <1>0, <2>0, <2>2 DEF Covers
    <3> QED BY <3>1, <3>2
  <2> QED BY <2>5, <2>9, <2>10, Adds DEF m
<1>9. CASE ~left /\ ~right
  <2>1. m = InsertAt(l, pos + 1, r) BY <1>m, <1>9
  <2>2. EntryOK(r) /\ r \in Entries BY DEF RangeOK, EntryOK
  <2>3. pos + 1 \in 1 .. Len(l) + 1 /\ (pos + 1) - 1 = pos BY <1>0
  <2>4. Spliced(m, l, pos, <<r>>, pos + 1)
    <3>1. Spliced(m, l, (pos + 1) - 1, <<r>>, pos + 1) BY <1>0, <2>1, <2>2, <2>3, InsertIs
    <3> QED BY <2>3, <3>1
  <2>5. pos \in 0 .. Len(l) /\ pos + 1 \in pos + 1 .. Len(l) + 1 BY <1>0
  <2>6. /\ Fits(l, pos, <<r>>, pos + 1)
        /\ \A b : (\E k \in 1 .. Len(<<r>>) : Covers(<<r>>[k], b)) <=> Covers(r, b)
    BY <1>4, <1>5, <1>9, <2>2, <2>5, FitsOne
  <2>7. \A i : ~(i \in pos + 1 .. (pos + 1) - 1) BY <1>0
  <2> QED BY <2>4, <2>6, <2>7, Adds DEF m
<1> QED BY <1>6, <1>7, <1>8, <1>9

\* The list with a range less.
LEMMA Subtracts ==
    ASSUME NEW l, ListOK(l), NEW r, RangeOK(r), NEW p, NEW q, NEW mid, Fits(l, p, mid, q),
           NEW m, Spliced(m, l, p, mid, q),
           \A b \in Int : (\E k \in 1 .. Len(mid) : Covers(mid[k], b)) <=>
                             (~Covers(r, b) /\ \E i \in p + 1 .. q - 1 : Covers(l[i], b)),
           \A b \in Int : Covers(r, b) => \A i \in 1 .. Len(l) : Covers(l[i], b) => i \in p + 1 .. q - 1
    PROVE  ListOK(m) /\ BytesIn(m) = BytesIn(l) \ BytesOf(r)
<1>0. /\ Len(l) \in Nat /\ DOMAIN l = 1 .. Len(l) /\ p \in 0 .. Len(l) /\ q \in p + 1 .. Len(l) + 1
  BY DEF ListOK, Fits
<1>1. \A i : /\ i \in 1 .. Len(l) <=> i \in 1 .. p \/ i \in p + 1 .. q - 1 \/ i \in q .. Len(l)
             /\ ~(i \in 1 .. p /\ i \in p + 1 .. q - 1) /\ ~(i \in q .. Len(l) /\ i \in p + 1 .. q - 1)
  BY <1>0
<1>2. \A b : b \in BytesOf(r) <=> b \in Int /\ Covers(r, b)
  <2>1. BytesOf(r) = r.start .. Top(r) - 1 /\ r.start \in Nat /\ Top(r) \in Nat BY EntryIs DEF RangeOK
  <2> QED BY <2>1 DEF Covers
<1>3. \A b : b \in BytesIn(l) <=> b \in Int /\ \E i \in 1 .. Len(l) : Covers(l[i], b) BY <1>0, InList
<1>4. /\ ListOK(m)
      /\ \A b : b \in BytesIn(m) <=>
                 b \in Int /\ \/ \E i \in 1 .. p : Covers(l[i], b)
                              \/ \E k \in 1 .. Len(mid) : Covers(mid[k], b)
                              \/ \E i \in q .. Len(l) : Covers(l[i], b)
  BY SpliceOK
<1>5. ASSUME NEW b PROVE b \in BytesIn(m) <=> b \in BytesIn(l) /\ b \notin BytesOf(r)
  <2>1. CASE b \notin Int BY <1>3, <1>4, <2>1
  <2>2. CASE b \in Int /\ Covers(r, b)
    <3>1. b \in BytesOf(r) BY <1>2, <2>2
    <3>2. \A i \in 1 .. Len(l) : Covers(l[i], b) => i \in p + 1 .. q - 1 BY <2>2
    <3>3. ~ \E k \in 1 .. Len(mid) : Covers(mid[k], b) BY <2>2
    <3> QED BY <1>1, <1>4, <3>1, <3>2, <3>3
  <2>3. CASE b \in Int /\ ~Covers(r, b)
    <3>1. b \notin BytesOf(r) BY <1>2, <2>3
    <3>2. (\E k \in 1 .. Len(mid) : Covers(mid[k], b)) <=> (\E i \in p + 1 .. q - 1 : Covers(l[i], b)) BY <2>3
    <3> QED BY <1>1, <1>3, <1>4, <2>3, <3>1, <3>2
  <2> QED BY <2>1, <2>2, <2>3
<1> QED BY <1>4, <1>5

\* A range that can be unlocked lies in the entry at its position.
LEMMA UnlocksWithin ==
    ASSUME NEW l, ListOK(l), NEW r, RangeOK(r), NEW pos, pos = FindOffset(l, r.start), CanUnlock(l, r)
    PROVE  /\ pos + 1 \in 1 .. Len(l) /\ l[pos + 1].start <= r.start /\ Top(r) <= Top(l[pos + 1])
           /\ l[pos + 1].len \in Nat /\ Top(l[pos + 1]) = l[pos + 1].start + l[pos + 1].len
<1>0. /\ Len(l) \in Nat /\ pos \in 0 .. Len(l) /\ r.start \in Nat /\ Top(r) = r.start + r.len /\ r.len \in Nat
      /\ r.len > 0 /\ \A i \in 1 .. Len(l) : EntryOK(l[i]) /\ l[i].start \in Nat
  BY PositionIs DEF RangeOK
<1>1. /\ pos < Len(l) /\ r.start >= l[pos + 1].start /\ l[pos + 1].len >= r.len
      /\ r.start - l[pos + 1].start <= l[pos + 1].len - r.len
  BY DEF CanUnlock
<1>2. pos + 1 \in 1 .. Len(l) BY <1>0, <1>1
<1>3. EntryOK(l[pos + 1]) /\ l[pos + 1].start \in Nat /\ l[pos + 1].len \in Int
  BY <1>0, <1>2 DEF EntryOK, Entries
<1>4. l[pos + 1].len > 0 BY <1>0, <1>1, <1>3
<1>5. Top(l[pos + 1]) = l[pos + 1].start + l[pos + 1].len BY <1>3, <1>4, EntryIs
<1> QED BY <1>0, <1>1, <1>2, <1>3, <1>4, <1>5, SMTT(30)

\* hb_fileUnlock(): the list has the other bytes.
LEMMA UnlockTakes ==
    ASSUME NEW l, ListOK(l), NEW r, RangeOK(r), CanUnlock(l, r)
    PROVE  ListOK(Unlock(l, r)) /\ BytesIn(Unlock(l, r)) = BytesIn(l) \ BytesOf(r)
<1> DEFINE pos == FindOffset(l, r.start)
           e == l[pos + 1]
           before == FLock(e.start, r.start - e.start)
           after == FLock(Wrap(r.start + r.len), Wrap(e.start + e.len - r.start - r.len))
           m == Unlock(l, r)
<1>0. /\ l \in Seq(Entries) /\ Len(l) \in Nat /\ DOMAIN l = 1 .. Len(l)
      /\ pos \in 0 .. Len(l)
      /\ \A i \in 1 .. Len(l) : EntryOK(l[i]) /\ l[i].start \in Nat /\ Top(l[i]) \in Nat
                                /\ l[i].start < Top(l[i]) /\ Top(l[i]) <= Limit
      /\ \A i, j \in 1 .. Len(l) : i < j => Top(l[i]) < l[j].start
      /\ r.start \in Nat /\ Top(r) \in Nat /\ r.start < Top(r) /\ Top(r) <= Limit
      /\ r.len \in Nat /\ Top(r) = r.start + r.len /\ r.len < Limit /\ Limit \in Nat
      /\ End(r) = IF Top(r) = Limit THEN -Limit ELSE Top(r)
  BY PositionIs
<1>1. pos + 1 \in 1 .. Len(l) /\ e.start <= r.start /\ Top(r) <= Top(e) /\ e.len \in Nat /\ Top(e) = e.start + e.len
  BY UnlocksWithin
<1>m. m = CASE r.start = e.start /\ r.len = e.len -> RemoveAt(l, pos + 1)
            [] r.start = e.start /\ r.len # e.len -> [l EXCEPT ![pos + 1] = after]
            [] r.start # e.start /\ End(r) = End(e) -> [l EXCEPT ![pos + 1] = before]
            [] OTHER -> SubSeq(l, 1, pos) \o <<before>> \o <<after>> \o SubSeq(l, pos + 2, Len(l))
  BY DEF Unlock, ReplaceAt
<1>2. e.start \in Nat /\ Top(e) \in Nat /\ Top(e) <= Limit /\ e.start < Top(e) /\ EntryOK(e) BY <1>0, <1>1
<1>3. End(e) = IF Top(e) = Limit THEN -Limit ELSE Top(e) BY <1>2, EntryIs
<1>4. /\ \A i \in 1 .. pos : Top(l[i]) < e.start
      /\ \A i \in pos + 2 .. Len(l) : Top(e) < l[i].start
  BY <1>0, <1>1, SMTT(30)
<1> HIDE DEF pos, m, e
<1>e. e = l[pos + 1] BY DEF e
<1>k. (pos + 1) - 1 = pos /\ (pos + 1) + 1 = pos + 2 /\ (pos + 2) - 1 = pos + 1 BY <1>0
<1>5. \A b \in Int : Covers(r, b) => \A i \in 1 .. Len(l) : Covers(l[i], b) => i \in pos + 1 .. (pos + 2) - 1
  <2> SUFFICES ASSUME NEW b \in Int, Covers(r, b), NEW i \in 1 .. Len(l), Covers(l[i], b)
               PROVE  i = pos + 1
    BY <1>0, <1>k
  <2>1. Covers(e, b) BY <1>0, <1>1, <1>2, SMTT(30) DEF Covers
  <2>2. CASE i <= pos
    <3>1. i \in 1 .. pos BY <1>0, <2>2
    <3> QED BY <1>0, <1>2, <1>4, <2>1, <3>1 DEF Covers
  <2>3. CASE i > pos + 1
    <3>1. i \in pos + 2 .. Len(l) BY <1>0, <2>3
    <3> QED BY <1>0, <1>2, <1>4, <2>1, <3>1 DEF Covers
  <2> QED BY <1>0, <2>2, <2>3
<1>6. \A b : (\E i \in pos + 1 .. (pos + 2) - 1 : Covers(l[i], b)) <=> Covers(e, b)
  <2>1. \A i : i \in pos + 1 .. (pos + 2) - 1 <=> i = pos + 1 BY <1>0
  <2> QED BY <1>e, <2>1
<1>7. pos \in 0 .. Len(l) /\ pos + 2 \in pos + 1 .. Len(l) + 1 BY <1>0, <1>1
<1>8. ASSUME Top(r) < Top(e)
      PROVE  EntryOK(after) /\ after.start = Top(r) /\ Top(after) = Top(e) /\ after \in Entries
  <2> DEFINE n == e.start + e.len - r.start - r.len
  <2>1. n \in Nat /\ n > 0 /\ Top(r) + n = Top(e)
    <3>1. r.start \in Nat /\ r.len \in Nat /\ Top(r) = r.start + r.len BY <1>0
    <3>2. e.start \in Nat /\ e.len \in Nat /\ Top(e) = e.start + e.len BY <1>1, <1>2
    <3> QED BY <1>8, <3>1, <3>2
  <2>2. Wrap(r.start + r.len) = Top(r)
    <3>1. r.start + r.len \in -Limit .. Limit - 1 BY <1>0, <1>2, <1>8
    <3> QED BY <1>0, <3>1, WrapIs
  <2> HIDE DEF n
  <2>3. after = FLock(Top(r), Wrap(n)) BY <2>2 DEF n
  <2>4. EntryOK(after) /\ after.start = Top(r) /\ Top(after) = Top(e)
    <3>1. Top(r) \in Nat /\ Top(r) + n <= Limit BY <1>0, <1>2, <2>1
    <3>2. /\ EntryOK(FLock(Top(r), Wrap(n))) /\ FLock(Top(r), Wrap(n)).start = Top(r)
          /\ Top(FLock(Top(r), Wrap(n))) = Top(r) + n
      BY <2>1, <3>1, MakeEntry
    <3> QED BY <2>1, <2>3, <3>2
  <2> QED BY <2>4 DEF EntryOK
<1>9. ASSUME e.start < r.start
      PROVE  EntryOK(before) /\ before.start = e.start /\ Top(before) = r.start /\ before \in Entries
  <2> DEFINE n == r.start - e.start
  <2>1. n \in Nat /\ n > 0 /\ e.start + n = r.start /\ r.start <= Limit /\ n < Limit BY <1>0, <1>2, <1>9, SMTT(30)
  <2> HIDE DEF n
  <2>2. FLock(e.start, Wrap(n)) = FLock(e.start, n) BY <1>2, <2>1, MakeEntry
  <2>3. before = FLock(e.start, Wrap(n)) BY <2>2 DEF n
  <2>4. EntryOK(before) /\ before.start = e.start /\ Top(before) = r.start BY <1>2, <2>1, <2>3, MakeEntry
  <2> QED BY <2>4 DEF EntryOK
<1>10. CASE r.start = e.start /\ r.len = e.len
  <2> DEFINE mid == <<>>
  <2>1. Spliced(m, l, pos, mid, pos + 2)
    <3>1. Spliced(m, l, (pos + 1) - 1, mid, (pos + 1) + 1) BY <1>0, <1>1, <1>m, <1>10, RemoveIs
    <3> QED BY <1>k, <3>1
  <2>2. mid \in Seq(Entries) /\ Len(mid) = 0 OBVIOUS
  <2> HIDE DEF mid
  <2>3. \A k : ~(k \in 1 .. Len(mid)) BY <2>2
  <2>4. Fits(l, pos, mid, pos + 2) BY <1>7, <2>2, <2>3 DEF Fits
  <2>5. Top(r) = Top(e) BY <1>0, <1>1, <1>10
  <2>6. \A b \in Int : Covers(e, b) <=> Covers(r, b) BY <1>10, <2>5 DEF Covers
  <2> QED BY <1>5, <1>6, <2>1, <2>3, <2>4, <2>6, Subtracts, SMTT(30) DEF m
<1>11. CASE r.start = e.start /\ r.len # e.len
  <2>1. Top(r) < Top(e)
    <3>1. r.start \in Nat /\ r.len \in Nat /\ Top(r) = r.start + r.len BY <1>0
    <3>2. e.start \in Nat /\ e.len \in Nat /\ Top(e) = e.start + e.len /\ Top(r) <= Top(e) BY <1>1, <1>2
    <3> QED BY <1>11, <3>1, <3>2
  <2>2. EntryOK(after) /\ after.start = Top(r) /\ Top(after) = Top(e) /\ after \in Entries BY <1>8, <2>1
  <2>3. m = [l EXCEPT ![pos + 1] = after] BY <1>m, <1>11
  <2> HIDE DEF after
  <2>4. Spliced(m, l, pos, <<after>>, pos + 2)
    <3>1. Spliced(m, l, (pos + 1) - 1, <<after>>, (pos + 1) + 1) BY <1>0, <1>1, <2>2, <2>3, ReplaceIs
    <3> QED BY <1>k, <3>1
  <2>5. \A i \in 1 .. pos : Top(l[i]) < after.start
    <3>1. \A i \in 1 .. pos : Top(l[i]) \in Nat BY <1>0
    <3> QED BY <1>0, <1>1, <1>2, <1>4, <2>2, <3>1, SMTT(30)
  <2>6. /\ Fits(l, pos, <<after>>, pos + 2)
        /\ \A b : (\E k \in 1 .. Len(<<after>>) : Covers(<<after>>[k], b)) <=> Covers(after, b)
    BY <1>4, <1>7, <2>2, <2>5, FitsOne
  <2>7. \A b \in Int : Covers(after, b) <=> ~Covers(r, b) /\ Covers(e, b)
    BY <1>0, <1>2, <1>11, <2>1, <2>2 DEF Covers
  <2> QED BY <1>5, <1>6, <2>4, <2>6, <2>7, Subtracts, SMTT(30) DEF m
<1>12. CASE r.start # e.start /\ End(r) = End(e)
  <2>1. Top(r) = Top(e) /\ e.start < r.start BY <1>0, <1>1, <1>2, <1>3, <1>12
  <2>2. EntryOK(before) /\ before.start = e.start /\ Top(before) = r.start /\ before \in Entries BY <1>9, <2>1
  <2>3. m = [l EXCEPT ![pos + 1] = before] BY <1>m, <1>12
  <2> HIDE DEF before
  <2>4. Spliced(m, l, pos, <<before>>, pos + 2)
    <3>1. Spliced(m, l, (pos + 1) - 1, <<before>>, (pos + 1) + 1) BY <1>0, <1>1, <2>2, <2>3, ReplaceIs
    <3> QED BY <1>k, <3>1
  <2>5. \A i \in pos + 2 .. Len(l) : Top(before) < l[i].start
    <3>1. \A i \in pos + 2 .. Len(l) : l[i].start \in Nat BY <1>0
    <3> QED BY <1>0, <1>1, <1>2, <1>4, <2>1, <2>2, <3>1, SMTT(30)
  <2>6. /\ Fits(l, pos, <<before>>, pos + 2)
        /\ \A b : (\E k \in 1 .. Len(<<before>>) : Covers(<<before>>[k], b)) <=> Covers(before, b)
    BY <1>4, <1>7, <2>2, <2>5, FitsOne
  <2>7. \A b \in Int : Covers(before, b) <=> ~Covers(r, b) /\ Covers(e, b)
    BY <1>0, <1>2, <2>1, <2>2 DEF Covers
  <2> QED BY <1>5, <1>6, <2>4, <2>6, <2>7, Subtracts, SMTT(30) DEF m
<1>13. CASE r.start # e.start /\ End(r) # End(e)
  <2>1. Top(r) < Top(e) /\ e.start < r.start BY <1>0, <1>1, <1>2, <1>3, <1>13
  <2>2. EntryOK(before) /\ before.start = e.start /\ Top(before) = r.start /\ before \in Entries BY <1>9, <2>1
  <2>3. EntryOK(after) /\ after.start = Top(r) /\ Top(after) = Top(e) /\ after \in Entries BY <1>8, <2>1
  <2>4. m = SubSeq(l, 1, pos) \o <<before>> \o <<after>> \o SubSeq(l, pos + 2, Len(l)) BY <1>m, <1>13
  <2> HIDE DEF before, after
  <2>5. PICK mid \in Seq(Entries) :
          /\ Len(mid) = 2 /\ mid[1] = before /\ mid[2] = after
          /\ Spliced(SubSeq(l, 1, (pos + 1) - 1) \o <<before>> \o <<after>> \o SubSeq(l, (pos + 1) + 1, Len(l)),
                     l, (pos + 1) - 1, mid, (pos + 1) + 1)
    BY <1>0, <1>1, <2>2, <2>3, SplitIs
  <2>6. Spliced(m, l, pos, mid, pos + 2) BY <1>k, <2>4, <2>5
  <2>7. ASSUME NEW k \in 1 .. Len(mid) PROVE (k = 1 /\ mid[k] = before) \/ (k = 2 /\ mid[k] = after)
    <3>1. Len(mid) = 2 /\ mid[1] = before /\ mid[2] = after BY <2>5
    <3>2. k = 1 \/ k = 2 BY ONLY <3>1, k \in 1 .. Len(mid)
    <3>3. CASE k = 1 BY <3>1, <3>3
    <3>4. CASE k = 2 BY <3>1, <3>4
    <3> QED BY <3>2, <3>3, <3>4
  <2>8. Fits(l, pos, mid, pos + 2)
    <3>1. \A k \in 1 .. Len(mid) : EntryOK(mid[k]) BY <2>2, <2>3, <2>7
    <3>2. ASSUME NEW k \in 1 .. Len(mid), NEW n \in 1 .. Len(mid), k < n PROVE Top(mid[k]) < mid[n].start
      <4>1. k = 1 /\ n = 2 BY <2>7, <3>2
      <4> QED BY <1>0, <2>2, <2>3, <2>5, <4>1
    <3>3. ASSUME NEW i \in 1 .. pos, NEW k \in 1 .. Len(mid) PROVE Top(l[i]) < mid[k].start
      <4>1. Top(l[i]) \in Nat /\ Top(l[i]) < e.start BY <1>0, <1>4
      <4>2. e.start \in Nat /\ Top(r) \in Nat /\ e.start < Top(r)
        <5>1. e.start \in Nat BY <1>2
        <5>2. r.start \in Nat /\ Top(r) \in Nat /\ r.start < Top(r) BY <1>0
        <5> QED BY <2>1, <5>1, <5>2
      <4>3. mid[k].start = e.start \/ mid[k].start = Top(r) BY <2>2, <2>3, <2>7
      <4> QED BY <4>1, <4>2, <4>3
    <3>4. ASSUME NEW i \in pos + 2 .. Len(l), NEW k \in 1 .. Len(mid) PROVE Top(mid[k]) < l[i].start
      <4>1. l[i].start \in Nat /\ Top(e) < l[i].start BY <1>0, <1>4
      <4>2. r.start \in Nat /\ Top(e) \in Nat /\ r.start < Top(e)
        <5>1. Top(e) \in Nat BY <1>2
        <5>2. r.start \in Nat /\ Top(r) \in Nat /\ r.start < Top(r) BY <1>0
        <5> QED BY <2>1, <5>1, <5>2
      <4>3. Top(mid[k]) = r.start \/ Top(mid[k]) = Top(e) BY <2>2, <2>3, <2>7
      <4> QED BY <4>1, <4>2, <4>3
    <3> QED BY <1>7, <3>1, <3>2, <3>3, <3>4 DEF Fits
  <2>9. ASSUME NEW b \in Int
        PROVE  (\E k \in 1 .. Len(mid) : Covers(mid[k], b)) <=> ~Covers(r, b) /\ Covers(e, b)
    <3>1. (\E k \in 1 .. Len(mid) : Covers(mid[k], b)) <=> Covers(before, b) \/ Covers(after, b) BY <2>5, <2>7
    <3>2. Covers(before, b) \/ Covers(after, b) <=> ~Covers(r, b) /\ Covers(e, b)
      BY <1>0, <1>2, <2>1, <2>2, <2>3, SMTT(30) DEF Covers
    <3> QED BY <3>1, <3>2
  <2> QED BY <1>5, <1>6, <2>6, <2>8, <2>9, Subtracts, SMTT(30) DEF m
<1> QED BY <1>10, <1>11, <1>12, <1>13

\* A list whose length overflowed has every byte, and every list has only offsets.
LEMMA FullIs ==
    ASSUME NEW l, ListOK(l)
    PROVE  BytesIn(l) \subseteq Offsets /\ (Full(l) => BytesIn(l) = Offsets)
<1>1. \A i \in DOMAIN l : l[i].start \in Nat /\ Top(l[i]) \in Nat /\ Top(l[i]) <= Limit BY EntryIs DEF ListOK
<1>2. BytesIn(l) \subseteq Offsets
  <2> SUFFICES ASSUME NEW b \in BytesIn(l) PROVE b \in 0 .. Limit - 1 BY DEF Offsets
  <2>1. PICK i \in DOMAIN l : Covers(l[i], b) BY InList
  <2>2. b \in Int /\ Limit \in Nat BY InList, FileAssumption
  <2> QED BY <1>1, <2>1, <2>2 DEF Covers
<1>3. ASSUME Full(l) PROVE Offsets \subseteq BytesIn(l)
  <2>1. PICK i \in DOMAIN l : l[i].len <= 0 BY <1>3 DEF Full
  <2>2. l[i].start = 0 /\ Top(l[i]) = Limit BY <2>1, EntryIs DEF ListOK
  <2> SUFFICES ASSUME NEW b \in Offsets PROVE b \in BytesIn(l) OBVIOUS
  <2>3. b \in Int /\ Covers(l[i], b) BY <2>2, FileAssumption DEF Covers, Offsets
  <2> QED BY <2>3, InList
<1> QED BY <1>2, <1>3

\* The bytes of a range: some offsets.
LEMMA RangeBytes ==
    ASSUME NEW r, RangeOK(r)
    PROVE  /\ BytesOf(r) = r.start .. Top(r) - 1 /\ BytesOf(r) # {} /\ BytesOf(r) \subseteq Offsets
           /\ r.start \in BytesOf(r) /\ r.start \in Offsets
<1>1. /\ r.start \in Nat /\ Top(r) \in Nat /\ r.start < Top(r) /\ Top(r) <= Limit
      /\ BytesOf(r) = r.start .. Top(r) - 1
  BY EntryIs DEF RangeOK
<1>2. Limit \in Nat BY FileAssumption
<1>3. r.start \in BytesOf(r) /\ r.start \in Offsets BY <1>1, <1>2 DEF Offsets
<1>4. BytesOf(r) \subseteq Offsets BY <1>1, <1>2 DEF Offsets
<1> QED BY <1>1, <1>3, <1>4

\* A range that is locked can be unlocked, unless the length overflowed: its bytes
\* are in one entry, because the next byte behind an entry is free.
LEMMA CanUnlockIs ==
    ASSUME NEW l, ListOK(l), NEW r, RangeOK(r), BytesOf(r) \subseteq BytesIn(l), ~Full(l)
    PROVE  CanUnlock(l, r)
<1> DEFINE pos == FindOffset(l, r.start)
           e == l[pos + 1]
<1>0. /\ Len(l) \in Nat /\ DOMAIN l = 1 .. Len(l) /\ pos \in 0 .. Len(l)
      /\ \A i \in 1 .. Len(l) : EntryOK(l[i]) /\ l[i].start \in Nat /\ Top(l[i]) \in Nat /\ l[i].start < Top(l[i])
      /\ \A i, j \in 1 .. Len(l) : i < j => Top(l[i]) < l[j].start
      /\ \A i \in 1 .. pos : Top(l[i]) <= r.start
      /\ \A i \in pos + 1 .. Len(l) : Top(l[i]) > r.start
      /\ r.start \in Nat /\ Top(r) \in Nat /\ r.start < Top(r)
      /\ r.len \in Nat /\ Top(r) = r.start + r.len
  BY PositionIs
<1> HIDE DEF pos
<1>1. PICK i \in 1 .. Len(l) : Covers(l[i], r.start)
  <2>1. r.start \in BytesIn(l) BY RangeBytes
  <2> QED BY <1>0, <2>1, InList
<1>2. l[i].start <= r.start /\ r.start < Top(l[i]) BY <1>1 DEF Covers
<1>3. i = pos + 1
  <2>1. CASE i <= pos BY <1>0, <1>2, <2>1
  <2>2. CASE i > pos + 1
    <3>1. pos + 1 \in 1 .. Len(l) /\ pos + 1 \in pos + 1 .. Len(l) BY <1>0, <2>2
    <3>2. Top(l[pos + 1]) > r.start /\ Top(l[pos + 1]) < l[i].start /\ Top(l[pos + 1]) \in Nat /\ l[i].start \in Nat
      BY <1>0, <2>2, <3>1
    <3> QED BY <1>0, <1>2, <3>2
  <2> QED BY <1>0, <2>1, <2>2
<1>4. pos + 1 \in 1 .. Len(l) /\ e.start <= r.start /\ r.start < Top(e) /\ e.start \in Nat /\ Top(e) \in Nat /\ EntryOK(e)
  BY <1>0, <1>2, <1>3
<1> HIDE DEF e
<1>e. e = l[pos + 1] BY DEF e
<1>5. Top(r) <= Top(e)
  <2> SUFFICES ASSUME Top(e) < Top(r) PROVE FALSE BY <1>0, <1>4
  <2>1. Top(e) \in BytesOf(r)
    <3>1. BytesOf(r) = r.start .. Top(r) - 1 BY RangeBytes
    <3> QED BY <1>0, <1>4, <3>1
  <2>2. PICK j \in 1 .. Len(l) : Covers(l[j], Top(e)) BY <1>0, <2>1, InList
  <2>3. l[j].start <= Top(e) /\ Top(e) < Top(l[j]) /\ l[j].start \in Nat /\ Top(l[j]) \in Nat BY <1>0, <2>2 DEF Covers
  <2>4. CASE j < pos + 1
    <3>1. Top(l[j]) < e.start /\ r.start \in Nat BY <1>0, <1>4, <1>e, <2>4
    <3> QED BY <1>4, <2>3, <3>1
  <2>5. CASE j = pos + 1 BY <1>4, <1>e, <2>3, <2>5
  <2>6. CASE j > pos + 1
    <3>1. Top(e) < l[j].start BY <1>0, <1>4, <1>e, <2>6
    <3> QED BY <1>4, <2>3, <3>1
  <2> QED BY <1>0, <2>4, <2>5, <2>6
<1>6. e.len \in Int /\ e.len > 0
  <2>1. e.len \in Int BY <1>4 DEF EntryOK, Entries
  <2>2. ~(e.len <= 0) BY <1>0, <1>4, <1>e DEF Full
  <2> QED BY <2>1, <2>2
<1>7. Top(e) = e.start + e.len BY <1>4, <1>6, EntryIs
<1>8. e.len >= r.len /\ r.start - e.start <= e.len - r.len BY <1>0, <1>4, <1>5, <1>6, <1>7, SMTT(30)
<1>9. pos < Len(l) /\ r.start >= e.start BY <1>0, <1>4
<1> QED BY <1>8, <1>9 DEF CanUnlock, pos, e

\* hb_fileUnlock(): the list has the other bytes, and so is not full.
LEMMA UnlockIs ==
    ASSUME NEW l, ListOK(l), NEW r, RangeOK(r), CanUnlock(l, r)
    PROVE  ListOK(Unlock(l, r)) /\ BytesIn(Unlock(l, r)) = BytesIn(l) \ BytesOf(r) /\ ~Full(Unlock(l, r))
<1>1. ListOK(Unlock(l, r)) /\ BytesIn(Unlock(l, r)) = BytesIn(l) \ BytesOf(r) BY UnlockTakes
<1>2. BytesIn(Unlock(l, r)) # Offsets BY <1>1, RangeBytes
<1> QED BY <1>1, <1>2, FullIs

-----------------------------------------------------------------------------
(* The clients.                                                            *)

\* The ranges of a program are such that the lemmas about the list apply.
LEMMA RangesOK ==
    ASSUME program \in Programs, NEW r \in program.ranges \cup program.foreign
    PROVE  RangeOK(r)
<1>1. r \in [start : 0 .. Limit - 1, len : 1 .. Limit - 1] /\ r.start + r.len <= Limit
  BY FileAssumption DEF IsProgram
<1>2. Limit \in Nat /\ Limit > 1 BY FileAssumption
<1>3. r \in Entries /\ r.len > 0 /\ r.len # -Limit BY <1>1, <1>2 DEF Entries, Offsets
<1> QED BY <1>1, <1>3 DEF RangeOK, EntryOK, Top

\* What a client carries with it at each place.
LEMMA PlaceIs ==
    ASSUME TypeOK, NEW c \in Clients
    PROVE  /\ pc[c].at \in {"idle"} \cup Busy \cup Opens
           /\ At(c, "idle") => pc[c] = Idle
           /\ pc[c].at \in {"lockOs", "lockUndo"} =>
                 pc[c] \in [at : {"lockOs", "lockUndo"}, range : program.ranges, wait : BOOLEAN]
           /\ pc[c].at \in {"unlockOs", "unlockList"} =>
                 pc[c] \in [at : {"unlockOs", "unlockList"}, range : program.ranges]
           /\ At(c, "openNew") => pc[c] \in [at : {"openNew"}, open : Openings, mode : Modes]
           /\ At(c, "openTest") =>
                 pc[c] \in [at : {"openTest"}, open : Openings, ok : BOOLEAN, hFile : Modes \cup {{}}]
           /\ At(c, "openClose") =>
                 pc[c] \in [at : {"openClose"}, open : Openings, ok : BOOLEAN, seen : Seq(Entries)]
           /\ pc[c].at \in Busy => pc[c].range \in program.ranges
<1>1. pc[c] \in Places BY DEF TypeOK
<1>2. CASE pc[c] = Idle BY <1>2 DEF At, Idle, Busy, Opens
<1>3. CASE pc[c] \in [at : {"lockOs", "lockUndo"}, range : program.ranges, wait : BOOLEAN]
  BY <1>3 DEF At, Busy, Opens
<1>4. CASE pc[c] \in [at : {"unlockOs", "unlockList"}, range : program.ranges]
  BY <1>4 DEF At, Busy, Opens
<1>5. CASE pc[c] \in [at : {"openNew"}, open : Openings, mode : Modes]
  BY <1>5 DEF At, Busy, Opens
<1>6. CASE pc[c] \in [at : {"openTest"}, open : Openings, ok : BOOLEAN, hFile : Modes \cup {{}}]
  BY <1>6 DEF At, Busy, Opens
<1>7. CASE pc[c] \in [at : {"openClose"}, open : Openings, ok : BOOLEAN, seen : Seq(Entries)]
  BY <1>7 DEF At, Busy, Opens
<1> QED BY <1>1, <1>2, <1>3, <1>4, <1>5, <1>6, <1>7 DEF Places

\* The ranges in use are ranges of the program.
LEMMA UsesAreRanges ==
    ASSUME TypeOK
    PROVE  /\ AllUsed \subseteq program.ranges /\ \A c \in Clients : Used(c) \subseteq program.ranges
           /\ \A r \in AllUsed : RangeOK(r)
<1>1. \A c \in Clients : Used(c) \subseteq program.ranges BY PlaceIs DEF TypeOK, Used
<1>2. AllUsed \subseteq program.ranges BY <1>1 DEF AllUsed, TypeOK
<1> QED BY <1>1, <1>2, RangesOK DEF TypeOK

\* Sets of clients have at most as many members as there are clients.
LEMMA SubsetCount ==
    ASSUME NEW S \in SUBSET Clients
    PROVE  /\ IsFiniteSet(S) /\ Cardinality(S) \in Nat /\ Cardinality(S) <= Cardinality(Clients)
           /\ Cardinality(Clients) \in Nat
           /\ S # {} => Cardinality(S) \in 1 .. Cardinality(Clients)
<1>1. IsFiniteSet(Clients) BY FileAssumption
<1>2. IsFiniteSet(S) /\ Cardinality(S) <= Cardinality(Clients) BY <1>1, FS_Subset
<1>3. Cardinality(S) \in Nat /\ Cardinality(Clients) \in Nat BY <1>1, <1>2, FS_CardinalityType
<1>4. Cardinality(S) = 0 <=> S = {} BY <1>2, FS_EmptySet
<1> QED BY <1>2, <1>3, <1>4

\* One client more, or less.
LEMMA CountChanges ==
    ASSUME NEW S \in SUBSET Clients, NEW c \in Clients
    PROVE  /\ c \notin S => Cardinality(S \cup {c}) = Cardinality(S) + 1
           /\ c \in S => Cardinality(S \ {c}) = Cardinality(S) - 1
           /\ c \in S /\ Cardinality(S) = 1 => S = {c}
<1>1. IsFiniteSet(S) /\ Cardinality(S) \in Nat BY SubsetCount
<1>2. c \notin S => Cardinality(S \cup {c}) = Cardinality(S) + 1 BY <1>1, FS_AddElement
<1>3. c \in S => Cardinality(S \ {c}) = Cardinality(S) - 1 BY <1>1, FS_RemoveElement
<1>4. ASSUME c \in S, Cardinality(S) = 1 PROVE S = {c}
  <2>1. IsFiniteSet(S \ {c}) BY SubsetCount
  <2>2. Cardinality(S \ {c}) = 0 BY <1>3, <1>4
  <2>3. S \ {c} = {} BY <2>1, <2>2, FS_EmptySet
  <2> QED BY <1>4, <2>3
<1> QED BY <1>2, <1>3, <1>4

\* The file is not NULL if and only if it is one of Files.
LEMMA FileIs ==
    ASSUME file \in Files \cup {NULL}
    PROVE  /\ file # NULL <=> file \in Files
           /\ \A f \in Files : f # NULL
<1>1. ASSUME NEW f \in Files PROVE f # NULL
  <2>1. f.used >= 1 BY SubsetCount DEF Files
  <2>2. NULL.used = 0 BY DEF NULL
  <2> QED BY <2>1, <2>2
<1> QED BY <1>1

\* A step of a client that neither locks nor unlocks changes nothing about the
\* ranges in use.
LEMMA CalmStep ==
    ASSUME FileInv, program' = program, NEW c \in Clients, NEW p, pc' = [pc EXCEPT ![c] = p],
           pc[c].at \notin Busy, p.at \notin Busy, held' = held, orphans' = orphans
    PROVE  /\ UsesApart' /\ InUse' = InUse
           /\ \A d \in Clients : Used(d)' = Used(d) /\ AtSystem(d)' = AtSystem(d)
<1>0. DOMAIN pc = Clients BY DEF FileInv, TypeOK
<1>1. \A d \in Clients : pc'[d] = IF d = c THEN p ELSE pc[d] BY <1>0
<1>2. \A d \in Clients : Used(d)' = Used(d) BY <1>1 DEF Used
<1>3. \A d \in Clients : AtSystem(d)' = AtSystem(d) BY <1>1 DEF AtSystem, At, Busy
<1>4. AllUsed' = AllUsed BY <1>2 DEF AllUsed
<1>5. InUse' = InUse BY <1>4 DEF InUse
<1>6. UsesApart'
  <2>1. \A d \in Clients : pc'[d].at \in Busy => pc'[d] = pc[d] BY <1>1
  <2> QED BY <1>2, <2>1 DEF UsesApart, FileInv, Apart
<1> QED BY <1>2, <1>3, <1>5, <1>6

\* The same locks at the system.
LEMMA SystemKept ==
    ASSUME FileInv, file # NULL, file' # NULL, file'.shared = file.shared,
           \A d \in Clients : AtSystem(d)' = AtSystem(d), orphans' = orphans,
           foreign' = foreign, osLocks' = osLocks, dropped' = dropped
    PROVE  SystemInv'
<1>1. UNION {AtSystem(d)' : d \in Clients} = UNION {AtSystem(d) : d \in Clients} OBVIOUS
<1>2. SystemInv BY DEF FileInv
<1> QED BY <1>1, <1>2 DEF SystemInv

\* Neither does it change what is known of the list and of the system's locks,
\* unless it creates the HB_FILE or closes a handle.
LEMMA CalmKeeps ==
    ASSUME FileInv, file # NULL, file' # NULL, file'.locks = file.locks, file'.shared = file.shared,
           InUse' = InUse, \A d \in Clients : AtSystem(d)' = AtSystem(d), orphans' = orphans,
           foreign' = foreign
    PROVE  ListInv' /\ (osLocks' = osLocks /\ dropped' = dropped => SystemInv')
<1>1. ListInv' BY DEF FileInv, ListInv
<1> QED BY <1>1, SystemKept

\* hb_fileFind(): c goes on to open a handle, or uses the HB_FILE that is there.
LEMMA OpenFindKeeps ==
    ASSUME FileInv, program' = program, NEW c \in Clients, OpenFind(c)
    PROVE  FileInv'
<1>0. TypeOK /\ UsersInv /\ HandlesInv BY DEF FileInv
<1>1. At(c, "idle") /\ ~IsOpen(c) /\ fileMtx = Nobody BY DEF OpenFind
<1>2. /\ held' = held /\ osLocks' = osLocks /\ foreign' = foreign /\ orphans' = orphans
      /\ dropped' = dropped /\ mixed' = mixed
  BY DEF OpenFind
<1>3. PICK o \in program.openings, miss \in BOOLEAN :
        /\ misses' = misses + (IF miss THEN 1 ELSE 0)
        /\ miss => file # NULL /\ misses < program.misses
        /\ \/ /\ ~(file # NULL /\ ~miss)
              /\ fileMtx' = c /\ Go(c, [at |-> "openNew", open |-> o, mode |-> o.mode])
              /\ UNCHANGED <<file, opened>>
           \/ /\ file # NULL /\ o.shared /\ file.shared /\ file.mode \notin {FO_READWRITE, o.mode}
              /\ fileMtx' = c /\ Go(c, [at |-> "openNew", open |-> o, mode |-> FO_READWRITE])
              /\ UNCHANGED <<file, opened>>
           \/ /\ file # NULL /\ o.shared /\ file.shared /\ file.mode \in {FO_READWRITE, o.mode}
              /\ file' = [file EXCEPT !.used = @ + 1]
              /\ ReturnOpened(c, o)
  BY DEF OpenFind
<1>4. o \in Openings /\ o.mode \in Modes /\ o # NotOpen
  <2>1. o \in Openings BY <1>0, FileAssumption DEF TypeOK, IsProgram, Openings
  <2>2. {} \notin Modes BY DEF Modes, FO_READ, FO_WRITE, FO_READWRITE
  <2> QED BY <2>1, <2>2 DEF Openings, NotOpen
<1>5. misses' \in 0 .. program.misses
  <2>1. program.misses \in Nat /\ misses \in 0 .. program.misses BY <1>0, FileAssumption DEF TypeOK, IsProgram
  <2> QED BY <1>3, <2>1
<1>6. pc[c] = Idle /\ pc[c].at = "idle" BY <1>0, <1>1, PlaceIs DEF At
<1>7. DOMAIN pc = Clients /\ DOMAIN opened = Clients BY <1>0 DEF TypeOK
<1>8. ASSUME NEW m \in Modes, fileMtx' = c, Go(c, [at |-> "openNew", open |-> o, mode |-> m]),
             UNCHANGED <<file, opened>>, file = NULL => m = o.mode
      PROVE  FileInv'
  <2> DEFINE p == [at |-> "openNew", open |-> o, mode |-> m]
  <2>1. p \in Places /\ p.at = "openNew" BY <1>4, <1>8 DEF Places
  <2>2. pc' = [pc EXCEPT ![c] = p] BY <1>8 DEF Go
  <2>p. p.open = o /\ p.mode = m OBVIOUS
  <2> HIDE DEF p
  <2>3. \A d \in Clients : pc'[d] = IF d = c THEN p ELSE pc[d] BY <1>7, <2>2
  <2>4. TypeOK'
    <3>1. pc' \in [Clients -> Places] BY <1>0, <2>1, <2>2 DEF TypeOK
    <3>2. Places' = Places BY DEF Places
    <3> QED BY <1>0, <1>2, <1>5, <1>8, <3>1, <3>2 DEF TypeOK, Files
  <2>5. /\ UsesApart' /\ InUse' = InUse
        /\ \A d \in Clients : Used(d)' = Used(d) /\ AtSystem(d)' = AtSystem(d)
    BY <1>2, <1>6, <2>1, <2>2, CalmStep DEF Busy
  <2>6. ListInv' BY <1>8, <2>5 DEF FileInv, ListInv
  <2>7. SystemInv'
    <3>1. UNION {AtSystem(d)' : d \in Clients} = UNION {AtSystem(d) : d \in Clients} BY <2>5
    <3>2. SystemInv BY DEF FileInv
    <3> QED BY <1>2, <1>8, <3>1, <3>2 DEF SystemInv
  <2>8. UsersInv'
    <3>1. \A d \in Clients : pc'[d].at \in Opens <=> fileMtx' = d
      BY <1>0, <1>1, <1>8, <2>1, <2>3, FileAssumption DEF UsersInv, Opens
    <3>2. \A d \in Clients : IsOpen(d)' <=> IsOpen(d) BY <1>8 DEF IsOpen
    <3>3. \A d \in Clients : pc'[d].at \in {"openTest", "openClose"} => pc[d] = pc'[d] BY <2>1, <2>3
    <3>4. \A d \in Clients : pc'[d].at \in Busy => pc[d] = pc'[d] BY <2>1, <2>3 DEF Busy
    <3>5. Users' = Users BY <1>6, <2>1, <2>3, <3>2 DEF Users
    <3>6. \A d \in Clients : IsOpen(d) => pc'[d] = pc[d] BY <1>1, <2>3
    <3> QED BY <1>0, <1>2, <1>8, <3>1, <3>2, <3>3, <3>4, <3>5, <3>6 DEF UsersInv, At
  <2>9. HandlesInv'
    <3>1. \A d \in Clients : IsOpen(d)' <=> IsOpen(d) BY <1>8 DEF IsOpen
    <3>2. \A d \in Clients : pc'[d].at \in {"openTest", "openClose"} => pc[d] = pc'[d] BY <2>1, <2>3
    <3>3. \A d \in Clients : At(d, "openNew")' => d = c
      <4>1. \A d \in Clients : d # c => pc[d].at \notin Opens
        BY <1>0, <1>1, FileAssumption DEF UsersInv
      <4> QED BY <2>3, <4>1 DEF At, Opens
    <3>4. pc'[c] = p BY <2>3
    <3> QED BY <1>0, <1>2, <1>8, <2>p, <3>1, <3>2, <3>3, <3>4 DEF HandlesInv
  <2> QED BY <2>4, <2>5, <2>6, <2>7, <2>8, <2>9 DEF FileInv
<1>9. CASE /\ ~(file # NULL /\ ~miss)
           /\ fileMtx' = c /\ Go(c, [at |-> "openNew", open |-> o, mode |-> o.mode])
           /\ UNCHANGED <<file, opened>>
  BY <1>4, <1>8, <1>9
<1>10. CASE /\ file # NULL /\ o.shared /\ file.shared /\ file.mode \notin {FO_READWRITE, o.mode}
            /\ fileMtx' = c /\ Go(c, [at |-> "openNew", open |-> o, mode |-> FO_READWRITE])
            /\ UNCHANGED <<file, opened>>
  <2>1. FO_READWRITE \in Modes BY DEF Modes
  <2> QED BY <1>8, <1>10, <2>1
<1>11. CASE /\ file # NULL /\ o.shared /\ file.shared /\ file.mode \in {FO_READWRITE, o.mode}
            /\ file' = [file EXCEPT !.used = @ + 1]
            /\ ReturnOpened(c, o)
  <2>1. /\ file \in Files /\ fileMtx' = Nobody /\ pc' = [pc EXCEPT ![c] = Idle]
        /\ opened' = [opened EXCEPT ![c] = o]
    BY <1>0, <1>11, FileIs DEF TypeOK, ReturnOpened, Go
  <2>2. pc' = pc
    <3>1. pc \in [Clients -> Places] BY <1>0 DEF TypeOK
    <3> QED BY <1>6, <2>1, <3>1
  <2>3. \A d \in Clients : opened'[d] = IF d = c THEN o ELSE opened[d] BY <1>7, <2>1
  <2>4. \A d \in Clients : IsOpen(d)' <=> d = c \/ IsOpen(d) BY <1>4, <2>3 DEF IsOpen
  <2>5. Users' = Users \cup {c} /\ c \notin Users BY <1>1, <1>6, <2>2, <2>4 DEF Users
  <2>6. file'.used = Cardinality(Users') /\ file'.used \in 1 .. Cardinality(Clients)
    <3>1. Users \subseteq Clients BY DEF Users
    <3>2. Cardinality(Users') = Cardinality(Users) + 1 BY <2>5, <3>1, CountChanges
    <3>3. file.used = Cardinality(Users) BY <1>0, <1>11 DEF UsersInv
    <3>4. Cardinality(Users') \in 1 .. Cardinality(Clients) BY <2>5, <3>1, SubsetCount
    <3>5. file'.used = file.used + 1 BY <1>11, <2>1 DEF Files
    <3> QED BY <3>2, <3>3, <3>4, <3>5
  <2>7. file' \in Files /\ file' # NULL /\ file'.locks = file.locks /\ file'.shared = file.shared
        /\ file'.mode = file.mode /\ file'.hFile = file.hFile
    <3>1. file' \in Files BY <1>11, <2>1, <2>6 DEF Files
    <3> QED BY <1>0, <1>11, <2>1, <3>1, FileIs DEF Files, TypeOK
  <2>8. TypeOK'
    <3>1. opened' \in [Clients -> Openings \cup {NotOpen}] BY <1>0, <1>4, <2>1 DEF TypeOK
    <3>2. Places' = Places BY DEF Places
    <3> QED BY <1>0, <1>2, <1>5, <1>11, <2>1, <2>2, <2>7, <3>1, <3>2 DEF TypeOK, Files
  <2>9. /\ UsesApart' /\ InUse' = InUse
        /\ \A d \in Clients : Used(d)' = Used(d) /\ AtSystem(d)' = AtSystem(d)
    BY <1>2, <1>6, <2>1, CalmStep DEF Busy, Idle
  <2>10. ListInv' /\ SystemInv' BY <1>2, <1>11, <2>7, <2>9, CalmKeeps
  <2>11. UsersInv'
    <3>1. \A d \in Clients : IsOpen(d)' => pc'[d].at \notin Opens
      BY <1>0, <1>6, <2>2, <2>4 DEF UsersInv, Opens
    <3>2. \A d \in Clients : ~IsOpen(d)' => ~IsOpen(d) BY <2>4
    <3>3. IsOpen(c)' BY <2>4
    <3>4. fileMtx' = fileMtx BY <1>1, <2>1
    <3> QED BY <1>0, <1>2, <1>11, <2>2, <2>6, <2>7, <3>1, <3>2, <3>3, <3>4 DEF UsersInv, At
  <2>12. HandlesInv'
    <3>1. \A d \in Clients : IsOpen(d)' /\ ~mixed => opened'[d].mode \subseteq file.mode
      <4>1. o.mode \subseteq file.mode BY <1>4, <1>11 DEF Modes, FO_READ, FO_WRITE, FO_READWRITE
      <4> QED BY <1>0, <2>3, <2>4, <4>1 DEF HandlesInv
    <3> QED BY <1>0, <1>2, <1>11, <2>2, <2>7, <3>1 DEF HandlesInv, At
  <2> QED BY <2>8, <2>9, <2>10, <2>11, <2>12 DEF FileInv
<1> QED BY <1>3, <1>9, <1>10, <1>11

\* hb_fsExtOpen() and hb_fileNew(): the HB_FILE is new, or it is used once more
\* and c goes on to the test.
LEMMA OpenNewKeeps ==
    ASSUME FileInv, program' = program, NEW c \in Clients, OpenNew(c)
    PROVE  FileInv'
<1>0. TypeOK /\ UsersInv /\ HandlesInv BY DEF FileInv
<1> DEFINE o == pc[c].open
           swap == file.mode # FO_READWRITE /\ pc[c].mode = FO_READWRITE
           f == IF ~swap THEN [file EXCEPT !.used = @ + 1]
                ELSE [file EXCEPT !.used = @ + 1, !.mode = FO_READWRITE,
                                  !.hFile = o.mode, !.hFileRO = file.hFile]
           hFile == IF swap THEN file.hFileRO ELSE o.mode
           fResult == o.shared /\ f.shared /\ f.mode = FO_READWRITE
           keep == ~fResult /\ f.hFileRO = {} /\ f.locks # <<>>
           test == [at |-> "openTest", open |-> o, ok |-> fResult, hFile |-> IF keep THEN {} ELSE hFile]
           new == [used |-> 1, mode |-> pc[c].mode, shared |-> o.shared,
                   hFile |-> o.mode, hFileRO |-> {}, locks |-> <<>>]
<1>1. /\ At(c, "openNew")
      /\ held' = held /\ osLocks' = osLocks /\ foreign' = foreign /\ orphans' = orphans /\ dropped' = dropped
      /\ misses' = misses
  BY DEF OpenNew
<1>2. pc[c].at = "openNew" /\ o \in Openings /\ pc[c].mode \in Modes BY <1>0, <1>1, PlaceIs DEF At
<1>3. o.mode \in Modes /\ o.shared \in BOOLEAN /\ o # NotOpen
  <2>1. {} \notin Modes BY DEF Modes, FO_READ, FO_WRITE, FO_READWRITE
  <2> QED BY <1>2, <2>1 DEF Openings, NotOpen
<1>4. DOMAIN pc = Clients /\ DOMAIN opened = Clients BY <1>0 DEF TypeOK
<1>5. fileMtx = c /\ ~IsOpen(c) /\ \A d \in Clients : pc[d].at \in Opens <=> d = c
  BY <1>0, <1>2 DEF UsersInv, Opens
<1>6. CASE file = NULL /\ file' = new /\ ReturnOpened(c, o) /\ mixed' = mixed
  <2>1. opened' = [opened EXCEPT ![c] = o] /\ fileMtx' = Nobody /\ pc' = [pc EXCEPT ![c] = Idle]
    BY <1>6 DEF ReturnOpened, Go
  <2>2. \A d \in Clients : pc'[d] = IF d = c THEN Idle ELSE pc[d] BY <1>4, <2>1
  <2>3. \A d \in Clients : opened'[d] = IF d = c THEN o ELSE opened[d] BY <1>4, <2>1
  <2>4. \A d \in Clients : ~IsOpen(d) /\ held[d] = {} /\ pc[d].at \notin Busy BY <1>0, <1>6 DEF UsersInv
  <2>5. \A d \in Clients : IsOpen(d)' <=> d = c BY <1>3, <2>3, <2>4 DEF IsOpen
  <2>6. \A d \in Clients : pc'[d].at \notin Opens /\ pc'[d].at \notin Busy
    BY <1>5, <2>2, <2>4 DEF Idle, Opens, Busy
  <2>7. Users' = {c} BY <2>5, <2>6 DEF Users, Opens
  <2>8. new \in Files /\ new # NULL
    <3>1. 1 \in 1 .. Cardinality(Clients) BY SubsetCount
    <3>2. <<>> \in Seq(Entries) OBVIOUS
    <3>3. new \in Files BY <1>2, <1>3, <3>1, <3>2 DEF Files
    <3> QED BY <1>0, <3>3, FileIs DEF TypeOK
  <2>9. TypeOK'
    <3>1. opened' \in [Clients -> Openings \cup {NotOpen}] BY <1>0, <1>2, <2>1 DEF TypeOK
    <3>2. pc' \in [Clients -> Places] BY <1>0, <2>1 DEF TypeOK, Places
    <3>3. Places' = Places BY DEF Places
    <3> QED BY <1>0, <1>1, <1>6, <2>1, <2>8, <3>1, <3>2, <3>3 DEF TypeOK, Files
  <2>10. /\ UsesApart' /\ InUse' = InUse
         /\ \A d \in Clients : Used(d)' = Used(d) /\ AtSystem(d)' = AtSystem(d)
    BY <1>1, <1>2, <2>1, CalmStep DEF Busy, Idle
  <2>11. orphans = {} /\ \A d \in Clients : Used(d) = {} /\ AtSystem(d) = {}
    <3>1. orphans = {} BY <1>0, <1>6 DEF UsersInv
    <3> QED BY <2>4, <3>1 DEF Used, AtSystem, At, Busy
  <2>12. new.locks = <<>> /\ new.mode = pc[c].mode /\ new.hFile = o.mode /\ new.used = 1 OBVIOUS
  <2> HIDE DEF new
  <2>13. ListInv'
    <3>1. AllUsed = {} BY <2>11 DEF AllUsed
    <3>2. InUse = {} BY <3>1 DEF InUse
    <3>3. DOMAIN <<>> = {} /\ <<>> \in Seq(Entries) OBVIOUS
    <3>4. ListOK(<<>>) /\ ~Full(<<>>) /\ BytesIn(<<>>) = {} BY <3>3 DEF ListOK, Full, BytesIn
    <3>5. file'.locks = <<>> BY <1>6, <2>12
    <3> QED BY <2>10, <3>2, <3>4, <3>5 DEF ListInv
  <2>14. SystemInv'
    <3>1. UNION {AtSystem(d)' : d \in Clients} = {} BY <2>10, <2>11
    <3>2. orphans' = {} BY <1>1, <2>11
    <3>3. \A b \in Offsets : osLocks'[b] = "no" BY <1>1, <1>6 DEF FileInv, SystemInv
    <3>4. \A b \in foreign' : osLocks'[b] = "no" BY <1>1 DEF FileInv, SystemInv
    <3> QED BY <3>1, <3>2, <3>3, <3>4 DEF SystemInv
  <2>15. UsersInv'
    <3>1. Cardinality({c}) = 1 BY FS_Singleton
    <3>2. file' # NULL /\ file'.used = 1 BY <1>6, <2>8, <2>12
    <3> QED BY <1>1, <2>1, <2>4, <2>5, <2>6, <2>7, <3>1, <3>2, FileAssumption DEF UsersInv, At, Opens
  <2>16. HandlesInv'
    <3>1. pc[c].mode = o.mode BY <1>0, <1>1, <1>6 DEF HandlesInv
    <3>2. file'.mode = o.mode /\ file'.hFile = o.mode BY <1>6, <2>12, <3>1
    <3> QED BY <1>6, <2>3, <2>5, <2>6, <3>2 DEF HandlesInv, At, Opens
  <2> QED BY <2>9, <2>10, <2>13, <2>14, <2>15, <2>16 DEF FileInv
<1>7. CASE file # NULL /\ file' = (IF keep THEN [f EXCEPT !.hFileRO = hFile] ELSE f) /\ Go(c, test)
           /\ mixed' = (mixed \/ (swap /\ o.mode # FO_READWRITE)) /\ UNCHANGED <<opened, fileMtx>>
  <2>m. mixed' \in BOOLEAN /\ (mixed => mixed') BY <1>0, <1>7 DEF TypeOK
  <2>1. file \in Files BY <1>0, <1>7, FileIs DEF TypeOK
  <2>2. /\ file.mode \in Modes /\ file.hFile \in Modes /\ file.hFileRO \in Modes \cup {{}}
        /\ file.shared \in BOOLEAN /\ file.locks \in Seq(Entries)
    BY <2>1 DEF Files
  <2>3. \A d \in Clients : IsOpen(d)' <=> IsOpen(d) BY <1>7 DEF IsOpen
  <2>4. Users' = Users \cup {c} /\ c \notin Users
    <3>1. pc' = [pc EXCEPT ![c] = test] /\ test.at = "openTest" BY <1>7 DEF Go
    <3> QED BY <1>2, <1>4, <1>5, <2>3, <3>1 DEF Users
  <2>5. file.used + 1 = Cardinality(Users') /\ file.used + 1 \in 1 .. Cardinality(Clients)
    <3>1. Users \subseteq Clients BY DEF Users
    <3>2. Cardinality(Users') = Cardinality(Users) + 1 BY <2>4, <3>1, CountChanges
    <3>3. file.used = Cardinality(Users) BY <1>0, <1>7 DEF UsersInv
    <3>4. Cardinality(Users') \in 1 .. Cardinality(Clients) BY <2>4, <3>1, SubsetCount
    <3> QED BY <3>2, <3>3, <3>4
  <2>6. /\ f \in Files /\ f.locks = file.locks /\ f.shared = file.shared /\ f.used = file.used + 1
        /\ f.mode = (IF swap THEN FO_READWRITE ELSE file.mode)
        /\ f.hFile = (IF swap THEN o.mode ELSE file.hFile)
    <3>1. FO_READWRITE \in Modes BY DEF Modes
    <3> QED BY <1>3, <2>1, <2>2, <2>5, <3>1 DEF Files
  <2>7. hFile \in Modes \cup {{}} /\ fResult \in BOOLEAN BY <1>3, <2>2
  <2>8. fResult => f.mode = FO_READWRITE OBVIOUS
  <2>9. test \in Places /\ test.at = "openTest" /\ test.open = o /\ test.ok = fResult
    <3>1. test.hFile \in Modes \cup {{}} BY <2>7
    <3>2. test \in [at : {"openTest"}, open : Openings, ok : BOOLEAN, hFile : Modes \cup {{}}]
      BY <1>2, <2>7, <3>1
    <3> QED BY <3>2 DEF Places
  <2>10. /\ file' \in Files /\ file'.locks = file.locks /\ file'.shared = file.shared
         /\ file'.used = file.used + 1 /\ file'.mode = f.mode /\ file'.hFile = f.hFile
    <3> HIDE DEF f, hFile, keep
    <3>1. CASE keep
      <4>1. file' = [f EXCEPT !.hFileRO = hFile] BY <1>7, <3>1
      <4> QED BY <2>6, <2>7, <4>1 DEF Files
    <3>2. CASE ~keep
      <4>1. file' = f BY <1>7, <3>2
      <4> QED BY <2>6, <4>1
    <3> QED BY <3>1, <3>2
  <2>11. pc' = [pc EXCEPT ![c] = test] BY <1>7 DEF Go
  <2> HIDE DEF f, hFile, keep, fResult, test
  <2>12. file' # NULL BY <1>0, <2>10, FileIs DEF TypeOK
  <2>13. \A d \in Clients : pc'[d] = IF d = c THEN test ELSE pc[d] BY <1>4, <2>11
  <2>14. TypeOK'
    <3>1. pc' \in [Clients -> Places] BY <1>0, <2>9, <2>11 DEF TypeOK
    <3>2. Places' = Places BY DEF Places
    <3> QED BY <1>0, <1>1, <1>7, <2>m, <2>10, <3>1, <3>2 DEF TypeOK, Files
  <2>15. /\ UsesApart' /\ InUse' = InUse
         /\ \A d \in Clients : Used(d)' = Used(d) /\ AtSystem(d)' = AtSystem(d)
    BY <1>1, <1>2, <2>9, <2>11, CalmStep DEF Busy
  <2>16. ListInv' /\ SystemInv' BY <1>1, <1>7, <2>10, <2>12, <2>15, CalmKeeps
  <2>17. UsersInv'
    <3>1. \A d \in Clients : pc'[d].at \in Opens <=> fileMtx' = d
      BY <1>0, <1>5, <1>7, <2>9, <2>13 DEF UsersInv, Opens
    <3>2. \A d \in Clients : d # c => pc'[d] = pc[d] BY <2>13
    <3>3. pc'[c].at = "openTest" BY <2>9, <2>13
    <3>4. \E d \in Clients : IsOpen(d)' BY <1>0, <1>7, <2>3 DEF UsersInv
    <3>5. \A d \in Clients : IsOpen(d)' => pc'[d].at \notin Opens BY <1>0, <1>5, <2>3, <3>2 DEF UsersInv
    <3>6. \A d \in Clients : ~IsOpen(d)' => held'[d] = {} /\ pc'[d].at \notin Busy
      BY <1>0, <1>1, <2>3, <3>2, <3>3 DEF UsersInv, Busy
    <3>7. file'.used = Cardinality(Users') BY <2>5, <2>10
    <3>8. \A d \in Clients : pc'[d].at # "openClose" BY <1>5, <3>2, <3>3 DEF Opens
    <3> QED BY <2>12, <3>1, <3>4, <3>5, <3>6, <3>7, <3>8 DEF UsersInv, At
  <2>18. HandlesInv'
    <3>1. \A d \in Clients : At(d, "openNew")' = FALSE /\ (pc'[d].at \in {"openTest", "openClose"} => d = c)
      BY <1>5, <2>9, <2>13 DEF At, Opens
    <3>2. o.mode \subseteq FO_READWRITE /\ file.mode \subseteq FO_READWRITE
      BY <1>3, <2>2 DEF Modes, FO_READ, FO_WRITE, FO_READWRITE
    <3>3. file.mode \subseteq file'.mode BY <2>6, <2>10, <3>2
    <3>4. pc'[c].open = o /\ pc'[c].ok = fResult BY <2>9, <2>13
    <3>5. ~mixed' => file'.hFile = file'.mode BY <1>0, <1>7, <2>m, <2>6, <2>10 DEF HandlesInv
    <3>6. \A d \in Clients : IsOpen(d) /\ ~mixed => opened[d].mode \subseteq file'.mode
      BY <1>0, <3>3 DEF HandlesInv
    <3>7. fResult => o.mode \subseteq file'.mode BY <2>8, <2>10, <3>2
    <3> QED BY <1>1, <1>7, <2>m, <2>3, <3>1, <3>4, <3>5, <3>6, <3>7 DEF HandlesInv
  <2> QED BY <2>14, <2>15, <2>16, <2>17, <2>18 DEF FileInv
<1>8. CASE ReturnOpened(c, NotOpen) /\ UNCHANGED <<file, mixed>>
  <2>1. fileMtx' = Nobody /\ pc' = [pc EXCEPT ![c] = Idle] BY <1>8 DEF ReturnOpened, Go
  <2>2. opened' = opened
    <3>1. opened[c] = NotOpen /\ opened' = [opened EXCEPT ![c] = NotOpen]
      BY <1>5, <1>8 DEF IsOpen, ReturnOpened
    <3> QED BY <1>0, <3>1 DEF TypeOK
  <2>3. \A d \in Clients : pc'[d] = IF d = c THEN Idle ELSE pc[d] BY <1>4, <2>1
  <2>4. \A d \in Clients : IsOpen(d)' <=> IsOpen(d) BY <2>2 DEF IsOpen
  <2>5. \A d \in Clients : pc'[d].at \notin Opens BY <1>5, <2>3 DEF Idle, Opens
  <2>6. Users' = Users BY <1>2, <1>5, <2>3, <2>4 DEF Users, Idle, Opens
  <2>7. TypeOK'
    <3>1. pc' \in [Clients -> Places] BY <1>0, <2>1 DEF TypeOK, Places
    <3>2. Places' = Places BY DEF Places
    <3> QED BY <1>0, <1>1, <1>8, <2>1, <2>2, <3>1, <3>2 DEF TypeOK, Files
  <2>8. /\ UsesApart' /\ InUse' = InUse
        /\ \A d \in Clients : Used(d)' = Used(d) /\ AtSystem(d)' = AtSystem(d)
    BY <1>1, <1>2, <2>1, CalmStep DEF Busy, Idle
  <2>9. ListInv' BY <1>8, <2>8 DEF FileInv, ListInv
  <2>10. SystemInv'
    <3>1. UNION {AtSystem(d)' : d \in Clients} = UNION {AtSystem(d) : d \in Clients} BY <2>8
    <3>2. SystemInv BY DEF FileInv
    <3> QED BY <1>1, <1>8, <3>1, <3>2 DEF SystemInv
  <2>11. UsersInv'
    <3>1. \A d \in Clients : pc'[d].at \in Busy => pc[d] = pc'[d] BY <2>3 DEF Busy, Idle
    <3>2. \A d \in Clients : IsOpen(d) => pc'[d] = pc[d] BY <1>5, <2>3
    <3> QED BY <1>0, <1>1, <1>8, <2>1, <2>4, <2>5, <2>6, <3>1, <3>2, FileAssumption
        DEF UsersInv, At, Opens
  <2>12. HandlesInv' BY <1>0, <1>8, <2>2, <2>4, <2>5 DEF HandlesInv, At, Opens
  <2> QED BY <2>7, <2>8, <2>9, <2>10, <2>11, <2>12 DEF FileInv
<1>9. \/ file = NULL /\ file' = new /\ ReturnOpened(c, o) /\ mixed' = mixed
      \/ /\ file # NULL /\ file' = (IF keep THEN [f EXCEPT !.hFileRO = hFile] ELSE f) /\ Go(c, test)
         /\ mixed' = (mixed \/ (swap /\ o.mode # FO_READWRITE)) /\ UNCHANGED <<opened, fileMtx>>
      \/ ReturnOpened(c, NotOpen) /\ UNCHANGED <<file, mixed>>
  BY DEF OpenNew
<1> QED BY <1>6, <1>7, <1>8, <1>9

\* The end of s_fileExtOpen(): with the HB_FILE opened, or with a use less.
LEMMA OpenResultKeeps ==
    ASSUME FileInv, program' = program, NEW c \in Clients, pc[c].at \in {"openTest", "openClose"},
           NEW f \in Files, f.used = file.used, f.mode = file.mode, f.hFile = file.hFile,
           f.shared = file.shared, f.locks = file.locks, OpenResult(c, f),
           osLocks' \in [Offsets -> {"no", "R", "W"}], dropped' \in BOOLEAN,
           held' = held, foreign' = foreign, orphans' = orphans, mixed' = mixed, misses' = misses
    PROVE  /\ TypeOK' /\ UsesApart' /\ ListInv' /\ UsersInv' /\ HandlesInv'
           /\ file # NULL /\ file' # NULL /\ file'.shared = file.shared
           /\ \A d \in Clients : AtSystem(d)' = AtSystem(d)
           /\ osLocks' = osLocks /\ dropped' = dropped => SystemInv'
<1>0. TypeOK /\ UsersInv /\ HandlesInv BY DEF FileInv
<1> DEFINE ok == pc[c].ok
           o == IF ok THEN pc[c].open ELSE NotOpen
<1>1. pc[c].open \in Openings /\ ok \in BOOLEAN BY <1>0, PlaceIs DEF At
<1>2. /\ file' = (IF ok THEN f ELSE [f EXCEPT !.used = @ - 1])
      /\ opened' = [opened EXCEPT ![c] = o] /\ fileMtx' = Nobody /\ pc' = [pc EXCEPT ![c] = Idle]
  BY DEF OpenResult, ReturnOpened, Go
<1>3. DOMAIN pc = Clients /\ DOMAIN opened = Clients BY <1>0 DEF TypeOK
<1>4. fileMtx = c /\ ~IsOpen(c) /\ file # NULL /\ \A d \in Clients : pc[d].at \in Opens <=> d = c
  BY <1>0 DEF UsersInv, Opens
<1>5. o \in Openings \cup {NotOpen} /\ (o # NotOpen <=> ok)
  <2>1. {} \notin Modes BY DEF Modes, FO_READ, FO_WRITE, FO_READWRITE
  <2> QED BY <1>1, <2>1 DEF Openings, NotOpen
<1>o. ok => o = pc[c].open OBVIOUS
<1> HIDE DEF o
<1>6. \A d \in Clients : pc'[d] = IF d = c THEN Idle ELSE pc[d] BY <1>2, <1>3
<1>7. \A d \in Clients : opened'[d] = IF d = c THEN o ELSE opened[d] BY <1>2, <1>3
<1>8. \A d \in Clients : IsOpen(d)' <=> IF d = c THEN ok ELSE IsOpen(d) BY <1>5, <1>7 DEF IsOpen
<1>9. \A d \in Clients : pc'[d].at \notin Opens BY <1>4, <1>6 DEF Idle, Opens
<1>10. c \in Users /\ Users' = IF ok THEN Users ELSE Users \ {c}
  <2>1. c \in Users BY DEF Users
  <2>2. \A d \in Clients : d # c => (d \in Users <=> IsOpen(d)) BY <1>4 DEF Users, Opens
  <2>3. \A d \in Clients : d \in Users' <=> IsOpen(d)' BY <1>9 DEF Users, Opens
  <2>4. Users \subseteq Clients /\ Users' \subseteq Clients BY DEF Users
  <2> QED BY <1>8, <2>1, <2>2, <2>3, <2>4
<1>11. PICK d \in Clients : IsOpen(d) /\ d # c BY <1>0, <1>4 DEF UsersInv
<1>12. file'.used = Cardinality(Users') /\ file'.used \in 1 .. Cardinality(Clients)
  <2>1. Users \subseteq Clients BY DEF Users
  <2>2. file.used = Cardinality(Users) BY <1>0, <1>4 DEF UsersInv
  <2>3. d \in Users' BY <1>10, <1>11 DEF Users
  <2>4. Cardinality(Users') \in 1 .. Cardinality(Clients) BY <1>10, <2>1, <2>3, SubsetCount
  <2>5. CASE ok BY <1>2, <1>10, <2>2, <2>4, <2>5
  <2>6. CASE ~ok
    <3>1. file'.used = f.used - 1 BY <1>2, <2>6 DEF Files
    <3>2. Cardinality(Users') = Cardinality(Users) - 1 BY <1>10, <2>1, <2>6, CountChanges
    <3> QED BY <2>2, <2>4, <3>1, <3>2
  <2> QED BY <2>5, <2>6
<1>13. /\ file' \in Files /\ file'.locks = file.locks /\ file'.shared = file.shared
       /\ file'.mode = file.mode /\ file'.hFile = file.hFile
  <2>1. CASE ok BY <1>2, <2>1
  <2>2. CASE ~ok
    <3>1. file' = [f EXCEPT !.used = @ - 1] BY <1>2, <2>2
    <3> QED BY <1>12, <3>1 DEF Files
  <2> QED BY <2>1, <2>2
<1>14. file' # NULL BY <1>0, <1>13, FileIs DEF TypeOK
<1>15. TypeOK'
  <2>1. opened' \in [Clients -> Openings \cup {NotOpen}] BY <1>0, <1>2, <1>5 DEF TypeOK
  <2>2. pc' \in [Clients -> Places] BY <1>0, <1>2 DEF TypeOK, Places
  <2>3. Places' = Places BY DEF Places
  <2> QED BY <1>0, <1>2, <1>13, <2>1, <2>2, <2>3 DEF TypeOK, Files
<1>16. /\ UsesApart' /\ InUse' = InUse
       /\ \A e \in Clients : Used(e)' = Used(e) /\ AtSystem(e)' = AtSystem(e)
  BY <1>2, CalmStep DEF Busy, Idle
<1>17. ListInv' /\ (osLocks' = osLocks /\ dropped' = dropped => SystemInv')
  BY <1>4, <1>13, <1>14, <1>16, CalmKeeps
<1>18. UsersInv'
  <2>1. \A e \in Clients : fileMtx' # e BY <1>2, FileAssumption
  <2>2. \A e \in Clients : ~IsOpen(e)' => ~IsOpen(e) BY <1>4, <1>8
  <2>3. \A e \in Clients : pc'[e].at \in Busy => pc'[e] = pc[e] BY <1>6 DEF Idle, Busy
  <2>4. IsOpen(d)' BY <1>8, <1>11
  <2>5. \A e \in Clients : ~IsOpen(e)' => held'[e] = {} /\ pc'[e].at \notin Busy
    BY <1>0, <2>2, <2>3 DEF UsersInv
  <2> QED BY <1>9, <1>12, <1>14, <2>1, <2>4, <2>5 DEF UsersInv, At, Opens
<1>19. HandlesInv'
  <2>1. ok /\ ~mixed => o.mode \subseteq file.mode BY <1>0, <1>o DEF HandlesInv
  <2>2. \A e \in Clients : IsOpen(e)' /\ ~mixed => opened'[e].mode \subseteq file.mode
    BY <1>0, <1>7, <1>8, <2>1 DEF HandlesInv
  <2>3. ~mixed => file'.hFile = file'.mode BY <1>0, <1>4, <1>13 DEF HandlesInv
  <2> QED BY <1>9, <1>13, <1>14, <2>2, <2>3 DEF HandlesInv, At, Opens
<1> QED BY <1>4, <1>13, <1>14, <1>15, <1>16, <1>17, <1>18, <1>19

\* The test of the list: c goes on to close a handle, or it is done.
LEMMA OpenTestKeeps ==
    ASSUME FileInv, program' = program, NEW c \in Clients, OpenTest(c)
    PROVE  FileInv'
<1>0. TypeOK /\ UsersInv /\ HandlesInv BY DEF FileInv
<1>1. /\ pc[c].at = "openTest" /\ held' = held /\ osLocks' = osLocks /\ foreign' = foreign
      /\ orphans' = orphans /\ dropped' = dropped /\ mixed' = mixed /\ misses' = misses
  BY DEF OpenTest, At
<1>2. pc[c] \in [at : {"openTest"}, open : Openings, ok : BOOLEAN, hFile : Modes \cup {{}}]
  BY <1>0, <1>1, PlaceIs DEF At
<1>3. file # NULL BY <1>0, <1>1 DEF UsersInv
<1>4. file \in Files BY <1>0, <1>3, FileIs DEF TypeOK
<1>5. CASE /\ file.locks = <<>> \/ (~pc[c].ok /\ pc[c].hFile # {})
           /\ GoClose(c) /\ UNCHANGED <<file, fileMtx, opened>>
  <2> DEFINE p == [at |-> "openClose", open |-> pc[c].open, ok |-> pc[c].ok, seen |-> file.locks]
  <2>1. pc' = [pc EXCEPT ![c] = p] BY <1>5 DEF GoClose, Go
  <2>2. /\ p \in Places /\ p.at = "openClose" /\ p.ok = pc[c].ok /\ p.open = pc[c].open
        /\ p.seen = <<>> \/ ~p.ok
    <3>1. file.locks \in Seq(Entries) BY <1>4 DEF Files
    <3>2. p \in [at : {"openClose"}, open : Openings, ok : BOOLEAN, seen : Seq(Entries)] BY <1>2, <3>1
    <3> QED BY <1>5, <3>2 DEF Places
  <2> HIDE DEF p
  <2>3. \A d \in Clients : pc'[d] = IF d = c THEN p ELSE pc[d] BY <1>0, <2>1 DEF TypeOK
  <2>4. \A d \in Clients : IsOpen(d)' <=> IsOpen(d) BY <1>5 DEF IsOpen
  <2>5. TypeOK'
    <3>1. pc' \in [Clients -> Places] BY <1>0, <2>1, <2>2 DEF TypeOK
    <3>2. Places' = Places BY DEF Places
    <3> QED BY <1>0, <1>1, <1>5, <3>1, <3>2 DEF TypeOK, Files
  <2>6. /\ UsesApart' /\ InUse' = InUse
        /\ \A d \in Clients : Used(d)' = Used(d) /\ AtSystem(d)' = AtSystem(d)
    BY <1>1, <2>1, <2>2, CalmStep DEF Busy
  <2>7. ListInv' /\ SystemInv' BY <1>1, <1>3, <1>5, <2>6, CalmKeeps
  <2>8. \A d \in Clients : d # c => pc'[d] = pc[d] BY <2>3
  <2>9. pc'[c] = p BY <2>3
  <2>10. UsersInv'
    <3>1. Users' = Users BY <1>1, <2>2, <2>4, <2>8, <2>9 DEF Users
    <3>2. \A d \in Clients : pc'[d].at \in Opens <=> pc[d].at \in Opens BY <1>1, <2>2, <2>8, <2>9 DEF Opens
    <3>3. \A d \in Clients : pc'[d].at \in Busy <=> pc[d].at \in Busy BY <1>1, <2>2, <2>8, <2>9 DEF Busy
    <3>4. \A d \in Clients : At(d, "openClose")' => pc'[d].seen = <<>> \/ ~pc'[d].ok
      BY <1>0, <2>2, <2>8, <2>9 DEF UsersInv, At
    <3> QED BY <1>0, <1>1, <1>3, <1>5, <2>4, <3>1, <3>2, <3>3, <3>4 DEF UsersInv
  <2>11. HandlesInv'
    <3>1. \A d \in Clients : At(d, "openNew")' => At(d, "openNew") /\ pc'[d] = pc[d]
      BY <2>2, <2>8, <2>9 DEF At
    <3>2. \A d \in Clients : pc'[d].at \in {"openTest", "openClose"} =>
            pc[d].at \in {"openTest", "openClose"} /\ pc'[d].ok = pc[d].ok /\ pc'[d].open = pc[d].open
      BY <1>1, <2>2, <2>8, <2>9
    <3> QED BY <1>0, <1>1, <1>5, <2>4, <3>1, <3>2 DEF HandlesInv
  <2> QED BY <2>5, <2>6, <2>7, <2>10, <2>11 DEF FileInv
<1>6. CASE OpenResult(c, file)
  <2>1. osLocks' \in [Offsets -> {"no", "R", "W"}] /\ dropped' \in BOOLEAN BY <1>0, <1>1 DEF TypeOK
  <2> QED BY <1>1, <1>4, <1>6, <2>1, OpenResultKeeps DEF FileInv
<1> QED BY <1>5, <1>6 DEF OpenTest

\* Closing a handle: the locks at the system are gone, which is recorded.
LEMMA OpenCloseKeeps ==
    ASSUME FileInv, program' = program, NEW c \in Clients, OpenClose(c)
    PROVE  FileInv'
<1>0. TypeOK /\ UsersInv /\ SystemInv BY DEF FileInv
<1> DEFINE f == IF pc[c].seen = <<>> THEN [file EXCEPT !.hFileRO = {}] ELSE file
<1>1. /\ pc[c].at = "openClose" /\ held' = held /\ foreign' = foreign
      /\ orphans' = orphans /\ mixed' = mixed /\ misses' = misses /\ OpenResult(c, f)
      /\ osLocks' = [b \in Offsets |-> "no"] /\ dropped' = (dropped \/ \E b \in Offsets : osLocks[b] # "no")
  BY DEF OpenClose, At, CloseHandles
<1>2. file # NULL BY <1>0, <1>1 DEF UsersInv
<1>3. file \in Files BY <1>0, <1>2, FileIs DEF TypeOK
<1>4. f \in Files /\ f.used = file.used /\ f.mode = file.mode /\ f.hFile = file.hFile
      /\ f.shared = file.shared /\ f.locks = file.locks
  BY <1>3 DEF Files
<1> HIDE DEF f
<1>5. osLocks' \in [Offsets -> {"no", "R", "W"}] /\ dropped' \in BOOLEAN BY <1>1
<1>6. /\ TypeOK' /\ UsesApart' /\ ListInv' /\ UsersInv' /\ HandlesInv'
      /\ file # NULL /\ file' # NULL /\ file'.shared = file.shared
      /\ \A d \in Clients : AtSystem(d)' = AtSystem(d)
      /\ osLocks' = osLocks /\ dropped' = dropped => SystemInv'
  BY <1>1, <1>4, <1>5, OpenResultKeeps
<1>7. SystemInv'
  <2>1. CASE dropped'
    <3>1. \A b \in Offsets : osLocks'[b] = "no" BY <1>1
    <3>2. foreign' \subseteq Offsets BY <1>6 DEF TypeOK
    <3> QED BY <1>6, <2>1, <3>1, <3>2 DEF SystemInv
  <2>2. CASE ~dropped'
    <3>1. \A b \in Offsets : osLocks[b] = "no" BY <1>1, <2>2
    <3>2. osLocks \in [Offsets -> {"no", "R", "W"}] BY <1>0 DEF TypeOK
    <3>3. osLocks' = osLocks BY <1>1, <3>1, <3>2
    <3>4. dropped' = dropped BY <1>0, <1>1, <1>5, <2>2 DEF TypeOK
    <3> QED BY <1>6, <3>3, <3>4
  <2> QED BY <2>1, <2>2
<1> QED BY <1>6, <1>7 DEF FileInv

\* s_fileClose(): the last client leaves nothing behind; the locks of another one
\* stay, without anybody who could unlock them.
LEMMA CloseKeeps ==
    ASSUME FileInv, program' = program, NEW c \in Clients, Close(c)
    PROVE  FileInv'
<1>0. TypeOK /\ UsersInv /\ HandlesInv /\ SystemInv /\ UsesApart /\ ListInv BY DEF FileInv
<1>1. /\ pc[c].at = "idle" /\ IsOpen(c) /\ fileMtx = Nobody
      /\ opened' = [opened EXCEPT ![c] = NotOpen] /\ held' = [held EXCEPT ![c] = {}]
      /\ fileMtx' = fileMtx /\ pc' = pc /\ foreign' = foreign /\ dropped' = dropped /\ misses' = misses
  BY DEF Close, At
<1>2. file # NULL /\ file \in Files
  <2>1. file # NULL BY <1>0, <1>1 DEF UsersInv
  <2> QED BY <1>0, <2>1, FileIs DEF TypeOK
<1>3. \A d \in Clients : opened'[d] = (IF d = c THEN NotOpen ELSE opened[d]) /\ held'[d] = (IF d = c THEN {} ELSE held[d])
  BY <1>0, <1>1 DEF TypeOK
<1>4. \A d \in Clients : IsOpen(d)' <=> d # c /\ IsOpen(d) BY <1>3 DEF IsOpen
<1>5. \A d \in Clients : pc[d].at \notin Opens BY <1>0, <1>1, FileAssumption DEF UsersInv
<1>6. c \in Users /\ Users' = Users \ {c} /\ Users \subseteq Clients /\ \A d \in Users : IsOpen(d)
  BY <1>1, <1>4, <1>5 DEF Users, Opens
<1>7. /\ Used(c) = held[c] /\ Used(c)' = {} /\ AtSystem(c) = held[c] /\ AtSystem(c)' = {}
      /\ \A d \in Clients : d # c => Used(d)' = Used(d) /\ AtSystem(d)' = AtSystem(d)
  BY <1>1, <1>3 DEF Used, AtSystem, At, Busy
<1>8. opened' \in [Clients -> Openings \cup {NotOpen}] /\ held' \in [Clients -> SUBSET program.ranges]
      /\ Places' = Places
  BY <1>0, <1>1 DEF TypeOK, Places
<1>9. file.used = Cardinality(Users) BY <1>0, <1>2 DEF UsersInv
<1>10. CASE file.used = 1 /\ file' = NULL /\ orphans' = {} /\ mixed' = FALSE /\ osLocks' = [b \in Offsets |-> "no"]
  <2>1. Users = {c} BY <1>6, <1>9, <1>10, CountChanges
  <2>2. \A d \in Clients : ~IsOpen(d)' BY <1>4, <2>1 DEF Users
  <2>3. \A d \in Clients : held'[d] = {} /\ pc'[d].at \notin Busy
    <3>1. \A d \in Clients : d # c => ~IsOpen(d) BY <2>1 DEF Users
    <3> QED BY <1>0, <1>1, <1>3, <3>1 DEF UsersInv, Busy
  <2>4. TypeOK' BY <1>0, <1>1, <1>8, <1>10 DEF TypeOK
  <2>5. UsesApart' BY <1>10, <2>3 DEF UsesApart, Used
  <2>6. SystemInv'
    <3>1. \A b \in Offsets : osLocks'[b] = "no" BY <1>10
    <3>2. foreign' \subseteq Offsets BY <2>4 DEF TypeOK
    <3> QED BY <1>10, <3>1, <3>2 DEF SystemInv
  <2>7. UsersInv'
    <3>1. \A d \in Clients : pc'[d].at \notin Opens /\ fileMtx' # d BY <1>1, <1>5, FileAssumption
    <3> QED BY <1>10, <2>2, <2>3, <3>1 DEF UsersInv, At, Opens
  <2>8. HandlesInv' BY <1>1, <1>5, <1>10, <2>2 DEF HandlesInv, At, Opens
  <2>9. ListInv' BY <1>10 DEF ListInv
  <2> QED BY <2>4, <2>5, <2>6, <2>7, <2>8, <2>9 DEF FileInv
<1>11. CASE file.used > 1 /\ file' = [file EXCEPT !.used = @ - 1] /\ orphans' = orphans \cup held[c]
            /\ osLocks' = osLocks /\ mixed' = mixed
  <2>1. Cardinality(Users') = file.used - 1 BY <1>6, <1>9, CountChanges
  <2>2. file.used \in 1 .. Cardinality(Clients) /\ Cardinality(Clients) \in Nat BY <1>2, SubsetCount DEF Files
  <2>3. /\ file' \in Files /\ file'.used = file.used - 1 /\ file'.locks = file.locks /\ file'.shared = file.shared
        /\ file'.mode = file.mode /\ file'.hFile = file.hFile
    <3>1. file.used - 1 \in 1 .. Cardinality(Clients) BY <1>11, <2>2
    <3> QED BY <1>2, <1>11, <3>1 DEF Files
  <2>4. file' # NULL BY <1>0, <2>3, FileIs DEF TypeOK
  <2>5. TypeOK'
    <3>1. orphans' \subseteq program.ranges BY <1>0, <1>11 DEF TypeOK
    <3> QED BY <1>0, <1>1, <1>8, <1>11, <2>3, <3>1 DEF TypeOK, Files
  <2>6. UsesApart'
    <3>1. \A d \in Clients : \A r \in Used(d)', s \in orphans' : Apart(r, s)
      BY <1>0, <1>7, <1>11 DEF UsesApart, Apart
    <3>2. \A d \in Clients : \A r \in held'[d] : d # c /\ r \in held[d] /\ held'[d] = held[d] BY <1>3
    <3>3. \A d, e \in Clients : d # e => \A r \in Used(d)', s \in Used(e)' : Apart(r, s)
      BY <1>0, <1>7 DEF UsesApart
    <3>4. \A d \in Clients : \A r \in held'[d] :
            (\A s \in held'[d] : r # s => Apart(r, s)) /\ (pc'[d].at \in Busy => Apart(pc'[d].range, r))
      BY <1>0, <1>1, <3>2 DEF UsesApart
    <3> QED BY <3>1, <3>3, <3>4 DEF UsesApart, Apart
  <2>7. AllUsed' = AllUsed BY <1>7, <1>11 DEF AllUsed
  <2>8. ListInv' BY <1>0, <1>2, <2>3, <2>7 DEF ListInv, InUse
  <2>9. SystemInv'
    <3>1. orphans' \cup UNION {AtSystem(d)' : d \in Clients} = orphans \cup UNION {AtSystem(d) : d \in Clients}
      BY <1>7, <1>11
    <3> QED BY <1>0, <1>1, <1>2, <1>11, <2>3, <2>4, <3>1 DEF SystemInv
  <2>10. UsersInv'
    <3>1. \E d \in Clients : IsOpen(d)'
      <4>1. Users' # {}
        <5>1. Cardinality({}) = 0 BY FS_EmptySet
        <5> QED BY <1>11, <2>1, <2>2, <5>1
      <4> QED BY <1>4, <1>6, <4>1
    <3>2. \A d \in Clients : pc'[d].at \notin Opens /\ fileMtx' # d BY <1>1, <1>5, FileAssumption
    <3>3. \A d \in Clients : ~IsOpen(d)' => held'[d] = {} /\ pc'[d].at \notin Busy
      BY <1>0, <1>1, <1>3, <1>4 DEF UsersInv, Busy
    <3> QED BY <2>1, <2>3, <2>4, <3>1, <3>2, <3>3 DEF UsersInv, At, Opens
  <2>11. HandlesInv'
    <3>1. \A d \in Clients : IsOpen(d)' => opened'[d] = opened[d] /\ IsOpen(d) BY <1>3, <1>4
    <3> QED BY <1>0, <1>1, <1>2, <1>5, <1>11, <2>3, <2>4, <3>1 DEF HandlesInv, At, Opens
  <2> QED BY <2>5, <2>6, <2>8, <2>9, <2>10, <2>11 DEF FileInv
<1> QED BY <1>10, <1>11 DEF Close

-----------------------------------------------------------------------------
(* Locking and unlocking.                                                  *)

\* A step of client c, which has the file open, that locks or unlocks a range: it goes
\* to p and holds the ranges h.
Touches(c, p, h) ==
    /\ IsOpen(c) /\ p.at \notin Opens
    /\ pc' = [pc EXCEPT ![c] = p] /\ held' = [held EXCEPT ![c] = h]
    /\ file' \in Files /\ file'.used = file.used /\ file'.mode = file.mode /\ file'.hFile = file.hFile
    /\ osLocks' \in [Offsets -> {"no", "R", "W"}]
    /\ opened' = opened /\ fileMtx' = fileMtx /\ orphans' = orphans /\ mixed' = mixed
    /\ misses' = misses /\ dropped' = dropped /\ foreign' = foreign

\* Such a step changes nothing about the other clients, nor who uses the file.
LEMMA LockStep ==
    ASSUME FileInv, program' = program, NEW c \in Clients, NEW p \in Places,
           NEW h \in SUBSET program.ranges, Touches(c, p, h)
    PROVE  /\ TypeOK' /\ UsersInv' /\ HandlesInv' /\ file # NULL /\ file' # NULL /\ file \in Files
           /\ pc'[c] = p /\ held'[c] = h
           /\ \A d \in Clients : d # c =>
                 /\ pc'[d] = pc[d] /\ held'[d] = held[d]
                 /\ Used(d)' = Used(d) /\ AtSystem(d)' = AtSystem(d)
<1> USE DEF Touches
<1>0. TypeOK /\ UsersInv /\ HandlesInv BY DEF FileInv
<1>1. /\ pc'[c] = p /\ held'[c] = h
      /\ \A d \in Clients : d # c => pc'[d] = pc[d] /\ held'[d] = held[d]
  BY <1>0 DEF TypeOK
<1>2. \A d \in Clients : d # c => Used(d)' = Used(d) /\ AtSystem(d)' = AtSystem(d)
  BY <1>1 DEF Used, AtSystem, At
<1>3. file # NULL /\ pc[c].at \notin Opens BY <1>0 DEF UsersInv
<1>4. file' # NULL /\ file \in Files BY <1>0, <1>3, FileIs DEF TypeOK
<1>5. \A d \in Clients : IsOpen(d)' <=> IsOpen(d) BY DEF IsOpen
<1>6. TypeOK'
  <2>1. pc' \in [Clients -> Places] /\ held' \in [Clients -> SUBSET program.ranges] BY <1>0 DEF TypeOK
  <2>2. Places' = Places BY DEF Places
  <2> QED BY <1>0, <2>1, <2>2 DEF TypeOK, Files
<1>7. \A d \in Clients : pc'[d].at \in Opens => pc'[d] = pc[d] BY <1>1
<1>8. \A d \in Clients : pc[d].at \in Opens => pc'[d] = pc[d] BY <1>1, <1>3
<1>9. UsersInv'
  <2>1. Users' = Users BY <1>5, <1>7, <1>8 DEF Users, Opens
  <2>2. \A d \in Clients : ~IsOpen(d) => held'[d] = {} /\ pc'[d].at \notin Busy BY <1>0, <1>1 DEF UsersInv
  <2>3. \A d \in Clients : pc'[d].at \in Opens <=> fileMtx = d BY <1>0, <1>7, <1>8 DEF UsersInv
  <2>4. \A d \in Clients : pc'[d].at = "openClose" => pc'[d].seen = <<>> \/ ~pc'[d].ok
    BY <1>0, <1>7 DEF UsersInv, At, Opens
  <2>5. \A d \in Clients : IsOpen(d) => pc'[d].at \notin Opens BY <1>0, <1>7 DEF UsersInv
  <2> QED BY <1>0, <1>3, <1>4, <1>5, <2>1, <2>2, <2>3, <2>4, <2>5 DEF UsersInv, At
<1>10. HandlesInv'
  <2>1. \A d \in Clients : pc'[d].at \in {"openNew", "openTest", "openClose"} => pc'[d] = pc[d]
    BY <1>7 DEF Opens
  <2> QED BY <1>0, <1>3, <1>4, <1>5, <2>1 DEF HandlesInv, At
<1> QED BY <1>1, <1>2, <1>3, <1>4, <1>6, <1>9, <1>10

\* The uses of the other clients do not change: what c uses has to be looked at.
LEMMA ApartStep ==
    ASSUME FileInv, NEW c \in Clients, orphans' = orphans,
           \A d \in Clients : d # c => pc'[d] = pc[d] /\ held'[d] = held[d] /\ Used(d)' = Used(d),
           \A r \in Used(c)' : /\ \A d \in Clients : d # c => \A s \in Used(d) : Apart(r, s)
                               /\ \A s \in orphans : Apart(r, s),
           \A r \in held'[c] : /\ \A s \in held'[c] : r # s => Apart(r, s)
                               /\ pc'[c].at \in Busy => Apart(pc'[c].range, r)
    PROVE  UsesApart'
<1>1. UsesApart BY DEF FileInv
<1>2. \A r, s : Apart(r, s) <=> Apart(s, r) BY DEF Apart
<1>3. ASSUME NEW d \in Clients, NEW e \in Clients, d # e, NEW r \in Used(d)', NEW s \in Used(e)' PROVE Apart(r, s)
  <2>1. CASE d = c BY <1>3, <2>1
  <2>2. CASE e = c BY <1>2, <1>3, <2>2
  <2>3. CASE d # c /\ e # c BY <1>1, <1>3, <2>3 DEF UsesApart
  <2> QED BY <2>1, <2>2, <2>3
<1>4. ASSUME NEW d \in Clients, NEW r \in Used(d)', NEW s \in orphans PROVE Apart(r, s)
  <2>1. CASE d = c BY <1>4, <2>1
  <2>2. CASE d # c BY <1>1, <1>4, <2>2 DEF UsesApart
  <2> QED BY <2>1, <2>2
<1>5. ASSUME NEW d \in Clients, NEW r \in held'[d]
      PROVE  (\A s \in held'[d] : r # s => Apart(r, s)) /\ (pc'[d].at \in Busy => Apart(pc'[d].range, r))
  <2>1. CASE d = c BY <1>5, <2>1
  <2>2. CASE d # c BY <1>1, <1>5, <2>2 DEF UsesApart
  <2> QED BY <2>1, <2>2
<1> QED BY <1>3, <1>4, <1>5 DEF UsesApart, Apart

\* The bytes in use when c uses a range more, a range less, or the same ranges.
LEMMA UseChanges ==
    ASSUME FileInv, NEW c \in Clients, orphans' = orphans, NEW r \in program.ranges,
           \A d \in Clients : d # c => Used(d)' = Used(d)
    PROVE  /\ Used(c)' = Used(c) => InUse' = InUse
           /\ Used(c)' = Used(c) \cup {r} => InUse' = InUse \cup BytesOf(r)
           /\ /\ Used(c)' = Used(c) \ {r} /\ r \in Used(c)
              /\ \A s \in Used(c) : s # r => Apart(r, s)
              => InUse' = InUse \ BytesOf(r) /\ BytesOf(r) \subseteq InUse
<1>0. UsesApart /\ TypeOK BY DEF FileInv
<1>1. ASSUME Used(c)' = Used(c) PROVE InUse' = InUse
  <2>1. AllUsed' = AllUsed BY <1>1 DEF AllUsed
  <2> QED BY <2>1 DEF InUse
<1>2. ASSUME Used(c)' = Used(c) \cup {r} PROVE InUse' = InUse \cup BytesOf(r)
  <2>1. AllUsed' = AllUsed \cup {r} BY <1>2 DEF AllUsed
  <2> QED BY <2>1 DEF InUse
<1>3. ASSUME Used(c)' = Used(c) \ {r}, r \in Used(c), \A s \in Used(c) : s # r => Apart(r, s)
      PROVE  InUse' = InUse \ BytesOf(r) /\ BytesOf(r) \subseteq InUse
  <2>1. r \in AllUsed BY <1>3 DEF AllUsed
  <2>2. BytesOf(r) # {} BY <1>0, RangesOK, RangeBytes DEF TypeOK
  <2>3. ASSUME NEW s \in AllUsed' PROVE s \in AllUsed /\ Apart(r, s)
    <3>1. CASE s \in orphans BY <1>0, <1>3, <3>1 DEF UsesApart, AllUsed
    <3>2. CASE s \notin orphans
      <4>1. PICK d \in Clients : s \in Used(d)' BY <2>3, <3>2 DEF AllUsed
      <4>2. CASE d = c BY <1>3, <4>1, <4>2 DEF AllUsed
      <4>3. CASE d # c BY <1>0, <1>3, <4>1, <4>3 DEF UsesApart, AllUsed
      <4> QED BY <4>2, <4>3
    <3> QED BY <3>1, <3>2
  <2>4. ASSUME NEW s \in AllUsed, s # r PROVE s \in AllUsed'
    <3>1. CASE s \in orphans BY <3>1 DEF AllUsed
    <3>2. CASE s \notin orphans
      <4>1. PICK d \in Clients : s \in Used(d) BY <2>4, <3>2 DEF AllUsed
      <4>2. s \in Used(d)' BY <1>3, <2>4, <4>1
      <4> QED BY <4>2 DEF AllUsed
    <3> QED BY <3>1, <3>2
  <2>5. InUse' \subseteq InUse \ BytesOf(r) BY <2>3 DEF InUse, Apart
  <2>6. InUse \ BytesOf(r) \subseteq InUse' BY <2>4 DEF InUse
  <2> QED BY <2>1, <2>5, <2>6 DEF InUse
<1> QED BY <1>1, <1>2, <1>3

\* An entry whose length overflowed is never taken out of the list again.
LEMMA FullStays ==
    ASSUME NEW l, ListOK(l), NEW r, RangeOK(r), Full(l)
    PROVE  ~CanUnlock(l, r)
<1> SUFFICES ASSUME CanUnlock(l, r) PROVE FALSE OBVIOUS
<1> DEFINE pos == FindOffset(l, r.start)
<1>1. /\ pos + 1 \in 1 .. Len(l) /\ l[pos + 1].start <= r.start /\ Top(r) <= Top(l[pos + 1])
      /\ l[pos + 1].len \in Nat /\ Top(l[pos + 1]) = l[pos + 1].start + l[pos + 1].len
  BY UnlocksWithin
<1> HIDE DEF pos
<1>2. DOMAIN l = 1 .. Len(l) BY DEF ListOK
<1>3. PICK i \in DOMAIN l : l[i].len <= 0 BY DEF Full
<1>4. EntryOK(l[i]) /\ EntryOK(l[pos + 1]) BY <1>1, <1>2 DEF ListOK
<1>5. l[i].start = 0 /\ Top(l[i]) = Limit BY <1>3, <1>4, EntryIs
<1>6. /\ l[pos + 1].start \in Nat /\ l[pos + 1].start < Top(l[pos + 1]) /\ Top(l[pos + 1]) \in Nat
      /\ Top(l[pos + 1]) <= Limit /\ Limit \in Nat
  BY <1>4, EntryIs, FileAssumption
<1>7. CASE i = pos + 1
  <2>1. Top(l[i]) = l[i].start + l[i].len /\ l[i].len \in Nat BY <1>1, <1>7
  <2>2. Limit > 1 BY FileAssumption
  <2> QED BY <1>3, <1>5, <1>6, <2>1, <2>2
<1>8. CASE i < pos + 1
  <2>1. Limit < l[pos + 1].start BY <1>1, <1>2, <1>5, <1>8 DEF ListOK
  <2> QED BY <1>6, <2>1
<1>9. CASE i > pos + 1
  <2>1. Top(l[pos + 1]) < 0 BY <1>1, <1>2, <1>5, <1>9 DEF ListOK
  <2> QED BY <1>6, <2>1
<1> QED BY <1>1, <1>2, <1>7, <1>8, <1>9

\* hb_fileUnlock() of a range in use.
LEMMA ListShrinks ==
    ASSUME FileInv, file # NULL, NEW r \in program.ranges, ListUnlock(r),
           InUse' = InUse \ BytesOf(r), BytesOf(r) \subseteq InUse
    PROVE  ListInv'
<1>1. ListInv /\ TypeOK BY DEF FileInv
<1>2. ListOK(file.locks) /\ RangeOK(r) /\ file \in Files BY <1>1, RangesOK, FileIs DEF ListInv, TypeOK
<1>3. CASE Full(file.locks)
  <2>1. file' = file BY <1>2, <1>3, FullStays DEF ListUnlock
  <2> QED BY <1>1, <1>3, <2>1 DEF ListInv
<1>4. CASE ~Full(file.locks)
  <2>1. BytesIn(file.locks) = InUse BY <1>1, <1>4 DEF ListInv
  <2>2. CanUnlock(file.locks, r) BY <1>2, <1>4, <2>1, CanUnlockIs
  <2>3. file'.locks = Unlock(file.locks, r) BY <1>2, <2>2 DEF ListUnlock, Files
  <2>4. ListOK(file'.locks) /\ BytesIn(file'.locks) = InUse' /\ ~Full(file'.locks)
    BY <1>2, <2>1, <2>2, <2>3, UnlockIs
  <2> QED BY <2>4 DEF ListInv
<1> QED BY <1>3, <1>4

\* hb_fileUnlock() changes nothing but the list.
LEMMA ListUnlockIs ==
    ASSUME FileInv, file # NULL, NEW r \in program.ranges, ListUnlock(r)
    PROVE  /\ file' \in Files /\ file'.used = file.used /\ file'.mode = file.mode
           /\ file'.hFile = file.hFile /\ file'.shared = file.shared
<1>1. ListInv /\ TypeOK BY DEF FileInv
<1>2. ListOK(file.locks) /\ RangeOK(r) /\ file \in Files BY <1>1, RangesOK, FileIs DEF ListInv, TypeOK
<1>3. CASE CanUnlock(file.locks, r)
  <2>1. file' = [file EXCEPT !.locks = Unlock(@, r)] BY <1>3 DEF ListUnlock
  <2>2. Unlock(file.locks, r) \in Seq(Entries) BY <1>2, <1>3, UnlockIs DEF ListOK
  <2> QED BY <1>2, <2>1, <2>2 DEF Files
<1>4. CASE ~CanUnlock(file.locks, r) BY <1>2, <1>4 DEF ListUnlock
<1> QED BY <1>3, <1>4

\* A client that is busy has the file open.
LEMMA BusyIsOpen ==
    ASSUME FileInv, NEW c \in Clients, pc[c].at \in Busy
    PROVE  IsOpen(c) /\ file # NULL /\ file \in Files /\ pc[c].range \in program.ranges /\ RangeOK(pc[c].range)
<1>0. TypeOK /\ UsersInv BY DEF FileInv
<1>1. IsOpen(c) BY <1>0 DEF UsersInv
<1>2. file # NULL BY <1>0, <1>1 DEF UsersInv
<1>3. pc[c].range \in program.ranges BY <1>0, PlaceIs
<1> QED BY <1>0, <1>1, <1>2, <1>3, FileIs, RangesOK DEF TypeOK

\* hb_fileSetLock(): the range is in use as soon as it is in the list.
LEMMA LockKeeps ==
    ASSUME FileInv, program' = program, NEW c \in Clients, NEW r \in program.ranges, NEW wait \in BOOLEAN,
           Lock(c, r, wait)
    PROVE  FileInv'
<1>0. TypeOK /\ UsersInv /\ UsesApart /\ ListInv /\ SystemInv BY DEF FileInv
<1>1. /\ pc[c].at = "idle" /\ IsOpen(c) /\ ~TestLock(file.locks, r)
      /\ file' = [file EXCEPT !.locks = SetLock(@, r)]
      /\ fileMtx' = fileMtx /\ opened' = opened /\ osLocks' = osLocks /\ foreign' = foreign
      /\ orphans' = orphans /\ dropped' = dropped /\ mixed' = mixed /\ misses' = misses
  BY DEF Lock, At
<1>2. file # NULL /\ file \in Files
  <2>1. file # NULL BY <1>0, <1>1 DEF UsersInv
  <2> QED BY <1>0, <2>1, FileIs DEF TypeOK
<1>3. RangeOK(r) /\ ListOK(file.locks) BY <1>0, <1>2, RangesOK DEF TypeOK, ListInv
<1>4. ListOK(SetLock(file.locks, r)) /\ BytesIn(SetLock(file.locks, r)) = BytesIn(file.locks) \cup BytesOf(r)
  BY <1>1, <1>3, SetLockIs
<1>5. /\ file' \in Files /\ file'.used = file.used /\ file'.mode = file.mode /\ file'.hFile = file.hFile
      /\ file'.shared = file.shared /\ file'.locks = SetLock(file.locks, r)
  <2>1. SetLock(file.locks, r) \in Seq(Entries) BY <1>4 DEF ListOK
  <2> QED BY <1>1, <1>2, <2>1 DEF Files
<1>6. ~Full(file.locks) /\ BytesIn(file.locks) = InUse /\ BytesOf(r) \cap InUse = {}
  <2>1. BytesOf(r) \cap BytesIn(file.locks) = {} BY <1>1, <1>3, TestIs
  <2>2. BytesOf(r) # {} /\ BytesOf(r) \subseteq Offsets BY <1>3, RangeBytes
  <2>3. ~Full(file.locks) BY <1>3, <2>1, <2>2, FullIs
  <2> QED BY <1>0, <1>2, <2>1, <2>3 DEF ListInv
<1>7. \A s \in AllUsed : Apart(r, s) BY <1>6 DEF InUse, Apart
<1>8. Used(c) = held[c] /\ AtSystem(c) = held[c] BY <1>1 DEF Used, AtSystem, At, Busy
<1>9. osLocks' \in [Offsets -> {"no", "R", "W"}] /\ pc[c] \in Places /\ held[c] \in SUBSET program.ranges
  BY <1>0, <1>1 DEF TypeOK
<1>10. ASSUME NEW p \in Places, NEW h \in SUBSET program.ranges,
              pc' = [pc EXCEPT ![c] = p], held' = [held EXCEPT ![c] = h], p.at \notin Opens,
              Used(c)' = held[c] \cup {r}, h \subseteq held[c] \cup {r}, p.at \in Busy => p.range = r /\ h = held[c],
              AtSystem(c)' = AtSystem(c) \/ ~file.shared
       PROVE  FileInv'
  <2>1. /\ TypeOK' /\ UsersInv' /\ HandlesInv' /\ file' # NULL /\ pc'[c] = p /\ held'[c] = h
        /\ \A d \in Clients : d # c => pc'[d] = pc[d] /\ held'[d] = held[d]
                                       /\ Used(d)' = Used(d) /\ AtSystem(d)' = AtSystem(d)
    <3>1. Touches(c, p, h) BY <1>1, <1>5, <1>9, <1>10 DEF Touches
    <3> QED BY <3>1, LockStep
  <2>2. UsesApart'
    <3>1. \A s \in orphans : s \in AllUsed BY DEF AllUsed
    <3>2. \A d \in Clients : \A s \in Used(d) : s \in AllUsed BY DEF AllUsed
    <3>3. \A s \in Used(c)' : /\ \A d \in Clients : d # c => \A t \in Used(d) : Apart(s, t)
                              /\ \A t \in orphans : Apart(s, t)
      BY <1>0, <1>7, <1>8, <1>10, <3>1, <3>2 DEF UsesApart
    <3>4. \A s, t \in held'[c] : s # t => Apart(s, t)
      <4>1. \A s, t \in held[c] : s # t => Apart(s, t) BY <1>0 DEF UsesApart
      <4>2. \A s \in held[c] : Apart(r, s) /\ Apart(s, r) BY <1>7, <1>8, <3>2 DEF Apart
      <4> QED BY <1>10, <2>1, <4>1, <4>2
    <3>5. pc'[c].at \in Busy => \A s \in held'[c] : Apart(pc'[c].range, s)
      BY <1>7, <1>8, <1>10, <2>1, <3>2
    <3> QED BY <1>1, <2>1, <3>3, <3>4, <3>5, ApartStep
  <2>3. InUse' = InUse \cup BytesOf(r) BY <1>1, <1>8, <1>10, <2>1, UseChanges
  <2>4. ListInv' BY <1>4, <1>5, <1>6, <2>3, FullIs DEF ListInv
  <2>5. SystemInv'
    <3>1. CASE file.shared
      <4>1. \A d \in Clients : AtSystem(d)' = AtSystem(d) BY <1>10, <2>1, <3>1
      <4> QED BY <1>1, <1>2, <1>5, <2>1, <4>1, SystemKept
    <3>2. CASE ~file.shared BY <1>0, <1>1, <1>5, <2>1, <3>2 DEF SystemInv
    <3> QED BY <3>1, <3>2
  <2> QED BY <2>1, <2>2, <2>4, <2>5 DEF FileInv
<1>11. CASE file.shared /\ Go(c, [at |-> "lockOs", range |-> r, wait |-> wait]) /\ UNCHANGED held
  <2> DEFINE p == [at |-> "lockOs", range |-> r, wait |-> wait]
  <2>1. p \in Places /\ p.at = "lockOs" /\ p.range = r
    <3>1. p \in [at : {"lockOs", "lockUndo"}, range : program.ranges, wait : BOOLEAN] OBVIOUS
    <3> QED BY <3>1 DEF Places
  <2>2. pc' = [pc EXCEPT ![c] = p] BY <1>11 DEF Go
  <2> HIDE DEF p
  <2>3. held' = [held EXCEPT ![c] = held[c]] BY <1>0, <1>11 DEF TypeOK
  <2>4. pc'[c] = p /\ held'[c] = held[c] BY <1>0, <1>11, <2>2 DEF TypeOK
  <2>5. Used(c)' = held[c] \cup {r} /\ AtSystem(c)' = held[c] BY <2>1, <2>4 DEF Used, AtSystem, At, Busy
  <2>6. p.at \notin Opens BY <2>1 DEF Opens
  <2> QED BY <1>8, <1>9, <1>10, <2>1, <2>2, <2>3, <2>5, <2>6
<1>12. CASE ~file.shared /\ held' = [held EXCEPT ![c] = @ \cup {r}] /\ UNCHANGED pc
  <2>1. held' = [held EXCEPT ![c] = held[c] \cup {r}] /\ held'[c] = held[c] \cup {r} BY <1>0, <1>12 DEF TypeOK
  <2>2. pc' = [pc EXCEPT ![c] = pc[c]] BY <1>0, <1>12 DEF TypeOK
  <2>3. Used(c)' = held[c] \cup {r} BY <1>1, <1>12, <2>1 DEF Used, Busy
  <2>4. pc[c].at \notin Opens /\ pc[c].at \notin Busy BY <1>1 DEF Opens, Busy
  <2>5. held[c] \cup {r} \in SUBSET program.ranges BY <1>9
  <2> QED BY <1>9, <1>10, <1>12, <2>1, <2>2, <2>3, <2>4, <2>5
<1> QED BY <1>11, <1>12 DEF Lock

\* hb_fsLockLarge() with FL_LOCK: the bytes are locked and held, or c has to undo
\* what it did.
LEMMA LockOsKeeps ==
    ASSUME FileInv, program' = program, NEW c \in Clients, LockOs(c)
    PROVE  FileInv'
<1>0. TypeOK /\ UsersInv /\ UsesApart /\ ListInv /\ SystemInv BY DEF FileInv
<1> DEFINE r == pc[c].range
           type == IF file.mode = FO_READ THEN "R" ELSE "W"
<1>1. /\ pc[c].at = "lockOs" /\ file' = file
      /\ fileMtx' = fileMtx /\ opened' = opened /\ foreign' = foreign
      /\ orphans' = orphans /\ dropped' = dropped /\ mixed' = mixed /\ misses' = misses
  BY DEF LockOs, At
<1>2. pc[c] \in [at : {"lockOs", "lockUndo"}, range : program.ranges, wait : BOOLEAN] BY <1>0, <1>1, PlaceIs
<1>3. IsOpen(c) /\ file # NULL /\ file \in Files /\ r \in program.ranges /\ RangeOK(r)
  BY <1>1, BusyIsOpen DEF Busy
<1>4. Used(c) = held[c] \cup {r} /\ AtSystem(c) = held[c] BY <1>1 DEF Used, AtSystem, At, Busy
<1>5. osLocks \in [Offsets -> {"no", "R", "W"}] /\ held[c] \in SUBSET program.ranges BY <1>0 DEF TypeOK
<1>6. CASE /\ BytesOf(r) \cap foreign = {}
           /\ osLocks' = [b \in Offsets |-> IF b \in BytesOf(r) THEN type ELSE osLocks[b]]
           /\ held' = [held EXCEPT ![c] = @ \cup {r}] /\ Go(c, Idle)
  <2>1. pc' = [pc EXCEPT ![c] = Idle] /\ held' = [held EXCEPT ![c] = held[c] \cup {r}] BY <1>6 DEF Go
  <2>2. Idle \in Places /\ Idle.at = "idle" /\ Idle.at \notin Opens /\ Idle.at \notin Busy
    BY DEF Places, Idle, Opens, Busy
  <2>3. osLocks' \in [Offsets -> {"no", "R", "W"}] BY <1>5, <1>6
  <2>4. /\ TypeOK' /\ UsersInv' /\ HandlesInv' /\ file' # NULL /\ pc'[c] = Idle /\ held'[c] = held[c] \cup {r}
        /\ \A d \in Clients : d # c => pc'[d] = pc[d] /\ held'[d] = held[d]
                                       /\ Used(d)' = Used(d) /\ AtSystem(d)' = AtSystem(d)
    <3>1. held[c] \cup {r} \in SUBSET program.ranges BY <1>3, <1>5
    <3>2. Touches(c, Idle, held[c] \cup {r}) BY <1>1, <1>3, <2>1, <2>2, <2>3 DEF Touches
    <3> QED BY <2>2, <3>1, <3>2, LockStep
  <2>5. Used(c)' = Used(c) /\ AtSystem(c)' = AtSystem(c) \cup {r}
    BY <1>4, <2>2, <2>4 DEF Used, AtSystem, At
  <2>6. UsesApart'
    <3>1. \A s \in held[c] : Apart(r, s) /\ Apart(s, r) BY <1>0, <1>1 DEF UsesApart, Apart, Busy
    <3>2. \A s, t \in held'[c] : s # t => Apart(s, t) BY <1>0, <2>4, <3>1 DEF UsesApart
    <3>3. \A s \in Used(c)' : /\ \A d \in Clients : d # c => \A t \in Used(d) : Apart(s, t)
                              /\ \A t \in orphans : Apart(s, t)
      BY <1>0, <2>5 DEF UsesApart
    <3> QED BY <1>1, <2>2, <2>4, <3>2, <3>3, ApartStep
  <2>7. ListInv'
    <3>1. InUse' = InUse BY <1>1, <1>3, <2>4, <2>5, UseChanges
    <3> QED BY <1>0, <1>1, <3>1 DEF ListInv
  <2>8. SystemInv'
    <3>1. \A b \in foreign' : osLocks'[b] = "no"
      <4>1. foreign \subseteq Offsets BY <1>0 DEF TypeOK
      <4> QED BY <1>0, <1>1, <1>6, <4>1 DEF SystemInv
    <3>2. orphans' \cup UNION {AtSystem(d)' : d \in Clients} =
            (orphans \cup (UNION {AtSystem(d) : d \in Clients})) \cup {r}
      BY <1>1, <2>4, <2>5
    <3>3. \A b \in Offsets : osLocks'[b] # "no" <=> b \in BytesOf(r) \/ osLocks[b] # "no" BY <1>6
    <3>4. ASSUME file.shared, ~dropped, NEW b \in Offsets
          PROVE  osLocks'[b] # "no" <=>
                   \E s \in orphans' \cup UNION {AtSystem(d)' : d \in Clients} : b \in BytesOf(s)
      <4>1. osLocks[b] # "no" <=> \E s \in orphans \cup UNION {AtSystem(d) : d \in Clients} : b \in BytesOf(s)
        BY <1>0, <1>3, <3>4 DEF SystemInv
      <4> QED BY <3>2, <3>3, <4>1
    <3> QED BY <1>1, <2>4, <3>1, <3>4 DEF SystemInv
  <2> QED BY <2>4, <2>6, <2>7, <2>8 DEF FileInv
<1>7. CASE Go(c, [pc[c] EXCEPT !.at = "lockUndo"]) /\ UNCHANGED <<osLocks, held>>
  <2> DEFINE p == [pc[c] EXCEPT !.at = "lockUndo"]
  <2>1. p \in Places /\ p.at = "lockUndo" /\ p.range = r
    <3>1. p \in [at : {"lockOs", "lockUndo"}, range : program.ranges, wait : BOOLEAN] BY <1>2
    <3> QED BY <1>2, <3>1 DEF Places
  <2>2. pc' = [pc EXCEPT ![c] = p] /\ held' = [held EXCEPT ![c] = held[c]] BY <1>0, <1>7 DEF Go, TypeOK
  <2> HIDE DEF p
  <2>3. osLocks' \in [Offsets -> {"no", "R", "W"}] /\ p.at \notin Opens BY <1>5, <1>7, <2>1 DEF Opens
  <2>4. /\ TypeOK' /\ UsersInv' /\ HandlesInv' /\ file' # NULL /\ pc'[c] = p /\ held'[c] = held[c]
        /\ \A d \in Clients : d # c => pc'[d] = pc[d] /\ held'[d] = held[d]
                                       /\ Used(d)' = Used(d) /\ AtSystem(d)' = AtSystem(d)
    <3>1. Touches(c, p, held[c]) BY <1>1, <1>3, <2>2, <2>3 DEF Touches
    <3> QED BY <1>5, <2>1, <3>1, LockStep
  <2>5. Used(c)' = Used(c) /\ AtSystem(c)' = AtSystem(c) BY <1>4, <2>1, <2>4 DEF Used, AtSystem, At, Busy
  <2>6. UsesApart'
    <3>1. \A s \in held[c] : Apart(r, s) /\ \A t \in held[c] : s # t => Apart(s, t)
      BY <1>0, <1>1 DEF UsesApart, Busy
    <3>2. pc'[c].range = r BY <2>1, <2>4
    <3>3. \A s \in Used(c)' : /\ \A d \in Clients : d # c => \A t \in Used(d) : Apart(s, t)
                              /\ \A t \in orphans : Apart(s, t)
      BY <1>0, <2>5 DEF UsesApart
    <3>4. \A s \in held'[c] : /\ \A t \in held'[c] : s # t => Apart(s, t)
                              /\ pc'[c].at \in Busy => Apart(pc'[c].range, s)
      BY <2>4, <3>1, <3>2
    <3> QED BY <1>1, <2>4, <3>3, <3>4, ApartStep
  <2>7. InUse' = InUse BY <1>1, <1>3, <2>4, <2>5, UseChanges
  <2>8. ListInv' BY <1>0, <1>1, <2>7 DEF ListInv
  <2>9. SystemInv'
    <3>1. \A d \in Clients : AtSystem(d)' = AtSystem(d) BY <2>4, <2>5
    <3> QED BY <1>1, <1>3, <1>7, <3>1, SystemKept
  <2> QED BY <2>4, <2>6, <2>8, <2>9 DEF FileInv
<1> QED BY <1>6, <1>7 DEF LockOs

\* The end of a lock that failed and of an unlock: hb_fileUnlock() takes the range
\* out of the list, and nothing is at the system any more.
LEMMA ReleaseKeeps ==
    ASSUME FileInv, program' = program, NEW c \in Clients, LockUndo(c) \/ UnlockList(c)
    PROVE  FileInv'
<1>0. TypeOK /\ UsersInv /\ UsesApart /\ ListInv /\ SystemInv BY DEF FileInv
<1> DEFINE r == pc[c].range
<1>1. /\ pc[c].at \in {"lockUndo", "unlockList"} /\ ListUnlock(r) /\ pc' = [pc EXCEPT ![c] = Idle]
      /\ held' = held /\ osLocks' = osLocks
      /\ fileMtx' = fileMtx /\ opened' = opened /\ foreign' = foreign
      /\ orphans' = orphans /\ dropped' = dropped /\ mixed' = mixed /\ misses' = misses
  BY DEF LockUndo, UnlockList, At, Go
<1>2. IsOpen(c) /\ file # NULL /\ file \in Files /\ r \in program.ranges /\ RangeOK(r)
  BY <1>1, BusyIsOpen DEF Busy
<1>3. pc[c].at \in Busy /\ Used(c) = held[c] \cup {r} /\ AtSystem(c) = held[c]
  BY <1>1 DEF Used, AtSystem, At, Busy
<1>4. /\ file' \in Files /\ file'.used = file.used /\ file'.mode = file.mode
      /\ file'.hFile = file.hFile /\ file'.shared = file.shared
  BY <1>1, <1>2, ListUnlockIs
<1>5. /\ osLocks' \in [Offsets -> {"no", "R", "W"}] /\ held[c] \in SUBSET program.ranges
      /\ held' = [held EXCEPT ![c] = held[c]]
  BY <1>0, <1>1 DEF TypeOK
<1>6. Idle \in Places /\ Idle.at = "idle" /\ Idle.at \notin Opens /\ Idle.at \notin Busy
  BY DEF Places, Idle, Opens, Busy
<1>7. /\ TypeOK' /\ UsersInv' /\ HandlesInv' /\ file' # NULL /\ pc'[c] = Idle /\ held'[c] = held[c]
      /\ \A d \in Clients : d # c => pc'[d] = pc[d] /\ held'[d] = held[d]
                                     /\ Used(d)' = Used(d) /\ AtSystem(d)' = AtSystem(d)
  <2>1. Touches(c, Idle, held[c]) BY <1>1, <1>2, <1>4, <1>5, <1>6 DEF Touches
  <2> QED BY <1>5, <1>6, <2>1, LockStep
<1>8. \A s \in held[c] : Apart(r, s) /\ \A t \in held[c] : s # t => Apart(s, t)
  BY <1>0, <1>3 DEF UsesApart
<1>9. r \notin held[c]
  <2>1. BytesOf(r) # {} BY <1>2, RangeBytes
  <2> QED BY <1>8, <2>1 DEF Apart
<1>10. Used(c)' = Used(c) \ {r} /\ AtSystem(c)' = AtSystem(c)
  BY <1>3, <1>6, <1>7, <1>9 DEF Used, AtSystem, At
<1>11. UsesApart'
  <2>1. \A s \in Used(c)' : /\ \A d \in Clients : d # c => \A t \in Used(d) : Apart(s, t)
                            /\ \A t \in orphans : Apart(s, t)
    BY <1>0, <1>10 DEF UsesApart
  <2> QED BY <1>1, <1>6, <1>7, <1>8, <2>1, ApartStep
<1>12. InUse' = InUse \ BytesOf(r) /\ BytesOf(r) \subseteq InUse
  BY <1>1, <1>2, <1>3, <1>7, <1>8, <1>10, UseChanges
<1>13. ListInv' BY <1>1, <1>2, <1>12, ListShrinks
<1>14. SystemInv'
  <2>1. \A d \in Clients : AtSystem(d)' = AtSystem(d) BY <1>7, <1>10
  <2> QED BY <1>1, <1>2, <1>4, <1>7, <2>1, SystemKept
<1> QED BY <1>7, <1>11, <1>13, <1>14 DEF FileInv

\* s_fileLock() with FL_UNLOCK: c does not hold the range any more.  If the file is
\* shared, it goes on using it until the system has unlocked it.
LEMMA UnlockFileKeeps ==
    ASSUME FileInv, program' = program, NEW c \in Clients, NEW r \in program.ranges, UnlockFile(c, r)
    PROVE  FileInv'
<1>0. TypeOK /\ UsersInv /\ UsesApart /\ ListInv /\ SystemInv BY DEF FileInv
<1> DEFINE h == held[c] \ {r}
<1>1. /\ pc[c].at = "idle" /\ r \in held[c] /\ held' = [held EXCEPT ![c] = h] /\ osLocks' = osLocks
      /\ fileMtx' = fileMtx /\ opened' = opened /\ foreign' = foreign
      /\ orphans' = orphans /\ dropped' = dropped /\ mixed' = mixed /\ misses' = misses
  BY DEF UnlockFile, At
<1>2. IsOpen(c) /\ file # NULL /\ file \in Files
  <2>1. IsOpen(c) BY <1>0, <1>1 DEF UsersInv
  <2>2. file # NULL BY <1>0, <2>1 DEF UsersInv
  <2> QED BY <1>0, <2>1, <2>2, FileIs DEF TypeOK
<1>3. Used(c) = held[c] /\ AtSystem(c) = held[c] BY <1>1 DEF Used, AtSystem, At, Busy
<1>4. osLocks' \in [Offsets -> {"no", "R", "W"}] /\ pc[c] \in Places /\ h \in SUBSET program.ranges
  BY <1>0, <1>1 DEF TypeOK
<1>h. h = held[c] \ {r} OBVIOUS
<1> HIDE DEF h
<1>5. \A s, t \in held[c] : s # t => Apart(s, t) BY <1>0 DEF UsesApart
<1>6. CASE file.shared /\ Go(c, [at |-> "unlockOs", range |-> r]) /\ UNCHANGED file
  <2> DEFINE p == [at |-> "unlockOs", range |-> r]
  <2>1. p \in Places /\ p.at = "unlockOs" /\ p.range = r
    <3>1. p \in [at : {"unlockOs", "unlockList"}, range : program.ranges] OBVIOUS
    <3> QED BY <3>1 DEF Places
  <2>2. pc' = [pc EXCEPT ![c] = p] BY <1>6 DEF Go
  <2> HIDE DEF p
  <2>3. p.at \notin Opens BY <2>1 DEF Opens
  <2>4. /\ TypeOK' /\ UsersInv' /\ HandlesInv' /\ file' # NULL /\ pc'[c] = p /\ held'[c] = h
        /\ \A d \in Clients : d # c => pc'[d] = pc[d] /\ held'[d] = held[d]
                                       /\ Used(d)' = Used(d) /\ AtSystem(d)' = AtSystem(d)
    <3>1. Touches(c, p, h) BY <1>1, <1>2, <1>4, <1>6, <2>2, <2>3 DEF Touches
    <3> QED BY <1>4, <2>1, <3>1, LockStep
  <2>5. Used(c)' = Used(c) /\ AtSystem(c)' = AtSystem(c)
    BY <1>1, <1>3, <1>h, <2>1, <2>4 DEF Used, AtSystem, At, Busy
  <2>6. UsesApart'
    <3>1. \A s \in Used(c)' : /\ \A d \in Clients : d # c => \A t \in Used(d) : Apart(s, t)
                              /\ \A t \in orphans : Apart(s, t)
      BY <1>0, <2>5 DEF UsesApart
    <3>2. \A s \in held'[c] : /\ \A t \in held'[c] : s # t => Apart(s, t)
                              /\ pc'[c].at \in Busy => Apart(pc'[c].range, s)
      BY <1>1, <1>5, <1>h, <2>1, <2>4
    <3> QED BY <1>1, <2>4, <3>1, <3>2, ApartStep
  <2>7. InUse' = InUse BY <1>1, <2>4, <2>5, UseChanges
  <2>8. ListInv' BY <1>0, <1>6, <2>7 DEF ListInv
  <2>9. SystemInv'
    <3>1. \A d \in Clients : AtSystem(d)' = AtSystem(d) BY <2>4, <2>5
    <3> QED BY <1>1, <1>2, <1>6, <3>1, SystemKept
  <2> QED BY <2>4, <2>6, <2>8, <2>9 DEF FileInv
<1>7. CASE ~file.shared /\ ListUnlock(r) /\ UNCHANGED pc
  <2>1. /\ file' \in Files /\ file'.used = file.used /\ file'.mode = file.mode
        /\ file'.hFile = file.hFile /\ file'.shared = file.shared
    BY <1>2, <1>7, ListUnlockIs
  <2>2. pc' = [pc EXCEPT ![c] = pc[c]] /\ pc[c].at \notin Opens /\ pc[c].at \notin Busy
    BY <1>0, <1>1, <1>7 DEF TypeOK, Opens, Busy
  <2>3. /\ TypeOK' /\ UsersInv' /\ HandlesInv' /\ file' # NULL /\ pc'[c] = pc[c] /\ held'[c] = h
        /\ \A d \in Clients : d # c => pc'[d] = pc[d] /\ held'[d] = held[d]
                                       /\ Used(d)' = Used(d) /\ AtSystem(d)' = AtSystem(d)
    <3>1. Touches(c, pc[c], h) BY <1>1, <1>2, <1>4, <2>1, <2>2 DEF Touches
    <3> QED BY <1>4, <3>1, LockStep
  <2>4. Used(c)' = Used(c) \ {r} BY <1>3, <1>h, <2>2, <2>3 DEF Used
  <2>5. UsesApart'
    <3>1. \A s \in Used(c)' : /\ \A d \in Clients : d # c => \A t \in Used(d) : Apart(s, t)
                              /\ \A t \in orphans : Apart(s, t)
      BY <1>0, <2>4 DEF UsesApart
    <3>2. \A s \in held'[c] : \A t \in held'[c] : s # t => Apart(s, t) BY <1>5, <1>h, <2>3
    <3> QED BY <1>1, <2>2, <2>3, <3>1, <3>2, ApartStep
  <2>6. InUse' = InUse \ BytesOf(r) /\ BytesOf(r) \subseteq InUse
    BY <1>1, <1>3, <1>5, <2>3, <2>4, UseChanges
  <2>7. ListInv' BY <1>2, <1>7, <2>6, ListShrinks
  <2>8. SystemInv' BY <1>0, <1>1, <1>7, <2>1, <2>3 DEF SystemInv
  <2> QED BY <2>3, <2>5, <2>7, <2>8 DEF FileInv
<1> QED BY <1>6, <1>7 DEF UnlockFile

\* hb_fsLockLarge() with FL_UNLOCK: only the bytes of the range are unlocked.
LEMMA UnlockOsKeeps ==
    ASSUME FileInv, program' = program, NEW c \in Clients, UnlockOs(c)
    PROVE  FileInv'
<1>0. TypeOK /\ UsersInv /\ UsesApart /\ ListInv /\ SystemInv BY DEF FileInv
<1> DEFINE r == pc[c].range
           p == [pc[c] EXCEPT !.at = "unlockList"]
<1>1. /\ pc[c].at = "unlockOs" /\ file' = file /\ held' = held /\ pc' = [pc EXCEPT ![c] = p]
      /\ osLocks' = [b \in Offsets |-> IF b \in BytesOf(r) THEN "no" ELSE osLocks[b]]
      /\ fileMtx' = fileMtx /\ opened' = opened /\ foreign' = foreign
      /\ orphans' = orphans /\ dropped' = dropped /\ mixed' = mixed /\ misses' = misses
  BY DEF UnlockOs, At, Go
<1>2. IsOpen(c) /\ file # NULL /\ file \in Files /\ r \in program.ranges /\ RangeOK(r)
  BY <1>1, BusyIsOpen DEF Busy
<1>3. p \in Places /\ p.at = "unlockList" /\ p.range = r
  <2>1. pc[c] \in [at : {"unlockOs", "unlockList"}, range : program.ranges] BY <1>0, <1>1, PlaceIs
  <2>2. p \in [at : {"unlockOs", "unlockList"}, range : program.ranges] BY <2>1
  <2> QED BY <2>1, <2>2 DEF Places
<1> HIDE DEF p
<1>4. Used(c) = held[c] \cup {r} /\ AtSystem(c) = held[c] \cup {r} /\ pc[c].at \in Busy
  BY <1>1 DEF Used, AtSystem, At, Busy
<1>5. /\ osLocks' \in [Offsets -> {"no", "R", "W"}] /\ held[c] \in SUBSET program.ranges
      /\ held' = [held EXCEPT ![c] = held[c]] /\ p.at \notin Opens
  BY <1>0, <1>1, <1>3 DEF TypeOK, Opens
<1>6. /\ TypeOK' /\ UsersInv' /\ HandlesInv' /\ file' # NULL /\ pc'[c] = p /\ held'[c] = held[c]
      /\ \A d \in Clients : d # c => pc'[d] = pc[d] /\ held'[d] = held[d]
                                     /\ Used(d)' = Used(d) /\ AtSystem(d)' = AtSystem(d)
  <2>1. Touches(c, p, held[c]) BY <1>1, <1>2, <1>5 DEF Touches
  <2> QED BY <1>3, <1>5, <2>1, LockStep
<1>7. Used(c)' = Used(c) /\ AtSystem(c)' = held[c] BY <1>3, <1>4, <1>6 DEF Used, AtSystem, At, Busy
<1>8. \A s \in held[c] : Apart(r, s) /\ \A t \in held[c] : s # t => Apart(s, t)
  BY <1>0, <1>4 DEF UsesApart
<1>9. UsesApart'
  <2>1. \A s \in Used(c)' : /\ \A d \in Clients : d # c => \A t \in Used(d) : Apart(s, t)
                            /\ \A t \in orphans : Apart(s, t)
    BY <1>0, <1>7 DEF UsesApart
  <2>2. \A s \in held'[c] : /\ \A t \in held'[c] : s # t => Apart(s, t)
                            /\ pc'[c].at \in Busy => Apart(pc'[c].range, s)
    BY <1>3, <1>6, <1>8
  <2> QED BY <1>1, <1>6, <2>1, <2>2, ApartStep
<1>10. InUse' = InUse BY <1>1, <1>2, <1>6, <1>7, UseChanges
<1>11. ListInv' BY <1>0, <1>1, <1>10 DEF ListInv
<1>12. SystemInv'
  <2> DEFINE old == orphans \cup UNION {AtSystem(d) : d \in Clients}
             new == orphans' \cup UNION {AtSystem(d)' : d \in Clients}
  <2>1. \A b \in foreign' : osLocks'[b] = "no"
    <3>1. foreign \subseteq Offsets BY <1>0 DEF TypeOK
    <3> QED BY <1>0, <1>1, <3>1 DEF SystemInv
  <2>2. old = new \cup {r} BY <1>1, <1>4, <1>6, <1>7
  <2>3. \A s \in new : Apart(r, s)
    <3>1. \A d \in Clients : d # c => AtSystem(d) \subseteq Used(d) BY DEF AtSystem, Used, At, Busy
    <3>2. \A s \in new : s \in orphans \/ s \in held[c] \/ \E d \in Clients : d # c /\ s \in Used(d)
      BY <1>1, <1>6, <1>7, <3>1
    <3>3. r \in Used(c) BY <1>4
    <3> HIDE DEF new
    <3> QED BY <1>0, <1>8, <3>2, <3>3 DEF UsesApart
  <2> HIDE DEF old, new
  <2>4. ASSUME file.shared, ~dropped, NEW b \in Offsets
        PROVE  osLocks'[b] # "no" <=> \E s \in new : b \in BytesOf(s)
    <3>1. osLocks[b] # "no" <=> \E s \in old : b \in BytesOf(s)
      BY <1>0, <1>2, <2>4 DEF SystemInv, old
    <3>2. CASE b \in BytesOf(r)
      <4>1. osLocks'[b] = "no" BY <1>1, <3>2
      <4> QED BY <2>3, <3>2, <4>1 DEF Apart
    <3>3. CASE b \notin BytesOf(r)
      <4>1. osLocks'[b] = osLocks[b] BY <1>1, <3>3
      <4> QED BY <2>2, <3>1, <3>3, <4>1
    <3> QED BY <3>2, <3>3
  <2> QED BY <1>1, <1>6, <2>1, <2>4 DEF SystemInv, new
<1> QED BY <1>6, <1>9, <1>11, <1>12 DEF FileInv

\* The other process changes only its own locks, and takes none of ours.
LEMMA ForeignKeeps ==
    ASSUME FileInv, program' = program, (\E r \in program.foreign : ForeignLock(r)) \/ ForeignUnlock
    PROVE  FileInv'
<1>0. TypeOK BY DEF FileInv
<1>1. /\ file' = file /\ fileMtx' = fileMtx /\ opened' = opened /\ held' = held /\ pc' = pc
      /\ osLocks' = osLocks /\ orphans' = orphans /\ dropped' = dropped /\ mixed' = mixed /\ misses' = misses
  BY DEF ForeignLock, ForeignUnlock
<1>2. foreign' \subseteq Offsets /\ \A b \in foreign' : osLocks[b] = "no"
  <2>1. foreign \subseteq Offsets /\ \A b \in foreign : osLocks[b] = "no" BY DEF FileInv, TypeOK, SystemInv
  <2>2. CASE ForeignUnlock BY <2>2 DEF ForeignUnlock
  <2>3. ASSUME NEW r \in program.foreign, ForeignLock(r) PROVE foreign' \subseteq Offsets /\ \A b \in foreign' : osLocks[b] = "no"
    <3>1. BytesOf(r) \subseteq Offsets BY <1>0, RangesOK, RangeBytes DEF TypeOK
    <3> QED BY <2>1, <2>3, <3>1 DEF ForeignLock
  <2> QED BY <2>2, <2>3
<1>3. TypeOK' BY <1>0, <1>1, <1>2 DEF TypeOK, Files, Places
<1>4. UsesApart' BY <1>1 DEF FileInv, UsesApart, Used, Apart
<1>5. ListInv' BY <1>1 DEF FileInv, ListInv, InUse, AllUsed, Used
<1>6. SystemInv'
  <2>1. \A d \in Clients : AtSystem(d)' = AtSystem(d) BY <1>1 DEF AtSystem, At
  <2>2. UNION {AtSystem(d)' : d \in Clients} = UNION {AtSystem(d) : d \in Clients} BY <2>1
  <2> QED BY <1>1, <1>2, <2>2 DEF FileInv, SystemInv
<1>7. UsersInv' BY <1>1 DEF FileInv, UsersInv, Users, IsOpen, At
<1>8. HandlesInv' BY <1>1 DEF FileInv, HandlesInv, IsOpen, At
<1> QED BY <1>3, <1>4, <1>5, <1>6, <1>7, <1>8 DEF FileInv

-----------------------------------------------------------------------------
(* The theorems.                                                           *)

\* Before the file is opened for the first time.
LEMMA Starts == Init => FileInv
<1> SUFFICES ASSUME Init PROVE FileInv OBVIOUS
<1> USE DEF Init
<1>1. /\ \A c \in Clients : pc[c] = Idle /\ pc[c].at = "idle" /\ held[c] = {} /\ ~IsOpen(c) BY DEF Idle, IsOpen
<1>2. TypeOK
  <2>1. program.misses \in Nat BY FileAssumption DEF IsProgram
  <2>2. pc \in [Clients -> Places] BY DEF Places
  <2>3. opened \in [Clients -> Openings \cup {NotOpen}] /\ held \in [Clients -> SUBSET program.ranges] OBVIOUS
  <2>4. osLocks \in [Offsets -> {"no", "R", "W"}] /\ foreign \in SUBSET Offsets OBVIOUS
  <2>5. file \in Files \cup {NULL} /\ fileMtx \in Clients \cup {Nobody} OBVIOUS
  <2>6. orphans \in SUBSET program.ranges /\ misses \in 0 .. program.misses BY <2>1
  <2> QED BY <2>2, <2>3, <2>4, <2>5, <2>6 DEF TypeOK
<1>3. ListInv BY DEF ListInv
<1>4. UsesApart BY <1>1 DEF UsesApart, Used, Busy
<1>5. SystemInv BY DEF SystemInv
<1>6. UsersInv BY <1>1, FileAssumption DEF UsersInv, Opens, Busy, At
<1>7. HandlesInv BY <1>1 DEF HandlesInv, At
<1> QED BY <1>2, <1>3, <1>4, <1>5, <1>6, <1>7 DEF FileInv

\* Every step keeps the invariant.
LEMMA NextKeeps == FileInv /\ [Next]_vars => FileInv'
<1> SUFFICES ASSUME FileInv, [Next]_vars PROVE FileInv' OBVIOUS
<1>1. CASE UNCHANGED vars
  <2> USE <1>1 DEF vars
  <2>1. TypeOK' BY DEF FileInv, TypeOK, Files, Places
  <2>2. ListInv' BY DEF FileInv, ListInv, InUse, AllUsed, Used
  <2>3. UsesApart' BY DEF FileInv, UsesApart, Used, Apart
  <2>4. SystemInv'
    <3>1. \A d \in Clients : AtSystem(d)' = AtSystem(d) BY DEF AtSystem, At
    <3>2. UNION {AtSystem(d)' : d \in Clients} = UNION {AtSystem(d) : d \in Clients} BY <3>1
    <3> QED BY <3>2 DEF FileInv, SystemInv
  <2>5. UsersInv' BY DEF FileInv, UsersInv, Users, IsOpen, At
  <2>6. HandlesInv' BY DEF FileInv, HandlesInv, IsOpen, At
  <2> QED BY <2>1, <2>2, <2>3, <2>4, <2>5, <2>6 DEF FileInv
<1>2. CASE Next
  <2>1. program' = program BY <1>2 DEF Next
  <2>2. ASSUME NEW c \in Clients, ClientNext(c) PROVE FileInv'
    <3>1. CASE OpenFind(c) BY <2>1, <3>1, OpenFindKeeps
    <3>2. CASE OpenNew(c) BY <2>1, <3>2, OpenNewKeeps
    <3>3. CASE OpenTest(c) BY <2>1, <3>3, OpenTestKeeps
    <3>4. CASE OpenClose(c) BY <2>1, <3>4, OpenCloseKeeps
    <3>5. CASE Close(c) BY <2>1, <3>5, CloseKeeps
    <3>6. CASE LockOs(c) BY <2>1, <3>6, LockOsKeeps
    <3>7. CASE LockUndo(c) \/ UnlockList(c) BY <2>1, <3>7, ReleaseKeeps
    <3>8. CASE UnlockOs(c) BY <2>1, <3>8, UnlockOsKeeps
    <3>9. ASSUME NEW r \in program.ranges, UnlockFile(c, r) PROVE FileInv' BY <2>1, <3>9, UnlockFileKeeps
    <3>10. ASSUME NEW r \in program.ranges, NEW wait \in BOOLEAN, Lock(c, r, wait) PROVE FileInv'
      BY <2>1, <3>10, LockKeeps
    <3> QED BY <2>2, <3>1, <3>2, <3>3, <3>4, <3>5, <3>6, <3>7, <3>8, <3>9, <3>10 DEF ClientNext
  <2>3. CASE (\E r \in program.foreign : ForeignLock(r)) \/ ForeignUnlock BY <2>1, <2>3, ForeignKeeps
  <2> QED BY <1>2, <2>2, <2>3 DEF Next
<1> QED BY <1>1, <1>2

\* The invariant holds in every reachable state, for every number of clients, every
\* width of the offsets and every program.
THEOREM Invariance == Spec => []FileInv
<1>1. Init => FileInv BY Starts
<1>2. FileInv /\ [Next]_vars => FileInv' BY NextKeeps
<1> QED BY <1>1, <1>2, PTL DEF Spec

\* The list of an HB_FILE has the bytes that are in use, exactly, in order and with a
\* gap between two entries, and hb_fileTestLock() finds a range locked if and only if
\* one of its bytes is: the binary search and the arithmetic that wraps do on the
\* list what is meant for the set of bytes.
THEOREM ListCorrect == Spec => []ListIsASet
<1>1. ASSUME FileInv PROVE ListIsASet
  <2>0. TypeOK /\ ListInv BY <1>1 DEF FileInv
  <2>1. ASSUME file # NULL PROVE ListOK(file.locks) BY <2>0, <2>1 DEF ListInv
  <2>2. ListExact
    <3> SUFFICES ASSUME file # NULL
                 PROVE  /\ BytesIn(file.locks) = IF Overflowed THEN Offsets ELSE InUse
                        /\ \A i, j \in DOMAIN file.locks : i < j =>
                              End(file.locks[i]) > 0 /\ End(file.locks[i]) < file.locks[j].start
      BY DEF ListExact, InUse
    <3> DEFINE l == file.locks
    <3>1. BytesIn(l) = IF Overflowed THEN Offsets ELSE InUse BY <2>0 DEF ListInv, Full, Overflowed
    <3>2. ASSUME NEW i \in DOMAIN l, NEW j \in DOMAIN l, i < j PROVE End(l[i]) > 0 /\ End(l[i]) < l[j].start
      <4>1. EntryOK(l[i]) /\ EntryOK(l[j]) /\ Top(l[i]) < l[j].start BY <2>1, <3>2 DEF ListOK
      <4>2. /\ l[i].start \in Nat /\ Top(l[i]) \in Nat /\ l[i].start < Top(l[i])
            /\ End(l[i]) = IF Top(l[i]) = Limit THEN -Limit ELSE Top(l[i])
        BY <4>1, EntryIs
      <4>3. l[j].start \in Nat /\ l[j].start < Limit /\ Limit \in Nat
        <5>1. l[j].start \in Nat /\ Top(l[j]) \in Nat /\ l[j].start < Top(l[j]) /\ Top(l[j]) <= Limit
          BY <4>1, EntryIs
        <5> QED BY <5>1, FileAssumption
      <4> QED BY <4>1, <4>2, <4>3
    <3> QED BY <3>1, <3>2
  <2>3. TestAgrees BY <2>0, <2>1, RangesOK, TestIs DEF TestAgrees, TypeOK
  <2> QED BY <2>0, <2>2, <2>3 DEF ListIsASet
<1> QED BY <1>1, Invariance, PTL

\* A range that is held can be unlocked, whichever ranges were joined with it since,
\* until the whole file is one entry and its length overflows.
THEOREM UnlockCorrect == Spec => []HeldCanBeUnlocked
<1>1. ASSUME FileInv PROVE HeldCanBeUnlocked
  <2> SUFFICES ASSUME NEW c \in Clients, NEW r \in held[c]
               PROVE  CanUnlock(file.locks, r) \/ (Overflowed /\ BytesIn(file.locks) = Offsets)
    BY DEF HeldCanBeUnlocked
  <2>0. TypeOK /\ ListInv /\ UsersInv BY <1>1 DEF FileInv
  <2>1. file # NULL BY <2>0 DEF UsersInv
  <2>2. ListOK(file.locks) BY <2>0, <2>1 DEF ListInv
  <2>3. CASE Full(file.locks) BY <2>1, <2>2, <2>3, FullIs DEF Full, Overflowed
  <2>4. CASE ~Full(file.locks)
    <3>1. BytesIn(file.locks) = InUse BY <2>0, <2>1, <2>4 DEF ListInv
    <3>2. r \in AllUsed BY DEF AllUsed, Used
    <3>3. BytesOf(r) \subseteq InUse BY <3>2 DEF InUse
    <3>4. RangeOK(r) BY <2>0, <3>2, UsesAreRanges
    <3> QED BY <2>2, <2>4, <3>1, <3>3, <3>4, CanUnlockIs
  <2> QED BY <2>3, <2>4
<1> QED BY <1>1, Invariance, PTL

\* What a client was told holds: the bytes it locked are its own among the threads
\* and at the system, and the handle allows what it opened the file for.
THEOREM PromisesCorrect == Spec => []PromisesHold
<1>1. ASSUME FileInv PROVE PromisesHold
  <2>0. TypeOK /\ ListInv /\ UsersInv /\ UsesApart /\ SystemInv /\ HandlesInv BY <1>1 DEF FileInv
  <2>1. \A c \in Clients : IsOpen(c) \/ held[c] # {} => file # NULL BY <2>0 DEF UsersInv
  <2>2. ASSUME NEW c \in Clients, NEW r \in held[c], ~dropped, file.shared, NEW b \in BytesOf(r)
        PROVE  b \in Offsets /\ osLocks[b] # "no"
    <3>1. file # NULL BY <2>1, <2>2
    <3>2. r \in AllUsed BY DEF AllUsed, Used
    <3>3. b \in Offsets BY <2>0, <3>2, UsesAreRanges, RangeBytes
    <3>4. r \in AtSystem(c) BY DEF AtSystem
    <3> QED BY <2>0, <2>2, <3>1, <3>3, <3>4 DEF SystemInv
  <2>3. LocksExclude
    <3> SUFFICES ASSUME NEW c \in Clients, NEW d \in Clients, NEW r \in held[c], NEW s \in held[d]
                 PROVE  /\ <<c, r>> # <<d, s>> => BytesOf(r) \cap BytesOf(s) = {}
                        /\ ~dropped /\ file.shared => BytesOf(r) \cap foreign = {}
      BY DEF LocksExclude
    <3>1. r \in Used(c) /\ s \in Used(d) BY DEF Used
    <3>2. CASE c # d BY <2>0, <2>2, <3>1, <3>2 DEF UsesApart, Apart, SystemInv
    <3>3. CASE c = d
      <4>1. r # s => Apart(r, s) BY <2>0, <3>3 DEF UsesApart
      <4> QED BY <2>0, <2>2, <3>3, <4>1 DEF Apart, SystemInv
    <3> QED BY <3>2, <3>3
  <2>4. SystemAgrees
    <3> SUFFICES ASSUME file # NULL, file.shared, ~dropped, ~Overflowed, \A c \in Clients : pc[c].at \notin Busy
                 PROVE  {b \in Offsets : osLocks[b] # "no"} = BytesIn(file.locks)
      BY <2>2 DEF SystemAgrees
    <3>1. BytesIn(file.locks) = InUse BY <2>0 DEF ListInv, Full, Overflowed
    <3>2. \A c \in Clients : AtSystem(c) = held[c] /\ Used(c) = held[c] BY DEF AtSystem, Used, At, Busy
    <3>3. orphans \cup UNION {AtSystem(c) : c \in Clients} = AllUsed BY <3>2 DEF AllUsed
    <3>4. \A b \in Offsets : osLocks[b] # "no" <=> \E r \in AllUsed : b \in BytesOf(r)
      BY <2>0, <3>3 DEF SystemInv
    <3>5. InUse \subseteq Offsets
      <4>1. ListOK(file.locks) BY <2>0 DEF ListInv
      <4> QED BY <3>1, <4>1, FullIs
    <3>6. \A b : b \in InUse <=> \E r \in AllUsed : b \in BytesOf(r) BY DEF InUse
    <3> QED BY <3>1, <3>4, <3>5, <3>6
  <2>5. HandleAllows BY <2>0, <2>1 DEF HandleAllows, HandlesInv
  <2> QED BY <2>3, <2>4, <2>5 DEF PromisesHold
<1> QED BY <1>1, Invariance, PTL

\* Locks in use are taken away only by a close of s_fileExtOpen() that follows a test
\* which found the list empty, made without s_lockMtx, or an open that failed.
THEOREM DropCorrect == Spec => DropNeedsRace
<1> DEFINE Race == ~dropped /\ dropped' =>
                     \E c \in Clients : At(c, "openClose") /\ (pc[c].seen = <<>> \/ ~pc[c].ok)
<1>1. ASSUME FileInv, [Next]_vars PROVE [Race]_vars
  <2> SUFFICES ASSUME ~dropped, dropped', Next
               PROVE  \E c \in Clients : At(c, "openClose") /\ (pc[c].seen = <<>> \/ ~pc[c].ok)
    BY <1>1
  <2>1. dropped' # dropped OBVIOUS
  <2>2. \A r : ~ForeignLock(r) BY <2>1 DEF ForeignLock
  <2>3. ~ForeignUnlock BY <2>1 DEF ForeignUnlock
  <2>4. PICK c \in Clients : ClientNext(c) BY <2>2, <2>3 DEF Next
  <2>5. ~OpenFind(c) /\ ~OpenNew(c) /\ ~OpenTest(c) BY <2>1 DEF OpenFind, OpenNew, OpenTest
  <2>6. ~Close(c) /\ ~LockOs(c) /\ ~LockUndo(c) /\ ~UnlockOs(c) /\ ~UnlockList(c)
    BY <2>1 DEF Close, LockOs, LockUndo, UnlockOs, UnlockList
  <2>7. \A r : ~UnlockFile(c, r) /\ \A wait : ~Lock(c, r, wait) BY <2>1 DEF UnlockFile, Lock
  <2>8. OpenClose(c) BY <2>4, <2>5, <2>6, <2>7 DEF ClientNext
  <2>9. At(c, "openClose") BY <2>8 DEF OpenClose
  <2>10. pc[c].seen = <<>> \/ ~pc[c].ok BY <1>1, <2>9 DEF FileInv, UsersInv
  <2> QED BY <2>9, <2>10
<1> QED BY <1>1, Invariance, PTL DEF Spec, DropNeedsRace
=============================================================================
