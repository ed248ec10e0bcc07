------------------------- MODULE ChainPackageProofs -------------------------
(***************************************************************************)
(* Proofs about what is read from a chain that SourceChain keeps: lookups  *)
(* and queries agree with its headers, and full pages stay as the chain    *)
(* grows; a package that it makes holds what it should and passes          *)
(* validation, and an altered one does not.                                *)
(***************************************************************************)
EXTENDS ChainPackage, SourceChainProofs, WellFoundedInduction

-----------------------------------------------------------------------------
(* Sequences *)

\* A part and the part that follows it are one part.
LEMMA PartsJoin ==
    ASSUME NEW S, NEW q \in Seq(S),
           NEW a \in 1..(Len(q) + 1), NEW k \in (a - 1)..Len(q), NEW b \in k..Len(q)
    PROVE  SubSeq(q, a, k) \o SubSeq(q, k + 1, b) = SubSeq(q, a, b)
OBVIOUS

\* What follows a sequence makes no difference to its parts.
LEMMA PartOfFirst ==
    ASSUME NEW S, NEW q \in Seq(S), NEW r \in Seq(S), NEW a \in 1..Len(q), NEW b \in 1..Len(q)
    PROVE  SubSeq(q \o r, a, b) = SubSeq(q, a, b)
OBVIOUS

-----------------------------------------------------------------------------
(* Loops *)

LEMMA Counting ==
    ASSUME NEW n \in Nat, NEW T, 0 \in T, \A m \in 0..(n - 1) : m \in T => m + 1 \in T
    PROVE  \A m \in 0..n : m \in T
<1> SUFFICES ASSUME \E m \in 0..n : m \notin T PROVE FALSE
    OBVIOUS
<1> DEFINE F == {m \in 0..n : m \notin T}
<1>1. F \subseteq Nat /\ F # {}
    OBVIOUS
<1>2. PICK k \in F : \A m \in F : ~(<<m, k>> \in OpToRel(<, Nat))
    BY ZenonT(30), <1>1, NatLessThanWellFounded, WFMin
<1>3. k \in 0..n /\ k \notin T /\ k # 0
    BY <1>2
<1>4. k - 1 \in 0..(n - 1) /\ k - 1 \in 0..n /\ (k - 1) + 1 = k /\ k - 1 < k /\ k - 1 \in Nat /\ k \in Nat
    BY <1>3
<1>5. k - 1 \in T
    BY ZenonT(30), <1>2, <1>4 DEF OpToRel
<1>6. k \in T
    BY ZenonT(30), <1>4, <1>5
<1> QED BY ZenonT(30), <1>3, <1>6

\* f starts with a and goes on to n by the steps given.
Goes(f, a, step, n) == f[0] = a /\ \A i \in 1..n : f[i] = step[i][f[i - 1]]

\* A loop over 1..n has a value after each round.
LEMMA Recursion ==
    ASSUME NEW S, NEW a \in S, NEW n \in Nat, NEW step \in [1..n -> [S -> S]]
    PROVE  \E f \in [0..n -> S] : Goes(f, a, step, n)
<1> DEFINE T == {m \in 0..n : \E f \in [0..m -> S] : Goes(f, a, step, m)}
<1>1. 0 \in T
    <2> DEFINE z == [i \in 0..0 |-> a]
    <2>1. z \in [0..0 -> S] /\ z[0] = a /\ 1..0 = {} /\ 0 \in 0..n
        OBVIOUS
    <2> HIDE DEF z
    <2>2. Goes(z, a, step, 0)
        BY ZenonT(30), <2>1 DEF Goes
    <2> QED BY ZenonT(30), <2>1, <2>2
<1>2. ASSUME NEW m \in 0..(n - 1), m \in T PROVE m + 1 \in T
    <2>1. PICK f \in [0..m -> S] : Goes(f, a, step, m)
        BY ZenonT(30), <1>2
    <2>2. f[0] = a /\ \A i \in 1..m : f[i] = step[i][f[i - 1]]
        BY ZenonT(30), <2>1 DEF Goes
    <2> DEFINE x == step[m + 1][f[m]]
               g == [i \in 0..(m + 1) |-> IF i <= m THEN f[i] ELSE x]
    <2>3. m \in Nat /\ m + 1 \in 1..n /\ f[m] \in S /\ m + 1 \in 0..n
        OBVIOUS
    <2>4. x \in S
        BY ZenonT(30), <2>3
    <2> HIDE DEF x
    <2>5. g \in [0..(m + 1) -> S] /\ g[m + 1] = x /\ \A i \in 0..m : g[i] = f[i]
        BY <2>3, <2>4
    <2> HIDE DEF g
    <2>6. ASSUME NEW i \in 1..(m + 1) PROVE g[i] = step[i][g[i - 1]]
        <3>1. CASE i \in 1..m
            <4>1. i \in 0..m /\ i - 1 \in 0..m
                BY <2>3, <3>1
            <4> QED BY ZenonT(30), <2>2, <2>5, <3>1, <4>1
        <3>2. CASE i = m + 1
            <4>1. i - 1 = m /\ m \in 0..m
                BY <2>3, <3>2
            <4> QED BY ZenonT(30), <2>5, <3>2, <4>1 DEF x
        <3> QED BY <2>3, <3>1, <3>2
    <2>7. g[0] = a
        BY <2>2, <2>3, <2>5
    <2>8. Goes(g, a, step, m + 1)
        BY ZenonT(30), <2>6, <2>7 DEF Goes
    <2> QED BY ZenonT(30), <2>3, <2>5, <2>8
<1> HIDE DEF T
<1>3. n \in T
    <2>1. n \in 0..n
        OBVIOUS
    <2> QED BY ZenonT(30), <1>1, <1>2, <2>1, Counting
<1> QED BY ZenonT(30), <1>3 DEF T

\* The one function that a loop over 1..n defines.
LEMMA OneLoop ==
    ASSUME NEW S, NEW a \in S, NEW n \in Nat, NEW step \in [1..n -> [S -> S]], NEW h,
           h = [i \in 0..n |-> h[i]], h[0] = a, \A i \in 1..n : h[i - 1] \in S => h[i] = step[i][h[i - 1]]
    PROVE  h \in [0..n -> S] /\ Goes(h, a, step, n)
<1> DEFINE T == {m \in 0..n : h[m] \in S}
<1>1. 0 \in T
    <2>1. 0 \in 0..n
        OBVIOUS
    <2> QED BY ZenonT(30), <2>1
<1>2. ASSUME NEW m \in 0..(n - 1), m \in T PROVE m + 1 \in T
    <2>1. m + 1 \in 1..n /\ (m + 1) - 1 = m /\ m + 1 \in 0..n
        OBVIOUS
    <2>2. h[m] \in S
        BY ZenonT(30), <1>2
    <2>3. h[m + 1] = step[m + 1][h[m]]
        BY ZenonT(30), <2>1, <2>2
    <2>4. step[m + 1][h[m]] \in S
        BY ZenonT(30), <2>1, <2>2
    <2> QED BY ZenonT(30), <2>1, <2>3, <2>4
<1> HIDE DEF T
<1>3. \A m \in 0..n : m \in T
    BY ZenonT(30), <1>1, <1>2, Counting
<1>4. \A m \in 0..n : h[m] \in S
    BY ZenonT(30), <1>3 DEF T
<1>5. h \in [0..n -> S]
    BY ZenonT(30), <1>4
<1>6. \A i \in 1..n : i - 1 \in 0..n
    OBVIOUS
<1> QED BY ZenonT(30), <1>4, <1>5, <1>6 DEF Goes

-----------------------------------------------------------------------------
(* The results of a query *)

\* The results with header i, if it passes.
Shown(c, o, i, results) ==
    IF ~Passes(c, o, i) THEN results
    ELSE IF o.Ascending THEN <<i>> \o results ELSE results \o <<i>>

\* The function by which Selected is computed.
SelectFcn(c, o) ==
    CHOOSE f : f = [i \in 0..Length(c) |-> IF i = 0 THEN << >>
                                           ELSE IF ~Passes(c, o, i) THEN f[i - 1]
                                           ELSE IF o.Ascending THEN <<i>> \o f[i - 1]
                                           ELSE f[i - 1] \o <<i>>]

\* f has the results after each header up to n.
Selects(f, c, o, n) ==
    /\ f \in [0..n -> Seq(Nat)] /\ f[0] = << >>
    /\ \A i \in 1..n : f[i] = Shown(c, o, i, f[i - 1])

LEMMA ShownIs ==
    ASSUME NEW c, NEW o, NEW i \in Nat, NEW r \in Seq(Nat)
    PROVE  /\ Shown(c, o, i, r) \in Seq(Nat)
           /\ Len(Shown(c, o, i, r)) = Len(r) \/ Len(Shown(c, o, i, r)) = Len(r) + 1
<1>1. /\ <<i>> \o r \in Seq(Nat) /\ Len(<<i>> \o r) = Len(r) + 1
      /\ r \o <<i>> \in Seq(Nat) /\ Len(r \o <<i>>) = Len(r) + 1
    OBVIOUS
<1>2. \/ Shown(c, o, i, r) = r \/ Shown(c, o, i, r) = <<i>> \o r
      \/ Shown(c, o, i, r) = r \o <<i>>
    BY ZenonT(30) DEF Shown
<1> QED BY ZenonT(30), <1>1, <1>2

LEMMA SelectExists ==
    ASSUME NEW c, NEW o, Length(c) \in Nat
    PROVE  /\ Selects(SelectFcn(c, o), c, o, Length(c))
           /\ Selected(c, o) = SelectFcn(c, o)[Length(c)]
<1> DEFINE n == Length(c)
           S == Seq(Nat)
           step == [i \in 1..n |-> [r \in S |-> Shown(c, o, i, r)]]
           Body(f) == [i \in 0..n |-> IF i = 0 THEN << >> ELSE IF ~Passes(c, o, i) THEN f[i - 1]
                                      ELSE IF o.Ascending THEN <<i>> \o f[i - 1] ELSE f[i - 1] \o <<i>>]
           h == SelectFcn(c, o)
<1> HIDE DEF n, S
<1>1. n \in Nat /\ 0 \in 0..n /\ << >> \in S
    BY DEF n, S
<1>2. \A i \in 0..n : i = 0 \/ (i # 0 /\ i \in 1..n)
    BY <1>1
<1>3. \A i \in 1..n : i \in Nat /\ i # 0 /\ i \in 0..n /\ i - 1 \in 0..n
    BY <1>1
<1>4. \A i \in 1..n, r \in S : Shown(c, o, i, r) \in S
    BY ZenonT(30), <1>3, ShownIs DEF S
<1>5. /\ step \in [1..n -> [S -> S]]
      /\ \A i \in 1..n, r \in S : step[i][r] = Shown(c, o, i, r)
    BY ZenonT(30), <1>4
<1> HIDE DEF step
<1>6. PICK f \in [0..n -> S] : Goes(f, << >>, step, n)
    BY ZenonT(30), <1>1, <1>5, Recursion
<1>7. f[0] = << >> /\ \A i \in 1..n : f[i] = Shown(c, o, i, f[i - 1])
    BY ZenonT(30), <1>3, <1>5, <1>6 DEF Goes
<1>8. f = Body(f)
    <2>1. ASSUME NEW i \in 0..n
          PROVE  f[i] = IF i = 0 THEN << >> ELSE IF ~Passes(c, o, i) THEN f[i - 1]
                        ELSE IF o.Ascending THEN <<i>> \o f[i - 1] ELSE f[i - 1] \o <<i>>
        <3>1. CASE i = 0
            BY ZenonT(30), <1>7, <3>1
        <3>2. CASE i # 0
            <4>1. f[i] = Shown(c, o, i, f[i - 1])
                BY ZenonT(30), <1>2, <1>7, <3>2
            <4> QED BY ZenonT(30), <3>2, <4>1 DEF Shown
        <3> QED BY ZenonT(30), <3>1, <3>2
    <2> QED BY ZenonT(30), <1>6, <2>1
<1>9. h = Body(h)
    BY ZenonT(30), <1>8 DEF SelectFcn, n
<1>10. Selected(c, o) = h[n]
    BY ZenonT(30) DEF Selected, SelectFcn, n
<1> HIDE DEF h
<1>11. /\ h = [i \in 0..n |-> h[i]]
       /\ \A i \in 0..n : h[i] = IF i = 0 THEN << >> ELSE IF ~Passes(c, o, i) THEN h[i - 1]
                                  ELSE IF o.Ascending THEN <<i>> \o h[i - 1] ELSE h[i - 1] \o <<i>>
    BY ZenonT(30), <1>9
<1>12. h[0] = << >> /\ \A i \in 1..n : h[i] = Shown(c, o, i, h[i - 1])
    BY ZenonT(30), <1>1, <1>3, <1>11 DEF Shown
<1>13. h \in [0..n -> S] /\ Goes(h, << >>, step, n)
    <2>1. \A i \in 1..n : h[i - 1] \in S => h[i] = step[i][h[i - 1]]
        BY ZenonT(30), <1>5, <1>12
    <2>2. h = [i \in 0..n |-> h[i]] /\ h[0] = << >>
        BY ZenonT(30), <1>11, <1>12
    <2> QED BY ZenonT(30), <1>1, <1>5, <2>1, <2>2, OneLoop
<1>14. Selects(h, c, o, n) /\ Selected(c, o) = h[n]
    BY ZenonT(30), <1>10, <1>12, <1>13 DEF Selects, S
<1> QED BY ZenonT(30), <1>14 DEF h, n

\* Query shows no more than there are headers.
LEMMA SelectedIs ==
    ASSUME NEW c, NEW o, Length(c) \in Nat
    PROVE  Selected(c, o) \in Seq(Nat) /\ Len(Selected(c, o)) <= Length(c)
<1> DEFINE f == SelectFcn(c, o)
           n == Length(c)
           T == {m \in 0..n : Len(f[m]) <= m}
<1>1. n \in Nat /\ n \in 0..n /\ 0 \in 0..n
    OBVIOUS
<1>2. Selects(f, c, o, n) /\ Selected(c, o) = f[n]
    BY ZenonT(30), SelectExists
<1> HIDE DEF f, n
<1>3. /\ \A i \in 0..n : f[i] \in Seq(Nat)
      /\ f[0] = << >> /\ \A i \in 1..n : f[i] = Shown(c, o, i, f[i - 1])
    BY ZenonT(30), <1>2 DEF Selects
<1>4. 0 \in T
    BY <1>1, <1>3
<1>5. ASSUME NEW m \in 0..(n - 1), m \in T PROVE m + 1 \in T
    <2>1. /\ m \in Nat /\ m \in 0..n /\ m + 1 \in 1..n /\ m + 1 \in 0..n /\ (m + 1) - 1 = m
          /\ m + 1 \in Nat
        BY <1>1
    <2>2. f[m + 1] = Shown(c, o, m + 1, f[m]) /\ f[m] \in Seq(Nat) /\ Len(f[m]) <= m
        BY ZenonT(30), <1>3, <1>5, <2>1
    <2>3. Len(f[m + 1]) = Len(f[m]) \/ Len(f[m + 1]) = Len(f[m]) + 1
        <3> DEFINE r == f[m]
                   k == m + 1
                   s == Shown(c, o, k, r)
        <3> HIDE DEF r, k
        <3>1. Len(s) = Len(r) \/ Len(s) = Len(r) + 1
            BY ZenonT(30), <2>1, <2>2, ShownIs DEF r, k
        <3> QED BY ZenonT(30), <2>2, <3>1 DEF r, k
    <2>4. Len(f[m]) \in Nat
        BY ONLY <2>2
    <2>5. Len(f[m + 1]) <= m + 1
        BY ONLY <2>1, <2>2, <2>3, <2>4
    <2> QED BY ZenonT(30), <2>1, <2>5
<1> HIDE DEF T
<1>6. n \in T
    BY ZenonT(30), <1>1, <1>4, <1>5, Counting
<1>7. f[n] \in Seq(Nat) /\ Len(f[n]) <= n
    BY ZenonT(30), <1>1, <1>3, <1>6 DEF T
<1> QED BY ZenonT(30), <1>2, <1>7 DEF n

\* Chain d is chain c, or has one header more.
AtMostOneMore(c, d) ==
    /\ Length(c) \in Nat /\ Length(d) \in Nat
    /\ Length(d) = Length(c) \/ Length(d) = Length(c) + 1
    /\ \A i \in 1..Length(c) : c.Headers[i] = d.Headers[i] /\ c.Entries[i] = d.Entries[i]

\* A commit adds to the end of what Query shows in the order of the chain.
LEMMA SelectedGrows ==
    ASSUME NEW c, NEW d, NEW o, ~o.Ascending, AtMostOneMore(c, d)
    PROVE  \E s \in Seq(Nat) : Selected(d, o) = Selected(c, o) \o s
<1> DEFINE f == SelectFcn(c, o)
           g == SelectFcn(d, o)
           n == Length(c)
           l == Length(d)
           T == {m \in 0..n : f[m] = g[m]}
<1>1. Selects(f, c, o, n) /\ Selected(c, o) = f[n] /\ Selects(g, d, o, l) /\ Selected(d, o) = g[l]
    BY ZenonT(30), SelectExists DEF AtMostOneMore
<1>2. n \in Nat /\ l \in Nat /\ (l = n \/ l = n + 1)
    BY ZenonT(30) DEF AtMostOneMore
<1>3. \A i \in 1..n : Passes(c, o, i) <=> Passes(d, o, i)
    BY ZenonT(30) DEF Passes, AtMostOneMore
<1> HIDE DEF f, g, n, l
<1>4. f[0] = g[0] /\ f[n] \in Seq(Nat)
    <2>1. n \in 0..n
        BY <1>2
    <2> QED BY ZenonT(30), <1>1, <2>1 DEF Selects
<1>5. 0 \in T
    BY <1>2, <1>4
<1>6. ASSUME NEW m \in 0..(n - 1), m \in T PROVE m + 1 \in T
    <2>1. m + 1 \in 1..n /\ m + 1 \in 1..l /\ (m + 1) - 1 = m /\ m + 1 \in 0..n
        BY <1>2
    <2>2. f[m] = g[m]
        BY ZenonT(30), <1>6
    <2>3. f[m + 1] = Shown(c, o, m + 1, f[m]) /\ g[m + 1] = Shown(d, o, m + 1, g[m])
        BY ZenonT(30), <1>1, <2>1 DEF Selects
    <2>4. f[m + 1] = g[m + 1]
        BY ZenonT(30), <1>3, <2>1, <2>2, <2>3 DEF Shown
    <2> QED BY ZenonT(30), <2>1, <2>4
<1> HIDE DEF T
<1>7. n \in T
    <2>1. n \in 0..n
        BY <1>2
    <2> QED BY ZenonT(30), <1>2, <1>5, <1>6, <2>1, Counting
<1>8. f[n] = g[n]
    BY ZenonT(30), <1>7 DEF T
<1>9. CASE l = n
    <2>1. f[n] = f[n] \o << >> /\ << >> \in Seq(Nat)
        BY <1>4
    <2> QED BY ZenonT(30), <1>1, <1>8, <1>9, <2>1
<1>10. CASE l = n + 1
    <2>1. l \in 1..l /\ l - 1 = n
        BY <1>2, <1>10
    <2>2. g[l] = Shown(d, o, l, g[n])
        BY ZenonT(30), <1>1, <2>1 DEF Selects
    <2>3. g[l] = g[n] \/ g[l] = g[n] \o <<l>>
        BY ZenonT(30), <2>2 DEF Shown
    <2>4. f[n] = f[n] \o << >> /\ << >> \in Seq(Nat) /\ <<l>> \in Seq(Nat)
        BY <1>2, <1>4
    <2> QED BY ZenonT(30), <1>1, <1>8, <2>3, <2>4
<1> QED BY ZenonT(30), <1>2, <1>9, <1>10

-----------------------------------------------------------------------------
(* Pages *)

\* The first result of a page is the one after those of the pages before.
LEMMA PageStarts ==
    ASSUME NEW count \in Nat \ {0}, NEW page \in Nat
    PROVE  /\ page * count \in Nat /\ page <= page * count
           /\ (page + 1) * count = page * count + count
<1>1. count \in Nat /\ count >= 1
    OBVIOUS
<1> DEFINE T == {m \in Nat : m <= m * count}
<1>2. 0 * count = 0
    BY <1>1
<1>3. \A m \in Nat : m * count \in Nat /\ (m + 1) * count = m * count + count
    BY <1>1
<1>4. 0 \in T
    BY <1>2
<1>5. ASSUME NEW m \in 0..(page - 1), m \in T PROVE m + 1 \in T
    <2>1. m \in Nat /\ m <= m * count
        BY ZenonT(30), <1>5
    <2>2. m * count \in Nat /\ (m + 1) * count = m * count + count
        BY ZenonT(30), <1>3, <2>1
    <2>3. m + 1 <= (m + 1) * count
        BY <1>1, <2>1, <2>2
    <2> QED BY <2>1, <2>3
<1> HIDE DEF T
<1>6. page \in T
    <2>1. page \in 0..page
        OBVIOUS
    <2> QED BY ZenonT(30), <1>4, <1>5, <2>1, Counting
<1>7. page <= page * count
    BY ZenonT(30), <1>6 DEF T
<1> QED BY ZenonT(30), <1>3, <1>7

\* A page that is full does not change when results are added at the end.
LEMMA FullPage ==
    ASSUME NEW r \in Seq(Nat), NEW s \in Seq(Nat), NEW count \in Nat \ {0}, NEW page \in Nat,
           Len(Paged(r, count, page)) = count
    PROVE  Paged(r \o s, count, page) = Paged(r, count, page)
<1> DEFINE start == page * count
           n == Len(r)
           end == IF start + count > n THEN n ELSE start + count
           l == Len(r \o s)
           fin == IF start + count > l THEN l ELSE start + count
<1>1. start \in Nat
    BY ZenonT(30), PageStarts
<1>2. n \in Nat /\ l \in Nat /\ n <= l /\ count \in Nat /\ count >= 1
    OBVIOUS
<1>3. /\ Paged(r, count, page) = IF start >= n THEN << >> ELSE SubSeq(r, start + 1, end)
      /\ Paged(r \o s, count, page) = IF start >= l THEN << >> ELSE SubSeq(r \o s, start + 1, fin)
    BY ZenonT(30) DEF Paged
<1> HIDE DEF start, n, l
<1>4. ~(start >= n)
    <2> SUFFICES ASSUME start >= n PROVE FALSE
        OBVIOUS
    <2>1. Len(<< >>) = count
        BY ZenonT(30), <1>3
    <2> QED BY <1>2, <2>1
<1>5. end \in Nat /\ start + 1 <= end /\ end <= n /\ (end = n \/ end = start + count)
    BY <1>1, <1>2, <1>4
<1>6. start + count <= n
    <2>1. \A i \in (start + 1)..end : r[i] \in Nat
        BY <1>1, <1>5 DEF n
    <2>2. Len(SubSeq(r, start + 1, end)) = IF start + 1 <= end THEN end - (start + 1) + 1 ELSE 0
        BY <1>1, <1>5, <2>1, PartIs
    <2>3. Len(SubSeq(r, start + 1, end)) = count
        BY ZenonT(30), <1>3, <1>4
    <2> QED BY <1>1, <1>2, <1>5, <2>2, <2>3
<1>7. end = start + count /\ fin = start + count /\ ~(start >= l)
    BY <1>1, <1>2, <1>6
<1>8. start + 1 \in 1..Len(r) /\ start + count \in 1..Len(r)
    BY <1>1, <1>2, <1>6 DEF n
<1>9. SubSeq(r \o s, start + 1, start + count) = SubSeq(r, start + 1, start + count)
    BY ZenonT(30), <1>8, PartOfFirst
<1> HIDE DEF end, fin
<1>10. Paged(r, count, page) = SubSeq(r, start + 1, start + count)
    BY ZenonT(30), <1>3, <1>4, <1>7
<1>11. Paged(r \o s, count, page) = SubSeq(r \o s, start + 1, start + count)
    BY ZenonT(30), <1>3, <1>7
<1> QED BY ZenonT(30), <1>9, <1>10, <1>11

\* How many results the first m pages show.
ShownBy(r, count, m) == IF m * count > Len(r) THEN Len(r) ELSE m * count

\* A page follows on what the pages before it show.
LEMMA PageFollows ==
    ASSUME NEW r \in Seq(Nat), NEW count \in Nat \ {0}, NEW m \in Nat
    PROVE  SubSeq(r, 1, ShownBy(r, count, m)) \o Paged(r, count, m)
             = SubSeq(r, 1, ShownBy(r, count, m + 1))
<1> DEFINE start == m * count
           n == Len(r)
           end == IF start + count > n THEN n ELSE start + count
<1>1. start \in Nat /\ (m + 1) * count = start + count
    BY ZenonT(30), PageStarts
<1>2. n \in Nat /\ count \in Nat /\ count >= 1
    OBVIOUS
<1>3. /\ Paged(r, count, m) = IF start >= n THEN << >> ELSE SubSeq(r, start + 1, end)
      /\ ShownBy(r, count, m) = IF start > n THEN n ELSE start
      /\ ShownBy(r, count, m + 1) = end
    BY ZenonT(30), <1>1 DEF Paged, ShownBy
<1> HIDE DEF start, n
<1>4. CASE start >= n
    <2>1. (IF start > n THEN n ELSE start) = n /\ end = n
        BY <1>1, <1>2, <1>4
    <2>2. SubSeq(r, 1, n) = r /\ r \o << >> = r
        BY WholePart DEF n
    <2> QED BY ZenonT(30), <1>3, <1>4, <2>1, <2>2
<1>5. CASE ~(start >= n)
    <2>1. (IF start > n THEN n ELSE start) = start
        BY <1>1, <1>2, <1>5
    <2>2. 1 \in 1..(Len(r) + 1) /\ start \in (1 - 1)..Len(r) /\ end \in start..Len(r)
        BY <1>1, <1>2, <1>5 DEF n
    <2>3. SubSeq(r, 1, start) \o SubSeq(r, start + 1, end) = SubSeq(r, 1, end)
        BY ZenonT(30), <2>2, PartsJoin
    <2> QED BY ZenonT(30), <1>3, <1>5, <2>1, <2>3
<1> QED BY ZenonT(30), <1>4, <1>5

\* The function by which Together is computed.
TogetherFcn(pages) ==
    CHOOSE f : f = [i \in 0..Len(pages) |-> IF i = 0 THEN << >> ELSE f[i - 1] \o pages[i]]

\* The pages put together are the results, if there are more pages than results.
LEMMA PagesTogether ==
    ASSUME NEW r \in Seq(Nat), NEW count \in Nat \ {0}, NEW n \in Nat, Len(r) <= n
    PROVE  Together([i \in 1..(n + 1) |-> Paged(r, count, i - 1)]) = r
<1> DEFINE k == n + 1
           pages == [i \in 1..k |-> Paged(r, count, i - 1)]
           f == [i \in 0..k |-> SubSeq(r, 1, ShownBy(r, count, i))]
           h == TogetherFcn(pages)
           T == {m \in 0..k : h[m] = f[m]}
<1>1. k \in Nat /\ Len(r) \in Nat
    OBVIOUS
<1>2. pages \in [1..k -> {Paged(r, count, i - 1) : i \in 1..k}]
    BY ZenonT(30)
<1> HIDE DEF pages
<1>3. Len(pages) = k
    BY <1>1, <1>2
<1>4. \A m \in 0..(k - 1) : m \in Nat /\ m \in 0..k /\ m + 1 \in 1..k /\ m + 1 \in 0..k /\ (m + 1) - 1 = m /\ m + 1 # 0
    BY <1>1
<1>5. \A i \in 0..k : i = 0 \/ (i # 0 /\ i \in 1..k /\ i - 1 \in 0..(k - 1) /\ (i - 1) + 1 = i)
    BY <1>1
<1>6. \A m \in 0..(k - 1) : f[m + 1] = f[m] \o pages[m + 1]
    <2> TAKE m \in 0..(k - 1)
    <2>1. pages[m + 1] = Paged(r, count, m)
        BY ZenonT(30), <1>4 DEF pages
    <2>2. f[m] \o Paged(r, count, m) = f[m + 1]
        BY ZenonT(30), <1>4, PageFollows
    <2> QED BY ZenonT(30), <2>1, <2>2
<1>7. f[0] = << >> /\ f[k] = r
    <2>1. 0 \in 0..k /\ k \in 0..k /\ 0 * count = 0
        BY <1>1
    <2>2. ShownBy(r, count, 0) = 0
        BY <1>1, <2>1 DEF ShownBy
    <2>3. k <= k * count /\ k * count \in Nat
        BY ZenonT(30), <1>1, PageStarts
    <2>4. k * count > Len(r)
        BY <1>1, <2>3
    <2>5. ShownBy(r, count, k) = Len(r)
        BY ZenonT(30), <2>4 DEF ShownBy
    <2>6. SubSeq(r, 1, Len(r)) = r /\ SubSeq(r, 1, 0) = << >>
        BY WholePart, NoPart
    <2> QED BY ZenonT(30), <2>1, <2>2, <2>5, <2>6
<1>8. f = [i \in 0..k |-> f[i]]
    BY ZenonT(30)
<1> HIDE DEF f
<1>9. f = [i \in 0..k |-> IF i = 0 THEN << >> ELSE f[i - 1] \o pages[i]]
    <2>1. ASSUME NEW i \in 0..k PROVE f[i] = IF i = 0 THEN << >> ELSE f[i - 1] \o pages[i]
        <3>1. CASE i = 0
            BY ZenonT(30), <1>7, <3>1
        <3>2. CASE i # 0
            <4>1. f[(i - 1) + 1] = f[i - 1] \o pages[(i - 1) + 1] /\ (i - 1) + 1 = i
                BY ZenonT(30), <1>5, <1>6, <3>2
            <4> QED BY ZenonT(30), <3>2, <4>1
        <3> QED BY ZenonT(30), <3>1, <3>2
    <2> QED BY ZenonT(30), <1>8, <2>1
<1>10. h = [i \in 0..k |-> IF i = 0 THEN << >> ELSE h[i - 1] \o pages[i]]
    BY ZenonT(30), <1>3, <1>9 DEF TogetherFcn
<1>11. Together(pages) = h[k]
    BY ZenonT(30), <1>3 DEF Together, TogetherFcn
<1> HIDE DEF h
<1>12. \A i \in 0..k : h[i] = IF i = 0 THEN << >> ELSE h[i - 1] \o pages[i]
    BY ZenonT(30), <1>10
<1>13. 0 \in T
    <2>1. 0 \in 0..k
        BY <1>1
    <2> QED BY ZenonT(30), <1>7, <1>12, <2>1
<1>14. ASSUME NEW m \in 0..(k - 1), m \in T PROVE m + 1 \in T
    <2>1. h[m] = f[m]
        BY ZenonT(30), <1>14
    <2>2. h[m + 1] = h[m] \o pages[m + 1]
        BY ZenonT(30), <1>4, <1>12
    <2> QED BY ZenonT(30), <1>4, <1>6, <2>1, <2>2
<1> HIDE DEF T
<1>15. k \in T
    <2>1. k \in 0..k
        BY <1>1
    <2> QED BY ZenonT(30), <1>1, <1>13, <1>14, <2>1, Counting
<1>16. h[k] = f[k]
    BY ZenonT(30), <1>15 DEF T
<1>17. Together(pages) = r
    BY ZenonT(30), <1>7, <1>11, <1>16
<1> QED BY ZenonT(30), <1>17 DEF pages

\* The pages of a query put together are its results, on any chain.
LEMMA PagesOfChain ==
    ASSUME Length(chain) \in Nat
    PROVE  PagesCover
<1> SUFFICES ASSUME NEW o \in QueryOptions, NEW count \in 1..MaxCount
             PROVE  Together([i \in 1..(Length(chain) + 1) |-> Query(chain, o, count, i - 1)])
                      = Query(chain, o, 0, 0)
    BY ZenonT(30) DEF PagesCover
<1> DEFINE r == Selected(chain, o)
           n == Length(chain)
<1>1. count \in Nat \ {0} /\ count > 0 /\ ~(0 > 0)
    BY ReadsAssumption
<1>2. r \in Seq(Nat) /\ Len(r) <= n /\ n \in Nat
    BY ZenonT(30), SelectedIs
<1>3. Query(chain, o, 0, 0) = r /\ \A i \in 1..(n + 1) : Query(chain, o, count, i - 1) = Paged(r, count, i - 1)
    BY ZenonT(30), <1>1 DEF Query
<1>4. [i \in 1..(n + 1) |-> Query(chain, o, count, i - 1)] = [i \in 1..(n + 1) |-> Paged(r, count, i - 1)]
    BY ZenonT(30), <1>3
<1> HIDE DEF r, n
<1>5. Together([i \in 1..(n + 1) |-> Paged(r, count, i - 1)]) = r
    BY ZenonT(30), <1>1, <1>2, PagesTogether
<1> QED BY ZenonT(30), <1>3, <1>4, <1>5 DEF n

\* What IsLast says of a map's index.
LEMMA LastAt ==
    ASSUME NEW n \in Nat, NEW S, S \subseteq 1..n, NEW x, IsLast(S, x)
    PROVE  (x # 0 => x \in S) /\ (n \in S => x = n /\ x # 0)
<1>1. x # 0 => x \in S
    BY ZenonT(30) DEF IsLast
<1>2. n \in S => x \in S /\ n <= x
    BY ZenonT(30) DEF IsLast
<1>3. n \in S => x \in 1..n /\ n <= x
    BY ZenonT(30), <1>2
<1>4. x \in 1..n /\ n <= x => x = n /\ x # 0
    OBVIOUS
<1> QED BY ZenonT(30), <1>1, <1>3, <1>4

\* The lookups agree where the chain is the one that its headers determine.
LEMMA InvLookups == IInv => LookupsAgree
<1> SUFFICES ASSUME IInv PROVE LookupsAgree
    BY ZenonT(30)
<1> DEFINE q == chain.Headers
           n == Len(q)
           OfT(t) == {i \in 1..n : q[i].Type = t}
           OfE(e) == {i \in 1..n : q[i].EntryLink = e}
<1>1. Good(q) /\ chain = Of(q) /\ n \in Nat /\ q \in Seq(Header)
    BY DEF IInv, ChainInv, Good
<1>2. Length(chain) = n
    BY ZenonT(30) DEF Length
<1>3. MapsAgree
    BY ZenonT(30), InvMaps
<1>4. PagesCover
    BY ZenonT(30), <1>1, <1>2, PagesOfChain
<1>5. \A i \in 1..n : chain.Hashes[i] = q[i].Sum /\ chain.Entries[i] = q[i].EntryLink
    BY ZenonT(30), <1>1, OfSeqs
<1>6. \A i \in 1..n : q[i].Type \in EntryType /\ q[i].EntryLink \in EntryHash
    BY <1>1, HeaderFields
<1>7. /\ \A t \in EntryType : IsLast(OfT(t), chain.TypeTops[t])
      /\ \A e \in EntryHash : IsLast(OfE(e), chain.Emap[e])
      /\ DOMAIN chain.Hmap = {chain.Hashes[i] : i \in 1..n}
      /\ \A i \in 1..n : chain.Hmap[chain.Hashes[i]] = i
    BY ZenonT(30), <1>2, <1>3 DEF MapsAgree
<1>8. \A i \in 1..n : Get(chain, q[i].Sum) = {q[i]}
    BY ZenonT(30), <1>5, <1>7 DEF Get
<1>9. \A t : OfT(t) \subseteq 1..n /\ OfE(t) \subseteq 1..n
    BY ZenonT(30)
<1>10. ASSUME NEW t \in EntryType
       PROVE  /\ chain.TypeTops[t] # 0 => chain.TypeTops[t] \in OfT(t)
              /\ n \in OfT(t) => chain.TypeTops[t] = n /\ n # 0
    <2>1. IsLast(OfT(t), chain.TypeTops[t]) /\ OfT(t) \subseteq 1..n
        BY ZenonT(30), <1>7, <1>9
    <2> HIDE DEF OfT
    <2> QED BY ZenonT(30), <1>1, <2>1, LastAt
<1>11. ASSUME NEW e \in EntryHash
       PROVE  /\ chain.Emap[e] # 0 => chain.Emap[e] \in OfE(e)
              /\ n \in OfE(e) => chain.Emap[e] = n /\ n # 0
    <2>1. IsLast(OfE(e), chain.Emap[e]) /\ OfE(e) \subseteq 1..n
        BY ZenonT(30), <1>7, <1>9
    <2> HIDE DEF OfE
    <2> QED BY ZenonT(30), <1>1, <2>1, LastAt
<1>12. ASSUME NEW hd \in Top(chain)
       PROVE  /\ Get(chain, hd.Sum) = {hd} /\ TopType(chain, hd.Type) = {hd}
              /\ GetEntryHeader(chain, hd.EntryLink) = {hd}
    <2>1. n - 0 = n /\ (n > 0 => n \in 1..n)
        BY <1>1
    <2>2. hd = q[n] /\ n > 0
        BY ZenonT(30), <1>2, <1>12, <2>1 DEF Top, Nth
    <2>3. n \in 1..n /\ hd.Type \in EntryType /\ hd.EntryLink \in EntryHash
        BY ZenonT(30), <1>6, <2>1, <2>2
    <2>4. n \in OfT(hd.Type) /\ n \in OfE(hd.EntryLink)
        BY ZenonT(30), <2>2, <2>3
    <2> HIDE DEF OfT, OfE
    <2>5. chain.TypeTops[hd.Type] = n /\ chain.Emap[hd.EntryLink] = n /\ n # 0
        BY ZenonT(30), <1>10, <1>11, <2>3, <2>4
    <2> QED BY ZenonT(30), <1>8, <2>2, <2>3, <2>5 DEF TopType, GetEntryHeader
<1>13. ASSUME NEW t \in EntryType, NEW hd \in TopType(chain, t)
       PROVE  hd.Type = t /\ Get(chain, hd.Sum) = {hd}
    <2>1. chain.TypeTops[t] # 0 /\ hd = q[chain.TypeTops[t]]
        BY ZenonT(30), <1>13 DEF TopType
    <2>2. chain.TypeTops[t] \in 1..n /\ hd.Type = t
        BY ZenonT(30), <1>10, <2>1
    <2> QED BY ZenonT(30), <1>8, <2>1, <2>2
<1>14. ASSUME NEW e \in EntryHash, NEW hd \in GetEntryHeader(chain, e)
       PROVE  GetEntry(chain, e) = {[entry |-> e, entryType |-> hd.Type]}
    <2>1. chain.Emap[e] # 0 /\ hd = q[chain.Emap[e]]
        BY ZenonT(30), <1>14 DEF GetEntryHeader
    <2>2. chain.Emap[e] \in 1..n /\ hd.EntryLink = e
        BY ZenonT(30), <1>11, <2>1
    <2>3. chain.Entries[chain.Emap[e]] = e
        BY ZenonT(30), <1>5, <2>1, <2>2
    <2> QED BY ZenonT(30), <2>1, <2>3 DEF GetEntry
<1> QED BY ZenonT(30), <1>3, <1>4, <1>12, <1>13, <1>14 DEF LookupsAgree

\* Nth, Top, TopType, Get, GetEntry and GetEntryHeader agree on the chain whichever
\* commits and restarts made it, and the pages of Query put together are its results.
THEOREM ReadersAgree == Spec => []LookupsAgree
BY Invariance, InvLookups, PTL

\* As long as no write was cut short a step, a restart included, adds at most one
\* header to the chain and keeps those it has.
LEMMA ChainGrows ==
    ASSUME IInv, [Next]_vars, up', Undamaged(file')
    PROVE  LET q == chain.Headers
               r == chain'.Headers
           IN  (Len(r) = Len(q) \/ Len(r) = Len(q) + 1) /\ \A i \in 1..Len(q) : q[i] = r[i]
<1> DEFINE q == chain.Headers
           r == chain'.Headers
           Grown == (Len(r) = Len(q) \/ Len(r) = Len(q) + 1) /\ \A i \in 1..Len(q) : q[i] = r[i]
<1>1. /\ proc \in [Committer -> ProcState] /\ clock \in Nat /\ file \in Seq(Pair)
      /\ Good(q) /\ q \in Seq(Header) /\ chain = Of(q)
    BY ZenonT(30) DEF IInv, RestOK, ChainInv, Good
<1>2. chain' = chain => Grown
    BY ZenonT(30)
<1>3. ASSUME NEW p \in Committer, NEW hd \in Header, NEW written \in Written, AddHeader(p, hd, written)
      PROVE  Grown
    <2>1. r = Append(q, hd)
        BY ZenonT(30), <1>3 DEF AddHeader, addEntry
    <2>2. Len(r) = Len(q) + 1 /\ \A i \in 1..Len(q) : r[i] = q[i]
        BY SMTT(60), <1>1, <2>1, HeaderAppended
    <2> QED BY ZenonT(30), <2>2
<1>4. ASSUME NEW f \in Seq(Pair), NEW n \in Nat, IsFirm(file, n), Stored(n), IsFirm(f, n),
             \A i \in 1..n : f[i] = file[i], n = Len(f) => f = file, Restart(f)
      PROVE  Grown
    <2>1. Len(r) = n /\ \A i \in 1..n : r[i] = q[i]
        BY ZenonT(30), <1>4, RestartHeaders
    <2>2. file' = f
        BY ZenonT(30), <1>4 DEF Restart
    <2>3. n = Len(f)
        BY ZenonT(30), <1>4, <2>2, UndamagedFirm
    <2>4. Len(q) = n
        BY ZenonT(30), <1>4, <2>3 DEF Stored
    <2> QED BY ZenonT(30), <2>1, <2>4
<1>5. Len(chain.Hashes) = Len(q) /\ Len(chain.Entries) = Len(q)
    BY ZenonT(30), <1>1, OfSeqs
<1>6. ASSUME NEW p \in Committer, NEW t \in EntryType, NEW e \in EntryHash,
             NEW written \in Written, NewEntry(p, t, e, written)
      PROVE  Grown
    <2> DEFINE hd == prepareHeader(chain, t, e, clock + 1)
    <2>1. hd \in Header
        BY <1>1, PreparedFollows DEF NullHash
    <2>2. AddHeader(p, hd, written)
        BY ZenonT(30), <1>5, <1>6 DEF NewEntry, Matches
    <2> HIDE DEF hd, Grown
    <2> QED BY ZenonT(30), <1>3, <2>1, <2>2
<1>7. ASSUME NEW p \in Committer, NEW written \in Written, Add(p, written)
      PROVE  Grown
    <2> DEFINE hd == proc[p].header
    <2>1. hd \in Header
        BY ZenonT(30), <1>1, <1>7, ProcFields DEF Add, At
    <2>2. AddHeader(p, hd, written) \/ chain' = chain
        BY ZenonT(30), <1>7 DEF Add
    <2> HIDE DEF hd, Grown
    <2> QED BY ZenonT(30), <1>2, <1>3, <2>1, <2>2
<1>8. ASSUME Crash PROVE Grown
    <2>1. PICK n \in Nat : IsFirm(file, n) /\ Stored(n)
        BY ZenonT(30), <1>8 DEF IInv, FileInv, Crash, Restart
    <2>2. Restart(file) /\ \A i \in 1..n : file[i] = file[i]
        BY ZenonT(30), <1>8 DEF Crash
    <2> HIDE DEF Grown
    <2> QED BY ZenonT(30), <1>1, <1>4, <2>1, <2>2
<1>9. ASSUME NEW p \in Committer, NEW damage \in Damage, CrashWriting(p, damage)
      PROVE  Grown
    <2>1. PICK f \in Seq(Pair), n \in Nat :
              /\ IsFirm(file, n) /\ Stored(n) /\ IsFirm(f, n) /\ Restart(f)
              /\ (\A i \in 1..n : f[i] = file[i]) /\ n # Len(f)
        BY ZenonT(30), <1>9, CutFirm
    <2> HIDE DEF Grown
    <2> QED BY ZenonT(30), <1>4, <2>1
<1>10. ASSUME NEW p \in Committer, Prepare(p) \/ Valid(p) \/ Invalid(p) \/ PrepareAgain(p)
       PROVE  chain' = chain
    BY ZenonT(30), <1>10 DEF Prepare, Valid, Invalid, PrepareAgain
<1>11. ASSUME NEW p \in Committer, NEW t \in EntryType, NEW e \in EntryHash, StartCommit(p, t, e)
       PROVE  chain' = chain
    BY ZenonT(30), <1>11 DEF StartCommit
<1>12. UNCHANGED vars => chain' = chain
    BY ZenonT(30) DEF vars
<1> HIDE DEF Grown
<1>13. Grown
    <2>1. CASE UNCHANGED vars
        BY ZenonT(30), <1>2, <1>12, <2>1
    <2>2. ASSUME NEW p \in Committer, Step(p) PROVE Grown
        BY ZenonT(30), <1>2, <1>7, <1>10, <2>2 DEF Step
    <2>3. CASE Next
        BY ZenonT(30), <1>2, <1>6, <1>8, <1>9, <1>11, <2>2, <2>3 DEF Next
    <2> QED BY ZenonT(30), <2>1, <2>3
<1> QED BY ZenonT(30), <1>13 DEF Grown

\* A page that was full when Query returned it stays as it is whatever is committed,
\* and whenever the node restarts, as long as no write was cut short.
THEOREM PagesStay == Spec => FullPagesStay
<1> DEFINE Stays ==
      \A o \in QueryOptions, count \in 1..MaxCount, page \in 0..MaxCommits :
          /\ ~o.Ascending /\ Undamaged(file') /\ up'
          /\ Len(Query(chain, o, count, page)) = count
          => Query(chain', o, count, page) = Query(chain, o, count, page)
<1>1. IInv /\ IInv' /\ [Next]_vars => Stays
    <2> SUFFICES ASSUME IInv, IInv', [Next]_vars,
                        NEW o \in QueryOptions, NEW count \in 1..MaxCount, NEW page \in 0..MaxCommits,
                        ~o.Ascending, Undamaged(file'), up',
                        Len(Query(chain, o, count, page)) = count
                 PROVE  Query(chain', o, count, page) = Query(chain, o, count, page)
        BY ZenonT(30)
    <2> DEFINE c == chain
               d == chain'
               q == c.Headers
               r == d.Headers
    <2>1. Good(q) /\ c = Of(q) /\ Length(c) = Len(q) /\ Len(q) \in Nat
        BY DEF IInv, ChainInv, Good, Length
    <2>2. Good(r) /\ d = Of(r) /\ Length(d) = Len(r) /\ Len(r) \in Nat
        <3>1. Good(r) /\ d = Of(r) /\ Length(d) = Len(r)
            BY ZenonT(30) DEF IInv, ChainInv, Length
        <3> QED BY <3>1 DEF Good
    <2>3. (Len(r) = Len(q) \/ Len(r) = Len(q) + 1) /\ \A i \in 1..Len(q) : q[i] = r[i]
        BY ZenonT(30), ChainGrows
    <2>4. \A i \in 1..Len(q) : i \in 1..Len(r)
        BY <2>1, <2>2, <2>3
    <2>5. /\ \A i \in 1..Len(q) : c.Entries[i] = q[i].EntryLink
          /\ \A i \in 1..Len(r) : d.Entries[i] = r[i].EntryLink
        BY ZenonT(30), <2>1, <2>2, OfSeqs
    <2>6. \A i \in 1..Length(c) : c.Headers[i] = d.Headers[i] /\ c.Entries[i] = d.Entries[i]
        BY ZenonT(30), <2>1, <2>3, <2>4, <2>5
    <2>7. /\ Length(c) \in Nat /\ Length(d) \in Nat
          /\ Length(d) = Length(c) \/ Length(d) = Length(c) + 1
        BY ZenonT(30), <2>1, <2>2, <2>3
    <2> HIDE DEF c, d, q, r
    <2>8. PICK s \in Seq(Nat) : Selected(d, o) = Selected(c, o) \o s
        <3>1. AtMostOneMore(c, d)
            BY ZenonT(30), <2>6, <2>7 DEF AtMostOneMore
        <3>2. ~o.Ascending
            OBVIOUS
        <3> QED BY <3>1, <3>2, SelectedGrows
    <2>9. count \in Nat \ {0} /\ count > 0 /\ page \in Nat
        BY ReadsAssumption, ChainAssumption
    <2>10. Selected(c, o) \in Seq(Nat)
        BY ZenonT(30), <2>7, SelectedIs
    <2>11. /\ Query(c, o, count, page) = Paged(Selected(c, o), count, page)
           /\ Query(d, o, count, page) = Paged(Selected(d, o), count, page)
        BY ZenonT(30), <2>9 DEF Query
    <2>12. Len(Paged(Selected(c, o), count, page)) = count
        BY ZenonT(30), <2>11 DEF c
    <2>13. Paged(Selected(d, o), count, page) = Paged(Selected(c, o), count, page)
        <3> DEFINE results == Selected(c, o)
        <3> HIDE DEF results
        <3>1. results \in Seq(Nat) /\ Len(Paged(results, count, page)) = count
            BY ZenonT(30), <2>10, <2>12 DEF results
        <3>2. Paged(results \o s, count, page) = Paged(results, count, page)
            BY ZenonT(30), <2>9, <3>1, FullPage
        <3> QED BY ZenonT(30), <2>8, <3>2 DEF results
    <2>14. Query(d, o, count, page) = Query(c, o, count, page)
        BY ZenonT(30), <2>11, <2>13
    <2> QED BY ONLY <2>14 DEF c, d
<1> HIDE DEF Stays
<1>2. Spec => [][Stays]_vars
    BY <1>1, Invariance, PTL DEF Spec
<1> QED BY <1>2 DEF FullPagesStay, Stays

-----------------------------------------------------------------------------
(* Packages *)

\* MarshalChain writes header i.
Writes(c, o, i) == i = 1 \/ filterPass(c.Headers[i], o.types, {})

\* The function by which ToWrite is computed.
WriteFcn(c, o) ==
    CHOOSE f : f = [i \in 0..Length(c) |->
                       IF i = 0 THEN << >>
                       ELSE IF Writes(c, o, i) THEN f[i - 1] \o <<i>> ELSE f[i - 1]]

\* What the loop has found after m headers; all is whether it takes every one.
Found(r, m, all) ==
    /\ m > 0 => Len(r) > 0
    /\ all => Len(r) = m /\ \A i \in 1..m : r[i] = i

LEMMA FoundNext ==
    ASSUME NEW n \in Nat, NEW m \in 0..(n - 1), NEW r \in Seq(1..n), NEW all, Found(r, m, all)
    PROVE  /\ r \o <<m + 1>> \in Seq(1..n)
           /\ Found(r \o <<m + 1>>, m + 1, all)
           /\ ~all /\ m > 0 => Found(r, m + 1, all)
<1>1. m \in Nat /\ m + 1 \in 1..n /\ Len(r) \in Nat /\ m + 1 > 0
    OBVIOUS
<1>2. /\ r \o <<m + 1>> \in Seq(1..n) /\ Len(r \o <<m + 1>>) = Len(r) + 1
      /\ \A i \in 1..Len(r) : (r \o <<m + 1>>)[i] = r[i]
      /\ (r \o <<m + 1>>)[Len(r) + 1] = m + 1
    BY <1>1
<1> DEFINE s == r \o <<m + 1>>
<1> HIDE DEF s
<1>3. all => Len(s) = m + 1 /\ \A i \in 1..(m + 1) : s[i] = i
    <2> SUFFICES ASSUME all PROVE Len(s) = m + 1 /\ \A i \in 1..(m + 1) : s[i] = i
        BY ZenonT(30)
    <2>1. Len(r) = m /\ \A i \in 1..m : r[i] = i
        BY ZenonT(30) DEF Found
    <2>2. Len(s) = m + 1 /\ s[m + 1] = m + 1 /\ \A i \in 1..m : s[i] = i
        BY ZenonT(30), <1>2, <2>1 DEF s
    <2>3. \A i \in 1..(m + 1) : i \in 1..m \/ i = m + 1
        BY <1>1
    <2> QED BY ZenonT(30), <2>2, <2>3
<1>4. Len(s) > 0
    BY <1>1, <1>2 DEF s
<1>5. Found(s, m + 1, all)
    BY ZenonT(30), <1>3, <1>4 DEF Found
<1>6. ~all /\ m > 0 => Found(r, m + 1, all)
    BY ZenonT(30) DEF Found
<1> QED BY ZenonT(30), <1>2, <1>5, <1>6 DEF s

\* A package of any chain has its first header and no other than its headers, and
\* all of them if no type is asked for by name.
LEMMA ToWriteIs ==
    ASSUME NEW c, NEW o, Length(c) \in Nat \ {0}
    PROVE  /\ ToWrite(c, o) \in Seq(1..Length(c)) /\ Len(ToWrite(c, o)) > 0
           /\ o.types = {} => /\ Len(ToWrite(c, o)) = Length(c)
                              /\ \A i \in 1..Length(c) : ToWrite(c, o)[i] = i
<1> DEFINE n == Length(c)
           S == Seq(1..n)
           all == o.types = {}
           step == [i \in 1..n |-> [r \in S |-> IF Writes(c, o, i) THEN r \o <<i>> ELSE r]]
           Body(f) == [i \in 0..n |-> IF i = 0 THEN << >>
                                      ELSE IF Writes(c, o, i) THEN f[i - 1] \o <<i>> ELSE f[i - 1]]
           h == WriteFcn(c, o)
<1> HIDE DEF n, S, all
<1>1. n \in Nat /\ 0 \in 0..n /\ << >> \in S /\ n \in 0..n /\ n > 0
    BY DEF n, S
<1>2. \A i \in 0..n : i = 0 \/ (i # 0 /\ i \in 1..n)
    BY <1>1
<1>3. \A i \in 1..n : i \in Nat /\ i # 0 /\ i \in 0..n /\ i - 1 \in 0..n
    BY <1>1
<1>4. \A i \in 1..n, r \in S : r \o <<i>> \in S
    BY <1>1 DEF S
<1>5. /\ step \in [1..n -> [S -> S]]
      /\ \A i \in 1..n, r \in S : step[i][r] = IF Writes(c, o, i) THEN r \o <<i>> ELSE r
    BY ZenonT(30), <1>4
<1> HIDE DEF step
<1>6. PICK f \in [0..n -> S] : Goes(f, << >>, step, n)
    BY ZenonT(30), <1>1, <1>5, Recursion
<1>7. f[0] = << >> /\ \A i \in 1..n : f[i] = IF Writes(c, o, i) THEN f[i - 1] \o <<i>> ELSE f[i - 1]
    BY ZenonT(30), <1>3, <1>5, <1>6 DEF Goes
<1>8. f = Body(f)
    <2>1. ASSUME NEW i \in 0..n
          PROVE  f[i] = IF i = 0 THEN << >> ELSE IF Writes(c, o, i) THEN f[i - 1] \o <<i>> ELSE f[i - 1]
        BY ZenonT(30), <1>2, <1>7
    <2> QED BY ZenonT(30), <1>6, <2>1
<1>9. h = Body(h)
    BY ZenonT(30), <1>8 DEF WriteFcn, n
<1>10. ToWrite(c, o) = h[n]
    BY ZenonT(30) DEF ToWrite, WriteFcn, Writes, n
<1> HIDE DEF h
<1>11. /\ h = [i \in 0..n |-> h[i]]
       /\ \A i \in 0..n : h[i] = IF i = 0 THEN << >>
                                 ELSE IF Writes(c, o, i) THEN h[i - 1] \o <<i>> ELSE h[i - 1]
    BY ZenonT(30), <1>9
<1>12. h[0] = << >> /\ \A i \in 1..n : h[i] = IF Writes(c, o, i) THEN h[i - 1] \o <<i>> ELSE h[i - 1]
    BY ZenonT(30), <1>1, <1>3, <1>11
<1>13. h \in [0..n -> S] /\ Goes(h, << >>, step, n)
    <2>1. \A i \in 1..n : h[i - 1] \in S => h[i] = step[i][h[i - 1]]
        BY ZenonT(30), <1>5, <1>12
    <2>2. h = [i \in 0..n |-> h[i]] /\ h[0] = << >>
        BY ZenonT(30), <1>11, <1>12
    <2> QED BY ZenonT(30), <1>1, <1>5, <2>1, <2>2, OneLoop
<1> DEFINE T == {m \in 0..n : Found(h[m], m, all)}
<1>14. 0 \in T
    <2>1. Len(<< >>) = 0 /\ 1..0 = {} /\ ~(0 > 0)
        OBVIOUS
    <2>2. Found(<< >>, 0, all)
        BY ZenonT(30), <2>1 DEF Found
    <2> QED BY ZenonT(30), <1>1, <1>12, <2>2
<1>15. ASSUME NEW m \in 0..(n - 1), m \in T PROVE m + 1 \in T
    <2>1. m \in 0..n /\ m + 1 \in 1..n /\ m + 1 \in 0..n /\ (m + 1) - 1 = m /\ (m > 0 \/ m + 1 = 1)
        BY <1>1
    <2>2. h[m] \in Seq(1..n) /\ Found(h[m], m, all)
        BY ZenonT(30), <1>13, <1>15, <2>1 DEF S
    <2>3. h[m + 1] = IF Writes(c, o, m + 1) THEN h[m] \o <<m + 1>> ELSE h[m]
        BY ZenonT(30), <1>12, <2>1
    <2>4. /\ Found(h[m] \o <<m + 1>>, m + 1, all)
          /\ ~all /\ m > 0 => Found(h[m], m + 1, all)
        BY ZenonT(30), <1>1, <2>2, FoundNext
    <2>5. ~Writes(c, o, m + 1) => ~all /\ m > 0
        BY ZenonT(30), <2>1 DEF Writes, filterPass, all
    <2>6. Found(h[m + 1], m + 1, all)
        BY ZenonT(30), <2>3, <2>4, <2>5
    <2> QED BY ZenonT(30), <2>1, <2>6
<1> HIDE DEF T
<1>16. n \in T
    BY ZenonT(30), <1>1, <1>14, <1>15, Counting
<1>17. h[n] \in Seq(1..n) /\ Found(h[n], n, all)
    BY ZenonT(30), <1>1, <1>13, <1>16 DEF T, S
<1> QED BY ZenonT(30), <1>1, <1>10, <1>17 DEF Found, all, n

\* The header and the entry of pair k.
HeaderAt(pkg, k) == pkg.pairs[k].hd[1]
EntryAt(pkg, k) == pkg.pairs[k].entry[1]

\* The hash that a reader takes for that of header k.
HashAt(pkg, n, k) == IF k < n THEN HeaderAt(pkg, k + 1).HeaderLink ELSE pkg.hash

\* The chain that MakeValidationPackage looks at.
FullOf(dna, pkg) ==
    IF pkg.entries THEN [UnmarshalChain(pkg) EXCEPT !.Entries[1] = dna] ELSE UnmarshalChain(pkg)

\* full has the headers, the hashes and the entries of the package, and the DNA.
ReadFrom(full, pkg, n, dna) ==
    /\ full.Headers = [k \in 1..n |-> HeaderAt(pkg, k)] /\ Length(full) = n
    /\ full.Hashes = [k \in 1..n |-> HashAt(pkg, n, k)]
    /\ pkg.entries => full.Entries = [[k \in 1..n |-> EntryAt(pkg, k)] EXCEPT ![1] = dna]

\* What is read from a package with headers.
LEMMA FullFields ==
    ASSUME NEW pkg, NEW dna, Len(pkg.pairs) \in Nat, pkg.headers
    PROVE  ReadFrom(FullOf(dna, pkg), pkg, Len(pkg.pairs), dna)
<1> DEFINE n == Len(pkg.pairs)
           q == [k \in 1..n |-> pkg.pairs[k].hd[1]]
           hs == [k \in 1..n |-> IF k < n THEN q[k + 1].HeaderLink ELSE pkg.hash]
           es == [k \in 1..n |-> pkg.pairs[k].entry[1]]
           u == UnmarshalChain(pkg)
           full == FullOf(dna, pkg)
<1>1. u = [(IF pkg.headers THEN ChainWith(hs, q) ELSE NewChain)
              EXCEPT !.Entries = IF pkg.entries THEN es ELSE << >>]
    BY ZenonT(30) DEF UnmarshalChain
<1> HIDE DEF n
<1>2. Len(q) = n
    <2>1. q \in [1..n -> {pkg.pairs[k].hd[1] : k \in 1..n}] /\ n \in Nat
        BY ZenonT(30) DEF n
    <2> HIDE DEF q
    <2> QED BY <2>1
<1>3. hs = [k \in 1..n |-> HashAt(pkg, n, k)]
    <2>1. \A k \in 1..n : k < n => k + 1 \in 1..n
        BY DEF n
    <2>2. \A k \in 1..n : q[k] = HeaderAt(pkg, k)
        BY ZenonT(30) DEF HeaderAt
    <2> HIDE DEF q
    <2>3. \A k \in 1..n : (IF k < n THEN q[k + 1].HeaderLink ELSE pkg.hash) = HashAt(pkg, n, k)
        BY ZenonT(30), <2>1, <2>2 DEF HashAt
    <2> QED BY ZenonT(30), <2>3
<1>4. q = [k \in 1..n |-> HeaderAt(pkg, k)] /\ es = [k \in 1..n |-> EntryAt(pkg, k)]
    BY ZenonT(30) DEF HeaderAt, EntryAt
<1> HIDE DEF q, hs, es, u
<1>5. u = [ChainWith(hs, q) EXCEPT !.Entries = IF pkg.entries THEN es ELSE << >>]
    BY ZenonT(30), <1>1
<1>6. u.Headers = q /\ u.Hashes = hs /\ (pkg.entries => u.Entries = es)
    BY ZenonT(30), <1>5 DEF ChainWith
<1>7. DOMAIN u = {"Hashes", "Headers", "Entries", "TypeTops", "Hmap", "Emap"}
    BY ZenonT(30), <1>5 DEF ChainWith
<1>8. full.Headers = q /\ full.Hashes = hs /\ (pkg.entries => full.Entries = [es EXCEPT ![1] = dna])
    <2>1. full = IF pkg.entries THEN [u EXCEPT !.Entries[1] = dna] ELSE u
        BY ZenonT(30) DEF FullOf, u
    <2>2. /\ [u EXCEPT !.Entries[1] = dna].Headers = u.Headers
          /\ [u EXCEPT !.Entries[1] = dna].Hashes = u.Hashes
          /\ [u EXCEPT !.Entries[1] = dna].Entries = [u.Entries EXCEPT ![1] = dna]
        BY ZenonT(30), <1>7
    <2> HIDE DEF full
    <2> QED BY ZenonT(30), <1>6, <2>1, <2>2
<1>9. Length(full) = n
    BY ZenonT(30), <1>2, <1>8 DEF Length
<1> HIDE DEF full
<1>10. ReadFrom(full, pkg, n, dna)
    BY ZenonT(30), <1>3, <1>4, <1>8, <1>9 DEF ReadFrom
<1> QED BY ZenonT(30), <1>10 DEF full, n

\* Pair k says that header k has another hash, or its entry another hash, than it has.
Disagrees(pkg, n, k) ==
    \/ HeaderAt(pkg, k).Sum # HashAt(pkg, n, k)
    \/ pkg.entries /\ k # 1 /\ EntryAt(pkg, k) # HeaderAt(pkg, k).EntryLink

\* A package in which a pair disagrees is refused.
LEMMA Refused ==
    ASSUME NEW pkg, NEW dna, NEW n \in Nat, Len(pkg.pairs) = n, pkg.headers,
           NEW k \in 1..n, Disagrees(pkg, n, k)
    PROVE  MakeValidationPackage(dna, pkg) = {}
<1> DEFINE full == FullOf(dna, pkg)
           es == [i \in 1..n |-> EntryAt(pkg, i)]
<1>1. /\ full.Headers = [i \in 1..n |-> HeaderAt(pkg, i)] /\ Length(full) = n
      /\ full.Hashes = [i \in 1..n |-> HashAt(pkg, n, i)]
      /\ pkg.entries => full.Entries = [es EXCEPT ![1] = dna]
    <2>1. ReadFrom(full, pkg, n, dna)
        BY ZenonT(30), FullFields
    <2> HIDE DEF full
    <2> QED BY ZenonT(30), <2>1 DEF ReadFrom
<1> HIDE DEF full
<1>2. full.Headers[k] = HeaderAt(pkg, k) /\ full.Hashes[k] = HashAt(pkg, n, k)
    BY ZenonT(30), <1>1
<1>3. k < n - 1 => HashAt(pkg, n, k) = full.Headers[k + 1].HeaderLink
    <2>1. k < n - 1 => k < n /\ k + 1 \in 1..n
        OBVIOUS
    <2>2. k + 1 \in 1..n => full.Headers[k + 1] = HeaderAt(pkg, k + 1)
        BY ZenonT(30), <1>1
    <2>3. k < n => HashAt(pkg, n, k) = HeaderAt(pkg, k + 1).HeaderLink
        BY ZenonT(30) DEF HashAt
    <2> QED BY ZenonT(30), <2>1, <2>2, <2>3
<1>4. pkg.entries /\ k # 1 => full.Entries[k] = EntryAt(pkg, k)
    BY ZenonT(30), <1>1
<1>5. ~Validate(full, ~pkg.entries)
    <2> SUFFICES ASSUME Validate(full, ~pkg.entries) PROVE FALSE
        BY ZenonT(30)
    <2>1. /\ full.Headers[k].Sum = IF k < n - 1 THEN full.Headers[k + 1].HeaderLink
                                                ELSE full.Hashes[k]
          /\ pkg.entries => full.Entries[k] = full.Headers[k].EntryLink
        BY ZenonT(30), <1>1 DEF Validate
    <2>2. HeaderAt(pkg, k).Sum = HashAt(pkg, n, k)
        BY ZenonT(30), <1>2, <1>3, <2>1
    <2> QED BY ZenonT(30), <1>2, <1>4, <2>1, <2>2 DEF Disagrees
<1> QED BY ZenonT(30), <1>5 DEF MakeValidationPackage, FullOf, full

IsPackage(pkg, headers, entries, pairs, hash) ==
    pkg = [headers |-> headers, entries |-> entries, pairs |-> pairs, hash |-> hash]

LEMMA IsPackageFields ==
    ASSUME NEW pkg, NEW a, NEW b, NEW pairs, NEW h, IsPackage(pkg, a, b, pairs, h)
    PROVE  /\ pkg.headers = a /\ pkg.entries = b /\ pkg.pairs = pairs /\ pkg.hash = h
           /\ \A ps : IsPackage([pkg EXCEPT !.pairs = ps], a, b, ps, h)
<1>1. pkg = [headers |-> a, entries |-> b, pairs |-> pairs, hash |-> h]
    BY ZenonT(30) DEF IsPackage
<1>2. pkg.headers = a /\ pkg.entries = b /\ pkg.pairs = pairs /\ pkg.hash = h
    BY <1>1
<1>3. ASSUME NEW ps PROVE [pkg EXCEPT !.pairs = ps] = [headers |-> a, entries |-> b, pairs |-> ps, hash |-> h]
    BY <1>1
<1> QED BY ZenonT(30), <1>2, <1>3 DEF IsPackage

\* The pair with another header, or another entry.
WithHeader(pair, v) == [pair EXCEPT !.hd[1].Sum = v]
WithEntry(pair, e) == [pair EXCEPT !.entry = <<e>>]

IsPair(pair, hd, e) == pair = [hd |-> <<hd>>, entry |-> e]

Changes(pair, hd, v, f) ==
    /\ WithHeader(pair, v).hd[1].Sum = v
    /\ WithHeader(pair, v).hd[1].HeaderLink = hd.HeaderLink
    /\ WithEntry(pair, f).hd[1] = hd /\ WithEntry(pair, f).entry[1] = f

LEMMA OtherPair ==
    ASSUME NEW hd \in Header, NEW e, NEW v, NEW f, NEW pair, IsPair(pair, hd, e)
    PROVE  Changes(pair, hd, v, f)
<1> DEFINE g == [hd EXCEPT !.Sum = v]
<1>1. g.Sum = v /\ g.HeaderLink = hd.HeaderLink
    BY ZenonT(30) DEF Header
<1>2. [<<hd>> EXCEPT ![1].Sum = v] = <<g>>
    OBVIOUS
<1> HIDE DEF g
<1>3. WithHeader(pair, v).hd = <<g>> /\ <<g>>[1] = g
    BY <1>2 DEF WithHeader, IsPair
<1>4. WithEntry(pair, f).hd = <<hd>> /\ WithEntry(pair, f).entry = <<f>>
    BY DEF WithEntry, IsPair
<1>5. <<hd>>[1] = hd /\ <<f>>[1] = f
    OBVIOUS
<1> QED BY ZenonT(30), <1>1, <1>3, <1>4, <1>5 DEF Changes

\* A package in which a header or an entry was changed.
LEMMA OtherPackage ==
    ASSUME NEW pkg, NEW a, NEW b, NEW pairs, NEW h, NEW k, NEW e, IsPackage(pkg, a, b, pairs, h)
    PROVE  /\ IsPackage(OtherHeader(pkg, k), a, b, [pairs EXCEPT ![k] = WithHeader(pairs[k], clock + 1)], h)
           /\ IsPackage(OtherEntry(pkg, k, e), a, b, [pairs EXCEPT ![k] = WithEntry(pairs[k], e)], h)
<1> DEFINE ps == [pairs EXCEPT ![k] = WithHeader(pairs[k], clock + 1)]
           qs == [pairs EXCEPT ![k] = WithEntry(pairs[k], e)]
<1>1. pkg.pairs = pairs
    BY ZenonT(30), IsPackageFields
<1>2. /\ [pairs EXCEPT ![k].hd[1].Sum = clock + 1] = [pairs EXCEPT ![k] = WithHeader(pairs[k], clock + 1)]
      /\ [pairs EXCEPT ![k].entry = <<e>>] = [pairs EXCEPT ![k] = WithEntry(pairs[k], e)]
    BY ZenonT(30) DEF WithHeader, WithEntry
<1>3. OtherHeader(pkg, k) = [pkg EXCEPT !.pairs = ps] /\ OtherEntry(pkg, k, e) = [pkg EXCEPT !.pairs = qs]
    BY ZenonT(30), <1>1, <1>2 DEF OtherHeader, OtherEntry
<1> HIDE DEF ps, qs
<1>4. /\ IsPackage([pkg EXCEPT !.pairs = ps], a, b, ps, h)
      /\ IsPackage([pkg EXCEPT !.pairs = qs], a, b, qs, h)
    BY ZenonT(30), IsPackageFields
<1>5. IsPackage(OtherHeader(pkg, k), a, b, ps, h) /\ IsPackage(OtherEntry(pkg, k, e), a, b, qs, h)
    BY ZenonT(30), <1>3, <1>4
<1> QED BY ZenonT(30), <1>5 DEF ps, qs

\* A package with headers is refused if a header is changed, so that its hash is
\* one that no header links to, or if an entry other than the DNA is.
LEMMA ChangedRefused ==
    ASSUME NEW dna, NEW n \in Nat, NEW q \in [1..n -> Header], NEW es, NEW pairs, NEW entries, NEW h,
           NEW k \in 1..n, h # clock + 1, \A i \in 1..n : q[i].HeaderLink # clock + 1,
           pairs = [i \in 1..n |-> [hd |-> <<q[i]>>, entry |-> es[i]]],
           NEW pkg, IsPackage(pkg, TRUE, entries, pairs, h)
    PROVE  /\ MakeValidationPackage(dna, OtherHeader(pkg, k)) = {}
           /\ \A e : entries /\ k # 1 /\ e # q[k].EntryLink
                     => MakeValidationPackage(dna, OtherEntry(pkg, k, e)) = {}
<1> DEFINE P == {[hd |-> <<q[i]>>, entry |-> es[i]] : i \in 1..n}
<1>1. /\ pairs \in [1..n -> P] /\ pairs[k] = [hd |-> <<q[k]>>, entry |-> es[k]] /\ q[k] \in Header
      /\ \A i \in 1..n : pairs[i].hd = <<q[i]>>
    BY ZenonT(30)
<1>2. \A i \in 1..n : pairs[i].hd[1] = q[i]
    <2>1. \A x : <<x>>[1] = x
        OBVIOUS
    <2> QED BY ZenonT(30), <1>1, <2>1
<1> HIDE DEF P
<1>5. ASSUME NEW v, NEW f
      PROVE  Changes(pairs[k], q[k], v, f)
    <2> DEFINE pair == pairs[k]
               hd == q[k]
               e == es[k]
    <2>1. hd \in Header /\ IsPair(pair, hd, e)
        BY ZenonT(30), <1>1 DEF IsPair
    <2> HIDE DEF pair, hd, e
    <2>2. Changes(pair, hd, v, f)
        BY ONLY ZenonT(30), <2>1, OtherPair
    <2> QED BY ONLY ZenonT(30), <2>2 DEF pair, hd
<1>3. MakeValidationPackage(dna, OtherHeader(pkg, k)) = {}
    <2> DEFINE x == WithHeader(pairs[k], clock + 1)
               ps == [pairs EXCEPT ![k] = x]
               other == OtherHeader(pkg, k)
    <2>1. IsPackage(other, TRUE, entries, ps, h)
        BY ZenonT(30), OtherPackage
    <2>2. x.hd[1].Sum = clock + 1 /\ x.hd[1].HeaderLink = q[k].HeaderLink
        BY ZenonT(30), <1>5 DEF Changes
    <2> HIDE DEF x
    <2>3. ps \in [1..n -> P \cup {x}] /\ ps[k] = x /\ \A i \in 1..n : i # k => ps[i] = pairs[i]
        BY ZenonT(30), <1>1
    <2> HIDE DEF ps, other
    <2>4. Len(ps) = n
        BY ONLY <2>3, n \in Nat
    <2>5. other.headers /\ other.pairs = ps /\ other.hash = h
        BY ZenonT(30), <2>1, IsPackageFields
    <2>6. ASSUME NEW i \in 1..n PROVE HeaderAt(other, i).HeaderLink # clock + 1
        <3>1. q[i].HeaderLink # clock + 1 /\ HeaderAt(other, i) = ps[i].hd[1]
            BY ZenonT(30), <2>5 DEF HeaderAt
        <3>2. CASE i = k
            BY ZenonT(30), <3>1, <3>2, <2>2, <2>3
        <3>3. CASE i # k
            BY ZenonT(30), <3>1, <3>3, <1>2, <2>3
        <3> QED BY ZenonT(30), <3>2, <3>3
    <2>7. HeaderAt(other, k).Sum = clock + 1
        BY ZenonT(30), <2>2, <2>3, <2>5 DEF HeaderAt
    <2>8. k < n => k + 1 \in 1..n
        OBVIOUS
    <2>9. HashAt(other, n, k) # clock + 1
        BY ZenonT(30), <2>5, <2>6, <2>8 DEF HashAt
    <2>10. Disagrees(other, n, k) /\ Len(other.pairs) = n
        BY ZenonT(30), <2>4, <2>5, <2>7, <2>9 DEF Disagrees
    <2>11. MakeValidationPackage(dna, other) = {}
        BY ZenonT(30), <2>5, <2>10, Refused
    <2> QED BY ZenonT(30), <2>11 DEF other
<1>4. ASSUME NEW e, entries, k # 1, e # q[k].EntryLink
      PROVE  MakeValidationPackage(dna, OtherEntry(pkg, k, e)) = {}
    <2> DEFINE x == WithEntry(pairs[k], e)
               ps == [pairs EXCEPT ![k] = x]
               other == OtherEntry(pkg, k, e)
    <2>1. IsPackage(other, TRUE, entries, ps, h)
        BY ZenonT(30), OtherPackage
    <2>2. x.hd[1] = q[k] /\ x.entry[1] = e
        BY ZenonT(30), <1>5 DEF Changes
    <2> HIDE DEF x
    <2>3. ps \in [1..n -> P \cup {x}] /\ ps[k] = x
        BY ZenonT(30), <1>1
    <2> HIDE DEF ps, other
    <2>4. Len(ps) = n
        BY ONLY <2>3, n \in Nat
    <2>5. other.headers /\ other.pairs = ps /\ other.entries = entries
        BY ZenonT(30), <2>1, IsPackageFields
    <2>6. HeaderAt(other, k) = q[k] /\ EntryAt(other, k) = e
        BY ZenonT(30), <2>2, <2>3, <2>5 DEF HeaderAt, EntryAt
    <2>7. Disagrees(other, n, k) /\ Len(other.pairs) = n
        BY ZenonT(30), <1>4, <2>4, <2>5, <2>6 DEF Disagrees
    <2>8. MakeValidationPackage(dna, other) = {}
        BY ZenonT(30), <2>5, <2>7, Refused
    <2> QED BY ZenonT(30), <2>8 DEF other
<1> QED BY ZenonT(30), <1>3, <1>4

\* What a package of the chain is made of.
LEMMA ChainFacts ==
    ASSUME IInv, Packages
    PROVE  LET H == chain.Headers
               L == Length(chain)
           IN  /\ L \in Nat \ {0} /\ L = Len(H) /\ H \in [1..L -> Header] /\ H \in Seq(Header)
               /\ clock \in Nat /\ chain = Of(H) /\ chain.Hashes = Sums(H)
               /\ \A i \in 1..L : /\ chain.Hashes[i] = H[i].Sum /\ H[i].Sum \in Nat /\ H[i].Sum <= clock
                                  /\ chain.Entries[i] = H[i].EntryLink
                                  /\ H[i].HeaderLink = IF i = 1 THEN NullHash ELSE H[i - 1].Sum
<1> DEFINE H == chain.Headers
           L == Len(H)
<1>1. /\ chain = Of(H) /\ Good(H) /\ H \in Seq(Header) /\ H # << >> /\ clock \in Nat
      /\ \A i \in 1..L : H[i].Sum <= clock
    BY ZenonT(30) DEF IInv, ChainInv, RestOK, Packages, Good
<1>2. \A i \in 1..L : chain.Hashes[i] = H[i].Sum /\ chain.Entries[i] = H[i].EntryLink
    BY ZenonT(30), <1>1, OfSeqs
<1>3. chain.Hashes = Sums(H)
    BY ZenonT(30), <1>1, OfFields
<1>4. \A i \in 1..L : H[i].HeaderLink = IF i = 1 THEN NullHash ELSE H[i - 1].Sum
    BY ZenonT(30), <1>1 DEF Good, Chained
<1> HIDE DEF H
<1>5. L \in Nat \ {0} /\ H \in [1..L -> Header]
    BY <1>1
<1>6. \A i \in 1..L : H[i].Sum \in Nat
    <2>1. \A i \in 1..L : H[i] \in Header
        BY ZenonT(30), <1>5
    <2> HIDE DEF L
    <2> QED BY ZenonT(30), <2>1, HeaderFields
<1> HIDE DEF L
<1>7. Length(chain) = L
    BY ZenonT(30) DEF Length, L, H
<1> QED BY ZenonT(30), <1>1, <1>2, <1>3, <1>4, <1>5, <1>6, <1>7 DEF H, L

\* A package with headers in which one was changed, or an entry, is refused.
LEMMA InvAltered == IInv => AlteredRefused
<1> DEFINE Pkg(o) == MarshalChain(chain, o)
<1> SUFFICES ASSUME IInv, Packages, NEW o \in ChainOpt, o.headers, NEW k \in DOMAIN Pkg(o).pairs
             PROVE  /\ Received(OtherHeader(Pkg(o), k)) = {}
                    /\ \A e \in EntryHash \ {Pkg(o).pairs[k].hd[1].EntryLink} :
                          o.entries /\ k > 1 => Received(OtherEntry(Pkg(o), k, e)) = {}
    BY ZenonT(30) DEF AlteredRefused
<1> DEFINE H == chain.Headers
           L == Length(chain)
           tw == ToWrite(chain, o)
           n == Len(tw)
           q == [i \in 1..n |-> H[tw[i]]]
           es == [i \in 1..n |-> EntryToWrite(chain, tw[i], o)]
           pairs == [i \in 1..n |-> [hd |-> <<q[i]>>, entry |-> es[i]]]
           h == chain.Hashes[tw[n]]
           pkg == Pkg(o)
<1>1. /\ L \in Nat \ {0} /\ H \in [1..L -> Header] /\ clock \in Nat
      /\ \A i \in 1..L : /\ chain.Hashes[i] = H[i].Sum /\ H[i].Sum \in Nat /\ H[i].Sum <= clock
                         /\ H[i].HeaderLink = IF i = 1 THEN NullHash ELSE H[i - 1].Sum
    BY ZenonT(30), ChainFacts
<1>2. tw \in Seq(1..L) /\ Len(tw) > 0
    BY ZenonT(30), <1>1, ToWriteIs
<1>3. pkg = [headers |-> o.headers, entries |-> o.entries,
             pairs |-> [i \in DOMAIN tw |-> [hd |-> IF o.headers THEN <<H[tw[i]]>> ELSE << >>,
                                             entry |-> EntryToWrite(chain, tw[i], o)]],
             hash |-> h]
    BY DEF MarshalChain
<1> HIDE DEF H, L, tw, pkg
<1>4. n \in Nat /\ n \in 1..n /\ DOMAIN tw = 1..n /\ \A i \in 1..n : tw[i] \in 1..L
    <2> DEFINE S == 1..L
    <2>1. tw \in Seq(S) /\ Len(tw) > 0
        BY ZenonT(30), <1>2
    <2> HIDE DEF S
    <2>2. Len(tw) \in Nat /\ DOMAIN tw = 1..Len(tw) /\ \A i \in 1..Len(tw) : tw[i] \in S
        BY <2>1
    <2>3. Len(tw) \in 1..Len(tw)
        BY <2>1, <2>2
    <2> QED BY ZenonT(30), <2>2, <2>3 DEF S
<1> HIDE DEF n
<1>5. ASSUME NEW i \in 1..L PROVE H[i].HeaderLink # clock + 1 /\ chain.Hashes[i] # clock + 1
    <2>1. i = 1 \/ i - 1 \in 1..L
        BY <1>1
    <2>2. \A x \in Nat : x <= clock => x # clock + 1
        BY <1>1
    <2>3. NullHash # clock + 1
        BY <1>1 DEF NullHash
    <2> QED BY ZenonT(30), <1>1, <2>1, <2>2, <2>3
<1>6. /\ q \in [1..n -> Header] /\ h # clock + 1
      /\ \A i \in 1..n : q[i].HeaderLink # clock + 1
    BY ZenonT(30), <1>1, <1>4, <1>5
<1>7. pkg = [headers |-> TRUE, entries |-> o.entries, pairs |-> pairs, hash |-> h]
    <2>1. o.headers = TRUE
        BY ZenonT(30) DEF ChainOpt
    <2>2. [i \in DOMAIN tw |-> [hd |-> IF o.headers THEN <<H[tw[i]]>> ELSE << >>,
                                entry |-> EntryToWrite(chain, tw[i], o)]] = pairs
        BY ZenonT(30), <1>4, <2>1
    <2> HIDE DEF pairs, h
    <2> QED BY ZenonT(30), <1>3, <2>1, <2>2
<1>8. k \in 1..n /\ pkg.pairs[k].hd[1].EntryLink = q[k].EntryLink
    <2>1. pkg.pairs = pairs
        BY ZenonT(30), <1>7
    <2>2. k \in 1..n
        BY ZenonT(30), <2>1 DEF pkg
    <2>3. pairs[k].hd = <<q[k]>>
        BY ZenonT(30), <2>2
    <2>4. \A x : <<x>>[1] = x
        OBVIOUS
    <2> QED BY ZenonT(30), <2>1, <2>2, <2>3, <2>4
<1>9. IsPackage(pkg, TRUE, o.entries, pairs, h)
    BY ZenonT(30), <1>7 DEF IsPackage
<1>10. pairs = [i \in 1..n |-> [hd |-> <<q[i]>>, entry |-> es[i]]]
    OBVIOUS
<1> HIDE DEF pairs, h, q, es
<1>11. /\ MakeValidationPackage(chain.Entries[1], OtherHeader(pkg, k)) = {}
       /\ \A e : o.entries /\ k # 1 /\ e # q[k].EntryLink
                 => MakeValidationPackage(chain.Entries[1], OtherEntry(pkg, k, e)) = {}
    BY ZenonT(30), <1>4, <1>6, <1>8, <1>9, <1>10, ChangedRefused
<1>12. k > 1 => k # 1
    BY <1>4, <1>8
<1>13. /\ Received(OtherHeader(pkg, k)) = {}
       /\ \A e \in EntryHash \ {pkg.pairs[k].hd[1].EntryLink} :
             o.entries /\ k > 1 => Received(OtherEntry(pkg, k, e)) = {}
    BY ZenonT(30), <1>8, <1>11, <1>12 DEF Received
<1> QED BY ZenonT(30), <1>13 DEF pkg

\* Whoever changes a header of a package, or an entry other than the DNA, anywhere in
\* it, is found out by Validate.
THEOREM AlteredIsRefused == Spec => []AlteredRefused
BY Invariance, InvAltered, PTL

\* The pairs of a package.
LEMMA PairsOf ==
    ASSUME NEW o, IInv, Packages
    PROVE  LET tw == ToWrite(chain, o)
               pkg == MarshalChain(chain, o)
           IN  /\ Len(tw) \in Nat /\ Len(tw) \in 1..Len(tw) /\ \A k \in 1..Len(tw) : tw[k] \in 1..Length(chain)
               /\ DOMAIN pkg.pairs = 1..Len(tw) /\ Len(pkg.pairs) = Len(tw)
               /\ \A k \in 1..Len(tw) :
                     /\ pkg.pairs[k].hd = IF o.headers THEN <<chain.Headers[tw[k]]>> ELSE << >>
                     /\ pkg.pairs[k].entry = EntryToWrite(chain, tw[k], o)
<1> DEFINE tw == ToWrite(chain, o)
           n == Len(tw)
           S == 1..Length(chain)
           Hd(k) == IF o.headers THEN <<chain.Headers[tw[k]]>> ELSE << >>
           En(k) == EntryToWrite(chain, tw[k], o)
           pairs == [k \in 1..n |-> [hd |-> Hd(k), entry |-> En(k)]]
           pkg == MarshalChain(chain, o)
<1>1. Length(chain) \in Nat \ {0}
    BY ZenonT(30), ChainFacts
<1>2. tw \in Seq(S) /\ Len(tw) > 0
    BY ZenonT(30), <1>1, ToWriteIs
<1>3. pkg.pairs = [k \in DOMAIN tw |-> [hd |-> Hd(k), entry |-> En(k)]]
    BY ZenonT(30) DEF MarshalChain
<1> HIDE DEF tw, S, pkg
<1>4. Len(tw) \in Nat /\ Len(tw) \in 1..Len(tw) /\ DOMAIN tw = 1..Len(tw) /\ \A k \in 1..Len(tw) : tw[k] \in S
    BY ONLY <1>2
<1> HIDE DEF n
<1>5. \A k \in 1..n : pairs[k].hd = Hd(k) /\ pairs[k].entry = En(k)
    BY ZenonT(30)
<1>6. DOMAIN pairs = 1..n /\ pairs \in [1..n -> {[hd |-> Hd(k), entry |-> En(k)] : k \in 1..n}]
    BY ZenonT(30)
<1>7. n \in Nat /\ pkg.pairs = pairs
    BY ZenonT(30), <1>3, <1>4 DEF n
<1> HIDE DEF pairs, Hd, En
<1>8. Len(pairs) = n
    <2> DEFINE T == {[hd |-> Hd(k), entry |-> En(k)] : k \in 1..n}
    <2>1. pairs \in [1..n -> T]
        BY ZenonT(30), <1>6
    <2> HIDE DEF T
    <2> QED BY ONLY <1>7, <2>1
<1> QED BY ZenonT(30), <1>4, <1>5, <1>6, <1>7, <1>8 DEF n, S, tw, pkg, Hd, En

\* No package holds an entry of a type that is private, or was not asked for.
LEMMA InvPrivate == IInv => PrivateStaysHome
<1> DEFINE Pairs(o) == MarshalChain(chain, o).pairs
           MaySend(o) == {i \in 1..Length(chain) : /\ chain.Headers[i].Type \notin Private
                                                   /\ o.types # {} => chain.Headers[i].Type \in o.types}
<1> SUFFICES ASSUME IInv, Packages, NEW o \in ChainOpt, NEW k \in DOMAIN Pairs(o), NEW e \in EntryHash,
                    Pairs(o)[k].entry = <<e>>
             PROVE  \E i \in MaySend(o) : chain.Entries[i] = e
    BY ZenonT(30) DEF PrivateStaysHome
<1> DEFINE i == ToWrite(chain, o)[k]
<1>1. i \in 1..Length(chain) /\ EntryToWrite(chain, i, o) = <<e>>
    BY ZenonT(30), PairsOf
<1> HIDE DEF i
<1>2. <<"redacted">> # <<e>> /\ <<"empty">> # <<e>> /\ << >> # <<e>>
    <2>1. e # "redacted" /\ e # "empty"
        BY ZenonT(30), PackageAssumption
    <2> QED BY <2>1
<1>3. filterPass(chain.Headers[i], o.types, Private) /\ <<chain.Entries[i]>> = <<e>>
    BY ZenonT(30), <1>1, <1>2 DEF EntryToWrite
<1>4. chain.Entries[i] = e
    BY <1>3
<1>5. i \in MaySend(o)
    BY ZenonT(30), <1>1, <1>3 DEF filterPass
<1> QED BY ZenonT(30), <1>4, <1>5

\* Every type may be sent, and all are asked for.
AllSent(o) == o.types = {} /\ \A i \in 1..Length(chain) : chain.Headers[i].Type \notin Private

\* The package that holds the whole chain, or its headers, or its entries.
HoldsAll(pkg, o) ==
    /\ Len(pkg.pairs) = Length(chain) /\ DOMAIN pkg.pairs = 1..Length(chain)
    /\ pkg.headers = o.headers /\ pkg.entries = o.entries
    /\ pkg.hash = chain.Headers[Length(chain)].Sum
    /\ \A k \in 1..Length(chain) :
          /\ pkg.pairs[k].hd = IF o.headers THEN <<chain.Headers[k]>> ELSE << >>
          /\ pkg.pairs[k].entry = IF ~o.entries THEN << >>
                                  ELSE IF k = 1 THEN <<"empty">> ELSE <<chain.Entries[k]>>

LEMMA WholePackage ==
    ASSUME IInv, Packages, NEW o \in ChainOpt, AllSent(o), NEW pkg, pkg = MarshalChain(chain, o)
    PROVE  HoldsAll(pkg, o)
<1> DEFINE L == Length(chain)
           tw == ToWrite(chain, o)
           h == chain.Hashes[tw[Len(tw)]]
<1>1. L \in Nat \ {0} /\ \A i \in 1..L : chain.Hashes[i] = chain.Headers[i].Sum
    BY ZenonT(30), ChainFacts
<1>2. Len(tw) = L /\ \A i \in 1..L : tw[i] = i
    BY ZenonT(30), <1>1, ToWriteIs DEF AllSent
<1>3. /\ DOMAIN pkg.pairs = 1..Len(tw) /\ Len(pkg.pairs) = Len(tw)
      /\ \A k \in 1..Len(tw) :
            /\ pkg.pairs[k].hd = IF o.headers THEN <<chain.Headers[tw[k]]>> ELSE << >>
            /\ pkg.pairs[k].entry = EntryToWrite(chain, tw[k], o)
    BY ZenonT(30), PairsOf
<1>4. pkg.headers = o.headers /\ pkg.entries = o.entries /\ pkg.hash = h
    BY ZenonT(30) DEF MarshalChain
<1> HIDE DEF tw, L
<1>5. L \in 1..L
    BY <1>1
<1>6. h = chain.Headers[L].Sum
    BY ZenonT(30), <1>1, <1>2, <1>5
<1>7. ASSUME NEW k \in 1..L
      PROVE  EntryToWrite(chain, k, o) = IF ~o.entries THEN << >>
                                         ELSE IF k = 1 THEN <<"empty">> ELSE <<chain.Entries[k]>>
    <2>1. filterPass(chain.Headers[k], o.types, Private)
        BY ZenonT(30) DEF filterPass, AllSent, L
    <2> QED BY ZenonT(30), <2>1 DEF EntryToWrite
<1>8. \A k \in 1..L : /\ pkg.pairs[k].hd = IF o.headers THEN <<chain.Headers[k]>> ELSE << >>
                      /\ pkg.pairs[k].entry = EntryToWrite(chain, k, o)
    BY ZenonT(30), <1>2, <1>3
<1> QED BY ZenonT(30), <1>2, <1>3, <1>4, <1>6, <1>7, <1>8 DEF L, HoldsAll

\* The hashes that UnmarshalChain finds are those of the headers.
LEMMA HashesRead ==
    ASSUME IInv, Packages, NEW h, h = chain.Headers[Length(chain)].Sum
    PROVE  [k \in 1..Length(chain) |-> IF k < Length(chain) THEN chain.Headers[k + 1].HeaderLink ELSE h]
             = Sums(chain.Headers)
<1> DEFINE H == chain.Headers
           L == Length(chain)
<1>1. /\ L \in Nat \ {0} /\ L = Len(H)
      /\ \A i \in 1..L : H[i].HeaderLink = IF i = 1 THEN NullHash ELSE H[i - 1].Sum
    BY ZenonT(30), ChainFacts
<1>2. h = H[L].Sum
    BY ZenonT(30)
<1> HIDE DEF H, L
<1>3. ASSUME NEW k \in 1..L PROVE (IF k < L THEN H[k + 1].HeaderLink ELSE h) = H[k].Sum
    <2>1. CASE k < L
        <3>1. k + 1 \in 1..L /\ k + 1 # 1 /\ (k + 1) - 1 = k
            BY <1>1, <2>1
        <3>2. H[k + 1].HeaderLink = H[k].Sum
            BY ZenonT(30), <1>1, <3>1
        <3> QED BY ZenonT(30), <2>1, <3>2
    <2>2. CASE ~(k < L)
        <3>1. k = L
            BY <1>1, <2>2
        <3> QED BY ZenonT(30), <1>2, <2>2, <3>1
    <2> QED BY ZenonT(30), <2>1, <2>2
<1>4. [k \in 1..L |-> IF k < L THEN H[k + 1].HeaderLink ELSE h] = Sums(H)
    BY ZenonT(30), <1>1, <1>3 DEF Sums
<1> QED BY ZenonT(30), <1>4 DEF H, L

\* What is put in the place of entries replaces them.
LEMMA EntriesTwice ==
    ASSUME NEW base, NEW es, NEW dna, "Entries" \in DOMAIN base
    PROVE  [[base EXCEPT !.Entries = es] EXCEPT !.Entries[1] = dna]
             = [base EXCEPT !.Entries = [es EXCEPT ![1] = dna]]
OBVIOUS

\* The chain that a reader makes of the package of the whole chain.
Restored(o) ==
    [(IF o.headers THEN chain ELSE NewChain) EXCEPT !.Entries = IF o.entries THEN chain.Entries ELSE << >>]

\* It is the chain, or its headers, or its entries, with the DNA.
LEMMA WholeRestored ==
    ASSUME IInv, Packages, NEW o \in ChainOpt, AllSent(o), NEW pkg, pkg = MarshalChain(chain, o)
    PROVE  FullOf(chain.Entries[1], pkg) = Restored(o)
<1> DEFINE H == chain.Headers
           L == Length(chain)
           E == chain.Entries
           base == IF o.headers THEN chain ELSE NewChain
           n == Len(pkg.pairs)
           q == [k \in 1..n |-> pkg.pairs[k].hd[1]]
           hs == [k \in 1..n |-> IF k < n THEN q[k + 1].HeaderLink ELSE pkg.hash]
           es == [k \in 1..n |-> pkg.pairs[k].entry[1]]
           u == UnmarshalChain(pkg)
<1>1. u = [(IF pkg.headers THEN ChainWith(hs, q) ELSE NewChain)
              EXCEPT !.Entries = IF pkg.entries THEN es ELSE << >>]
    BY ZenonT(30) DEF UnmarshalChain
<1>2. /\ n = L /\ pkg.headers = o.headers /\ pkg.entries = o.entries /\ pkg.hash = H[L].Sum
      /\ \A k \in 1..L : /\ o.headers => pkg.pairs[k].hd = <<H[k]>>
                         /\ o.entries /\ k # 1 => pkg.pairs[k].entry = <<E[k]>>
    <2>1. HoldsAll(pkg, o)
        BY ZenonT(30), WholePackage
    <2> QED BY ONLY ZenonT(30), <2>1 DEF HoldsAll
<1>3. /\ L \in Nat \ {0} /\ L = Len(H) /\ H \in [1..L -> Header] /\ chain = Of(H)
      /\ \A i \in 1..L : E[i] = H[i].EntryLink
    BY ZenonT(30), ChainFacts
<1>4. E = [i \in 1..Len(H) |-> H[i].EntryLink]
    <2> HIDE DEF H
    <2>1. Of(H).Entries = [i \in 1..Len(H) |-> H[i].EntryLink]
        BY ZenonT(30), OfFields
    <2> QED BY ONLY ZenonT(30), <1>3, <2>1
<1>5. [k \in 1..L |-> IF k < L THEN H[k + 1].HeaderLink ELSE pkg.hash] = Sums(H)
    BY ZenonT(30), <1>2, HashesRead
<1>6. "Entries" \in DOMAIN chain /\ "Entries" \in DOMAIN NewChain
    <2>1. "Entries" \in DOMAIN Of(H)
        BY ZenonT(30) DEF Of, ChainWith
    <2> QED BY ZenonT(30), <1>3, <2>1 DEF NewChain
<1>7. \A x : <<x>>[1] = x
    OBVIOUS
<1> HIDE DEF n, H, L, E, u
<1>8. o.headers => q = H
    <2> SUFFICES ASSUME o.headers PROVE q = H
        BY ZenonT(30)
    <2>1. \A k \in 1..n : pkg.pairs[k].hd[1] = H[k]
        BY ZenonT(30), <1>2, <1>7
    <2>2. H = [k \in 1..n |-> H[k]]
        BY ZenonT(30), <1>2, <1>3
    <2> QED BY ZenonT(30), <2>1, <2>2
<1> HIDE DEF q
<1>9. o.headers => hs = Sums(H)
    <2> SUFFICES ASSUME o.headers PROVE hs = Sums(H)
        BY ZenonT(30)
    <2>1. \A k \in 1..n : (IF k < n THEN q[k + 1].HeaderLink ELSE pkg.hash)
                           = (IF k < L THEN H[k + 1].HeaderLink ELSE pkg.hash)
        BY ZenonT(30), <1>2, <1>8
    <2>2. hs = [k \in 1..n |-> IF k < L THEN H[k + 1].HeaderLink ELSE pkg.hash]
        BY ZenonT(30), <2>1
    <2> HIDE DEF hs
    <2> QED BY ZenonT(30), <1>2, <1>5, <2>2
<1> HIDE DEF hs
<1>10. (IF pkg.headers THEN ChainWith(hs, q) ELSE NewChain) = base
    BY ZenonT(30), <1>2, <1>3, <1>8, <1>9 DEF Of
<1>11. o.entries => [es EXCEPT ![1] = E[1]] = E
    <2> SUFFICES ASSUME o.entries PROVE [es EXCEPT ![1] = E[1]] = E
        BY ZenonT(30)
    <2> DEFINE f == [es EXCEPT ![1] = E[1]]
    <2>1. f = [k \in 1..n |-> f[k]] /\ E = [k \in 1..n |-> E[k]]
        BY ZenonT(30), <1>2, <1>3, <1>4
    <2>2. ASSUME NEW k \in 1..n PROVE f[k] = E[k]
        <3>1. CASE k = 1
            BY ZenonT(30), <3>1
        <3>2. CASE k # 1
            <4>1. f[k] = pkg.pairs[k].entry[1]
                BY ZenonT(30), <3>2
            <4> QED BY ZenonT(30), <1>2, <1>7, <3>2, <4>1
        <3> QED BY ZenonT(30), <3>1, <3>2
    <2> HIDE DEF f
    <2>3. f = E
        BY ZenonT(30), <2>1, <2>2
    <2> QED BY ZenonT(30), <2>3 DEF f
<1> HIDE DEF es
<1>12. "Entries" \in DOMAIN base
    BY ZenonT(30), <1>6
<1> HIDE DEF base
<1>13. u = [base EXCEPT !.Entries = IF o.entries THEN es ELSE << >>]
    BY ZenonT(30), <1>1, <1>2, <1>10
<1>14. FullOf(E[1], pkg) = [base EXCEPT !.Entries = IF o.entries THEN E ELSE << >>]
    <2>1. CASE o.entries
        <3>1. u = [base EXCEPT !.Entries = es]
            BY ZenonT(30), <1>13, <2>1
        <3>2. [u EXCEPT !.Entries[1] = E[1]] = [base EXCEPT !.Entries = [es EXCEPT ![1] = E[1]]]
            BY ZenonT(30), <1>12, <3>1, EntriesTwice
        <3>3. [u EXCEPT !.Entries[1] = E[1]] = [base EXCEPT !.Entries = E]
            BY ZenonT(30), <1>11, <2>1, <3>2
        <3> QED BY ZenonT(30), <1>2, <2>1, <3>3 DEF FullOf, u
    <2>2. CASE ~o.entries
        BY ZenonT(30), <1>2, <1>13, <2>2 DEF FullOf, u
    <2> QED BY ZenonT(30), <2>1, <2>2
<1> QED BY ZenonT(30), <1>14 DEF Restored, base, E

\* And it passes Validate.
LEMMA WholeValid ==
    ASSUME IInv, Packages, NEW o, o.headers
    PROVE  Validate(Restored(o), ~o.entries)
<1> DEFINE H == chain.Headers
           L == Length(chain)
           E == chain.Entries
           r == Restored(o)
<1>1. /\ L \in Nat \ {0} /\ L = Len(H) /\ chain = Of(H)
      /\ \A i \in 1..L : /\ chain.Hashes[i] = H[i].Sum /\ E[i] = H[i].EntryLink
                         /\ H[i].HeaderLink = IF i = 1 THEN NullHash ELSE H[i - 1].Sum
    BY ZenonT(30), ChainFacts
<1>2. DOMAIN chain = {"Hashes", "Headers", "Entries", "TypeTops", "Hmap", "Emap"}
    <2>1. DOMAIN Of(H) = {"Hashes", "Headers", "Entries", "TypeTops", "Hmap", "Emap"}
        BY ZenonT(30) DEF Of, ChainWith
    <2> QED BY ZenonT(30), <1>1, <2>1
<1>3. r.Headers = H /\ r.Hashes = chain.Hashes /\ (o.entries => r.Entries = E)
    BY ZenonT(30), <1>2 DEF Restored
<1> HIDE DEF r
<1>4. Length(r) = L
    BY ZenonT(30), <1>3 DEF Length
<1> HIDE DEF H, L, E
<1>5. ASSUME NEW i \in 1..L
      PROVE  /\ H[i].Sum = IF i < L - 1 THEN H[i + 1].HeaderLink ELSE chain.Hashes[i]
             /\ ~o.entries \/ E[i] = H[i].EntryLink
    <2>1. i < L - 1 => i + 1 \in 1..L /\ i + 1 # 1 /\ (i + 1) - 1 = i
        BY <1>1
    <2>2. i < L - 1 => H[i].Sum = H[i + 1].HeaderLink
        BY ZenonT(30), <1>1, <2>1
    <2> QED BY ZenonT(30), <1>1, <2>2
<1>6. Validate(r, ~o.entries)
    BY ZenonT(30), <1>3, <1>4, <1>5 DEF Validate
<1> QED BY ZenonT(30), <1>6 DEF r

\* Where nothing is held back, what the validation function gets is the chain.
LEMMA InvPackage == IInv => PackageIsChain
<1> SUFFICES ASSUME IInv, Packages, NEW o \in ChainOpt, AllSent(o)
             PROVE  Received(MarshalChain(chain, o)) = {Restored(o)}
    BY ZenonT(30), InvPrivate DEF PackageIsChain, AllSent, Restored
<1> DEFINE pkg == MarshalChain(chain, o)
           dna == chain.Entries[1]
<1>1. /\ pkg.headers = o.headers /\ pkg.entries = o.entries /\ DOMAIN pkg.pairs = 1..Length(chain)
      /\ \A k \in 1..Length(chain) :
            /\ pkg.pairs[k].hd = IF o.headers THEN <<chain.Headers[k]>> ELSE << >>
            /\ pkg.pairs[k].entry = IF ~o.entries THEN << >>
                                    ELSE IF k = 1 THEN <<"empty">> ELSE <<chain.Entries[k]>>
    BY ZenonT(30), WholePackage DEF HoldsAll
<1>2. FullOf(dna, pkg) = Restored(o)
    BY ZenonT(30), WholeRestored
<1> HIDE DEF pkg
<1>3. InPlace(pkg)
    <2>1. \A x : <<x>> # << >>
        OBVIOUS
    <2>2. ASSUME NEW k \in DOMAIN pkg.pairs
          PROVE  /\ pkg.pairs[k].hd # << >> <=> pkg.headers
                 /\ pkg.pairs[k].entry # << >> <=> pkg.entries
        <3>1. k \in 1..Length(chain)
            BY ZenonT(30), <1>1
        <3>4. pkg.pairs[k].hd = IF o.headers THEN <<chain.Headers[k]>> ELSE << >>
            BY ZenonT(30), <1>1, <3>1
        <3>2. pkg.pairs[k].hd # << >> <=> o.headers
            <4>1. CASE o.headers
                BY ZenonT(30), <2>1, <3>4, <4>1
            <4>2. CASE ~o.headers
                BY ZenonT(30), <3>4, <4>2
            <4> QED BY ZenonT(30), <4>1, <4>2
        <3>3. pkg.pairs[k].entry # << >> <=> o.entries
            BY ZenonT(30), <1>1, <2>1, <3>1
        <3> QED BY ZenonT(30), <1>1, <3>2, <3>3
    <2> QED BY ZenonT(30), <2>2 DEF InPlace
<1>4. pkg.headers => Validate(FullOf(dna, pkg), ~pkg.entries)
    BY ZenonT(30), <1>1, <1>2, WholeValid
<1>5. MakeValidationPackage(dna, pkg) = {FullOf(dna, pkg)}
    BY ZenonT(30), <1>3, <1>4 DEF MakeValidationPackage, FullOf
<1> QED BY ZenonT(30), <1>2, <1>5 DEF Received, pkg

\* A package of the whole chain is read as the chain, or the part of it asked for, by
\* whoever has the DNA; and MarshalChain lets no private entry out.
THEOREM PackagesHoldChain == Spec => []PackageIsChain
BY Invariance, InvPackage, PTL

-----------------------------------------------------------------------------
(* The bytes of headers *)

\* The headers on the chain are read back as MarshalHeader wrote them, and those that
\* UnmarshalHeader misreads are the ones whose type or signature writeStr cannot
\* count, for every size of a byte, of a hash and of a time.
THEOREM HeadersAreReadBack == Spec => []HeadersReadBack
<1>1. HeadersReadBack
    BY NoneMisread, ZenonT(30) DEF HeadersReadBack
<1> QED
    BY <1>1, PTL
=============================================================================
