---------------------------- MODULE PagesProofs ----------------------------
(***************************************************************************)
(* What the pages of MCPages keep, for any rows, keys, captchas and calls. *)
(* The tab's specification is that of the page it shows, so each page has  *)
(* an invariant of its own:                                                *)
(*   - the panels: lists are lists of their rows, and no two rows of one   *)
(*     share an id, from what filter, splice and append make of a list;    *)
(*     filter is a function defined by recursion, and what it returns is   *)
(*     proved by going through the set of the lists of which it holds;     *)
(*   - the pages of rows: the types, and that no row seen deleted is there; *)
(*   - the login page: which captchas have been in the page's hands, which *)
(*     may be consumed behind its back, and that none of these is on its   *)
(*     way to the page;                                                    *)
(*   - the pages kept in the browser: what the hooks of ui/store.ts write. *)
(* Modules WorkspaceProofs and RuntimePageProofs have the other two.       *)
(***************************************************************************)
EXTENDS MCPages, WorkspaceProofs, RuntimePageProofs, SequenceTheorems, WellFoundedInduction, TLAPS

-----------------------------------------------------------------------------
(* Lists.                                                                  *)

\* A set of numbers that has 0, and with a number the next one, has them all.
LEMMA AllNumbers ==
    ASSUME NEW T, 0 \in T, \A n \in Nat : n \in T => n + 1 \in T
    PROVE  Nat \subseteq T
<1> DEFINE Out == Nat \ T
           Below == OpToRel(<, Nat)
<1> SUFFICES ASSUME Out # {} PROVE FALSE
  OBVIOUS
<1>1. IsWellFoundedOn(Below, Nat) /\ Out \subseteq Nat
  BY NatLessThanWellFounded DEF OpToRel
<1>2. \A m, n \in Nat : m < n => <<m, n>> \in Below
  BY DEF OpToRel
<1>3. \A n \in Nat \ {0} : n - 1 \in Nat /\ n - 1 < n /\ (n - 1) + 1 = n
  OBVIOUS
<1>4. Out = Nat \ T
  OBVIOUS
<1> HIDE DEF Below, Out
<1>5. PICK least \in Out : \A n \in Out : <<n, least>> \notin Below
  BY <1>1, WFMin, Zenon
<1>6. least \in Nat \ {0}
  BY <1>4
<1>7. least - 1 \in T
  BY <1>2, <1>3, <1>4, <1>5, <1>6, Zenon
<1>8. least \in T
  BY <1>3, <1>6, <1>7
<1>9. QED
  BY <1>4, <1>8

\* A set of lists that has the empty one, and with a list those that are
\* longer by a row, has them all.
LEMMA AllLists ==
    ASSUME NEW R, NEW T, << >> \in T,
           \A l \in Seq(R) : l \in T => \A r \in R : Append(l, r) \in T
    PROVE  Seq(R) \subseteq T
<1> DEFINE Full == {n \in Nat : \A l \in Seq(R) : Len(l) = n => l \in T}
<1>1. 0 \in Full
  <2>1. \A l \in Seq(R) : Len(l) = 0 => l = << >>
    BY EmptySeq
  <2>2. QED
    BY <2>1
<1>2. ASSUME NEW n \in Nat, n \in Full PROVE n + 1 \in Full
  <2>1. ASSUME NEW l \in Seq(R), Len(l) = n + 1 PROVE l \in T
    <3> DEFINE front == SubSeq(l, 1, n)
    <3>1. \A i \in 1 .. n + 1 : l[i] \in R
      BY <2>1, ElementOfSeq
    <3>2. /\ front \in Seq(R) /\ Len(front) = n
          /\ \A i \in 1 .. n : front[i] = l[i]
      BY <3>1, SubSeqProperties
    <3> HIDE DEF front
    <3>3. front \in T /\ l[n + 1] \in R
      BY <1>2, <3>1, <3>2
    <3>4. /\ Append(front, l[n + 1]) \in Seq(R) /\ Len(Append(front, l[n + 1])) = n + 1
          /\ \A i \in 1 .. n + 1 : Append(front, l[n + 1])[i] = l[i]
      BY <3>2, <3>3, AppendProperties
    <3>5. Append(front, l[n + 1]) = l
      BY <2>1, <3>4, SeqEqual
    <3>6. QED
      BY <3>2, <3>3, <3>5
  <2>2. QED
    BY <2>1
<1>3. Nat \subseteq Full
  <2> HIDE DEF Full
  <2>1. QED
    BY <1>1, <1>2, AllNumbers
<1>4. ASSUME NEW l \in Seq(R) PROVE l \in T
  BY <1>3, LenProperties
<1>5. QED
  BY <1>4

-----------------------------------------------------------------------------
(* What filter leaves of a list.                                           *)

\* f counts through the list l as Only does.
Counts(f, l, kept) ==
    f = [n \in 0 .. Len(l) |-> IF n = 0 THEN << >>
                               ELSE IF l[n] \in kept THEN Append(f[n - 1], l[n])
                               ELSE f[n - 1]]

LEMMA CountsRule ==
    ASSUME NEW f, NEW l, NEW kept, Counts(f, l, kept), NEW n \in 0 .. Len(l)
    PROVE  f[n] = IF n = 0 THEN << >>
                  ELSE IF l[n] \in kept THEN Append(f[n - 1], l[n])
                  ELSE f[n - 1]
<1> DEFINE step(m) == IF m = 0 THEN << >>
                      ELSE IF l[m] \in kept THEN Append(f[m - 1], l[m])
                      ELSE f[m - 1]
<1>1. f = [m \in 0 .. Len(l) |-> step(m)]
  BY DEF Counts
<1> HIDE DEF step
<1>2. f[n] = step(n)
  BY <1>1
<1>3. QED
  BY <1>2 DEF step

LEMMA CountsExists ==
    ASSUME NEW R, NEW kept, NEW l \in Seq(R)
    PROVE  \E f : Counts(f, l, kept)
<1> DEFINE T == {s \in Seq(R) : \E f : Counts(f, s, kept)}
<1>1. << >> \in T
  <2> DEFINE f == [n \in 0 .. 0 |-> << >>]
  <2>1. Counts(f, << >>, kept)
    BY EmptySeq DEF Counts
  <2>2. QED
    BY <2>1, EmptySeq
<1>2. ASSUME NEW s \in Seq(R), s \in T, NEW r \in R PROVE Append(s, r) \in T
  <2>1. PICK f : Counts(f, s, kept)
    BY <1>2
  <2>2. /\ Len(s) \in Nat /\ Len(Append(s, r)) = Len(s) + 1 /\ Append(s, r) \in Seq(R)
        /\ \A i \in 1 .. Len(s) : Append(s, r)[i] = s[i]
        /\ Append(s, r)[Len(s) + 1] = r
    BY AppendProperties, LenProperties
  <2> DEFINE g == [n \in 0 .. Len(s) + 1 |->
                      IF n <= Len(s) THEN f[n]
                      ELSE IF r \in kept THEN Append(f[Len(s)], r) ELSE f[Len(s)]]
             h == [n \in 0 .. Len(s) + 1 |->
                      IF n = 0 THEN << >>
                      ELSE IF Append(s, r)[n] \in kept THEN Append(g[n - 1], Append(s, r)[n])
                      ELSE g[n - 1]]
  <2>3. \A n \in 0 .. Len(s) : f[n] = IF n = 0 THEN << >>
                               ELSE IF s[n] \in kept THEN Append(f[n - 1], s[n])
                               ELSE f[n - 1]
    BY <2>1, CountsRule
  <2>4. ASSUME NEW n \in 0 .. Len(s) + 1 PROVE g[n] = h[n]
    <3>1. CASE n = Len(s) + 1
      BY <2>2, <3>1
    <3>2. CASE n \in 0 .. Len(s)
      BY <2>2, <2>3, <3>2
    <3>3. QED
      BY <2>2, <3>1, <3>2
  <2>5. g = h
    BY <2>4
  <2>6. Counts(g, Append(s, r), kept)
    <3> HIDE DEF g
    <3>1. QED
    BY <2>2, <2>5 DEF Counts
  <2>7. QED
    BY <2>2, <2>6
<1>3. Seq(R) \subseteq T
  <2> HIDE DEF T
  <2>1. QED
    BY <1>1, <1>2, AllLists
<1>4. QED
  BY <1>3

\* Two that count through lists with the same first n rows agree up to n.
LEMMA CountsAgree ==
    ASSUME NEW kept, NEW s, NEW t, NEW f, NEW g, Counts(f, s, kept), Counts(g, t, kept),
           Len(s) \in Nat, Len(t) \in Nat, Len(s) <= Len(t),
           \A i \in 1 .. Len(s) : t[i] = s[i]
    PROVE  \A n \in 0 .. Len(s) : f[n] = g[n]
<1> DEFINE T == {n \in Nat : n <= Len(s) => f[n] = g[n]}
<1>1. \A n \in 0 .. Len(s) :
          /\ f[n] = IF n = 0 THEN << >>
                    ELSE IF s[n] \in kept THEN Append(f[n - 1], s[n]) ELSE f[n - 1]
          /\ g[n] = IF n = 0 THEN << >>
                    ELSE IF t[n] \in kept THEN Append(g[n - 1], t[n]) ELSE g[n - 1]
  BY CountsRule
<1>2. 0 \in T
  BY <1>1
<1>3. ASSUME NEW n \in Nat, n \in T PROVE n + 1 \in T
  BY <1>1, <1>3
<1>4. Nat \subseteq T
  <2> HIDE DEF T
  <2>1. QED
    BY <1>2, <1>3, AllNumbers
<1>5. QED
  BY <1>4

LEMMA OnlyCounts ==
    ASSUME NEW R, NEW kept, NEW l \in Seq(R)
    PROVE  \E f : Counts(f, l, kept) /\ Panels!Only(l, kept) = f[Len(l)]
<1> DEFINE f == CHOOSE g : Counts(g, l, kept)
<1>1. Counts(f, l, kept)
  BY CountsExists
<1>2. Panels!Only(l, kept) = f[Len(l)]
  BY DEF Panels!Only, Counts
<1> HIDE DEF f
<1>3. QED
  BY <1>1, <1>2

\* What is left of the empty list, and of a list that is longer by a row.
LEMMA OnlyEmpty ==
    ASSUME NEW kept
    PROVE  Panels!Only(<< >>, kept) = << >>
<1>1. PICK f : Counts(f, << >>, kept) /\ Panels!Only(<< >>, kept) = f[Len(<< >>)]
  BY OnlyCounts, EmptySeq
<1>2. QED
  BY <1>1, EmptySeq DEF Counts

LEMMA OnlyAppend ==
    ASSUME NEW R, NEW kept, NEW l \in Seq(R), NEW r \in R
    PROVE  Panels!Only(Append(l, r), kept) =
               IF r \in kept THEN Append(Panels!Only(l, kept), r) ELSE Panels!Only(l, kept)
<1> DEFINE longer == Append(l, r)
<1>1. /\ Len(l) \in Nat /\ Len(longer) = Len(l) + 1 /\ longer \in Seq(R)
      /\ \A i \in 1 .. Len(l) : longer[i] = l[i]
      /\ longer[Len(l) + 1] = r
  BY AppendProperties, LenProperties
<1> HIDE DEF longer
<1>2. PICK f : Counts(f, l, kept) /\ Panels!Only(l, kept) = f[Len(l)]
  BY OnlyCounts
<1>3. PICK g : Counts(g, longer, kept) /\ Panels!Only(longer, kept) = g[Len(longer)]
  BY <1>1, OnlyCounts
<1>4. f[Len(l)] = g[Len(l)]
  BY <1>1, <1>2, <1>3, CountsAgree
<1>5. g[Len(l) + 1] = IF longer[Len(l) + 1] \in kept THEN Append(g[Len(l)], longer[Len(l) + 1])
                      ELSE g[Len(l)]
  BY <1>1, <1>3, CountsRule
<1>6. QED
  BY <1>1, <1>2, <1>3, <1>4, <1>5 DEF longer

\* No two rows of a list share an id.
OneEach(l) == \A i, j \in 1 .. Len(l) : l[i].id = l[j].id => i = j

\* What is left are rows of the list that were kept, and ids stay unshared.
LEMMA OnlyKeeps ==
    ASSUME NEW R, NEW kept, NEW l \in Seq(R)
    PROVE  /\ Panels!Only(l, kept) \in Seq(R)
           /\ \A i \in 1 .. Len(Panels!Only(l, kept)) :
                  /\ Panels!Only(l, kept)[i] \in kept
                  /\ \E j \in 1 .. Len(l) : Panels!Only(l, kept)[i] = l[j]
           /\ OneEach(l) => OneEach(Panels!Only(l, kept))
<1> DEFINE Good(s, o) == /\ o \in Seq(R)
                         /\ \A i \in 1 .. Len(o) : o[i] \in kept /\ \E j \in 1 .. Len(s) : o[i] = s[j]
                         /\ OneEach(s) => OneEach(o)
           T == {s \in Seq(R) : Good(s, Panels!Only(s, kept))}
<1>1. << >> \in T
  <2>1. Panels!Only(<< >>, kept) = << >>
    BY OnlyEmpty
  <2>2. << >> \in Seq(R) /\ Len(<< >>) = 0
    BY EmptySeq
  <2>3. Good(<< >>, << >>)
    BY <2>2 DEF OneEach
  <2>4. QED
    BY <2>1, <2>2, <2>3
<1>2. ASSUME NEW s \in Seq(R), s \in T, NEW r \in R PROVE Append(s, r) \in T
  <2> DEFINE longer == Append(s, r)
             o == Panels!Only(s, kept)
  <2>1. /\ Len(s) \in Nat /\ Len(longer) = Len(s) + 1 /\ longer \in Seq(R)
        /\ \A i \in 1 .. Len(s) : longer[i] = s[i]
        /\ longer[Len(s) + 1] = r
    BY AppendProperties, LenProperties
  <2>2. Panels!Only(longer, kept) = IF r \in kept THEN Append(o, r) ELSE o
    BY OnlyAppend
  <2>3. /\ o \in Seq(R) /\ Good(s, o)
    BY <1>2
  <2>4. /\ Len(o) \in Nat /\ Len(Append(o, r)) = Len(o) + 1 /\ Append(o, r) \in Seq(R)
        /\ \A i \in 1 .. Len(o) : Append(o, r)[i] = o[i]
        /\ Append(o, r)[Len(o) + 1] = r
    BY <2>3, AppendProperties, LenProperties
  <2> HIDE DEF longer, o
  <2>5. OneEach(longer) => OneEach(s) /\ \A i \in 1 .. Len(s) : s[i].id # r.id
    BY <2>1 DEF OneEach
  <2>6. Good(longer, o)
    BY <2>1, <2>3, <2>5
  <2>7. ASSUME r \in kept PROVE Good(longer, Append(o, r))
    <3>1. \A i \in 1 .. Len(Append(o, r)) :
              Append(o, r)[i] \in kept /\ \E j \in 1 .. Len(longer) : Append(o, r)[i] = longer[j]
      BY <2>1, <2>3, <2>4, <2>7
    <3>2. ASSUME OneEach(longer) PROVE OneEach(Append(o, r))
      <4>1. /\ \A i, j \in 1 .. Len(o) : o[i].id = o[j].id => i = j
            /\ \A i \in 1 .. Len(o) : o[i].id # r.id
        BY <2>3, <2>5, <3>2 DEF OneEach
      <4>2. ASSUME NEW i \in 1 .. Len(Append(o, r)), NEW j \in 1 .. Len(Append(o, r)),
                   Append(o, r)[i].id = Append(o, r)[j].id
            PROVE  i = j
        <5>1. CASE i = Len(o) + 1 /\ j = Len(o) + 1
          BY <5>1
        <5>2. CASE i \in 1 .. Len(o) /\ j = Len(o) + 1
          BY <2>4, <4>1, <4>2, <5>2
        <5>3. CASE i = Len(o) + 1 /\ j \in 1 .. Len(o)
          BY <2>4, <4>1, <4>2, <5>3
        <5>4. CASE i \in 1 .. Len(o) /\ j \in 1 .. Len(o)
          BY <2>4, <4>1, <4>2, <5>4
        <5>5. QED
          BY <2>4, <5>1, <5>2, <5>3, <5>4
      <4>3. QED
        BY <4>2 DEF OneEach
    <3>3. QED
      BY <2>4, <3>1, <3>2
  <2>8. Good(longer, Panels!Only(longer, kept))
    <3> HIDE DEF Good
    <3>1. QED
      BY <2>2, <2>6, <2>7
  <2>9. QED
    BY <2>1, <2>8 DEF longer
<1>3. Seq(R) \subseteq T
  <2> HIDE DEF T
  <2>1. QED
    BY <1>1, <1>2, AllLists
<1>4. QED
  BY <1>3

\* What is left by one filter and then by another are the rows both keep.
LEMMA OnlyTwice ==
    ASSUME NEW R, NEW kept, NEW wanted, NEW l \in Seq(R)
    PROVE  Panels!Only(Panels!Only(l, kept), wanted) = Panels!Only(l, kept \cap wanted)
<1> DEFINE T == {s \in Seq(R) : Panels!Only(Panels!Only(s, kept), wanted)
                                    = Panels!Only(s, kept \cap wanted)}
<1>1. << >> \in T
  <2>1. Panels!Only(<< >>, kept) = << >> /\ Panels!Only(<< >>, wanted) = << >>
    BY OnlyEmpty
  <2>2. Panels!Only(<< >>, kept \cap wanted) = << >>
    BY OnlyEmpty
  <2>3. QED
    BY <2>1, <2>2, EmptySeq
<1>2. ASSUME NEW s \in Seq(R), s \in T, NEW r \in R PROVE Append(s, r) \in T
  <2>1. Panels!Only(s, kept) \in Seq(R)
    BY OnlyKeeps
  <2>2. Panels!Only(Append(s, r), kept) =
            IF r \in kept THEN Append(Panels!Only(s, kept), r) ELSE Panels!Only(s, kept)
    BY OnlyAppend
  <2>3. Panels!Only(Append(Panels!Only(s, kept), r), wanted) =
            IF r \in wanted THEN Append(Panels!Only(Panels!Only(s, kept), wanted), r)
            ELSE Panels!Only(Panels!Only(s, kept), wanted)
    BY <2>1, OnlyAppend
  <2>4. Panels!Only(Append(s, r), kept \cap wanted) =
            IF r \in kept \cap wanted THEN Append(Panels!Only(s, kept \cap wanted), r)
            ELSE Panels!Only(s, kept \cap wanted)
    BY OnlyAppend
  <2>5. Panels!Only(Panels!Only(s, kept), wanted) = Panels!Only(s, kept \cap wanted)
    BY <1>2
  <2>6. Append(s, r) \in Seq(R)
    BY AppendProperties
  <2>7. Panels!Only(Panels!Only(Append(s, r), kept), wanted)
            = Panels!Only(Append(s, r), kept \cap wanted)
    <3>1. CASE r \in kept
      <4>1. Panels!Only(Append(s, r), kept) = Append(Panels!Only(s, kept), r)
        BY <2>2, <3>1, Zenon
      <4>2. CASE r \in wanted
        <5>1. Panels!Only(Append(s, r), kept \cap wanted) = Append(Panels!Only(s, kept \cap wanted), r)
          BY <2>4, <3>1, <4>2
        <5>2. QED
          BY <2>3, <2>5, <4>1, <4>2, <5>1, Zenon
      <4>3. CASE r \notin wanted
        <5>1. Panels!Only(Append(s, r), kept \cap wanted) = Panels!Only(s, kept \cap wanted)
          BY <2>4, <4>3
        <5>2. QED
          BY <2>3, <2>5, <4>1, <4>3, <5>1, Zenon
      <4>4. QED
        BY <4>2, <4>3
    <3>2. CASE r \notin kept
      BY <2>2, <2>4, <2>5, <3>2, Zenon
    <3>3. QED
      BY <3>1, <3>2
  <2>8. QED
    BY <2>6, <2>7
<1>3. Seq(R) \subseteq T
  <2> HIDE DEF T
  <2>1. QED
    BY <1>1, <1>2, AllLists
<1>4. QED
  BY <1>3

\* What putting a row into a list, or taking one out of it, makes of it.
LEMMA Inserted ==
    ASSUME NEW R, NEW l \in Seq(R), NEW r \in R, NEW at \in 1 .. Len(l) + 1
    PROVE  /\ Panels!InsertAt(l, at, r) \in Seq(R)
           /\ Len(Panels!InsertAt(l, at, r)) = Len(l) + 1
           /\ \A i \in 1 .. Len(l) + 1 :
                  Panels!InsertAt(l, at, r)[i] = IF i < at THEN l[i] ELSE IF i = at THEN r ELSE l[i - 1]
<1> DEFINE before == SubSeq(l, 1, at - 1)
           after == SubSeq(l, at, Len(l))
<1>1. Len(l) \in Nat /\ \A i \in 1 .. Len(l) : l[i] \in R
  BY ElementOfSeq, LenProperties
<1>2. /\ before \in Seq(R) /\ Len(before) = at - 1
      /\ \A i \in 1 .. at - 1 : before[i] = l[i]
  BY <1>1, SubSeqProperties
<1>3. /\ after \in Seq(R) /\ Len(after) = Len(l) - at + 1
      /\ \A i \in 1 .. Len(l) - at + 1 : after[i] = l[at + i - 1]
  BY <1>1, SubSeqProperties
<1> HIDE DEF before, after
<1>4. << r >> \in Seq(R) /\ Len(<< r >>) = 1 /\ << r >>[1] = r
  OBVIOUS
<1>5. /\ before \o << r >> \in Seq(R) /\ Len(before \o << r >>) = at
      /\ \A i \in 1 .. at : (before \o << r >>)[i] = IF i = at THEN r ELSE l[i]
  BY <1>1, <1>2, <1>4, ConcatProperties
<1> DEFINE head == before \o << r >>
<1>6. head \in Seq(R)
  BY <1>5
<1> HIDE DEF head
<1>7. /\ head \o after \in Seq(R)
      /\ Len(head \o after) = Len(head) + Len(after)
      /\ \A i \in 1 .. Len(head) + Len(after) :
             (head \o after)[i] = IF i <= Len(head) THEN head[i] ELSE after[i - Len(head)]
  BY <1>3, <1>6, ConcatProperties
<1>8. /\ Len(head) = at /\ Len(after) = Len(l) - at + 1
      /\ \A i \in 1 .. at : head[i] = IF i = at THEN r ELSE l[i]
  BY <1>3, <1>5 DEF head
<1>9. ASSUME NEW i \in 1 .. Len(l) + 1, i > at PROVE after[i - at] = l[i - 1]
  <2>1. i - at \in 1 .. Len(l) - at + 1 /\ at + (i - at) - 1 = i - 1
    BY <1>1, <1>9
  <2>2. after[i - at] = l[at + (i - at) - 1]
    BY <1>3, <2>1
  <2>3. QED
    BY <2>1, <2>2
<1>10. /\ head \o after \in Seq(R) /\ Len(head \o after) = Len(l) + 1
      /\ \A i \in 1 .. Len(l) + 1 :
             (head \o after)[i] = IF i < at THEN l[i] ELSE IF i = at THEN r ELSE l[i - 1]
  BY <1>1, <1>7, <1>8, <1>9
<1>11. QED
  BY <1>10 DEF Panels!InsertAt, head, before, after

LEMMA TakenOut ==
    ASSUME NEW R, NEW l \in Seq(R), NEW at \in 1 .. Len(l)
    PROVE  /\ Panels!RemoveAt(l, at) \in Seq(R)
           /\ Len(Panels!RemoveAt(l, at)) = Len(l) - 1
           /\ \A i \in 1 .. Len(l) - 1 :
                  Panels!RemoveAt(l, at)[i] = IF i < at THEN l[i] ELSE l[i + 1]
<1> DEFINE before == SubSeq(l, 1, at - 1)
           after == SubSeq(l, at + 1, Len(l))
<1>1. Len(l) \in Nat /\ \A i \in 1 .. Len(l) : l[i] \in R
  BY ElementOfSeq, LenProperties
<1>2. /\ before \in Seq(R) /\ Len(before) = at - 1
      /\ \A i \in 1 .. at - 1 : before[i] = l[i]
  BY <1>1, SubSeqProperties
<1>3. /\ after \in Seq(R) /\ Len(after) = Len(l) - at
      /\ \A i \in 1 .. Len(l) - at : after[i] = l[at + i]
  BY <1>1, SubSeqProperties
<1> HIDE DEF before, after
<1>4. /\ before \o after \in Seq(R)
      /\ Len(before \o after) = Len(before) + Len(after)
      /\ \A i \in 1 .. Len(before) + Len(after) :
             (before \o after)[i] = IF i <= Len(before) THEN before[i] ELSE after[i - Len(before)]
  BY <1>2, <1>3, ConcatProperties
<1>5. \A i \in 1 .. Len(l) - 1 : i >= at => after[i - (at - 1)] = l[i + 1]
  BY <1>1, <1>3
<1>6. /\ before \o after \in Seq(R) /\ Len(before \o after) = Len(l) - 1
      /\ \A i \in 1 .. Len(l) - 1 : (before \o after)[i] = IF i < at THEN l[i] ELSE l[i + 1]
  BY <1>1, <1>2, <1>3, <1>4, <1>5
<1>7. QED
  BY <1>6 DEF Panels!RemoveAt, before, after

\* The row with an id is found.
LEMMA Found ==
    ASSUME NEW R, NEW l \in Seq(R), NEW k, Panels!Has(l, k)
    PROVE  Panels!At(l, k) \in 1 .. Len(l) /\ l[Panels!At(l, k)].id = k /\ l[Panels!At(l, k)] \in R
<1>1. DOMAIN l = 1 .. Len(l)
  BY LenProperties
<1>2. \E i \in DOMAIN l : l[i].id = k
  BY DEF Panels!Has
<1>3. Panels!At(l, k) \in DOMAIN l /\ l[Panels!At(l, k)].id = k
  BY <1>2 DEF Panels!At
<1>4. QED
  BY <1>1, <1>3, ElementOfSeq

\* What the panels do to their lists leaves every id with one row.
LEMMA AddKeeps ==
    ASSUME NEW R, NEW l \in Seq(R), OneEach(l), NEW r \in R, r.id \in Panels!FreshKeys(l)
    PROVE  Append(l, r) \in Seq(R) /\ OneEach(Append(l, r))
<1>1. /\ Len(Append(l, r)) = Len(l) + 1 /\ Append(l, r) \in Seq(R) /\ Len(l) \in Nat
      /\ \A i \in 1 .. Len(l) : Append(l, r)[i] = l[i]
      /\ Append(l, r)[Len(l) + 1] = r
  BY AppendProperties, LenProperties
<1>2. \A i \in 1 .. Len(l) : l[i].id # r.id
  BY LenProperties DEF Panels!FreshKeys
<1>3. QED
  BY <1>1, <1>2 DEF OneEach

LEMMA PutKeeps ==
    ASSUME NEW R, NEW l \in Seq(R), OneEach(l), NEW r \in R, Panels!Has(l, r.id)
    PROVE  Panels!Put(l, r.id, r) \in Seq(R) /\ OneEach(Panels!Put(l, r.id, r))
<1> DEFINE at == Panels!At(l, r.id)
<1>1. at \in 1 .. Len(l) /\ l[at].id = r.id
  BY Found
<1> HIDE DEF at
<1>2. /\ [l EXCEPT ![at] = r] \in Seq(R) /\ Len([l EXCEPT ![at] = r]) = Len(l)
      /\ \A j \in 1 .. Len(l) : [l EXCEPT ![at] = r][j] = IF j = at THEN r ELSE l[j]
  BY <1>1, ExceptSeq
<1>3. QED
  BY <1>1, <1>2 DEF OneEach, Panels!Put, at

LEMMA WithoutKeeps ==
    ASSUME NEW R, NEW l \in Seq(R), OneEach(l), NEW k
    PROVE  Panels!Without(l, k) \in Seq(R) /\ OneEach(Panels!Without(l, k))
BY OnlyKeeps DEF Panels!Without

LEMMA MoveKeeps ==
    ASSUME NEW R, NEW l \in Seq(R), OneEach(l), NEW from \in 1 .. Len(l), NEW to \in 1 .. Len(l)
    PROVE  /\ Panels!InsertAt(Panels!RemoveAt(l, from), to, l[from]) \in Seq(R)
           /\ OneEach(Panels!InsertAt(Panels!RemoveAt(l, from), to, l[from]))
<1> DEFINE rest == Panels!RemoveAt(l, from)
           moved == Panels!InsertAt(rest, to, l[from])
           \* Where the row at i was.
           was(i) == IF i = to THEN from
                     ELSE IF i < to THEN IF i < from THEN i ELSE i + 1
                     ELSE IF i - 1 < from THEN i - 1 ELSE i
<1>1. /\ rest \in Seq(R) /\ Len(rest) = Len(l) - 1 /\ Len(l) \in Nat /\ l[from] \in R
      /\ \A i \in 1 .. Len(l) - 1 : rest[i] = IF i < from THEN l[i] ELSE l[i + 1]
  BY TakenOut, ElementOfSeq, LenProperties
<1> HIDE DEF rest
<1>2. /\ moved \in Seq(R) /\ Len(moved) = Len(l)
      /\ \A i \in 1 .. Len(l) :
             moved[i] = IF i < to THEN rest[i] ELSE IF i = to THEN l[from] ELSE rest[i - 1]
  <2> DEFINE row == l[from]
  <2>1. to \in 1 .. Len(rest) + 1 /\ rest \in Seq(R) /\ row \in R
    BY <1>1
  <2> HIDE DEF row
  <2>2. /\ moved \in Seq(R) /\ Len(moved) = Len(rest) + 1
        /\ \A i \in 1 .. Len(rest) + 1 :
               moved[i] = IF i < to THEN rest[i] ELSE IF i = to THEN row ELSE rest[i - 1]
    <3>1. /\ Panels!InsertAt(rest, to, row) \in Seq(R)
          /\ Len(Panels!InsertAt(rest, to, row)) = Len(rest) + 1
          /\ \A i \in 1 .. Len(rest) + 1 : Panels!InsertAt(rest, to, row)[i]
                = IF i < to THEN rest[i] ELSE IF i = to THEN row ELSE rest[i - 1]
      BY <2>1, Inserted
    <3>2. QED
      BY <3>1 DEF row
  <2> HIDE DEF moved
  <2>3. Len(rest) + 1 = Len(l)
    BY <1>1
  <2>4. QED
    BY <2>2, <2>3 DEF row
<1> HIDE DEF moved
<1>3. \A i \in 1 .. Len(l) : was(i) \in 1 .. Len(l) /\ moved[i] = l[was(i)]
  BY <1>1, <1>2
<1>4. \A i, j \in 1 .. Len(l) : was(i) = was(j) => i = j
  BY <1>1
<1> HIDE DEF was
<1>5. OneEach(moved)
  <2>1. ASSUME NEW i \in 1 .. Len(l), NEW j \in 1 .. Len(l), moved[i].id = moved[j].id
        PROVE  i = j
    <3>1. l[was(i)].id = l[was(j)].id /\ was(i) \in 1 .. Len(l) /\ was(j) \in 1 .. Len(l)
      BY <1>3, <2>1
    <3>2. was(i) = was(j)
      BY <3>1 DEF OneEach
    <3>3. QED
      BY <1>4, <3>2
  <2>2. QED
    BY <1>2, <2>1 DEF OneEach
<1>6. QED
  BY <1>2, <1>5 DEF moved, rest

LEMMA CopyKeeps ==
    ASSUME NEW R, NEW l \in Seq(R), OneEach(l), NEW r \in R, r.id \in Panels!FreshKeys(l),
           NEW at \in 1 .. Len(l) + 1
    PROVE  Panels!InsertAt(l, at, r) \in Seq(R) /\ OneEach(Panels!InsertAt(l, at, r))
<1> DEFINE longer == Panels!InsertAt(l, at, r)
<1>1. /\ longer \in Seq(R) /\ Len(longer) = Len(l) + 1 /\ Len(l) \in Nat
      /\ \A i \in 1 .. Len(l) + 1 :
             longer[i] = IF i < at THEN l[i] ELSE IF i = at THEN r ELSE l[i - 1]
  BY Inserted, LenProperties
<1> HIDE DEF longer
<1>2. \A i \in 1 .. Len(l) : l[i].id # r.id
  BY LenProperties DEF Panels!FreshKeys
<1>3. OneEach(longer)
  <2> DEFINE was(i) == IF i < at THEN i ELSE i - 1
  <2>1. \A i \in 1 .. Len(l) + 1 : i # at => was(i) \in 1 .. Len(l) /\ longer[i] = l[was(i)]
    BY <1>1
  <2>2. longer[at] = r
    BY <1>1
  <2>3. \A i, j \in (1 .. Len(l) + 1) \ {at} : was(i) = was(j) => i = j
    BY <1>1
  <2> HIDE DEF was
  <2>4. ASSUME NEW i \in 1 .. Len(l) + 1, NEW j \in 1 .. Len(l) + 1, longer[i].id = longer[j].id
        PROVE  i = j
    <3>1. CASE i # at /\ j # at
      <4>1. l[was(i)].id = l[was(j)].id /\ was(i) \in 1 .. Len(l) /\ was(j) \in 1 .. Len(l)
        BY <2>1, <2>4, <3>1
      <4>2. was(i) = was(j)
        BY <4>1 DEF OneEach
      <4>3. QED
        BY <2>3, <3>1, <4>2
    <3>2. CASE i = at /\ j # at
      BY <1>2, <2>1, <2>2, <2>4, <3>2
    <3>3. CASE i # at /\ j = at
      BY <1>2, <2>1, <2>2, <2>4, <3>3
    <3>4. QED
      BY <3>1, <3>2, <3>3
  <2>5. QED
    BY <1>1, <2>4 DEF OneEach
<1>4. QED
  BY <1>1, <1>3 DEF longer

-----------------------------------------------------------------------------
(* The panels: their lists stay lists of rows, whose ids are not shared.   *)

GoodDraft(d) ==
    d \in Panels!Config /\ OneEach(d.bases) /\ OneEach(d.contexts) /\ OneEach(d.routes)

Openable == Workers \cup Keys \cup {Supervisor, None}

PanelsInv ==
    /\ GoodDraft(x1)
    /\ x2 \in Panels!Sections /\ x3 \in {"all", "enabled", "disabled"}
    /\ x4 \in Openable /\ x5 \in Openable
    /\ x6 \in {"closed", "open", "failed"}

LEMMA DraftFields ==
    ASSUME NEW d, GoodDraft(d)
    PROVE  /\ d.bases \in Seq(Panels!Base) /\ OneEach(d.bases)
           /\ d.contexts \in Seq(Panels!Block) /\ OneEach(d.contexts)
           /\ d.routes \in Seq(Panels!Route) /\ OneEach(d.routes)
           /\ d.approval \in BOOLEAN /\ d.audit \in BOOLEAN
           /\ d.agents \in [Workers \cup {Supervisor} ->
                                [mode : Panels!Modes, enabled : BOOLEAN] \cup {None}]
BY DEF GoodDraft, Panels!Config

LEMMA BasesGood ==
    ASSUME NEW d, GoodDraft(d), NEW l \in Seq(Panels!Base), OneEach(l)
    PROVE  GoodDraft([d EXCEPT !.bases = l])
BY DEF GoodDraft, Panels!Config

LEMMA ContextsGood ==
    ASSUME NEW d, GoodDraft(d), NEW l \in Seq(Panels!Block), OneEach(l)
    PROVE  GoodDraft([d EXCEPT !.contexts = l])
BY DEF GoodDraft, Panels!Config

LEMMA RoutesGood ==
    ASSUME NEW d, GoodDraft(d), NEW l \in Seq(Panels!Route), OneEach(l)
    PROVE  GoodDraft([d EXCEPT !.routes = l])
BY DEF GoodDraft, Panels!Config

LEMMA AgentsGood ==
    ASSUME NEW d, GoodDraft(d), NEW a,
           NEW r \in [mode : Panels!Modes, enabled : BOOLEAN] \cup {None}
    PROVE  GoodDraft([d EXCEPT !.agents[a] = r])
<1>1. [d.agents EXCEPT ![a] = r] \in [Workers \cup {Supervisor} ->
                                [mode : Panels!Modes, enabled : BOOLEAN] \cup {None}]
  BY DraftFields
<1>2. [d EXCEPT !.agents[a] = r] = [d EXCEPT !.agents = [d.agents EXCEPT ![a] = r]]
  BY DEF GoodDraft, Panels!Config
<1>3. QED
  BY <1>1, <1>2 DEF GoodDraft, Panels!Config

\* A registered agent is an agent, however it is switched.
LEMMA RegisteredAgent ==
    ASSUME GoodDraft(x1), NEW a \in Panels!Registered
    PROVE  /\ a \in Workers \cup {Supervisor}
           /\ \A m \in Panels!Modes : [x1.agents[a] EXCEPT !.mode = m] \in [mode : Panels!Modes, enabled : BOOLEAN]
           /\ [x1.agents[a] EXCEPT !.enabled = ~@] \in [mode : Panels!Modes, enabled : BOOLEAN]
<1>1. a \in Workers \cup {Supervisor} /\ x1.agents[a] \in [mode : Panels!Modes, enabled : BOOLEAN]
  BY DraftFields DEF Panels!Registered
<1>2. QED
  BY <1>1

LEMMA AgentsPanelKeeps ==
    ASSUME PanelsInv, Panels!AgentsPanel
    PROVE  PanelsInv'
<1> USE DEF PanelsInv, Openable
<1>1. CASE Panels!openRegister
  BY <1>1 DEF Panels!openRegister
<1>2. ASSUME NEW a, NEW r, Panels!EditAgent(a, r), r \in [mode : Panels!Modes, enabled : BOOLEAN]
      PROVE  PanelsInv'
  <2>1. GoodDraft(x1')
    BY <1>2, AgentsGood DEF Panels!EditAgent, Panels!update
  <2>2. QED
    BY <1>2, <2>1 DEF Panels!EditAgent, Panels!panel
<1>3. ASSUME NEW a, Panels!toggle(a) PROVE PanelsInv'
  BY <1>2, <1>3, RegisteredAgent DEF Panels!toggle, Panels!Listed
<1>4. ASSUME NEW a, NEW m \in Panels!Modes, Panels!setMode(a, m) PROVE PanelsInv'
  BY <1>2, <1>4, RegisteredAgent DEF Panels!setMode, Panels!Listed
<1>5. ASSUME NEW a, Panels!Detail(a) PROVE PanelsInv'
  <2>1. a \in Panels!Registered
    BY <1>5 DEF Panels!Detail
  <2>2. CASE \E m \in Panels!Modes : Panels!EditAgent(a, [x1.agents[a] EXCEPT !.mode = m])
    BY <1>2, <2>1, <2>2, RegisteredAgent
  <2>3. CASE Panels!EditAgent(a, [x1.agents[a] EXCEPT !.enabled = ~@])
    BY <1>2, <2>1, <2>3, RegisteredAgent
  <2>4. CASE x4' = None /\ UNCHANGED <<x1, x2, x3, x5, x6, x7>>
    BY <2>4
  <2>5. QED
    BY <1>5, <2>2, <2>3, <2>4 DEF Panels!Detail
<1>6. ASSUME NEW a, Panels!setDetailId(a) \/ Panels!setPendingRemove(a) PROVE PanelsInv'
  BY <1>6, RegisteredAgent DEF Panels!setDetailId, Panels!setPendingRemove, Panels!Listed
<1>7. ASSUME NEW a, Panels!RemoveAgent(a) PROVE PanelsInv'
  <2>1. GoodDraft(x1')
    BY <1>7, AgentsGood DEF Panels!RemoveAgent, Panels!update
  <2>2. QED
    BY <1>7, <2>1 DEF Panels!RemoveAgent
<1>8. ASSUME NEW a, Panels!Register(a) PROVE PanelsInv'
  <2>1. Panels!Agent("automatic", TRUE) \in [mode : Panels!Modes, enabled : BOOLEAN]
    BY DEF Panels!Agent, Panels!Modes
  <2>2. GoodDraft(x1')
    BY <1>8, <2>1, AgentsGood DEF Panels!Register, Panels!update
  <2>3. QED
    BY <1>8, <2>2 DEF Panels!Register
<1>9. QED
  BY <1>1, <1>3, <1>4, <1>5, <1>6, <1>7, <1>8 DEF Panels!AgentsPanel

\* The base that is shown is one of the bases.
LEMMA ActiveBase ==
    ASSUME GoodDraft(x1), Panels!Shown
    PROVE  Panels!Has(x1.bases, Panels!active) /\ Panels!active \in Keys
<1>1. /\ x1.bases \in Seq(Panels!Base) /\ x1.bases # << >>
      /\ DOMAIN x1.bases = 1 .. Len(x1.bases) /\ 1 \in 1 .. Len(x1.bases)
  BY DraftFields, EmptySeq, LenProperties DEF Panels!Shown
<1>2. \A k : Panels!Has(x1.bases, k) => k \in Keys
  <2>1. \A i \in DOMAIN x1.bases : x1.bases[i] \in Panels!Base
    BY <1>1, ElementOfSeq
  <2>2. \A r \in Panels!Base : r.id \in Keys
    BY DEF Panels!Base
  <2>3. QED
    BY <2>1, <2>2 DEF Panels!Has
<1>3. Panels!Has(x1.bases, x1.bases[1].id)
  BY <1>1 DEF Panels!Has
<1>4. QED
  BY <1>2, <1>3 DEF Panels!active

\* A base that replaces another of its id leaves the draft good.
LEMMA BasePut ==
    ASSUME GoodDraft(x1), NEW r \in Panels!Base, Panels!Has(x1.bases, r.id)
    PROVE  GoodDraft([x1 EXCEPT !.bases = Panels!Put(x1.bases, r.id, r)])
<1>1. /\ Panels!Put(x1.bases, r.id, r) \in Seq(Panels!Base)
      /\ OneEach(Panels!Put(x1.bases, r.id, r))
  BY DraftFields, PutKeeps
<1>2. QED
  BY <1>1, BasesGood

LEMMA RagKeeps ==
    ASSUME PanelsInv, Panels!Rag
    PROVE  PanelsInv'
<1> USE DEF PanelsInv, Openable
<1> DEFINE inUse == x1.bases[Panels!At(x1.bases, Panels!active)]
<1>1. /\ x1.bases \in Seq(Panels!Base) /\ OneEach(x1.bases)
      /\ Panels!Shown => inUse \in Panels!Base /\ inUse.id = Panels!active
                         /\ Panels!Has(x1.bases, Panels!active)
  BY DraftFields, ActiveBase, Found
<1> HIDE DEF inUse
<1>2. ASSUME NEW k \in Keys, Panels!addBase(k) PROVE PanelsInv'
  <2> DEFINE r == [id |-> k, enabled |-> TRUE, docs |-> << >>]
  <2>1. r \in Panels!Base /\ r.id \in Panels!FreshKeys(x1.bases)
    BY <1>2, EmptySeq DEF Panels!addBase, Panels!Base
  <2> HIDE DEF r
  <2>2. Append(x1.bases, r) \in Seq(Panels!Base) /\ OneEach(Append(x1.bases, r))
    BY <1>1, <2>1, AddKeeps
  <2>3. GoodDraft([x1 EXCEPT !.bases = Append(x1.bases, r)])
    BY <2>2, BasesGood
  <2>4. QED
    BY <1>2, <2>3 DEF Panels!addBase, Panels!update, r
<1>3. ASSUME NEW k \in Keys, Panels!setActiveId(k) PROVE PanelsInv'
  BY <1>3 DEF Panels!setActiveId
<1>4. ASSUME NEW r \in Panels!Base, r.id = Panels!active, Panels!patchBase(r)
      PROVE  PanelsInv'
  <2>1. GoodDraft(x1')
    BY <1>1, <1>4, BasePut DEF Panels!patchBase, Panels!update
  <2>2. QED
    BY <1>4, <2>1 DEF Panels!patchBase, Panels!panel
<1>5. CASE Panels!SwitchBase
  <2>1. /\ [inUse EXCEPT !.enabled = ~@] \in Panels!Base
        /\ [inUse EXCEPT !.enabled = ~@].id = Panels!active
        /\ Panels!patchBase([inUse EXCEPT !.enabled = ~@])
    BY <1>1, <1>5 DEF Panels!SwitchBase, Panels!Base, inUse
  <2>2. QED
    BY <1>4, <2>1
<1>6. CASE Panels!setPendingDelete
  BY <1>6, ActiveBase DEF Panels!setPendingDelete
<1>7. CASE Panels!DeleteBase
  <2> DEFINE rest == Panels!Without(x1.bases, x5)
  <2>1. rest \in Seq(Panels!Base) /\ OneEach(rest)
    BY <1>1, WithoutKeeps
  <2>2. /\ x1' = [x1 EXCEPT !.bases = rest]
        /\ x4' = IF rest = << >> THEN None ELSE rest[1].id
        /\ x5' = None /\ UNCHANGED <<x2, x3, x6>>
    BY <1>7 DEF Panels!DeleteBase, Panels!update
  <2> HIDE DEF rest
  <2>3. rest # << >> => rest[1] \in Panels!Base
    BY <2>1, EmptySeq, ElementOfSeq
  <2>4. x4' \in Openable
    BY <2>2, <2>3 DEF Panels!Base
  <2>5. GoodDraft(x1')
    BY <2>1, <2>2, BasesGood
  <2>6. QED
    BY <2>2, <2>4, <2>5
<1>8. ASSUME NEW f \in Files, Panels!DeleteDocument(f) PROVE PanelsInv'
  <2>1. /\ Panels!Shown
        /\ Panels!patchBase([inUse EXCEPT !.docs = Panels!Only(@, Files \ {f})])
    BY <1>8 DEF Panels!DeleteDocument, inUse
  <2>2. Panels!Only(inUse.docs, Files \ {f}) \in Seq(Files)
    BY <1>1, <2>1, OnlyKeeps DEF Panels!Base
  <2>3. /\ [inUse EXCEPT !.docs = Panels!Only(@, Files \ {f})] \in Panels!Base
        /\ [inUse EXCEPT !.docs = Panels!Only(@, Files \ {f})].id = Panels!active
    BY <1>1, <2>1, <2>2 DEF Panels!Base
  <2>4. QED
    BY <1>4, <2>1, <2>3
<1>9. ASSUME NEW f \in Files, NEW k \in Keys, Panels!addDocuments(k, f) PROVE PanelsInv'
  <2> DEFINE base == x1.bases[Panels!At(x1.bases, k)]
             more == [base EXCEPT !.docs = Append(base.docs, f)]
  <2>1. Panels!Has(x1.bases, k) /\ base \in Panels!Base /\ base.id = k
    BY <1>1, <1>9, Found DEF Panels!addDocuments
  <2>2. x1' = [x1 EXCEPT !.bases = Panels!Put(x1.bases, k, more)] /\ UNCHANGED <<x2, x3, x4, x5, x6>>
    BY <1>9 DEF Panels!addDocuments, Panels!update, Panels!panel
  <2> HIDE DEF base
  <2>3. Append(base.docs, f) \in Seq(Files)
    BY <2>1 DEF Panels!Base
  <2>4. more \in Panels!Base /\ more.id = k
    BY <2>1, <2>3 DEF Panels!Base
  <2> HIDE DEF more
  <2>5. GoodDraft(x1')
    BY <2>1, <2>2, <2>4, BasePut
  <2>6. QED
    BY <2>2, <2>5
<1>10. QED
  BY <1>2, <1>3, <1>5, <1>6, <1>7, <1>8, <1>9 DEF Panels!Rag

LEMMA ContextPut ==
    ASSUME GoodDraft(x1), NEW r \in Panels!Block, Panels!Has(x1.contexts, r.id)
    PROVE  GoodDraft([x1 EXCEPT !.contexts = Panels!Put(x1.contexts, r.id, r)])
<1>1. /\ Panels!Put(x1.contexts, r.id, r) \in Seq(Panels!Block)
      /\ OneEach(Panels!Put(x1.contexts, r.id, r))
  BY DraftFields, PutKeeps
<1>2. QED
  BY <1>1, ContextsGood

LEMMA ContextsKeeps ==
    ASSUME PanelsInv, Panels!Contexts
    PROVE  PanelsInv'
<1> USE DEF PanelsInv, Openable
<1>1. x1.contexts \in Seq(Panels!Block) /\ OneEach(x1.contexts) /\ Len(x1.contexts) \in Nat
  BY DraftFields, LenProperties
<1>2. CASE Panels!ClearFilters
  BY <1>2 DEF Panels!ClearFilters
<1>3. CASE Panels!DeleteContext
  <2>1. GoodDraft([x1 EXCEPT !.contexts = Panels!Without(x1.contexts, x5)])
    BY <1>1, WithoutKeeps, ContextsGood
  <2>2. QED
    BY <1>3, <2>1 DEF Panels!DeleteContext, Panels!update
<1>4. ASSUME NEW k, NEW r \in Panels!Block, r.id = k, Panels!Has(x1.contexts, k), Panels!edit(k, r)
      PROVE  PanelsInv'
  <2>1. GoodDraft(x1')
    BY <1>4, ContextPut DEF Panels!edit, Panels!update
  <2>2. QED
    BY <1>4, <2>1 DEF Panels!edit, Panels!panel
<1>5. ASSUME NEW k \in Keys, Panels!EditContext(k) PROVE PanelsInv'
  <2> DEFINE row == x1.contexts[Panels!At(x1.contexts, k)]
  <2>1. Panels!Has(x1.contexts, k) /\ row \in Panels!Block /\ row.id = k
    BY <1>1, <1>5, Found DEF Panels!EditContext, Panels!Row
  <2>2. PICK r : /\ Panels!edit(k, r)
                 /\ \/ r = [row EXCEPT !.enabled = ~@]
                    \/ \E s \in {"workspace", "task"} : r = [row EXCEPT !.scope = s]
                    \/ \E t \in Panels!Contents : r = [row EXCEPT !.content = t]
                    \/ \E b \in {"sound", "high"} : r = [row EXCEPT !.budget = b]
    BY <1>5, Zenon DEF Panels!EditContext
  <2> HIDE DEF row
  <2>3. r \in Panels!Block /\ r.id = k
    BY <2>1, <2>2 DEF Panels!Block
  <2>4. QED
    BY <1>4, <2>1, <2>2, <2>3
<1>6. ASSUME NEW k \in Keys, Panels!addContext(k) PROVE PanelsInv'
  <2> DEFINE r == [id |-> k, scope |-> "workspace", enabled |-> TRUE, budget |-> "sound", content |-> "empty"]
  <2>1. r \in Panels!Block /\ r.id \in Panels!FreshKeys(x1.contexts)
    BY <1>6 DEF Panels!addContext, Panels!Block, Panels!Contents
  <2> HIDE DEF r
  <2>2. Append(x1.contexts, r) \in Seq(Panels!Block) /\ OneEach(Append(x1.contexts, r))
    BY <1>1, <2>1, AddKeeps
  <2>3. GoodDraft([x1 EXCEPT !.contexts = Append(x1.contexts, r)])
    BY <2>2, ContextsGood
  <2>4. QED
    BY <1>6, <2>3 DEF Panels!addContext, Panels!update, r
<1>7. ASSUME NEW k \in Keys, Panels!Expand(k) \/ Panels!AskDeleteContext(k) PROVE PanelsInv'
  BY <1>7 DEF Panels!Expand, Panels!AskDeleteContext
<1>8. ASSUME NEW k \in Keys, NEW delta \in {-1, 1}, Panels!move(k, delta) PROVE PanelsInv'
  <2> DEFINE from == Panels!At(x1.contexts, k)
             moved == Panels!InsertAt(Panels!RemoveAt(x1.contexts, from), from + delta, x1.contexts[from])
  <2>1. /\ Panels!Has(x1.contexts, k) /\ from + delta \in DOMAIN x1.contexts
        /\ x1' = [x1 EXCEPT !.contexts = moved] /\ UNCHANGED <<x2, x3, x4, x5, x6>>
    BY <1>8 DEF Panels!move, Panels!Row, Panels!update, Panels!panel
  <2>2. from \in 1 .. Len(x1.contexts) /\ from + delta \in 1 .. Len(x1.contexts)
    BY <1>1, <2>1, Found, LenProperties
  <2>3. moved \in Seq(Panels!Block) /\ OneEach(moved)
    BY <1>1, <2>2, MoveKeeps
  <2> HIDE DEF moved
  <2>4. GoodDraft(x1')
    BY <2>1, <2>3, ContextsGood
  <2>5. QED
    BY <2>1, <2>4
<1>9. ASSUME NEW k \in Keys, NEW new \in Keys, Panels!duplicate(k, new) PROVE PanelsInv'
  <2> DEFINE at == Panels!At(x1.contexts, k)
             row == x1.contexts[at]
             copy == [row EXCEPT !.id = new, !.enabled = FALSE]
             longer == Panels!InsertAt(x1.contexts, at + 1, copy)
  <2>1. /\ Panels!Has(x1.contexts, k) /\ new \in Panels!FreshKeys(x1.contexts)
        /\ x1' = [x1 EXCEPT !.contexts = longer] /\ UNCHANGED <<x2, x3, x4, x5, x6>>
    BY <1>9 DEF Panels!duplicate, Panels!Row, Panels!update, Panels!panel
  <2>2. at \in 1 .. Len(x1.contexts) /\ row \in Panels!Block
    BY <1>1, <2>1, Found
  <2> HIDE DEF row
  <2>3. copy \in Panels!Block /\ copy.id = new
    BY <2>2 DEF Panels!Block
  <2> HIDE DEF copy
  <2>4. longer \in Seq(Panels!Block) /\ OneEach(longer)
    <3>1. at + 1 \in 1 .. Len(x1.contexts) + 1
      BY <1>1, <2>2
    <3>2. QED
      BY <1>1, <2>1, <2>3, <3>1, CopyKeeps
  <2> HIDE DEF longer
  <2>5. GoodDraft(x1')
    BY <2>1, <2>4, ContextsGood
  <2>6. QED
    BY <2>1, <2>5
<1>10. QED
  BY <1>2, <1>3, <1>5, <1>6, <1>7, <1>8, <1>9 DEF Panels!Contexts

LEMMA ModelsKeeps ==
    ASSUME PanelsInv, Panels!Models
    PROVE  PanelsInv'
<1> USE DEF PanelsInv, Openable
<1>1. x1.routes \in Seq(Panels!Route) /\ OneEach(x1.routes) /\ UNCHANGED <<x2, x3, x4, x5, x6>>
  BY DraftFields DEF Panels!Models, Panels!panel
<1>2. ASSUME NEW k \in Keys, Panels!AddRoute(k) PROVE GoodDraft(x1')
  <2> DEFINE r == [id |-> k, enabled |-> FALSE]
  <2>1. r \in Panels!Route /\ r.id \in Panels!FreshKeys(x1.routes)
    BY <1>2 DEF Panels!AddRoute, Panels!Route
  <2> HIDE DEF r
  <2>2. GoodDraft([x1 EXCEPT !.routes = Append(x1.routes, r)])
    BY <1>1, <2>1, AddKeeps, RoutesGood
  <2>3. QED
    BY <1>2, <2>2 DEF Panels!AddRoute, Panels!update, r
<1>3. ASSUME NEW k \in Keys, Panels!SwitchRoute(k) PROVE GoodDraft(x1')
  <2> DEFINE route == x1.routes[Panels!At(x1.routes, k)]
             switched == [route EXCEPT !.enabled = ~route.enabled]
  <2>1. /\ Panels!Has(x1.routes, k)
        /\ x1' = [x1 EXCEPT !.routes = Panels!Put(x1.routes, k, switched)]
    BY <1>3 DEF Panels!SwitchRoute, Panels!update
  <2>2. route \in Panels!Route /\ route.id = k
    BY <1>1, <2>1, Found
  <2> HIDE DEF route
  <2>3. switched \in Panels!Route /\ switched.id = k
    BY <2>2 DEF Panels!Route
  <2> HIDE DEF switched
  <2>4. Panels!Put(x1.routes, k, switched) \in Seq(Panels!Route) /\ OneEach(Panels!Put(x1.routes, k, switched))
    BY <1>1, <2>1, <2>3, PutKeeps
  <2>5. QED
    BY <2>1, <2>4, RoutesGood
<1>4. ASSUME NEW k \in Keys, Panels!DeleteRoute(k) PROVE GoodDraft(x1')
  <2>1. GoodDraft([x1 EXCEPT !.routes = Panels!Without(x1.routes, k)])
    BY <1>1, WithoutKeeps, RoutesGood
  <2>2. QED
    BY <1>4, <2>1 DEF Panels!DeleteRoute, Panels!update
<1>5. GoodDraft(x1')
  BY <1>2, <1>3, <1>4 DEF Panels!Models
<1>6. QED
  BY <1>1, <1>5

LEMMA GovernanceKeeps ==
    ASSUME PanelsInv, Panels!Governance
    PROVE  PanelsInv'
<1> USE DEF PanelsInv, Openable
<1>1. UNCHANGED <<x2, x3, x4, x5, x6>>
  BY DEF Panels!Governance, Panels!panel
<1>2. GoodDraft(x1')
  BY DEF Panels!Governance, Panels!update, GoodDraft, Panels!Config
<1>3. QED
  BY <1>1, <1>2

LEMMA PanelsStarts ==
    ASSUME Panels!PanelsInit
    PROVE  PanelsInv
<1>1. PICK k \in Keys, l \in Keys : k # l /\ x1 =
        [agents |-> [a \in Workers \cup {Supervisor} |->
                        Panels!Agent(IF a = Supervisor THEN "required" ELSE "automatic", TRUE)],
         bases |-> <<[id |-> k, enabled |-> TRUE, docs |-> << >>]>>,
         contexts |-> <<[id |-> k, scope |-> "workspace", enabled |-> TRUE, budget |-> "sound", content |-> "text"]>>,
         routes |-> <<[id |-> k, enabled |-> TRUE], [id |-> l, enabled |-> TRUE]>>,
         approval |-> TRUE, audit |-> TRUE, limits |-> "sound"]
  BY DEF Panels!PanelsInit
<1> DEFINE base == [id |-> k, enabled |-> TRUE, docs |-> << >>]
           block == [id |-> k, scope |-> "workspace", enabled |-> TRUE, budget |-> "sound", content |-> "text"]
           route(i) == [id |-> i, enabled |-> TRUE]
<1>2. base \in Panels!Base /\ block \in Panels!Block /\ route(k) \in Panels!Route /\ route(l) \in Panels!Route
  <2>1. base \in Panels!Base
    BY EmptySeq DEF Panels!Base
  <2>2. block \in Panels!Block
    BY DEF Panels!Block, Panels!Contents
  <2>3. QED
    BY <2>1, <2>2 DEF Panels!Route
<1>3. route(k).id # route(l).id
  BY <1>1
<1> HIDE DEF base, block, route
<1>4. /\ <<base>> \in Seq(Panels!Base) /\ OneEach(<<base>>)
      /\ <<block>> \in Seq(Panels!Block) /\ OneEach(<<block>>)
  BY <1>2 DEF OneEach
<1>5. <<route(k), route(l)>> \in Seq(Panels!Route) /\ OneEach(<<route(k), route(l)>>)
  BY <1>2, <1>3 DEF OneEach
<1>6. x1.agents \in [Workers \cup {Supervisor} -> [mode : Panels!Modes, enabled : BOOLEAN] \cup {None}]
  BY <1>1 DEF Panels!Agent, Panels!Modes
<1>7. GoodDraft(x1)
  <2>1. x1 = [agents |-> x1.agents, bases |-> <<base>>, contexts |-> <<block>>,
              routes |-> <<route(k), route(l)>>,
              approval |-> TRUE, audit |-> TRUE, limits |-> "sound"]
    BY <1>1 DEF base, block, route
  <2>2. x1.bases = <<base>> /\ x1.contexts = <<block>> /\ x1.routes = <<route(k), route(l)>>
    BY <1>1 DEF base, block, route
  <2>3. x1 \in Panels!Config
    <3> DEFINE bases == <<base>>
               blocks == <<block>>
               routes == <<route(k), route(l)>>
               agents == x1.agents
    <3>1. /\ bases \in Seq(Panels!Base) /\ blocks \in Seq(Panels!Block) /\ routes \in Seq(Panels!Route)
          /\ agents \in [Workers \cup {Supervisor} -> [mode : Panels!Modes, enabled : BOOLEAN] \cup {None}]
      BY <1>4, <1>5, <1>6
    <3>2. x1 = [agents |-> agents, bases |-> bases, contexts |-> blocks, routes |-> routes,
                approval |-> TRUE, audit |-> TRUE, limits |-> "sound"]
      BY <2>1
    <3> HIDE DEF agents, bases, blocks, routes
    <3>3. [agents |-> agents, bases |-> bases, contexts |-> blocks, routes |-> routes,
           approval |-> TRUE, audit |-> TRUE, limits |-> "sound"] \in Panels!Config
      BY <3>1 DEF Panels!Config
    <3>4. QED
      BY <3>2, <3>3
  <2>4. QED
    BY <1>4, <1>5, <2>2, <2>3 DEF GoodDraft
<1>8. QED
  BY <1>7 DEF PanelsInv, Openable, Panels!PanelsInit, Panels!Sections

LEMMA PanelsKeeps ==
    ASSUME PanelsInv, [Panels!PanelsNext]_<<x1, x2, x3, x4, x5, x6, x7>>
    PROVE  PanelsInv'
<1> USE DEF PanelsInv, Openable
<1>1. ASSUME NEW s \in Panels!Sections, Panels!go(s) PROVE PanelsInv'
  BY <1>1 DEF Panels!go, Panels!ClosePanel
<1>2. CASE Panels!changeSection \/ Panels!Overview \/ Panels!OverviewCards
  <2>1. \E s \in Panels!Sections : Panels!go(s)
    BY <1>2, Zenon DEF Panels!changeSection, Panels!Overview, Panels!OverviewCards, Panels!todos, Panels!Sections
  <2>2. QED
    BY <1>1, <2>1
<1>3. CASE Panels!CloseDialog
  BY <1>3 DEF Panels!CloseDialog
<1>4. ASSUME NEW f \in {"all", "enabled", "disabled"}, Panels!SetFilter(f) PROVE PanelsInv'
  BY <1>4 DEF Panels!SetFilter
<1>5. CASE UNCHANGED <<x1, x2, x3, x4, x5, x6, x7>>
  BY <1>5
<1>6. QED
  BY <1>2, <1>3, <1>4, <1>5, AgentsPanelKeeps, RagKeeps, ContextsKeeps, ModelsKeeps, GovernanceKeeps
     DEF Panels!PanelsNext

LEMMA PanelsShow ==
    ASSUME PanelsInv
    PROVE  Panels!PanelsTypeOK /\ Panels!OneRowPerId
<1>1. Panels!PanelsTypeOK
  BY DEF PanelsInv, GoodDraft, Openable, Panels!PanelsTypeOK
<1>2. ASSUME NEW R, NEW l \in Seq(R), OneEach(l)
      PROVE  \A i, j \in DOMAIN l : l[i].id = l[j].id => i = j
  BY <1>2, LenProperties DEF OneEach
<1>3. Panels!OneRowPerId
  <2>1. GoodDraft(x1)
    BY DEF PanelsInv
  <2>2. QED
    BY <1>2, <2>1, DraftFields DEF Panels!OneRowPerId
<1>4. QED
  BY <1>1, <1>3

\* What the page's preview filters by at once, managed_context filters by in
\* two goes.
LEMMA PreviewShows ==
    ASSUME PanelsInv
    PROVE  Panels!PreviewIsTaskContext
<1> DEFINE l == x1.contexts
           given == {r \in Panels!Block : r.enabled /\ r.scope = "workspace"}
           full == {r \in Panels!Block : r.content # "empty"}
           visible == {r \in Panels!Block : r.content # "blank"}
           preview == {r \in Panels!Block :
                          r.enabled /\ r.scope = "workspace" /\ r.content \notin {"empty", "blank"}}
<1>1. l \in Seq(Panels!Block)
  BY DraftFields DEF PanelsInv
<1>2. Panels!injectable(l) = Panels!Only(l, preview)
  BY DEF Panels!injectable
<1>3. Panels!managed_context(l) = Panels!Only(Panels!Only(l, given), full)
  BY DEF Panels!managed_context
<1>4. Panels!PreviewIsTaskContext <=>
          Panels!injectable(l) = Panels!Only(Panels!managed_context(l), visible)
  BY DEF Panels!PreviewIsTaskContext
<1>5. preview = (given \cap full) \cap visible
  OBVIOUS
<1> HIDE DEF l, given, full, visible, preview
<1>6. Panels!managed_context(l) = Panels!Only(l, given \cap full)
  BY <1>1, <1>3, OnlyTwice
<1>7. Panels!Only(Panels!Only(l, given \cap full), visible) = Panels!Only(l, (given \cap full) \cap visible)
  BY <1>1, OnlyTwice
<1>8. QED
  BY <1>2, <1>4, <1>5, <1>6, <1>7, Zenon

-----------------------------------------------------------------------------
(* The pages of rows: what has gone from them stays gone.                  *)

RowsInv == Schedules!RowsTypeOK /\ Schedules!RemovedStaysGone

rowsNow == <<x1, x2, x3, x4, x5, x6, x7, x8, x9>>

\* A call is sent; the dialog that asks before a row is deleted opens on a
\* row, or closes with the call or without it.
Sends(k, r, on) == x8' = x8 \cup {[kind |-> k, row |-> r, enabled |-> on, answer |-> "asked"]}

Dialog ==
    \/ /\ x5 # None /\ x5' = None
       /\ Sends("remove", x5, FALSE) \/ x8' = x8
       /\ UNCHANGED <<x1, x2, x3, x4, x6, x7, x9>>
    \/ x5' \in RowIds /\ UNCHANGED <<x1, x2, x3, x4, x6, x7, x8, x9>>

LEMMA RowsStart ==
    ASSUME Schedules!RowsInit
    PROVE  RowsInv
<1>1. x1 \in [RowIds -> BOOLEAN \cup {None}]
  BY DEF Schedules!RowsInit
<1>2. QED
  BY <1>1 DEF RowsInv, Schedules!RowsInit, Schedules!RowsTypeOK, Schedules!RemovedStaysGone, Schedules!NoRows

\* What the three pages have in common is the same for each.
LEMMA SameRows ==
    /\ Servers!RowsInit <=> Schedules!RowsInit
    /\ Skills!RowsInit <=> Schedules!RowsInit
    /\ Servers!load \/ Servers!ListAnswer \/ Servers!ListArrives \/ Servers!ListFails
           <=> Schedules!load \/ Schedules!ListAnswer \/ Schedules!ListArrives \/ Schedules!ListFails
    /\ Skills!load \/ Skills!ListAnswer \/ Skills!ListArrives \/ Skills!ListFails
           <=> Schedules!load \/ Schedules!ListAnswer \/ Schedules!ListArrives \/ Schedules!ListFails
    /\ \A r : Servers!Elsewhere(r) <=> Schedules!Elsewhere(r)
    /\ \A r : Skills!Elsewhere(r) <=> Schedules!Elsewhere(r)
    /\ \A c : Servers!Serve(c) <=> Schedules!Serve(c)
    /\ \A c : Skills!Serve(c) <=> Schedules!Serve(c)
    /\ Schedules!DeleteDialog \/ Servers!DeleteDialog \/ Skills!RemoveDialog => Dialog
    /\ \A c : Servers!removeArrives(c) <=> Schedules!removeArrives(c)
    /\ \A c : Skills!removeArrives(c) <=> Schedules!removeArrives(c)
    /\ \A c : Servers!patchArrives(c) <=> Schedules!patchArrives(c)
    /\ \A c : Skills!patchArrives(c) <=> Schedules!patchArrives(c)
    /\ Servers!ServerDetail <=> Schedules!ScheduleDetail
    /\ Skills!SkillDetail <=> Schedules!ScheduleDetail
    /\ Servers!openCreate <=> Schedules!openCreate
    /\ Skills!UploadSkill <=> Schedules!openCreate
    /\ Servers!ServerForm <=> Schedules!ScheduleForm
    /\ Skills!closeUpload <=> Schedules!ScheduleForm
    /\ Servers!ServerTable <=> Schedules!PlanTable
<1> USE DEF Schedules!view, Servers!view, Skills!view
<1>1. Servers!RowsInit <=> Schedules!RowsInit
  BY DEF Servers!RowsInit, Schedules!RowsInit, Servers!NoRows, Schedules!NoRows
<1>2. Skills!RowsInit <=> Schedules!RowsInit
  BY DEF Skills!RowsInit, Schedules!RowsInit, Skills!NoRows, Schedules!NoRows
<1>3. Servers!load \/ Servers!ListAnswer \/ Servers!ListArrives \/ Servers!ListFails
          <=> Schedules!load \/ Schedules!ListAnswer \/ Schedules!ListArrives \/ Schedules!ListFails
  BY DEF Servers!load, Servers!Load, Servers!ListAnswer, Servers!ListArrives, Servers!ListFails, Servers!Answered,
         Schedules!load, Schedules!Load, Schedules!ListAnswer, Schedules!ListArrives, Schedules!ListFails,
         Schedules!Answered
<1>4. Skills!load \/ Skills!ListAnswer \/ Skills!ListArrives \/ Skills!ListFails
          <=> Schedules!load \/ Schedules!ListAnswer \/ Schedules!ListArrives \/ Schedules!ListFails
  BY DEF Skills!load, Skills!Load, Skills!ListAnswer, Skills!ListArrives, Skills!ListFails, Skills!Answered,
         Schedules!load, Schedules!Load, Schedules!ListAnswer, Schedules!ListArrives, Schedules!ListFails,
         Schedules!Answered
<1>5. \A r : /\ Servers!Elsewhere(r) <=> Schedules!Elsewhere(r)
             /\ Skills!Elsewhere(r) <=> Schedules!Elsewhere(r)
  BY DEF Servers!Elsewhere, Skills!Elsewhere, Schedules!Elsewhere
<1>6. \A c : Servers!Serve(c) <=> Schedules!Serve(c)
  BY Zenon DEF Servers!Serve, Schedules!Serve
<1>7. \A c : Skills!Serve(c) <=> Schedules!Serve(c)
  BY Zenon DEF Skills!Serve, Schedules!Serve
<1>8. Schedules!DeleteDialog \/ Servers!DeleteDialog => Dialog
  BY DEF Schedules!DeleteDialog, Schedules!Confirm, Schedules!AskRemove, Schedules!Send,
         Servers!DeleteDialog, Servers!Confirm, Servers!AskRemove, Servers!Send, Dialog, Sends
<1>9. Skills!RemoveDialog => Dialog
  BY DEF Skills!RemoveDialog, Skills!Confirm, Skills!AskRemove, Skills!Send, Dialog, Sends
<1>10. \A c : /\ Servers!removeArrives(c) <=> Schedules!removeArrives(c)
              /\ Skills!removeArrives(c) <=> Schedules!removeArrives(c)
  BY DEF Servers!removeArrives, Servers!Removed, Skills!removeArrives, Skills!Removed,
         Schedules!removeArrives, Schedules!Removed
<1>11. \A c : /\ Servers!patchArrives(c) <=> Schedules!patchArrives(c)
              /\ Skills!patchArrives(c) <=> Schedules!patchArrives(c)
  BY DEF Servers!patchArrives, Servers!applyUpdate, Servers!Replaced, Skills!patchArrives, Skills!Replaced,
         Schedules!patchArrives, Schedules!applyUpdate, Schedules!Replaced
<1>12. /\ Servers!ServerDetail <=> Schedules!ScheduleDetail
       /\ Skills!SkillDetail <=> Schedules!ScheduleDetail
  BY DEF Servers!ServerDetail, Servers!CloseDetail, Skills!SkillDetail, Skills!CloseDetail,
         Schedules!ScheduleDetail, Schedules!CloseDetail
<1>13. /\ Servers!openCreate <=> Schedules!openCreate
       /\ Skills!UploadSkill <=> Schedules!openCreate
  BY DEF Servers!openCreate, Servers!OpenForm, Skills!UploadSkill, Skills!OpenForm,
         Schedules!openCreate, Schedules!OpenForm
<1>14. /\ Servers!ServerForm <=> Schedules!ScheduleForm
       /\ Skills!closeUpload <=> Schedules!ScheduleForm
  BY DEF Servers!ServerForm, Servers!CloseForm, Skills!closeUpload, Skills!CloseForm,
         Schedules!ScheduleForm, Schedules!CloseForm
<1>15. Servers!ServerTable <=> Schedules!PlanTable
  BY DEF Servers!ServerTable, Servers!OpenDetail, Servers!Reach, Servers!Filtered,
         Schedules!PlanTable, Schedules!OpenDetail, Schedules!Reach, Schedules!Filtered
<1>16. QED
  BY <1>1, <1>2, <1>3, <1>4, <1>5, <1>6, <1>7, <1>8, <1>9, <1>10, <1>11, <1>12, <1>13, <1>14, <1>15, Zenon

\* A call that is sent is one the page makes.
LEMMA SendKeeps ==
    ASSUME Schedules!RowsTypeOK, NEW k \in Schedules!Kinds, NEW r \in RowIds, NEW on \in BOOLEAN,
           Sends(k, r, on)
    PROVE  x8' \subseteq Schedules!Call
BY DEF Sends, Schedules!Call, Schedules!RowsTypeOK

\* What changes nothing of the page but what is open on it keeps the rows.
LEMMA ViewKeeps ==
    ASSUME RowsInv, x3' \in RowIds \cup {None}, x4' \in RowIds \cup {"closed", "new"},
           x5' \in RowIds \cup {None}, x6' \in RowIds \cup {None},
           x8' \subseteq Schedules!Call, UNCHANGED <<x1, x2, x7, x9>>
    PROVE  RowsInv'
BY DEF RowsInv, Schedules!RowsTypeOK, Schedules!RemovedStaysGone

\* The rows after an answer that does not add one.
LEMMA ReplacedKeeps ==
    ASSUME RowsInv, NEW c \in x8, x2' = Schedules!Replaced(c.row, c.enabled), x9' = x9
    PROVE  x2' \in [RowIds -> BOOLEAN \cup {None}] /\ \A r \in x9' : x2'[r] = None
<1>1. c.row \in RowIds /\ c.enabled \in BOOLEAN
  BY DEF RowsInv, Schedules!RowsTypeOK, Schedules!Call
<1>2. QED
  BY <1>1 DEF RowsInv, Schedules!RowsTypeOK, Schedules!RemovedStaysGone, Schedules!Replaced

\* The rows after one that adds one, or takes one away.
LEMMA AddedKeeps ==
    ASSUME RowsInv, NEW c \in x8,
           \/ x2' = Schedules!Added(c.row, c.enabled) /\ x9' = x9 \ {c.row}
           \/ x2' = [x2 EXCEPT ![c.row] = None] /\ x9' = x9 \cup {c.row}
    PROVE  /\ x2' \in [RowIds -> BOOLEAN \cup {None}] /\ x9' \subseteq RowIds
           /\ \A r \in x9' : x2'[r] = None
<1>1. c.row \in RowIds /\ c.enabled \in BOOLEAN
  BY DEF RowsInv, Schedules!RowsTypeOK, Schedules!Call
<1>2. QED
  BY <1>1 DEF RowsInv, Schedules!RowsTypeOK, Schedules!RemovedStaysGone, Schedules!Added

\* The server carries a call out.
LEMMA ServeKeeps ==
    ASSUME RowsInv, NEW c \in x8, Schedules!Serve(c)
    PROVE  RowsInv'
<1> DEFINE known == (x1[c.row] # None) = (c.kind # "create")
           told == [c EXCEPT !.answer = IF known THEN "ok" ELSE "refused",
                             !.enabled = IF known /\ c.kind = "long" THEN x1[c.row] ELSE @]
<1>1. /\ x1' = IF ~known \/ c.kind \in {"long", "read"} THEN x1
               ELSE [x1 EXCEPT ![c.row] = IF c.kind = "remove" THEN None ELSE c.enabled]
      /\ x8' = (x8 \ {c}) \cup {told}
      /\ UNCHANGED <<x2, x3, x4, x5, x6, x7, x9>>
  BY Zenon DEF Schedules!Serve, Schedules!view
<1>2. /\ c \in Schedules!Call /\ c.row \in RowIds /\ c.enabled \in BOOLEAN
      /\ x1 \in [RowIds -> BOOLEAN \cup {None}]
  BY DEF RowsInv, Schedules!RowsTypeOK, Schedules!Call
<1>3. known /\ c.kind = "long" => x1[c.row] \in BOOLEAN
  BY <1>2
<1> HIDE DEF known
<1>4. told \in Schedules!Call
  BY <1>2, <1>3 DEF Schedules!Call
<1> HIDE DEF told
<1>5. x1' \in [RowIds -> BOOLEAN \cup {None}] /\ x8' \subseteq Schedules!Call
  BY <1>1, <1>2, <1>4 DEF RowsInv, Schedules!RowsTypeOK
<1>6. QED
  BY <1>1, <1>5 DEF RowsInv, Schedules!RowsTypeOK, Schedules!RemovedStaysGone

\* What the three pages have in common.
LEMMA SharedKeeps ==
    ASSUME RowsInv,
           \/ Schedules!load \/ Schedules!ListAnswer \/ Schedules!ListArrives \/ Schedules!ListFails
           \/ Schedules!PlanTable \/ Schedules!openCreate \/ Schedules!ScheduleForm
           \/ Schedules!ScheduleDetail \/ Dialog
           \/ \E r \in RowIds : Schedules!Elsewhere(r)
           \/ \E c \in x8 : Schedules!Serve(c) \/ Schedules!patchArrives(c) \/ Schedules!removeArrives(c)
           \/ UNCHANGED rowsNow
    PROVE  RowsInv'
<1> USE DEF Schedules!view
<1>1. Schedules!RowsTypeOK
  BY DEF RowsInv
<1>2. CASE Schedules!load \/ Schedules!ListAnswer \/ Schedules!ListFails
  BY <1>2 DEF RowsInv, Schedules!RowsTypeOK, Schedules!RemovedStaysGone, Schedules!load, Schedules!Load,
              Schedules!ListAnswer, Schedules!ListFails
<1>3. CASE Schedules!ListArrives
  BY <1>3 DEF RowsInv, Schedules!RowsTypeOK, Schedules!RemovedStaysGone, Schedules!ListArrives, Schedules!Answered
<1>4. CASE Schedules!PlanTable \/ Schedules!openCreate \/ Schedules!ScheduleForm \/ Schedules!ScheduleDetail
  BY <1>1, <1>4, ViewKeeps DEF Schedules!RowsTypeOK, Schedules!PlanTable, Schedules!OpenDetail, Schedules!openCreate,
     Schedules!OpenForm, Schedules!ScheduleForm, Schedules!CloseForm, Schedules!ScheduleDetail, Schedules!CloseDetail
<1>5. CASE /\ x5 # None /\ x5' = None
           /\ Sends("remove", x5, FALSE) \/ x8' = x8
           /\ UNCHANGED <<x1, x2, x3, x4, x6, x7, x9>>
  <2>1. x5 \in RowIds
    BY <1>1, <1>5 DEF Schedules!RowsTypeOK
  <2>2. x8' \subseteq Schedules!Call
    <3>1. Sends("remove", x5, FALSE) \/ x8' = x8
      BY <1>5
    <3>2. "remove" \in Schedules!Kinds
      BY DEF Schedules!Kinds
    <3>3. x8 \subseteq Schedules!Call
      BY <1>1 DEF Schedules!RowsTypeOK
    <3>4. QED
      BY <1>1, <2>1, <3>1, <3>2, <3>3, SendKeeps
  <2>3. QED
    BY <1>1, <1>5, <2>2, ViewKeeps DEF Schedules!RowsTypeOK
<1>6. CASE x5' \in RowIds /\ UNCHANGED <<x1, x2, x3, x4, x6, x7, x8, x9>>
  BY <1>1, <1>6, ViewKeeps DEF Schedules!RowsTypeOK
<1>7. ASSUME NEW r \in RowIds, Schedules!Elsewhere(r) PROVE RowsInv'
  BY <1>7 DEF RowsInv, Schedules!RowsTypeOK, Schedules!RemovedStaysGone, Schedules!Elsewhere
<1>8. ASSUME NEW c \in x8, Schedules!patchArrives(c) PROVE RowsInv'
  <2>1. x2' = Schedules!Replaced(c.row, c.enabled) /\ x8' = x8 \ {c} /\ UNCHANGED <<x1, x3, x4, x5, x6, x7, x9>>
    BY <1>8 DEF Schedules!patchArrives, Schedules!applyUpdate
  <2>2. QED
    BY <2>1, ReplacedKeeps DEF RowsInv, Schedules!RowsTypeOK, Schedules!RemovedStaysGone
<1>9. ASSUME NEW c \in x8, Schedules!removeArrives(c) PROVE RowsInv'
  <2>1. /\ x2' = [x2 EXCEPT ![c.row] = None] /\ x9' = x9 \cup {c.row} /\ x3' = None
        /\ x8' = x8 \ {c} /\ UNCHANGED <<x1, x4, x5, x6, x7>>
    BY <1>9 DEF Schedules!removeArrives, Schedules!Removed
  <2>2. QED
    BY <2>1, AddedKeeps DEF RowsInv, Schedules!RowsTypeOK, Schedules!RemovedStaysGone
<1>10. CASE UNCHANGED rowsNow
  BY <1>10 DEF RowsInv, rowsNow, Schedules!RowsTypeOK, Schedules!RemovedStaysGone
<1>11. QED
  BY <1>2, <1>3, <1>4, <1>5, <1>6, <1>7, <1>8, <1>9, <1>10, ServeKeeps DEF Dialog

\* What is left on each page: what it sends, and the answers to it.
LEMMA SchedulesKeep ==
    ASSUME RowsInv, [Schedules!SchedulesPageNext]_rowsNow
    PROVE  RowsInv'
<1> USE DEF Schedules!view
<1>1. Schedules!RowsTypeOK
  BY DEF RowsInv
<1>2. ASSUME NEW k \in {"create", "edit", "patch", "long", "remove", "read"}, NEW r \in RowIds,
             NEW on \in BOOLEAN, Schedules!Send(k, r, on)
      PROVE  x8' \subseteq Schedules!Call
  <2>1. Sends(k, r, on) /\ k \in Schedules!Kinds
    BY <1>2 DEF Schedules!Send, Sends, Schedules!Kinds
  <2>2. QED
    BY <1>1, <2>1, SendKeeps
<1>3. ASSUME NEW r \in RowIds, Schedules!openEdit(r) PROVE RowsInv'
  BY <1>1, <1>3, ViewKeeps DEF Schedules!RowsTypeOK, Schedules!openEdit, Schedules!OpenForm
<1>4. ASSUME NEW r \in RowIds, Schedules!toggle(r) PROVE RowsInv'
  <2>1. x8' \subseteq Schedules!Call
    BY <1>2, <1>4 DEF Schedules!toggle
  <2>2. QED
    BY <1>1, <1>4, <2>1, ViewKeeps DEF Schedules!RowsTypeOK, Schedules!toggle
<1>5. ASSUME NEW r \in RowIds, Schedules!runNow(r) PROVE RowsInv'
  <2>1. x8' \subseteq Schedules!Call
    BY <1>2, <1>5 DEF Schedules!runNow
  <2>2. QED
    BY <1>1, <1>5, <2>1, ViewKeeps DEF Schedules!RowsTypeOK, Schedules!runNow
<1>6. ASSUME NEW r \in RowIds, NEW on \in BOOLEAN, Schedules!submit(r, on) PROVE RowsInv'
  <2>1. x8' \subseteq Schedules!Call
    BY <1>2, <1>6 DEF Schedules!submit
  <2>2. QED
    BY <1>1, <1>6, <2>1, ViewKeeps DEF Schedules!RowsTypeOK, Schedules!submit
<1>7. ASSUME NEW c \in x8, Schedules!submitArrives(c) PROVE RowsInv'
  <2>1. /\ \/ x2' = Schedules!Replaced(c.row, c.enabled) /\ x9' = x9
           \/ x2' = Schedules!Added(c.row, c.enabled) /\ x9' = x9 \ {c.row}
        /\ x4' = "closed" /\ x8' = x8 \ {c} /\ UNCHANGED <<x1, x3, x5, x6, x7>>
    BY <1>7 DEF Schedules!submitArrives, Schedules!applyUpdate
  <2>2. QED
    BY <1>1, <2>1, ReplacedKeeps, AddedKeeps DEF RowsInv, Schedules!RowsTypeOK, Schedules!RemovedStaysGone
<1>8. ASSUME NEW c \in x8, Schedules!runNowArrives(c) PROVE RowsInv'
  <2>1. /\ x2' = Schedules!Replaced(c.row, c.enabled) /\ x6' = None /\ x8' = x8 \ {c}
        /\ UNCHANGED <<x1, x3, x4, x5, x7, x9>>
    BY <1>8 DEF Schedules!runNowArrives, Schedules!applyUpdate
  <2>2. QED
    BY <1>1, <2>1, ReplacedKeeps DEF RowsInv, Schedules!RowsTypeOK, Schedules!RemovedStaysGone
<1>9. ASSUME NEW c \in x8, Schedules!CallFails(c) PROVE RowsInv'
  BY <1>1, <1>9, ViewKeeps DEF Schedules!RowsTypeOK, Schedules!CallFails
<1>10. QED
  BY <1>3, <1>4, <1>5, <1>6, <1>7, <1>8, <1>9, SameRows, SharedKeeps DEF Schedules!SchedulesPageNext

LEMMA ServersKeep ==
    ASSUME RowsInv, [Servers!McpCentreNext]_rowsNow
    PROVE  RowsInv'
<1> USE DEF Servers!view
<1>1. Schedules!RowsTypeOK
  BY DEF RowsInv
<1>2. ASSUME NEW k \in {"create", "edit", "patch", "long", "remove", "read"}, NEW r \in RowIds,
             NEW on \in BOOLEAN, Servers!Send(k, r, on)
      PROVE  x8' \subseteq Schedules!Call
  <2>1. Sends(k, r, on) /\ k \in Schedules!Kinds
    BY <1>2 DEF Servers!Send, Sends, Schedules!Kinds
  <2>2. QED
    BY <1>1, <2>1, SendKeeps
<1>3. ASSUME NEW r \in RowIds, Servers!patch(r) PROVE RowsInv'
  <2>1. x8' \subseteq Schedules!Call
    BY <1>2, <1>3 DEF Servers!patch
  <2>2. QED
    BY <1>1, <1>3, <2>1, ViewKeeps DEF Schedules!RowsTypeOK, Servers!patch
<1>4. ASSUME NEW r \in RowIds, Servers!probe(r) PROVE RowsInv'
  <2>1. x8' \subseteq Schedules!Call
    BY <1>2, <1>4 DEF Servers!probe
  <2>2. QED
    BY <1>1, <1>4, <2>1, ViewKeeps DEF Schedules!RowsTypeOK, Servers!probe
<1>5. ASSUME NEW r \in RowIds, NEW on \in BOOLEAN, Servers!submit(r, on) PROVE RowsInv'
  <2>1. x8' \subseteq Schedules!Call
    BY <1>2, <1>5 DEF Servers!submit
  <2>2. QED
    BY <1>1, <1>5, <2>1, ViewKeeps DEF Schedules!RowsTypeOK, Servers!submit
\* A probe goes on with a call that is a call still.
<1>6. ASSUME NEW c \in x8, Servers!probe_server(c) \/ Servers!record_probe(c) PROVE RowsInv'
  <2>1. c \in Schedules!Call /\ c.row \in RowIds /\ x1[c.row] \in BOOLEAN \cup {None}
    BY <1>1 DEF Schedules!RowsTypeOK, Schedules!Call
  <2>2. PICK d : /\ x8' = (x8 \ {c}) \cup {d}
                 /\ \/ d = [c EXCEPT !.answer = "refused"]
                    \/ d = [c EXCEPT !.answer = "trying"]
                    \/ x1[c.row] # None /\ d = [c EXCEPT !.answer = "ok", !.enabled = x1[c.row]]
    BY <1>6 DEF Servers!probe_server, Servers!record_probe
  <2>3. d \in Schedules!Call
    BY <2>1, <2>2 DEF Schedules!Call
  <2>4. x8' \subseteq Schedules!Call
    BY <1>1, <2>2, <2>3 DEF Schedules!RowsTypeOK
  <2>5. UNCHANGED <<x1, x2, x3, x4, x5, x6, x7, x9>>
    BY <1>6 DEF Servers!probe_server, Servers!record_probe
  <2>6. QED
    BY <1>1, <2>4, <2>5, ViewKeeps DEF Schedules!RowsTypeOK
<1>7. ASSUME NEW c \in x8, Servers!submitArrives(c) PROVE RowsInv'
  <2>1. /\ x2' = Schedules!Added(c.row, c.enabled) /\ x9' = x9 \ {c.row}
        /\ x4' = "closed" /\ x8' = x8 \ {c} /\ UNCHANGED <<x1, x3, x5, x6, x7>>
    BY <1>7 DEF Servers!submitArrives, Servers!Added, Schedules!Added
  <2>2. QED
    BY <1>1, <2>1, AddedKeeps DEF RowsInv, Schedules!RowsTypeOK, Schedules!RemovedStaysGone
<1>8. ASSUME NEW c \in x8, Servers!probeArrives(c) PROVE RowsInv'
  <2>1. /\ x2' = Schedules!Replaced(c.row, c.enabled) /\ x6' = None /\ x8' = x8 \ {c}
        /\ UNCHANGED <<x1, x3, x4, x5, x7, x9>>
    BY <1>8 DEF Servers!probeArrives, Servers!applyUpdate, Servers!Replaced, Schedules!Replaced
  <2>2. QED
    BY <1>1, <2>1, ReplacedKeeps DEF RowsInv, Schedules!RowsTypeOK, Schedules!RemovedStaysGone
<1>9. ASSUME NEW c \in x8, Servers!CallFails(c) PROVE RowsInv'
  BY <1>1, <1>9, ViewKeeps DEF Schedules!RowsTypeOK, Servers!CallFails
<1>10. CASE Servers!load \/ Servers!ListAnswer \/ Servers!ListArrives \/ Servers!ListFails
  BY <1>10, SameRows, SharedKeeps
<1>11. CASE Servers!ServerTable \/ Servers!openCreate \/ Servers!ServerForm \/ Servers!ServerDetail
            \/ Servers!DeleteDialog \/ UNCHANGED rowsNow
  BY <1>11, SameRows, SharedKeeps
<1>12. ASSUME NEW r \in RowIds, Servers!Elsewhere(r) PROVE RowsInv'
  BY <1>12, SameRows, SharedKeeps
<1>13. ASSUME NEW c \in x8, Servers!Serve(c) \/ Servers!patchArrives(c) \/ Servers!removeArrives(c)
       PROVE  RowsInv'
  BY <1>13, SameRows, SharedKeeps
<1>14. QED
  BY <1>3, <1>4, <1>5, <1>6, <1>7, <1>8, <1>9, <1>10, <1>11, <1>12, <1>13 DEF Servers!McpCentreNext

LEMMA SkillsKeep ==
    ASSUME RowsInv, [Skills!SkillCentreNext]_rowsNow
    PROVE  RowsInv'
<1> USE DEF Skills!view
<1>1. Schedules!RowsTypeOK
  BY DEF RowsInv
<1>2. ASSUME NEW k \in {"create", "edit", "patch", "long", "remove", "read"}, NEW r \in RowIds,
             NEW on \in BOOLEAN, Skills!Send(k, r, on)
      PROVE  x8' \subseteq Schedules!Call
  <2>1. Sends(k, r, on) /\ k \in Schedules!Kinds
    BY <1>2 DEF Skills!Send, Sends, Schedules!Kinds
  <2>2. QED
    BY <1>1, <2>1, SendKeeps
<1>3. ASSUME NEW r \in RowIds, Skills!patch(r) PROVE RowsInv'
  <2>1. x8' \subseteq Schedules!Call
    BY <1>2, <1>3 DEF Skills!patch
  <2>2. QED
    BY <1>1, <1>3, <2>1, ViewKeeps DEF Schedules!RowsTypeOK, Skills!patch
<1>4. ASSUME NEW r \in RowIds, Skills!openDetail(r) PROVE RowsInv'
  <2>1. x8' \subseteq Schedules!Call
    BY <1>2, <1>4 DEF Skills!openDetail
  <2>2. QED
    BY <1>1, <1>4, <2>1, ViewKeeps DEF Schedules!RowsTypeOK, Skills!openDetail
<1>5. ASSUME NEW r \in RowIds, Skills!upload(r) PROVE RowsInv'
  <2>1. x8' \subseteq Schedules!Call
    BY <1>2, <1>5 DEF Skills!upload
  <2>2. QED
    BY <1>1, <1>5, <2>1, ViewKeeps DEF Schedules!RowsTypeOK, Skills!upload
<1>6. ASSUME NEW c \in x8, Skills!openDetailArrives(c) PROVE RowsInv'
  <2>1. c.row \in RowIds /\ x8' \subseteq Schedules!Call
    BY <1>1, <1>6 DEF Schedules!RowsTypeOK, Schedules!Call, Skills!openDetailArrives
  <2>2. QED
    BY <1>1, <1>6, <2>1, ViewKeeps DEF Schedules!RowsTypeOK, Skills!openDetailArrives
<1>7. ASSUME NEW c \in x8, Skills!uploadArrives(c) PROVE RowsInv'
  <2>1. /\ x2' = Schedules!Added(c.row, c.enabled) /\ x9' = x9 \ {c.row}
        /\ x4' = "closed" /\ x6' = None /\ x8' = x8 \ {c} /\ UNCHANGED <<x1, x3, x5, x7>>
    BY <1>7 DEF Skills!uploadArrives, Skills!Added, Schedules!Added
  <2>2. QED
    BY <1>1, <2>1, AddedKeeps DEF RowsInv, Schedules!RowsTypeOK, Schedules!RemovedStaysGone
<1>8. ASSUME NEW c \in x8, Skills!CallFails(c) PROVE RowsInv'
  BY <1>1, <1>8, ViewKeeps DEF Schedules!RowsTypeOK, Skills!CallFails
<1>9. CASE Skills!load \/ Skills!ListAnswer \/ Skills!ListArrives \/ Skills!ListFails
  BY <1>9, SameRows, SharedKeeps
<1>10. CASE Skills!UploadSkill \/ Skills!closeUpload \/ Skills!SkillDetail
            \/ Skills!RemoveDialog \/ UNCHANGED rowsNow
  BY <1>10, SameRows, SharedKeeps
<1>11. ASSUME NEW r \in RowIds, Skills!Elsewhere(r) PROVE RowsInv'
  BY <1>11, SameRows, SharedKeeps
<1>12. ASSUME NEW c \in x8, Skills!Serve(c) \/ Skills!patchArrives(c) \/ Skills!removeArrives(c)
       PROVE  RowsInv'
  BY <1>12, SameRows, SharedKeeps
<1>13. QED
  BY <1>3, <1>4, <1>5, <1>6, <1>7, <1>8, <1>9, <1>10, <1>11, <1>12 DEF Skills!SkillCentreNext

-----------------------------------------------------------------------------
(* The login page: which captchas are still good.                          *)

\* The form of a registration that is under way, or that the page has given
\* up: what it carries may still be consumed.
Posted(w) == x11 # None /\ x11.path = "register" /\ w = x11.with
GivenUp(w) == x12 # None /\ w = x12

\* A captcha the page has, or has had.
InHand(c) == \/ c = x3 \/ c \in x14
             \/ \E w \in Login!Form : (Posted(w) \/ GivenUp(w)) /\ w.captcha = c

\* One that is consumed, or may be behind the page's back.
Doomed(c) == c \in x14 \/ \E w \in Login!Form : GivenUp(w) /\ w.captcha = c

\* What is on its way to the page is none of those it has had; and one that
\* is doomed is on the page only while it is being submitted, or another has
\* been asked for.
Fresh ==
    /\ \A c \in x9 : ~InHand(c)
    /\ \A c \in Login!Captchas : InHand(c) => c \in 1 .. x13
    /\ x3 # None /\ Doomed(x3) /\ x8 = 0 /\ x9 = {} =>
           x2 = "left" \/ \E w \in Login!Form : Posted(w)

Submitting ==
    /\ x2 = "submitting" <=> x11 # None
    /\ x11 # None /\ x11.path = "register" => x11.with \in Login!Form

SignUpInv == Login!SignUpTypeOK /\ Submitting /\ Fresh

LEMMA SignUpStarts ==
    ASSUME Login!SignUpInit
    PROVE  SignUpInv
<1>1. 0 \in Login!Codes /\ 0 \in 0 .. MaxCaptchas
  BY PagesBounds DEF Login!Codes
<1>2. Login!SignUpTypeOK
  BY <1>1 DEF Login!SignUpInit, Login!SignUpTypeOK
<1>3. QED
  BY <1>2, PagesBounds DEF SignUpInv, Submitting, Fresh, InHand, Doomed, Posted, GivenUp,
     Login!SignUpInit, Login!Captchas

\* Steps that change nothing of the captchas but to ask for another.
LEMMA CaptchasKeep ==
    ASSUME SignUpInv, Login!SignUpTypeOK', x8' \in {x8, x8 + 1},
           UNCHANGED <<x2, x3, x9, x11, x12, x13, x14>>
    PROVE  SignUpInv'
<1>1. x8 \in Nat
  BY DEF SignUpInv, Login!SignUpTypeOK
<1>2. Submitting'
  BY DEF SignUpInv, Submitting
<1>3. Fresh'
  BY <1>1 DEF SignUpInv, Fresh, InHand, Doomed, Posted, GivenUp
<1>4. QED
  BY <1>2, <1>3 DEF SignUpInv

\* The form, its two modes, and the mails.
LEMMA FormKeeps ==
    ASSUME SignUpInv,
           \/ Login!AnotherCaptcha \/ Login!RegisterForm \/ Login!sendEmailCode \/ Login!issue_email_code
           \/ Login!EmailCodeArrives \/ Login!EmailCodeFails \/ Login!CooldownEnds
           \/ \E target \in {"login", "register"} : Login!switchMode(target)
           \/ UNCHANGED x
    PROVE  SignUpInv'
<1> USE DEF Login!form, Login!gets, Login!server
<1>1. Login!SignUpTypeOK
  BY DEF SignUpInv
<1>2. CASE Login!AnotherCaptcha
  BY <1>1, <1>2, CaptchasKeep DEF Login!AnotherCaptcha, Login!refreshCaptcha, Login!SignUpTypeOK
<1>3. CASE Login!RegisterForm
  BY <1>1, <1>3, CaptchasKeep DEF Login!RegisterForm, Login!SignUpTypeOK
<1>4. CASE Login!sendEmailCode \/ Login!EmailCodeArrives \/ Login!EmailCodeFails \/ Login!CooldownEnds
  BY <1>1, <1>4, CaptchasKeep DEF Login!sendEmailCode, Login!EmailCodeArrives, Login!EmailCodeFails,
     Login!CooldownEnds, Login!SignUpTypeOK
<1>5. CASE Login!issue_email_code
  <2>1. Login!SignUpTypeOK'
    BY <1>1, <1>5, PagesBounds DEF Login!issue_email_code, Login!SignUpTypeOK, Login!Codes
  <2>2. QED
    BY <1>5, <2>1, CaptchasKeep DEF Login!issue_email_code
<1>6. ASSUME NEW target \in {"login", "register"}, Login!switchMode(target) PROVE SignUpInv'
  <2>1. /\ x1' = target /\ x4' \in {x4, None} /\ x8' \in {x8, x8 + 1}
        /\ UNCHANGED <<x2, x3, x5, x6, x7, x9, x10, x11, x12, x13, x14, x15, x16, x17>>
    BY <1>6 DEF Login!switchMode, Login!refreshCaptcha
  <2>2. QED
    BY <1>1, <2>1, CaptchasKeep DEF Login!SignUpTypeOK
<1>7. CASE UNCHANGED x
  BY <1>1, <1>7, CaptchasKeep DEF x, Login!SignUpTypeOK
<1>8. QED
  BY <1>2, <1>3, <1>4, <1>5, <1>6, <1>7

\* A captcha is made, and its number is new; it arrives, or does not.
LEMMA CaptchaKeeps ==
    ASSUME SignUpInv,
           Login!issue_captcha \/ Login!CaptchaFails \/ \E c \in x9 : Login!CaptchaArrives(c)
    PROVE  SignUpInv'
<1> USE DEF Login!form, Login!gets, Login!server
<1>1. Login!SignUpTypeOK /\ Submitting /\ Fresh
  BY DEF SignUpInv
<1>2. CASE Login!issue_captcha
  <2>1. /\ x13 \in 0 .. MaxCaptchas /\ x13' = x13 + 1 /\ x13' \in Login!Captchas /\ x8 \in Nat /\ x8 > 0
        /\ x8' = x8 - 1 /\ x9' = x9 \cup {x13'}
        /\ UNCHANGED <<x1, x2, x3, x4, x5, x6, x7, x10, x11, x12, x14, x15, x16, x17>>
    BY <1>1, <1>2, PagesBounds DEF Login!issue_captcha, Login!SignUpTypeOK, Login!Captchas
  <2>2. Login!SignUpTypeOK'
    BY <1>1, <2>1, PagesBounds DEF Login!SignUpTypeOK, Login!Captchas
  <2>3. Submitting'
    BY <1>1, <2>1 DEF Submitting
  <2>4. \A c : InHand(c)' <=> InHand(c)
    BY <2>1 DEF InHand, Posted, GivenUp
  <2>5. ~InHand(x13')
    BY <1>1, <2>1 DEF Fresh
  <2>6. Fresh'
    BY <1>1, <2>1, <2>4, <2>5 DEF Fresh
  <2>7. QED
    BY <2>2, <2>3, <2>6 DEF SignUpInv
<1>3. CASE Login!CaptchaFails
  <2>1. /\ x3' = None /\ x8' \in Nat /\ x9' \subseteq x9
        /\ UNCHANGED <<x1, x2, x4, x5, x6, x7, x10, x11, x12, x13, x14, x15, x16, x17>>
    BY <1>1, <1>3 DEF Login!CaptchaFails, Login!SignUpTypeOK
  <2>2. Login!SignUpTypeOK'
    BY <1>1, <2>1 DEF Login!SignUpTypeOK
  <2>3. Submitting'
    BY <1>1, <2>1 DEF Submitting
  <2>4. None \notin Login!Captchas /\ x9 \subseteq Login!Captchas
    BY <1>1, PagesBounds DEF Login!SignUpTypeOK, Login!Captchas
  <2>5. \A c \in Login!Captchas : InHand(c)' => InHand(c)
    BY <2>1, <2>4 DEF InHand, Posted, GivenUp
  <2>6. Fresh'
    BY <1>1, <2>1, <2>4, <2>5 DEF Fresh
  <2>7. QED
    BY <2>2, <2>3, <2>6 DEF SignUpInv
<1>4. ASSUME NEW c \in x9, Login!CaptchaArrives(c) PROVE SignUpInv'
  <2>1. /\ c \in Login!Captchas /\ c \in 1 .. x13 /\ x3' = c /\ x5' = Smtp /\ x9' = x9 \ {c}
        /\ UNCHANGED <<x1, x2, x4, x6, x7, x8, x10, x11, x12, x13, x14, x15, x16, x17>>
    BY <1>1, <1>4, PagesBounds DEF Login!CaptchaArrives, Login!SignUpTypeOK, Login!Captchas
  <2>2. Login!SignUpTypeOK'
    BY <1>1, <2>1, PagesBounds DEF Login!SignUpTypeOK
  <2>3. Submitting'
    BY <1>1, <2>1 DEF Submitting
  <2>4. \A d : InHand(d)' => InHand(d) \/ d = c
    BY <2>1 DEF InHand, Posted, GivenUp
  <2>5. ~Doomed(c)'
    <3>1. ~InHand(c)
      BY <1>1 DEF Fresh
    <3>2. QED
      BY <2>1, <3>1 DEF InHand, Doomed, GivenUp
  <2>6. Fresh'
    BY <1>1, <2>1, <2>4, <2>5 DEF Fresh
  <2>7. QED
    BY <2>2, <2>3, <2>6 DEF SignUpInv
<1>5. QED
  BY <1>2, <1>3, <1>4

\* A post carries the captcha that is shown.
LEMMA SentKeeps ==
    ASSUME SignUpInv, NEW path \in {"login", "guest", "register"}, Login!Sent(path)
    PROVE  SignUpInv'
<1> USE DEF Login!form, Login!gets, Login!server
<1>1. Login!SignUpTypeOK /\ Submitting /\ Fresh
  BY DEF SignUpInv
<1> DEFINE w == [captcha |-> x3, answer |-> x4, code |-> x6]
           carried == IF path # "register" THEN None ELSE w
<1>2. /\ x2 = "idle" /\ x2' = "submitting" /\ x11' = [path |-> path, outcome |-> "asked", with |-> carried]
      /\ UNCHANGED <<x1, x3, x4, x5, x6, x7, x8, x9, x10, x12, x13, x14, x15, x16, x17>>
  BY Zenon DEF Login!Sent
<1>3. w \in Login!Form /\ w.captcha = x3
  BY <1>1 DEF Login!SignUpTypeOK, Login!Form
<1> HIDE DEF w
<1>4. carried \in Login!Form \cup {None} /\ (path = "register" => carried = w)
  BY <1>3
<1> HIDE DEF carried
<1>5. /\ x11' \in Login!Post /\ x11' # None /\ x11'.path = path /\ x11'.with = carried
  BY <1>2, <1>4, PagesBounds DEF Login!Post
<1>6. Login!SignUpTypeOK'
  BY <1>1, <1>2, <1>5 DEF Login!SignUpTypeOK
<1>7. Submitting'
  BY <1>2, <1>3, <1>4, <1>5 DEF Submitting
<1>8. x11 = None
  BY <1>1, <1>2 DEF Submitting
<1>9. \A c : InHand(c)' <=> InHand(c)
  <2>1. \A v \in Login!Form : (Posted(v)' => v = w) /\ (GivenUp(v)' <=> GivenUp(v)) /\ ~Posted(v)
    BY <1>2, <1>4, <1>5, <1>8 DEF Posted, GivenUp
  <2>2. QED
    BY <1>2, <1>3, <2>1 DEF InHand
<1>10. \A c : Doomed(c)' <=> Doomed(c)
  BY <1>2 DEF Doomed, GivenUp
<1>11. ~\E v \in Login!Form : Posted(v)
  BY <1>8 DEF Posted
<1>12. ~(x3 # None /\ Doomed(x3) /\ x8 = 0 /\ x9 = {})
  BY <1>1, <1>2, <1>11 DEF Fresh
<1>13. Fresh'
  BY <1>1, <1>2, <1>9, <1>10, <1>12 DEF Fresh
<1>14. QED
  BY <1>6, <1>7, <1>13 DEF SignUpInv

\* The API consumes the captcha a registration carries, and no other.
LEMMA RegistersKeeps ==
    ASSUME Login!SignUpTypeOK, NEW w \in Login!Form, NEW outcome, Login!Registers(w, outcome),
           w.captcha \in Login!Captchas => w.captcha \in 1 .. x13
    PROVE  /\ x14' = x14 \/ (w.captcha \in Login!Captchas /\ x14' = x14 \cup {w.captcha})
           /\ x14' \subseteq 1 .. x13' /\ x17' \subseteq Login!Codes
           /\ UNCHANGED <<x13, x15, x16>>
<1> USE DEF Login!server
<1>1. w.captcha \in Login!Captchas \cup {None} /\ w.code \in Login!Codes
  BY DEF Login!Form
<1>2. \/ UNCHANGED <<x13, x14, x15, x16, x17>>
      \/ /\ w.captcha # None /\ x14' = x14 \cup {w.captcha}
         /\ x17' = x17 \cup {w.code} \/ x17' = x17
         /\ UNCHANGED <<x13, x15, x16>>
  BY DEF Login!Registers, Login!CaptchaPasses
<1>3. QED
  BY <1>1, <1>2 DEF Login!SignUpTypeOK

LEMMA AnswerKeeps ==
    ASSUME SignUpInv, Login!Answer
    PROVE  SignUpInv'
<1> USE DEF Login!form, Login!gets, Login!server
<1>1. Login!SignUpTypeOK /\ Submitting /\ Fresh
  BY DEF SignUpInv
<1>2. PICK outcome \in {"ok", "refused"} :
          /\ x11' = [x11 EXCEPT !.outcome = outcome]
          /\ IF x11.path = "register" THEN Login!Registers(x11.with, outcome)
             ELSE UNCHANGED <<x13, x14, x15, x16, x17>>
  BY DEF Login!Answer
<1>3. /\ x11 # None /\ x11 \in Login!Post
      /\ UNCHANGED <<x1, x2, x3, x4, x5, x6, x7, x8, x9, x10, x12>>
  BY <1>1 DEF Login!Answer, Login!SignUpTypeOK
<1>4. x11' \in Login!Post /\ x11' # None /\ x11'.path = x11.path /\ x11'.with = x11.with
  BY <1>2, <1>3, PagesBounds DEF Login!Post
<1>5. \A w : (Posted(w)' <=> Posted(w)) /\ (GivenUp(w)' <=> GivenUp(w))
  BY <1>3, <1>4 DEF Posted, GivenUp
<1>6. Submitting'
  BY <1>1, <1>3, <1>4 DEF Submitting
<1>7. CASE x11.path # "register"
  <2>1. UNCHANGED <<x13, x14, x15, x16, x17>>
    BY <1>2, <1>7
  <2>2. Login!SignUpTypeOK'
    BY <1>1, <1>3, <1>4, <2>1 DEF Login!SignUpTypeOK
  <2>3. \A c : (InHand(c)' <=> InHand(c)) /\ (Doomed(c)' <=> Doomed(c))
    BY <1>3, <1>5, <2>1 DEF InHand, Doomed
  <2>4. Fresh'
    BY <1>1, <1>3, <1>5, <2>1, <2>3 DEF Fresh
  <2>5. QED
    BY <1>6, <2>2, <2>4 DEF SignUpInv
<1>8. CASE x11.path = "register"
  <2>1. PICK w \in Login!Form : Posted(w) /\ Login!Registers(w, outcome)
    BY <1>1, <1>2, <1>3, <1>8 DEF Submitting, Posted
  <2>2. InHand(w.captcha)
    BY <2>1 DEF InHand
  <2>3. w.captcha \in Login!Captchas => w.captcha \in 1 .. x13
    BY <1>1, <2>2 DEF Fresh
  <2>4. /\ x14' = x14 \/ (w.captcha \in Login!Captchas /\ x14' = x14 \cup {w.captcha})
        /\ x14' \subseteq 1 .. x13' /\ x17' \subseteq Login!Codes
        /\ UNCHANGED <<x13, x15, x16>>
    BY <1>1, <2>1, <2>3, RegistersKeeps
  <2>5. Login!SignUpTypeOK'
    BY <1>1, <1>3, <1>4, <2>4 DEF Login!SignUpTypeOK
  <2>6. \A c : InHand(c)' => InHand(c)
    BY <1>3, <1>5, <2>1, <2>2, <2>4 DEF InHand
  <2>7. Posted(w)'
    BY <1>5, <2>1
  <2>8. Fresh'
    BY <1>1, <1>3, <2>1, <2>4, <2>6, <2>7 DEF Fresh
  <2>9. QED
    BY <1>6, <2>5, <2>8 DEF SignUpInv
<1>9. QED
  BY <1>7, <1>8

\* A registration that was given up is answered after all: its captcha is
\* doomed already.
LEMMA AnswerLateKeeps ==
    ASSUME SignUpInv, Login!AnswerLate
    PROVE  SignUpInv'
<1> USE DEF Login!form, Login!gets, Login!server
<1>1. Login!SignUpTypeOK /\ Submitting /\ Fresh
  BY DEF SignUpInv
<1> DEFINE w == x12
<1>2. /\ w \in Login!Form /\ GivenUp(w) /\ x12' = None
      /\ UNCHANGED <<x1, x2, x3, x4, x5, x6, x7, x8, x9, x10, x11>>
  BY <1>1 DEF Login!AnswerLate, Login!SignUpTypeOK, GivenUp
<1>3. PICK outcome : Login!Registers(w, outcome)
  BY DEF Login!AnswerLate
<1> HIDE DEF w
<1>4. InHand(w.captcha) /\ Doomed(w.captcha)
  BY <1>2 DEF InHand, Doomed
<1>5. w.captcha \in Login!Captchas => w.captcha \in 1 .. x13
  BY <1>1, <1>4 DEF Fresh
<1>6. /\ x14' = x14 \/ (w.captcha \in Login!Captchas /\ x14' = x14 \cup {w.captcha})
      /\ x14' \subseteq 1 .. x13' /\ x17' \subseteq Login!Codes
      /\ UNCHANGED <<x13, x15, x16>>
  BY <1>1, <1>2, <1>3, <1>5, RegistersKeeps
<1>7. Login!SignUpTypeOK'
  BY <1>1, <1>2, <1>6 DEF Login!SignUpTypeOK
<1>8. Submitting'
  BY <1>1, <1>2 DEF Submitting
<1>9. \A v : (Posted(v)' <=> Posted(v)) /\ ~GivenUp(v)'
  BY <1>2 DEF Posted, GivenUp
<1>10. \A c : (InHand(c)' => InHand(c)) /\ (Doomed(c)' => Doomed(c))
  BY <1>2, <1>4, <1>6, <1>9 DEF InHand, Doomed
<1>11. Fresh'
  BY <1>1, <1>2, <1>6, <1>9, <1>10 DEF Fresh
<1>12. QED
  BY <1>7, <1>8, <1>11 DEF SignUpInv

\* Whatever ends a registration that has not led away asks for another
\* captcha.
LEMMA EndKeeps ==
    ASSUME SignUpInv, Login!PostArrives \/ Login!PostFails
    PROVE  SignUpInv'
<1> USE DEF Login!form, Login!gets, Login!server
<1>1. Login!SignUpTypeOK /\ Submitting /\ Fresh
  BY DEF SignUpInv
<1>2. x11 # None /\ x11 \in Login!Post /\ x11' = None /\ x8 \in Nat
  BY <1>1 DEF Login!PostArrives, Login!PostFails, Login!SignUpTypeOK
<1>3. /\ x4' \in {x4, None} /\ x9' = x9
      /\ \/ x2' = "left" /\ x8' = x8
         \/ x2' = "idle" /\ x8' = x8 + 1
         \/ x2' = "idle" /\ x8' = x8 /\ x11.path # "register"
      /\ \/ x12' = x12
         \/ x11.path = "register" /\ x12 = None /\ x12' = x11.with /\ x8' = x8 + 1
      /\ UNCHANGED <<x1, x3, x5, x6, x7, x10, x13, x14, x15, x16, x17>>
  BY DEF Login!PostArrives, Login!PostFails, Login!refused, Login!refreshCaptcha
<1>4. x12' \in {None} \cup Login!Form
  BY <1>1, <1>2, <1>3 DEF Submitting, Login!SignUpTypeOK
<1>5. Login!SignUpTypeOK'
  BY <1>1, <1>2, <1>3, <1>4 DEF Login!SignUpTypeOK
<1>6. Submitting'
  BY <1>2, <1>3 DEF Submitting
<1>7. \A w : ~Posted(w)' /\ (GivenUp(w)' => GivenUp(w) \/ Posted(w))
  BY <1>2, <1>3 DEF Posted, GivenUp
<1>8. \A c : InHand(c)' => InHand(c)
  BY <1>3, <1>7 DEF InHand
<1>9. ASSUME x3' # None, Doomed(x3)', x8' = 0, x9' = {} PROVE x2' = "left"
  <2>1. CASE x8' = x8 + 1
    BY <1>2, <1>9, <2>1
  <2>2. CASE x8' = x8 /\ x2' = "idle" /\ x11.path # "register"
    <3>1. x12' = x12
      BY <1>2, <1>3, <2>2
    <3>2. Doomed(x3)
      BY <1>3, <1>9, <3>1 DEF Doomed, GivenUp
    <3>3. ~\E w \in Login!Form : Posted(w)
      BY <2>2 DEF Posted
    <3>4. x2 = "submitting"
      BY <1>1, <1>2 DEF Submitting
    <3>5. QED
      BY <1>1, <1>3, <1>9, <2>2, <3>2, <3>3, <3>4 DEF Fresh
  <2>3. QED
    BY <1>3, <2>1, <2>2
<1>10. Fresh'
  BY <1>1, <1>3, <1>8, <1>9 DEF Fresh
<1>11. QED
  BY <1>5, <1>6, <1>10 DEF SignUpInv

LEMMA SignUpKeeps ==
    ASSUME SignUpInv, [Login!SignUpNext]_x
    PROVE  SignUpInv'
<1>1. CASE Login!LoginForm \/ Login!submitRegister
  <2>1. \E path \in {"login", "guest", "register"} : Login!Sent(path)
    BY <1>1 DEF Login!LoginForm, Login!submitLogin, Login!enterAsGuest, Login!submitRegister
  <2>2. QED
    BY <2>1, SentKeeps
<1>2. QED
  BY <1>1, FormKeeps, CaptchaKeeps, AnswerKeeps, AnswerLateKeeps, EndKeeps DEF Login!SignUpNext

LEMMA FreshShows ==
    ASSUME SignUpInv
    PROVE  Login!SignUpTypeOK /\ Login!CaptchaIsFresh
<1>1. ASSUME x2 = "idle", x3 # None, x8 = 0, x9 = {} PROVE x3 \notin x14
  <2>1. x11 = None
    BY <1>1 DEF SignUpInv, Submitting
  <2>2. ~Doomed(x3)
    BY <1>1, <2>1 DEF SignUpInv, Fresh, Posted
  <2>3. QED
    BY <2>2 DEF Doomed
<1>2. QED
  BY <1>1 DEF SignUpInv, Login!CaptchaIsFresh

-----------------------------------------------------------------------------
(* The collections kept in the browser.                                    *)

LEMMA SeedIsContent == Seed \in Content
BY DEF Seed, Content

LEMMA LocalTypeStarts ==
    ASSUME LocalInit
    PROVE  LocalTypeOK
<1>1. 0 \in 0 .. MaxEdits
  BY PagesBounds
<1>2. QED
  BY <1>1, SeedIsContent DEF LocalInit, LocalTypeOK

\* What changes a collection makes another of it.
LEMMA SetItemsKeeps ==
    ASSUME LocalTypeOK, NEW content \in Content, setItems(content),
           dialog' \in {"none", "form", "detail", "rename", "remove"}, chosen' \in Items \cup {None}
    PROVE  LocalTypeOK'
<1>1. edits' \in 0 .. MaxEdits
  BY PagesBounds DEF setItems, LocalTypeOK
<1>2. QED
  BY <1>1 DEF setItems, LocalTypeOK

LEMMA LocalTypeKeeps ==
    ASSUME LocalTypeOK, [LocalNext]_localVars
    PROVE  LocalTypeOK'
<1> DEFINE stays == dialog' \in {"none", "form", "detail", "rename", "remove"} /\ chosen' \in Items \cup {None}
<1>1. items \in Content /\ next \in Content /\ \A i \in Items, v \in {None, "made", "changed"} :
          [items EXCEPT ![i] = v] \in Content
  BY DEF LocalTypeOK, Content
<1>2. ASSUME NEW i \in Items, create(i) \/ insert(i) \/ updateItem(i) \/ remove(i), stays
      PROVE  LocalTypeOK'
  BY <1>1, <1>2, SetItemsKeeps DEF create, insert, updateItem, remove
<1>3. CASE Visit
  BY <1>3, SeedIsContent, PagesBounds DEF Visit, LocalTypeOK
<1>4. CASE hydrate
  <2>1. next' \in Content /\ storage' \in Content
    BY <1>4 DEF hydrate, useCollection, LocalTypeOK
  <2>2. QED
    BY <1>4, <2>1 DEF hydrate, LocalTypeOK
<1>5. CASE write
  BY <1>5 DEF write, LocalTypeOK
<1>6. CASE Close
  BY <1>6 DEF Close, LocalTypeOK
<1>7. ASSUME NEW d \in {"none", "form", "detail", "rename", "remove"}, NEW i \in Items \cup {None},
             Shows(d, i)
      PROVE  LocalTypeOK'
  BY <1>7 DEF Shows, local, LocalTypeOK
<1>8. CASE Leave \/ openCreate \/ leaveRename \/ openNewKey
  BY <1>7, <1>8 DEF Leave, openCreate, leaveRename, openNewKey, LocalTypeOK
<1>9. CASE resetItems
  <2>1. setItems(Seed) /\ stays
    BY <1>9 DEF resetItems, Stays, LocalTypeOK
  <2>2. QED
    BY <2>1, SeedIsContent, SetItemsKeeps
<1>10. ASSUME NEW files \in SUBSET Items, onUpload(files) PROVE LocalTypeOK'
  <2>1. [i \in Items |-> IF i \in files THEN "made" ELSE items[i]] \in Content
    BY <1>1 DEF Content
  <2>2. QED
    BY <1>10, <2>1, SetItemsKeeps DEF onUpload, Stays, LocalTypeOK
<1>11. ASSUME NEW i \in Items, OpenDetail(i) \/ openEdit(i) \/ openRename(i)
       PROVE  LocalTypeOK'
  BY <1>7, <1>11 DEF OpenDetail, openEdit, openRename
<1>12. ASSUME NEW i \in Items, submit(i) \/ publish(i) \/ rename(i) \/ switchScope(i) \/ change(i) \/ newKey(i)
       PROVE  LocalTypeOK'
  <2>1. create(i) \/ updateItem(i)
    BY <1>12 DEF submit, publish, rename, switchScope, change, newKey
  <2>2. stays
    BY <1>12 DEF submit, publish, rename, switchScope, change, newKey, Stays, Done, LocalTypeOK
  <2>3. QED
    BY <1>2, <2>1, <2>2
<1>13. ASSUME NEW i \in Items, deleteWorkflow(i) \/ deleteAsset(i) \/ revokeKey(i)
       PROVE  LocalTypeOK'
  <2>1. Shows("remove", i) \/ (remove(i) /\ Done)
    BY <1>13 DEF deleteWorkflow, deleteAsset, revokeKey
  <2>2. QED
    BY <1>2, <1>7, <2>1 DEF Done
<1>14. ASSUME NEW i \in Items, NEW copy \in Items, duplicate(i, copy)
       PROVE  LocalTypeOK'
  BY <1>2, <1>14 DEF duplicate, Stays, LocalTypeOK
<1>15. CASE UNCHANGED localVars
  BY <1>15 DEF localVars, local, LocalTypeOK
<1>16. QED
  BY <1>3, <1>4, <1>5, <1>6, <1>8, <1>9, <1>10, <1>11, <1>12, <1>13, <1>14, <1>15 DEF LocalNext

\* What the hooks keep in a build whose effects run once; in a development
\* build they run twice, and do not.  Between a first render and the one that
\* follows it the storage holds the seed, and what was there is in what the
\* hook has been given: that is where a closed tab loses it.
KeptInv ==
    /\ phase \in {"closed", "first", "hydrating", "edited", "ready"}
    /\ ~cut => /\ phase \in {"closed", "first", "edited"} => storage = mine
               /\ phase = "hydrating" => mine = None \/ next = mine
               /\ phase = "ready" => storage = mine /\ items = mine

\* What any step is to the hook.
HookStep ==
    \/ Visit \/ hydrate \/ write \/ Close
    \/ \E content : setItems(content)
    \/ UNCHANGED local

LEMMA StepsOfTheHook == [LocalNext]_localVars => HookStep
<1> SUFFICES ASSUME [LocalNext]_localVars PROVE HookStep
  OBVIOUS
<1> USE DEF HookStep
<1>1. CASE Leave \/ openCreate \/ leaveRename \/ openNewKey \/ UNCHANGED localVars
  BY <1>1 DEF Leave, openCreate, leaveRename, openNewKey, Shows, localVars
<1>2. CASE resetItems \/ \E files \in SUBSET Items : onUpload(files)
  BY <1>2 DEF resetItems, onUpload
<1>3. ASSUME NEW i \in Items, OpenDetail(i) \/ openEdit(i) \/ openRename(i)
      PROVE  HookStep
  BY <1>3 DEF OpenDetail, openEdit, openRename, Shows
<1>4. ASSUME NEW i \in Items, submit(i) \/ publish(i) \/ rename(i) \/ switchScope(i) \/ change(i) \/ newKey(i)
      PROVE  HookStep
  BY <1>4 DEF submit, publish, rename, switchScope, change, newKey, create, updateItem
<1>5. ASSUME NEW i \in Items, deleteWorkflow(i) \/ deleteAsset(i) \/ revokeKey(i)
      PROVE  HookStep
  BY <1>5 DEF deleteWorkflow, deleteAsset, revokeKey, remove, Shows
<1>6. ASSUME NEW i \in Items, NEW copy \in Items, duplicate(i, copy)
      PROVE  HookStep
  BY <1>6 DEF duplicate, insert
<1>7. QED
  BY <1>1, <1>2, <1>3, <1>4, <1>5, <1>6 DEF LocalNext

\* The effect that reads finds what was kept, the one that writes puts the
\* seed in its place, and the next render puts it back.
LEMMA HookKeeps ==
    ASSUME ~Strict, KeptInv, HookStep
    PROVE  KeptInv'
<1> USE DEF KeptInv
<1>1. CASE Visit
  BY <1>1 DEF Visit
<1>2. CASE hydrate
  <2>1. cut' = cut /\ mine' = mine /\ phase = "first" /\ phase' = "hydrating"
    BY <1>2 DEF hydrate
  <2>2. next' = IF storage = None THEN items ELSE storage
    BY <1>2, Zenon DEF hydrate, useCollection
  <2>3. QED
    BY <2>1, <2>2
<1>3. CASE write
  BY <1>3 DEF write
<1>4. CASE Close
  <2>1. /\ phase # "closed" /\ phase' = "closed" /\ storage' = storage /\ mine' = mine
        /\ ~cut' => ~cut /\ phase # "hydrating"
    BY <1>4, Zenon DEF Close
  <2>2. QED
    BY <2>1
<1>5. ASSUME NEW content, setItems(content)
      PROVE  KeptInv'
  BY <1>5 DEF setItems
<1>6. CASE UNCHANGED local
  BY <1>6 DEF local
<1>7. QED
  BY <1>1, <1>2, <1>3, <1>4, <1>5, <1>6 DEF HookStep

\* Where effects run once, and as long as no tab was closed between its first
\* effects, which write the seed over what is stored, and the render that puts
\* it back, what the user has made, changed and deleted is there on the next
\* visit (ui/store.ts:68-78).
THEOREM KeptUnlessCutHolds ==
    ASSUME ~Strict
    PROVE  LocalInit /\ [][LocalNext]_localVars => []KeptUnlessCut
<1>1. LocalInit => KeptInv
  BY DEF LocalInit, KeptInv
<1>2. KeptInv /\ [LocalNext]_localVars => KeptInv'
  BY StepsOfTheHook, HookKeeps
<1>3. KeptInv => KeptUnlessCut
  BY DEF KeptInv, KeptUnlessCut
<1>4. QED
  BY <1>1, <1>2, <1>3, PTL

-----------------------------------------------------------------------------
(* A tab shows one of the pages.                                           *)

vars == <<shows, pageVars, x>>

\* What the page that is shown keeps.
PagesInv ==
    /\ shows = "panels" => PanelsInv
    /\ shows \in RowPages => RowsInv
    /\ shows = "login" => SignUpInv

LEMMA PagesStart ==
    ASSUME Init
    PROVE  PagesInv
<1>1. CASE shows \in {"config", "runtime", "local"}
  BY <1>1 DEF PagesInv, RowPages
<1>2. CASE shows = "panels" /\ Panels!PanelsInit
  BY <1>2, PanelsStarts DEF PagesInv, RowPages
<1>3. CASE \/ shows = "schedules" /\ Schedules!RowsInit
           \/ shows = "servers" /\ Servers!RowsInit
           \/ shows = "skills" /\ Skills!RowsInit
  BY <1>3, SameRows, RowsStart DEF PagesInv
<1>4. CASE shows = "login" /\ Login!SignUpInit
  BY <1>4, SignUpStarts DEF PagesInv, RowPages
<1>5. QED
  BY <1>1, <1>2, <1>3, <1>4 DEF Init

LEMMA PagesKeep ==
    ASSUME PagesInv, [Next]_vars
    PROVE  PagesInv'
<1> USE DEF PagesInv, RowPages
<1>1. CASE ConfigStep \/ RuntimeStep \/ LocalStep
  BY <1>1 DEF ConfigStep, RuntimeStep, LocalStep
<1>2. CASE PanelsStep
  BY <1>2, PanelsKeeps DEF PanelsStep
<1>3. CASE SchedulesStep
  BY <1>3, SchedulesKeep DEF SchedulesStep
<1>4. CASE ServersStep
  BY <1>4, ServersKeep DEF ServersStep
<1>5. CASE SkillsStep
  BY <1>5, SkillsKeep DEF SkillsStep
<1>6. CASE LoginStep
  BY <1>6, SignUpKeeps DEF LoginStep
<1>7. CASE UNCHANGED vars
  <2>1. UNCHANGED shows /\ UNCHANGED x /\ UNCHANGED <<x1, x2, x3, x4, x5, x6, x7>> /\ UNCHANGED rowsNow
    BY <1>7 DEF vars, x, rowsNow
  <2>2. QED
    BY <2>1, PanelsKeeps, SchedulesKeep, SignUpKeeps
<1>8. QED
  BY <1>1, <1>2, <1>3, <1>4, <1>5, <1>6, <1>7 DEF Next

\* What the other pages do is nothing to a page with variables of its own.
LEMMA PagesApart == Spec => /\ WorkspaceInit /\ [][WorkspaceNext]_workspaceVars
                            /\ RuntimeInit /\ [][RuntimeNext]_runtimeVars
                            /\ LocalInit /\ [][LocalNext]_localVars
<1>1. Init => WorkspaceInit /\ RuntimeInit /\ LocalInit
  BY DEF Init
<1>2. ASSUME [Next]_vars
      PROVE  [WorkspaceNext]_workspaceVars /\ [RuntimeNext]_runtimeVars /\ [LocalNext]_localVars
  BY <1>2 DEF Next, ConfigStep, RuntimeStep, LocalStep, PanelsStep, SchedulesStep, ServersStep, SkillsStep,
     LoginStep, vars, pageVars
<1>3. QED
  BY <1>1, <1>2, PTL DEF Spec, vars

LEMMA PagesInvHolds == Spec => []PagesInv
<1>1. Init => PagesInv
  BY PagesStart
<1>2. PagesInv /\ [Next]_vars => PagesInv'
  BY PagesKeep
<1>3. QED
  BY <1>1, <1>2, PTL DEF Spec, vars

LEMMA LocalTypeCorrect == LocalInit /\ [][LocalNext]_localVars => []LocalTypeOK
<1>1. LocalInit => LocalTypeOK
  BY LocalTypeStarts
<1>2. LocalTypeOK /\ [LocalNext]_localVars => LocalTypeOK'
  BY LocalTypeKeeps
<1>3. QED
  BY <1>1, <1>2, PTL

\* Every page keeps its variables within their types; and whatever is added,
\* copied, moved and deleted, an id of the draft's lists is that of one row
\* (page.tsx:937-1053 and 1302).
THEOREM PagesTypeOKHolds == Spec => []PagesTypeOK
<1>1. PagesInv /\ WorkspaceTypeOK /\ RuntimeTypeOK /\ LocalTypeOK => PagesTypeOK
  BY PanelsShow, FreshShows DEF PagesInv, PagesTypeOK, RowsInv
<1>2. QED
  BY <1>1, PagesApart, PagesInvHolds, WorkspaceTypeCorrect, RuntimeTypeCorrect, LocalTypeCorrect, PTL
     DEF WorkspaceSpec

\* What the preview of the contexts panel lists is what the server joins for
\* a new task, blocks of blanks excepted, whatever the user has made of the
\* list (page.tsx:959-966, workspace.py:206-211 and 277).
THEOREM PreviewIsTaskContextHolds == Spec => []PreviewIsTaskContext
<1>1. PagesInv => PreviewIsTaskContext
  BY PreviewShows DEF PagesInv, PreviewIsTaskContext
<1>2. QED
  BY <1>1, PagesInvHolds, PTL

\* No late answer to an update, a run or a probe brings a row back that the
\* page has seen deleted, for any number of calls under way
\* (schedules/page.tsx:160-163 and 256-275, mcp/page.tsx:142-145 and 179-193,
\* skills/page.tsx:109-125).
THEOREM RemovedStaysGoneHolds == Spec => []RemovedStaysGone
<1>1. PagesInv => RemovedStaysGone
  BY DEF PagesInv, RemovedStaysGone, RowsInv
<1>2. QED
  BY <1>1, PagesInvHolds, PTL

\* Once nothing is under way, the captcha on the login page is one the API
\* still takes, for any number of captchas, requests and codes
\* (login/page.tsx:234-235, auth.py:218-418).
THEOREM CaptchaIsFreshHolds == Spec => []CaptchaIsFresh
<1>1. PagesInv => CaptchaIsFresh
  BY FreshShows DEF PagesInv, CaptchaIsFresh
<1>2. QED
  BY <1>1, PagesInvHolds, PTL

\* What the other pages keep to, they keep to in the tab that shows any of
\* them: the "saved" of the header, the pool, a draft that only the user or an
\* answered message ends, what was sent, and what is stored between visits as
\* long as no visit is cut short (page.tsx:1398-1404,
\* task_service.py:65-76, runtime/page.tsx:246-252 and 384-393,
\* ui/store.ts:68-78).
THEOREM PagesPromise ==
    Spec => /\ []SavedWasHeld /\ []PoolSettles /\ DraftIsLeftAlone /\ []SentStays
            /\ ~Strict => []KeptUnlessCut
<1>1. None \notin Task
  BY PagesBounds
<1>2. RuntimeInit /\ [][RuntimeNext]_runtimeVars => []SentStays
  BY <1>1, SentStaysHolds
<1>3. Spec => []SavedWasHeld /\ []PoolSettles
  BY PagesApart, SavedWasHeldHolds, PoolSettlesHolds, PTL DEF WorkspaceSpec
<1>4. Spec => DraftIsLeftAlone /\ []SentStays
  BY <1>2, PagesApart, DraftIsLeftAloneHolds, PTL
<1>5. ASSUME ~Strict PROVE Spec => []KeptUnlessCut
  BY <1>5, PagesApart, KeptUnlessCutHolds, PTL
<1>6. QED
  BY <1>3, <1>4, <1>5

=============================================================================
