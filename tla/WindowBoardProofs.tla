-------------------------- MODULE WindowBoardProofs --------------------------
(***************************************************************************)
(* What WindowBoard promises for every set of rows, every size of the      *)
(* replay ring and every high water: whatever a live reader lacks of the   *)
(* Host's rows is on its way to it, or a resync is; what a live window     *)
(* lacks of the reader's it will hear; and no board goes back.  The terms  *)
(* and the inductive invariants are those of WindowInvariants.             *)
(***************************************************************************)
EXTENDS WindowInvariants, TLAPS, WellFoundedInduction

-----------------------------------------------------------------------------
(* Induction, recursive definitions, and sequences that keep their order *)

\* Induction, in the first-order form the provers take: a set of naturals with 0 and with
\* every successor of its elements holds them all.
LEMMA SetInduction ==
  ASSUME NEW S, 0 \in S, \A n \in Nat : n \in S => n + 1 \in S
  PROVE  \A n \in Nat : n \in S
<1>1. SUFFICES ASSUME Nat \ S # {} PROVE FALSE OBVIOUS
<1>2. IsWellFoundedOn(OpToRel(<, Nat), Nat) BY NatLessThanWellFounded
<1>3. PICK n \in Nat \ S : \A m \in Nat \ S : ~ (<<m, n>> \in OpToRel(<, Nat))
  BY <1>1, <1>2, WFMin, Zenon
<1>4. \A m \in Nat \ S : ~ (m < n) BY <1>3 DEF OpToRel
<1>5. n # 0 /\ n - 1 \in Nat OBVIOUS
<1>6. n - 1 \in S BY <1>4, <1>5
<1>7. (n - 1) + 1 \in S BY <1>5, <1>6
<1> QED BY <1>7

\* The index before one that is not the first is an index too.
LEMMA UpToNext ==
  ASSUME NEW m \in Nat, NEW i \in 1..(m + 1), i # m + 1
  PROVE  i \in 1..m /\ i - 1 \in 0..m
  OBVIOUS

\* Such a run exists: what a step makes of an element is again one.
LEMMA RunExists ==
  ASSUME NEW n \in Nat, NEW X, NEW start \in X, NEW step, Steps(step, n, X)
  PROVE  \E f : IsRun(f, n, X, start, step)
<1> USE DEF IsRun, Steps
<1> DEFINE Run(f, m) == /\ f \in [0..m -> X] /\ f[0] = start
                        /\ \A i \in 1..m : f[i] = step[f[i - 1]][i]
           Fit == {m \in Nat : m <= n => \E f : Run(f, m)}
<1>1. 0 \in Fit
  <2>1. Run([i \in 0..0 |-> start], 0) OBVIOUS
  <2> QED BY <2>1
<1>2. ASSUME NEW m \in Nat, m \in Fit PROVE m + 1 \in Fit
  <2> SUFFICES ASSUME m + 1 <= n PROVE \E f : Run(f, m + 1) OBVIOUS
  <2>1. PICK f : Run(f, m) BY <1>2
  <2> DEFINE next == step[f[m]][m + 1]
             g == [i \in 0..(m + 1) |-> IF i = m + 1 THEN next ELSE f[i]]
  <2>2. f[m] \in X /\ m + 1 \in 1..n BY <2>1
  <2>3. next \in X BY <2>2
  <2> HIDE DEF next
  <2>4. g \in [0..(m + 1) -> X] /\ g[0] = start /\ g[m + 1] = next BY <2>1, <2>3
  <2>5. \A i \in 0..m : g[i] = f[i] OBVIOUS
  <2> HIDE DEF g
  <2>6. ASSUME NEW i \in 1..(m + 1) PROVE g[i] = step[g[i - 1]][i]
    <3>1. CASE i = m + 1 BY <2>4, <2>5, <3>1 DEF next
    <3>2. CASE i # m + 1
      <4>1. i \in 1..m /\ i - 1 \in 0..m BY <3>2, UpToNext
      <4> QED BY <2>1, <2>5, <4>1
    <3> QED BY <3>1, <3>2
  <2> QED BY <2>4, <2>6
<1> HIDE DEF Fit
<1>3. n \in Fit BY <1>1, <1>2, SetInduction
<1> QED BY <1>3 DEF Fit

\* Nothing is thinner than anything.
LEMMA ThinEmpty == ASSUME NEW T, NEW s \in Seq(T), NEW t \in Seq(T), t = <<>> PROVE Thin(t, s)
<1>1. [i \in {} |-> 0] \in [DOMAIN t -> DOMAIN s] OBVIOUS
<1>2. DOMAIN t = {} OBVIOUS
<1> QED BY <1>1, <1>2 DEF Thin

\* A sequence is thinner than itself.
LEMMA ThinSelf == ASSUME NEW T, NEW s \in Seq(T) PROVE Thin(s, s)
<1>1. [i \in DOMAIN s |-> i] \in [DOMAIN s -> DOMAIN s] OBVIOUS
<1> QED BY <1>1 DEF Thin

\* What is left without the first element is thinner.
LEMMA ThinTail == ASSUME NEW T, NEW s \in Seq(T), s # <<>> PROVE Thin(Tail(s), s)
<1> DEFINE p == [i \in DOMAIN Tail(s) |-> i + 1]
<1>1. \A i \in DOMAIN Tail(s) : i \in Nat /\ i + 1 \in DOMAIN s /\ Tail(s)[i] = s[i + 1] OBVIOUS
<1>2. p \in [DOMAIN Tail(s) -> DOMAIN s] BY <1>1
<1>3. \A i \in DOMAIN Tail(s) : p[i] = i + 1 OBVIOUS
<1> HIDE DEF p
<1> QED BY <1>1, <1>2, <1>3 DEF Thin

\* What is thinner than a thinner sequence is thinner.
LEMMA ThinTrans == ASSUME NEW r, NEW s, NEW t, Thin(r, s), Thin(s, t) PROVE Thin(r, t)
<1>1. PICK p \in [DOMAIN r -> DOMAIN s] :
        \A i \in DOMAIN r : r[i] = s[p[i]] /\ \A j \in DOMAIN r : i < j => p[i] < p[j]
  BY DEF Thin
<1>2. PICK q \in [DOMAIN s -> DOMAIN t] :
        \A i \in DOMAIN s : s[i] = t[q[i]] /\ \A j \in DOMAIN s : i < j => q[i] < q[j]
  BY DEF Thin
<1> DEFINE w == [i \in DOMAIN r |-> q[p[i]]]
<1>3. w \in [DOMAIN r -> DOMAIN t] BY <1>1, <1>2
<1>4. \A i \in DOMAIN r : r[i] = t[w[i]] /\ \A j \in DOMAIN r : i < j => w[i] < w[j] BY <1>1, <1>2
<1> HIDE DEF w
<1> QED BY <1>3, <1>4 DEF Thin

\* Two thinned parts make a thinned whole.
LEMMA ThinConcat ==
  ASSUME NEW T, NEW s \in Seq(T), NEW t \in Seq(T), NEW u \in Seq(T), NEW v \in Seq(T),
         Thin(t, s), Thin(v, u)
  PROVE  Thin(t \o v, s \o u)
<1>1. PICK p \in [DOMAIN t -> DOMAIN s] :
        \A i \in DOMAIN t : t[i] = s[p[i]] /\ \A j \in DOMAIN t : i < j => p[i] < p[j]
  BY DEF Thin
<1>2. PICK q \in [DOMAIN v -> DOMAIN u] :
        \A i \in DOMAIN v : v[i] = u[q[i]] /\ \A j \in DOMAIN v : i < j => q[i] < q[j]
  BY DEF Thin
<1> DEFINE m == Len(t)
           n == Len(s)
           w == [i \in DOMAIN (t \o v) |-> IF i <= m THEN p[i] ELSE n + q[i - m]]
<1>3. \A i \in DOMAIN (t \o v) : IF i <= m THEN i \in DOMAIN t ELSE i - m \in DOMAIN v OBVIOUS
<1>4. \A i \in DOMAIN t : p[i] \in 1..n BY <1>1
<1>5. \A i \in DOMAIN v : q[i] \in 1..Len(u) BY <1>2
<1>6. w \in [DOMAIN (t \o v) -> DOMAIN (s \o u)] BY <1>3, <1>4, <1>5
<1>7. ASSUME NEW i \in DOMAIN (t \o v) PROVE (t \o v)[i] = (s \o u)[w[i]]
  <2>1. CASE i <= m BY <1>1, <1>3, <1>4, <2>1
  <2>2. CASE ~ (i <= m)
    <3>1. w[i] = n + q[i - m] /\ q[i - m] \in 1..Len(u) /\ i - m \in DOMAIN v BY <1>3, <1>5, <2>2
    <3>2. (t \o v)[i] = v[i - m] /\ (s \o u)[n + q[i - m]] = u[q[i - m]] BY <2>2, <3>1
    <3> QED BY <1>2, <3>1, <3>2
  <2> QED BY <2>1, <2>2
<1>8. ASSUME NEW i \in DOMAIN (t \o v), NEW j \in DOMAIN (t \o v), i < j PROVE w[i] < w[j]
  <2>1. CASE i <= m /\ j <= m BY <1>1, <1>3, <1>8, <2>1
  <2>2. CASE i <= m /\ ~ (j <= m) BY <1>3, <1>4, <1>5, <2>2
  <2>3. CASE ~ (i <= m)
    <3>1. ~ (j <= m) /\ i - m \in DOMAIN v /\ j - m \in DOMAIN v /\ i - m < j - m
      BY <1>3, <1>8, <2>3
    <3>2. q[i - m] < q[j - m] BY <1>2, <3>1
    <3> QED BY <1>5, <2>3, <3>1, <3>2
  <2> QED BY <2>1, <2>2, <2>3
<1> HIDE DEF w
<1> QED BY <1>6, <1>7, <1>8 DEF Thin

\* A thinner sequence has no element of its own.
LEMMA ThinRange == ASSUME NEW T, NEW s \in Seq(T), NEW t, Thin(t, s) PROVE Range(t) \subseteq Range(s)
  BY DEF Thin, Range

\* The elements of two sequences, one after the other.
LEMMA RangeConcat ==
  ASSUME NEW T, NEW s \in Seq(T), NEW t \in Seq(T)
  PROVE  Range(s \o t) = Range(s) \cup Range(t)
<1>1. \A i \in DOMAIN s : i \in DOMAIN (s \o t) /\ (s \o t)[i] = s[i] OBVIOUS
<1>2. \A i \in DOMAIN t : Len(s) + i \in DOMAIN (s \o t) /\ (s \o t)[Len(s) + i] = t[i] OBVIOUS
<1>3. \A i \in DOMAIN (s \o t) :
        \/ i \in DOMAIN s /\ (s \o t)[i] = s[i]
        \/ i - Len(s) \in DOMAIN t /\ (s \o t)[i] = t[i - Len(s)]
  OBVIOUS
<1> DEFINE u == s \o t
<1> HIDE DEF u
<1>4. Range(s) \subseteq Range(u) /\ Range(t) \subseteq Range(u) BY <1>1, <1>2 DEF Range, u
<1>5. Range(u) \subseteq Range(s) \cup Range(t) BY <1>3 DEF Range, u
<1> QED BY <1>4, <1>5 DEF u

\* The element of a sequence of one.
LEMMA RangeOne == ASSUME NEW e PROVE Range(<<e>>) = {e}
  BY DEF Range

\* A sequence is its head, and its tail.
LEMMA RangeHeadTail ==
  ASSUME NEW T, NEW s \in Seq(T), s # <<>>
  PROVE  /\ Head(s) \in T /\ Tail(s) \in Seq(T)
         /\ Range(s) = {Head(s)} \cup Range(Tail(s))
         /\ s = <<Head(s)>> \o Tail(s)
<1>1. Head(s) \in T /\ Tail(s) \in Seq(T) /\ s = <<Head(s)>> \o Tail(s) OBVIOUS
<1>2. Range(<<Head(s)>> \o Tail(s)) = Range(<<Head(s)>>) \cup Range(Tail(s))
  <2>1. <<Head(s)>> \in Seq(T) BY <1>1
  <2> QED BY <1>1, <2>1, RangeConcat, Zenon
<1> QED BY <1>1, <1>2, RangeOne

\* A sequence and one element more.
LEMMA AppendIs ==
  ASSUME NEW T, NEW s \in Seq(T), NEW e \in T
  PROVE  /\ Append(s, e) = s \o <<e>> /\ <<e>> \in Seq(T) /\ Append(s, e) \in Seq(T)
         /\ Range(Append(s, e)) = Range(s) \cup {e}
<1>1. Append(s, e) = s \o <<e>> /\ <<e>> \in Seq(T) /\ Append(s, e) \in Seq(T) OBVIOUS
<1>2. Range(s \o <<e>>) = Range(s) \cup Range(<<e>>) BY <1>1, RangeConcat, Zenon
<1> QED BY <1>1, <1>2, RangeOne

\* The elements of a sequence are of its type.
LEMMA RangeIn == ASSUME NEW T, NEW s \in Seq(T) PROVE Range(s) \subseteq T
  BY DEF Range

\* One more element, kept or not.
LEMMA KeepStep ==
  ASSUME NEW T, NEW u \in Seq(T), NEW e \in T, NEW S, NEW x, Picks(x, u, S, T),
         NEW y, y = IF e \in S THEN Append(x, e) ELSE x, NEW v, v = Append(u, e)
  PROVE  Picks(y, v, S, T)
<1>0. x \in Seq(T) /\ Thin(x, u) /\ Range(x) = Range(u) \cap S BY DEF Picks
<1>1. /\ Append(u, e) = u \o <<e>> /\ <<e>> \in Seq(T)
      /\ Range(Append(u, e)) = Range(u) \cup {e}
  BY AppendIs
<1>2. /\ Append(x, e) = x \o <<e>> /\ Append(x, e) \in Seq(T)
      /\ Range(Append(x, e)) = Range(x) \cup {e}
  BY <1>0, AppendIs
<1>3. PICK z \in Seq(T) : z = <<>>
  <2>1. <<>> \in Seq(T) OBVIOUS
  <2> QED BY <2>1, Zenon
<1>4. CASE e \in S
  <2>1. Thin(<<e>>, <<e>>) BY <1>1, ThinSelf, Zenon
  <2>2. Thin(x \o <<e>>, u \o <<e>>) BY <1>0, <1>1, <2>1, ThinConcat, Zenon
  <2> QED BY <1>0, <1>1, <1>2, <1>4, <2>2 DEF Picks
<1>5. CASE e \notin S
  <2>1. Thin(z, <<e>>) BY <1>1, <1>3, ThinEmpty
  <2>2. Thin(x \o z, u \o <<e>>) BY <1>0, <1>1, <1>3, <2>1, ThinConcat, Zenon
  <2>3. x \o z = x BY <1>0, <1>3
  <2> QED BY <1>0, <1>1, <1>5, <2>2, <2>3 DEF Picks
<1> QED BY <1>4, <1>5

\* KeepIn keeps the order, and just what is in S.
LEMMA KeepInIs ==
  ASSUME NEW T, NEW s \in Seq(T), NEW S
  PROVE  /\ KeepIn(s, S) \in Seq(T)
         /\ Thin(KeepIn(s, S), s)
         /\ Range(KeepIn(s, S)) = Range(s) \cap S
<1> DEFINE n == Len(s)
           Is(f) == f = [i \in 0..n |-> IF i = 0 THEN <<>>
                                        ELSE IF s[i] \in S THEN Append(f[i - 1], s[i])
                                        ELSE f[i - 1]]
           k == CHOOSE f : Is(f)
<1>1. \E f : Is(f)
  <2> DEFINE step == [x \in Seq(T) |-> [i \in 1..n |->
                        IF s[i] \in S THEN Append(x, s[i]) ELSE x]]
  <2>1. \A x \in Seq(T), i \in 1..n : step[x][i] \in Seq(T) OBVIOUS
  <2>2. PICK e \in Seq(T) : e = <<>>
    <3>1. <<>> \in Seq(T) OBVIOUS
    <3> QED BY <3>1, Zenon
  <2>3. \A x \in Seq(T), i \in 1..n :
          step[x][i] = IF s[i] \in S THEN Append(x, s[i]) ELSE x
    OBVIOUS
  <2> HIDE DEF step
  <2>4. PICK f : IsRun(f, n, Seq(T), e, step)
    <3>1. n \in Nat /\ Steps(step, n, Seq(T)) BY <2>1 DEF Steps
    <3> QED BY <3>1, RunExists, Zenon
  <2>5. ASSUME NEW i \in 0..n
        PROVE  f[i] = IF i = 0 THEN <<>>
                      ELSE IF s[i] \in S THEN Append(f[i - 1], s[i]) ELSE f[i - 1]
    <3>1. CASE i = 0 BY <2>2, <2>4, <3>1 DEF IsRun
    <3>2. CASE i # 0
      <4>1. i \in 1..n /\ i - 1 \in 0..n BY <3>2
      <4>2. f[i - 1] \in Seq(T) /\ f[i] = step[f[i - 1]][i] BY <2>4, <4>1 DEF IsRun
      <4> QED BY <2>3, <3>2, <4>1, <4>2
    <3> QED BY <3>1, <3>2
  <2>6. f \in [0..n -> Seq(T)] BY <2>4 DEF IsRun
  <2> QED BY <2>5, <2>6
<1>2. Is(k) BY <1>1
<1>3. KeepIn(s, S) = k[n] BY DEF KeepIn
<1>4. \A i \in 0..n : k[i] = IF i = 0 THEN <<>>
                             ELSE IF s[i] \in S THEN Append(k[i - 1], s[i]) ELSE k[i - 1]
  BY <1>2
<1> HIDE DEF k
<1> DEFINE Upto(i) == SubSeq(s, 1, i)
           Kept(i) == Picks(k[i], Upto(i), S, T)
           Fit == {i \in Nat : i <= n => Kept(i)}
<1>5. 0 \in Fit
  <2>1. k[0] = <<>> /\ Upto(0) = <<>> BY <1>4
  <2>2. k[0] \in Seq(T) /\ Upto(0) \in Seq(T) BY <2>1
  <2>3. Range(k[0]) = {} /\ Range(Upto(0)) = {} BY <2>1 DEF Range
  <2>4. Thin(k[0], Upto(0)) BY <2>1, <2>2, ThinEmpty
  <2> QED BY <2>2, <2>3, <2>4 DEF Picks
<1>6. ASSUME NEW i \in Nat, i \in Fit PROVE i + 1 \in Fit
  <2> SUFFICES ASSUME i + 1 <= n PROVE Kept(i + 1) OBVIOUS
  <2> DEFINE u == Upto(i)
             v == Upto(i + 1)
             e == s[i + 1]
             x == k[i]
             y == k[i + 1]
  <2>1. u \in Seq(T) /\ e \in T /\ v = Append(u, e)
    <3>1. u \in Seq(T) OBVIOUS
    <3>2. e \in T OBVIOUS
    <3>3. v = Append(u, e) OBVIOUS
    <3> QED BY <3>1, <3>2, <3>3
  <2>2. y = IF e \in S THEN Append(x, e) ELSE x BY <1>4
  <2> HIDE DEF u, v, e
  <2>3. Picks(x, u, S, T) BY <1>6 DEF u
  <2> HIDE DEF x, y
  <2>4. Picks(y, v, S, T) BY <2>1, <2>2, <2>3, KeepStep
  <2> QED BY <2>4 DEF v, y
<1> HIDE DEF Fit
<1>7. n \in Fit BY <1>5, <1>6, SetInduction
<1>8. Kept(n) BY <1>7 DEF Fit
<1>9. Upto(n) = s OBVIOUS
<1> QED BY <1>3, <1>8, <1>9 DEF Picks

-----------------------------------------------------------------------------
(* The items of a connection, and the line they stand in *)

\* An item is a frame or an answer, never both.
LEMMA ItemKinds ==
  /\ \A x \in Evt : IsEvt(x) /\ x \notin Res
  /\ \A x \in Res : ~ IsEvt(x) /\ x \notin Evt
  /\ \A x \in Item : IsEvt(x) => x \in Evt
  /\ \A x \in Item : ~ IsEvt(x) => x \in Res
  BY DEF Evt, Res, Item, IsEvt

\* A sequence of a type is one of any wider type.
LEMMA SeqMono == ASSUME NEW A, NEW B, A \subseteq B, NEW s \in Seq(A) PROVE s \in Seq(B)
  OBVIOUS

\* A sequence of frames is one of items, all of them frames.
LEMMA EvtSeqs ==
  ASSUME NEW s \in Seq(Evt)
  PROVE  s \in Seq(Item) /\ Evts(s) = Range(s) /\ Range(s) \subseteq Evt
<1>1. s \in Seq(Item) BY SeqMono DEF Item
<1>2. Range(s) \subseteq Evt BY DEF Range
<1> QED BY <1>1, <1>2, ItemKinds DEF Evts

\* What is thinner than a sequence in order is in order.
LEMMA ThinSorted == ASSUME NEW T, NEW s \in Seq(T), NEW t \in Seq(T), Thin(t, s), Sorted(s) PROVE Sorted(t)
  BY DEF Thin, Sorted

\* What is thinner has no more of a kind.
LEMMA ThinLone ==
  ASSUME NEW T, NEW s \in Seq(T), NEW t \in Seq(T), Thin(t, s), NEW S, Lone(s, S)
  PROVE  Lone(t, S)
<1>1. PICK p \in [DOMAIN t -> DOMAIN s] :
        \A i \in DOMAIN t : t[i] = s[p[i]] /\ \A j \in DOMAIN t : i < j => p[i] < p[j]
  BY DEF Thin
<1> SUFFICES ASSUME NEW i \in DOMAIN t, NEW j \in DOMAIN t, t[i] \in S, t[j] \in S, i < j
             PROVE  FALSE
  BY DEF Lone
<1>2. p[i] \in DOMAIN s /\ p[j] \in DOMAIN s /\ p[i] < p[j] /\ s[p[i]] \in S /\ s[p[j]] \in S
  BY <1>1
<1> QED BY <1>2 DEF Lone

\* The frames of two sequences, one after the other.
LEMMA EvtsConcat ==
  ASSUME NEW T, NEW s \in Seq(T), NEW t \in Seq(T)
  PROVE  Evts(s \o t) = Evts(s) \cup Evts(t)
<1>1. Range(s \o t) = Range(s) \cup Range(t) BY RangeConcat
<1> QED BY <1>1 DEF Evts

\* A kind of item is in a sequence when it is in one of its parts.
LEMMA HasConcat ==
  ASSUME NEW T, NEW s \in Seq(T), NEW t \in Seq(T), NEW S
  PROVE  Has(s \o t, S) <=> Has(s, S) \/ Has(t, S)
<1>1. Range(s \o t) = Range(s) \cup Range(t) BY RangeConcat
<1> QED BY <1>1 DEF Has

\* Where an index of s \o t lies.
LEMMA InConcat ==
  ASSUME NEW T, NEW s \in Seq(T), NEW t \in Seq(T)
  PROVE  /\ Len(s) \in Nat
         /\ \A i \in DOMAIN s : i \in Nat /\ i <= Len(s) /\ i \in DOMAIN (s \o t)
                                /\ (s \o t)[i] = s[i]
         /\ \A i \in DOMAIN t : /\ i \in Nat /\ 1 <= i /\ Len(s) + i \in DOMAIN (s \o t)
                                /\ (s \o t)[Len(s) + i] = t[i]
         /\ \A i \in DOMAIN (s \o t) :
              \/ i \in DOMAIN s
              \/ i \in Nat /\ Len(s) < i /\ i - Len(s) \in DOMAIN t
                 /\ (s \o t)[i] = t[i - Len(s)]
  OBVIOUS

\* Two sequences in order make one when the frames of the first are before the others.
LEMMA SortedConcat ==
  ASSUME NEW T, NEW s \in Seq(T), NEW t \in Seq(T)
  PROVE  Sorted(s \o t) <=> Sorted(s) /\ Sorted(t) /\ Before(Evts(s), Evts(t))
<1> DEFINE u == s \o t
           n == Len(s)
<1>0. /\ n \in Nat
      /\ \A i \in DOMAIN s : i \in Nat /\ i <= n /\ i \in DOMAIN u /\ u[i] = s[i]
      /\ \A i \in DOMAIN t : i \in Nat /\ 1 <= i /\ n + i \in DOMAIN u /\ u[n + i] = t[i]
      /\ \A i \in DOMAIN u : \/ i \in DOMAIN s
                             \/ i \in Nat /\ n < i /\ i - n \in DOMAIN t /\ u[i] = t[i - n]
  BY InConcat
<1> HIDE DEF u, n
<1>1. ASSUME Sorted(u) PROVE Sorted(s) /\ Sorted(t) /\ Before(Evts(s), Evts(t))
  <2>1. Sorted(s) BY <1>0, <1>1 DEF Sorted
  <2>2. Sorted(t)
    <3> SUFFICES ASSUME NEW i \in DOMAIN t, NEW j \in DOMAIN t, i < j, IsEvt(t[i]), IsEvt(t[j])
                 PROVE  t[i].seq < t[j].seq
      BY DEF Sorted
    <3>1. n + i \in DOMAIN u /\ n + j \in DOMAIN u /\ n + i < n + j BY <1>0
    <3> QED BY <1>0, <1>1, <3>1 DEF Sorted
  <2>3. Before(Evts(s), Evts(t))
    <3> SUFFICES ASSUME NEW i \in DOMAIN s, NEW j \in DOMAIN t, IsEvt(s[i]), IsEvt(t[j])
                 PROVE  s[i].seq < t[j].seq
      BY DEF Before, Evts, Range
    <3>1. i \in DOMAIN u /\ n + j \in DOMAIN u /\ i < n + j BY <1>0
    <3> QED BY <1>0, <1>1, <3>1 DEF Sorted
  <2> QED BY <2>1, <2>2, <2>3
<1>2. ASSUME Sorted(s), Sorted(t), Before(Evts(s), Evts(t)) PROVE Sorted(u)
  <2> SUFFICES ASSUME NEW i \in DOMAIN u, NEW j \in DOMAIN u, i < j, IsEvt(u[i]), IsEvt(u[j])
               PROVE  u[i].seq < u[j].seq
    BY DEF Sorted
  <2>1. CASE i \in DOMAIN s /\ j \in DOMAIN s BY <1>0, <1>2, <2>1 DEF Sorted
  <2>2. CASE i \in DOMAIN s /\ j \notin DOMAIN s
    <3>1. u[i] = s[i] /\ u[j] = t[j - n] /\ j - n \in DOMAIN t BY <1>0, <2>2
    <3>2. u[i] \in Evts(s) /\ u[j] \in Evts(t) BY <2>2, <3>1 DEF Evts, Range
    <3> QED BY <1>2, <3>2 DEF Before
  <2>3. CASE i \notin DOMAIN s
    <3>1. j \notin DOMAIN s BY <1>0, <2>3
    <3>2. /\ u[i] = t[i - n] /\ i - n \in DOMAIN t /\ u[j] = t[j - n] /\ j - n \in DOMAIN t
          /\ i - n < j - n
      BY <1>0, <2>3, <3>1
    <3> QED BY <1>2, <3>2 DEF Sorted
  <2> QED BY <2>1, <2>2, <2>3
<1> QED BY <1>1, <1>2 DEF u

\* At most one of a kind, in two sequences one after the other.
LEMMA LoneConcat ==
  ASSUME NEW T, NEW s \in Seq(T), NEW t \in Seq(T), NEW S
  PROVE  Lone(s \o t, S) <=> Lone(s, S) /\ Lone(t, S) /\ ~ (Has(s, S) /\ Has(t, S))
<1> DEFINE u == s \o t
           n == Len(s)
<1>0. /\ n \in Nat
      /\ \A i \in DOMAIN s : i \in Nat /\ i <= n /\ i \in DOMAIN u /\ u[i] = s[i]
      /\ \A i \in DOMAIN t : i \in Nat /\ 1 <= i /\ n + i \in DOMAIN u /\ u[n + i] = t[i]
      /\ \A i \in DOMAIN u : \/ i \in DOMAIN s
                             \/ i \in Nat /\ n < i /\ i - n \in DOMAIN t /\ u[i] = t[i - n]
  BY InConcat
<1> HIDE DEF u, n
<1>1. ASSUME Lone(u, S) PROVE Lone(s, S) /\ Lone(t, S) /\ ~ (Has(s, S) /\ Has(t, S))
  <2>1. Lone(s, S) BY <1>0, <1>1 DEF Lone
  <2>2. Lone(t, S)
    <3> SUFFICES ASSUME NEW i \in DOMAIN t, NEW j \in DOMAIN t, t[i] \in S, t[j] \in S
                 PROVE  i = j
      BY DEF Lone
    <3>1. n + i \in DOMAIN u /\ n + j \in DOMAIN u /\ u[n + i] \in S /\ u[n + j] \in S BY <1>0
    <3>2. n + i = n + j BY <1>1, <3>1 DEF Lone
    <3> QED BY <1>0, <3>2
  <2>3. ASSUME NEW i \in DOMAIN s, NEW j \in DOMAIN t, s[i] \in S, t[j] \in S PROVE FALSE
    <3>1. i \in DOMAIN u /\ n + j \in DOMAIN u /\ u[i] \in S /\ u[n + j] \in S BY <1>0, <2>3
    <3>2. i = n + j BY <1>1, <3>1 DEF Lone
    <3> QED BY <1>0, <3>2
  <2> QED BY <2>1, <2>2, <2>3 DEF Has, Range
<1>2. ASSUME Lone(s, S), Lone(t, S), ~ (Has(s, S) /\ Has(t, S)) PROVE Lone(u, S)
  <2> SUFFICES ASSUME NEW i \in DOMAIN u, NEW j \in DOMAIN u, u[i] \in S, u[j] \in S
               PROVE  i = j
    BY DEF Lone
  <2>1. CASE i \in DOMAIN s /\ j \in DOMAIN s BY <1>0, <1>2, <2>1 DEF Lone
  <2>2. CASE i \notin DOMAIN s /\ j \notin DOMAIN s
    <3>1. i - n = j - n BY <1>0, <1>2, <2>2 DEF Lone
    <3> QED BY <1>0, <2>2, <3>1
  <2>3. CASE (i \in DOMAIN s /\ j \notin DOMAIN s) \/ (i \notin DOMAIN s /\ j \in DOMAIN s)
    <3>1. Has(s, S) /\ Has(t, S) BY <1>0, <2>3 DEF Has, Range
    <3> QED BY <1>2, <3>1
  <2> QED BY <2>1, <2>2, <2>3
<1> QED BY <1>1, <1>2 DEF u

\* Concatenation associates.
LEMMA ConcatAssoc ==
  ASSUME NEW T, NEW a \in Seq(T), NEW b \in Seq(T), NEW c \in Seq(T)
  PROVE  Same((a \o b) \o c, a \o (b \o c))
<1>1. (a \o b) \o c = a \o (b \o c) OBVIOUS
<1> QED BY <1>1 DEF Same

-----------------------------------------------------------------------------
(* What the outbound queue does to the line *)

\* The socket takes some of n items, and none past a queue that waits.
LEMMA TakenIs ==
  ASSUME NEW o \in Outs, NEW n \in Nat, NEW t \in Taken(o, n)
  PROVE  t[1] \in 0..n /\ t[2] \in BOOLEAN /\ (t[1] # 0 => o.queue = <<>>)
<1>1. o.full \in BOOLEAN BY DEF Outs
<1>2. CASE o.full \/ o.queue # <<>>
  <2>1. t = <<0, o.full>> BY <1>2 DEF Taken
  <2> QED BY <1>1, <2>1
<1>3. CASE ~ (o.full \/ o.queue # <<>>)
  <2>1. t = <<n, FALSE>> \/ \E k \in 1..n : t = <<k, TRUE>> BY <1>3 DEF Taken
  <2>2. ASSUME NEW k \in 1..n, t = <<k, TRUE>> PROVE t[1] \in 0..n /\ t[2] \in BOOLEAN BY <2>2
  <2>3. t = <<n, FALSE>> => t[1] \in 0..n /\ t[2] \in BOOLEAN OBVIOUS
  <2> QED BY <1>3, <2>1, <2>2, <2>3
<1> QED BY <1>2, <1>3

\* Sequences with the same elements at the same places are the same.
LEMMA SeqEq ==
  ASSUME NEW T, NEW s \in Seq(T), NEW t \in Seq(T), Len(t) = Len(s),
         \A i \in 1..Len(s) : t[i] = s[i]
  PROVE  s = t
  OBVIOUS

\* A sequence is its first k elements, and the others.
LEMMA SplitSeq ==
  ASSUME NEW T, NEW s \in Seq(T), NEW k \in 0..Len(s)
  PROVE  /\ SubSeq(s, 1, k) \in Seq(T) /\ SubSeq(s, k + 1, Len(s)) \in Seq(T)
         /\ s = SubSeq(s, 1, k) \o SubSeq(s, k + 1, Len(s))
         /\ k = 0 => SubSeq(s, 1, k) = <<>>
<1> DEFINE n == Len(s)
           a == SubSeq(s, 1, k)
           b == SubSeq(s, k + 1, n)
<1>1. n \in Nat /\ k \in Nat /\ k <= n OBVIOUS
<1>2. a \in Seq(T) /\ Len(a) = k /\ \A i \in 1..k : a[i] = s[i] OBVIOUS
<1>3. b \in Seq(T) /\ Len(b) = n - k /\ \A i \in 1..(n - k) : b[i] = s[k + i]
  <2>1. b \in Seq(T) /\ Len(b) = n - k OBVIOUS
  <2>2. \A i \in 1..(n - k) : b[i] = s[k + i] OBVIOUS
  <2> QED BY <2>1, <2>2
<1>4. k = 0 => a = <<>> OBVIOUS
<1> HIDE DEF a, b
<1>5. a \o b \in Seq(T) /\ Len(a \o b) = n
  <2>1. a \in Seq(T) /\ b \in Seq(T) /\ Len(a) + Len(b) = n BY <1>1, <1>2, <1>3
  <2> QED BY <2>1
<1>6. ASSUME NEW i \in 1..n PROVE (a \o b)[i] = s[i]
  <2>1. CASE i <= k BY <1>1, <1>2, <1>3, <2>1
  <2>2. CASE ~ (i <= k)
    <3>1. i - k \in 1..(n - k) BY <1>1, <2>2
    <3>2. (a \o b)[i] = b[i - k] BY <1>1, <1>2, <1>3, <2>2
    <3> QED BY <1>3, <3>1, <3>2
  <2> QED BY <2>1, <2>2
<1>7. s = a \o b BY <1>5, <1>6, SeqEq
<1> QED BY <1>2, <1>3, <1>4, <1>7 DEF a, b

\* The socket takes a, with a queue that is empty unless a is: the line grows by a \o b.
LEMMA LineGrows ==
  ASSUME NEW T, NEW s \in Seq(T), NEW q \in Seq(T), NEW a \in Seq(T), NEW b \in Seq(T)
  PROVE  a = <<>> \/ q = <<>> => Same((s \o a) \o (q \o b), (s \o q) \o (a \o b))
<1>1. (s \o q) \o b = s \o (q \o b) OBVIOUS
<1>0. (s \o a) \o b = s \o (a \o b) OBVIOUS
<1>2. ASSUME a = <<>> PROVE (s \o a) \o (q \o b) = (s \o q) \o (a \o b)
  <2>1. s \o a = s /\ a \o b = b BY <1>2
  <2> QED BY <1>0, <1>1, <2>1, Zenon
<1>3. ASSUME q = <<>> PROVE (s \o a) \o (q \o b) = (s \o q) \o (a \o b)
  <2>1. s \o q = s /\ q \o b = b BY <1>3
  <2> QED BY <1>0, <1>1, <2>1, Zenon
<1> QED BY <1>2, <1>3 DEF Same

\* write: the answer is the last of the line, whatever the socket takes.
LEMMA WrittenIs ==
  ASSUME NEW o \in Outs, NEW a \in Item, NEW p \in Written(o, a)
  PROVE  p \in Outs /\ Line(p) = Line(o) \o <<a>> /\ p.over = o.over
<1> DEFINE s == <<a>>
<1>0. s \in Seq(Item) /\ Len(s) = 1 /\ o.sock \in Seq(Item) /\ o.queue \in Seq(Item) BY DEF Outs
<1>1. PICK t \in Taken(o, 1) :
        p = [o EXCEPT !.sock = @ \o SubSeq(s, 1, t[1]),
                      !.queue = @ \o SubSeq(s, t[1] + 1, 1), !.full = t[2]]
  BY DEF Written
<1>2. t[1] \in 0..1 /\ t[2] \in BOOLEAN /\ (t[1] # 0 => o.queue = <<>>) BY TakenIs
<1> HIDE DEF s
<1> DEFINE a1 == SubSeq(s, 1, t[1])
           a2 == SubSeq(s, t[1] + 1, 1)
<1>3. a1 \in Seq(Item) /\ a2 \in Seq(Item) /\ s = a1 \o a2 /\ (a1 = <<>> \/ o.queue = <<>>)
  BY <1>0, <1>2, SplitSeq
<1> HIDE DEF a1, a2
<1>4. (o.sock \o a1) \o (o.queue \o a2) = (o.sock \o o.queue) \o (a1 \o a2)
  <2>1. Same((o.sock \o a1) \o (o.queue \o a2), (o.sock \o o.queue) \o (a1 \o a2))
    BY <1>0, <1>3, LineGrows
  <2> QED BY <2>1 DEF Same
<1>5. /\ p.sock = o.sock \o a1 /\ p.queue = o.queue \o a2
      /\ p.full = t[2] /\ p.over = o.over
  BY <1>1 DEF Outs, a1, a2
<1>6. o.sock \o a1 \in Seq(Item) /\ o.queue \o a2 \in Seq(Item) BY <1>0, <1>3
<1>7. p \in Outs BY <1>1, <1>2, <1>6 DEF Outs, a1, a2
<1> QED BY <1>3, <1>4, <1>5, <1>7 DEF Line, s

\* pump: the line is as it was, nearer to the socket.
LEMMA PumpedIs ==
  ASSUME NEW o \in Outs, NEW p \in Pumped(o)
  PROVE  p \in Outs /\ Line(p) = Line(o) /\ p.over = o.over
<1> DEFINE s == o.queue
           n == Len(s)
           e == [o EXCEPT !.full = FALSE, !.queue = <<>>]
<1>0. s \in Seq(Item) /\ n \in Nat /\ o.sock \in Seq(Item) BY DEF Outs
<1>1. PICK t \in Taken(e, n) :
        p = [o EXCEPT !.sock = @ \o SubSeq(s, 1, t[1]),
                      !.queue = SubSeq(@, t[1] + 1, Len(@)), !.full = t[2]]
  BY DEF Pumped
<1>2. e \in Outs
  <2>1. PICK z \in Seq(Item) : z = <<>>
    <3>1. <<>> \in Seq(Item) OBVIOUS
    <3> QED BY <3>1, Zenon
  <2>2. e = [o EXCEPT !.full = FALSE, !.queue = z] BY <2>1
  <2> HIDE DEF e
  <2> QED BY <2>2 DEF Outs
<1>3. t[1] \in 0..n /\ t[2] \in BOOLEAN BY <1>0, <1>2, TakenIs
<1> DEFINE a1 == SubSeq(s, 1, t[1])
           a2 == SubSeq(s, t[1] + 1, n)
<1>4. a1 \in Seq(Item) /\ a2 \in Seq(Item) /\ s = a1 \o a2 BY <1>0, <1>3, SplitSeq
<1>5. /\ p.sock = o.sock \o a1 /\ p.queue = a2
      /\ p.full = t[2] /\ p.over = o.over
  BY <1>1 DEF Outs
<1>6. p \in Outs
  <2>1. o.sock \o a1 \in Seq(Item) BY <1>0, <1>4
  <2> QED BY <1>1, <1>3, <1>4, <2>1 DEF Outs
<1> HIDE DEF a1, a2
<1>7. (o.sock \o a1) \o a2 = o.sock \o (a1 \o a2)
  <2>1. Same((o.sock \o a1) \o a2, o.sock \o (a1 \o a2)) BY <1>0, <1>4, ConcatAssoc
  <2> QED BY <2>1 DEF Same
<1> QED BY <1>4, <1>5, <1>6, <1>7 DEF Line

\* overflow: the line is thinned, and what it lost has nothing after it.
LEMMA OverflowedIs ==
  ASSUME NEW o \in Outs, NEW p, p = Overflowed(o)
  PROVE  /\ p \in Outs /\ Thin(Line(p), Line(o)) /\ (o.over => p.over)
         /\ Sorted(Line(o)) => \A g \in Evts(Line(o)) :
              g \in Evts(Line(p)) \/ (p.over /\ Before(Evts(Line(p)), {g}))
<1>0. o.sock \in Seq(Item) /\ o.queue \in Seq(Item) /\ Line(o) \in Seq(Item) BY DEF Outs, Line
<1>1. CASE p = o BY <1>0, <1>1, ThinSelf
<1>2. CASE p # o
  <2> DEFINE q == NoEvts(o.queue)
             K == {w \in Range(o.queue) : ~ IsEvt(w)}
  <2>1. p = [o EXCEPT !.over = TRUE, !.queue = q] BY <1>2 DEF Overflowed
  <2>2. q \in Seq(Item) /\ Thin(q, o.queue) /\ Range(q) = Range(o.queue) \cap K
    BY <1>0, KeepInIs DEF NoEvts
  <2> HIDE DEF q
  <2>3. p \in Outs /\ p.over /\ p.sock = o.sock /\ p.queue = q BY <2>1, <2>2 DEF Outs
  <2>4. Thin(o.sock \o q, o.sock \o o.queue) BY <1>0, <2>2, ThinConcat, ThinSelf
  <2>5. Evts(Line(p)) = Evts(o.sock)
    <3>1. Evts(o.sock \o q) = Evts(o.sock) \cup Evts(q) BY <1>0, <2>2, EvtsConcat
    <3>2. Evts(q) = {} BY <2>2 DEF Evts
    <3> QED BY <2>3, <3>1, <3>2 DEF Line
  <2>6. /\ Evts(Line(o)) = Evts(o.sock) \cup Evts(o.queue)
        /\ Sorted(Line(o)) => Before(Evts(o.sock), Evts(o.queue))
    BY <1>0, EvtsConcat, SortedConcat DEF Line
  <2> QED BY <2>3, <2>4, <2>5, <2>6 DEF Line, Before
<1> QED BY <1>1, <1>2

\* sendEvt: the line keeps its order, and a frame is gone only so.
LEMMA SentIs ==
  ASSUME NEW o \in Outs, NEW fs \in Seq(Evt), NEW same, NEW p \in Sent(o, fs, same)
  PROVE  /\ p \in Outs /\ Thin(Line(p), Line(o) \o fs) /\ (o.over => p.over)
         /\ Sorted(Line(o) \o fs) => \A g \in Evts(Line(o) \o fs) :
              g \in Evts(Line(p)) \/ Gone(Evts(Line(o) \o fs), p, g)
<1>0. /\ o.sock \in Seq(Item) /\ o.queue \in Seq(Item) /\ Line(o) \in Seq(Item)
      /\ fs \in Seq(Item) /\ Evts(fs) = Range(fs) /\ Range(fs) \subseteq Evt
      /\ Line(o) \o fs \in Seq(Item)
  BY EvtSeqs DEF Outs, Line
<1>1. CASE o.over \/ fs = <<>>
  <2>1. p = o BY <1>1 DEF Sent
  <2>2. /\ Evts(Line(o) \o fs) = Evts(Line(o)) \cup Evts(fs)
        /\ Sorted(Line(o) \o fs) => Before(Evts(Line(o)), Evts(fs))
    BY <1>0, EvtsConcat, SortedConcat
  <2>3. Thin(Line(o), Line(o) \o fs)
    <3>1. PICK z \in Seq(Item) : z = <<>>
      <4>1. <<>> \in Seq(Item) OBVIOUS
      <4> QED BY <4>1, Zenon
    <3>2. Thin(Line(o) \o z, Line(o) \o fs) BY <1>0, <3>1, ThinConcat, ThinSelf, ThinEmpty
    <3>3. Line(o) \o z = Line(o) BY <1>0, <3>1
    <3> QED BY <3>2, <3>3
  <2>4. fs = <<>> => Evts(fs) = {} BY DEF Evts, Range
  <2> QED BY <1>1, <2>1, <2>2, <2>3, <2>4 DEF Gone, Before
<1>2. CASE ~ (o.over \/ fs = <<>>)
  <2> DEFINE n == Len(fs)
  <2>0. n \in Nat BY <1>0
  <2>1. PICK t \in Taken(o, n) :
          p = Overflowed([o EXCEPT !.sock = @ \o SubSeq(fs, 1, t[1]),
                                   !.queue = Waits(@, fs, same)
                                               \o Newest(SubSeq(fs, t[1] + 1, Len(fs))),
                                   !.full = t[2]])
    BY <1>2 DEF Sent
  <2>2. t[1] \in 0..n /\ t[2] \in BOOLEAN /\ (t[1] # 0 => o.queue = <<>>) BY <2>0, TakenIs
  <2> DEFINE a == SubSeq(fs, 1, t[1])
             b == SubSeq(fs, t[1] + 1, Len(fs))
             W == Waits(o.queue, fs, same)
             N == Newest(b)
             pre == [o EXCEPT !.sock = @ \o a, !.queue = W \o N, !.full = t[2]]
  <2>3. /\ a \in Seq(Evt) /\ b \in Seq(Evt) /\ fs = a \o b
        /\ (a = <<>> \/ o.queue = <<>>)
    BY <2>2, SplitSeq
  <2>4. p = Overflowed(pre) BY <2>1
  <2> HIDE DEF a, b
  <2>5. /\ a \in Seq(Item) /\ b \in Seq(Item) /\ Evts(a) = Range(a) /\ Evts(b) = Range(b)
        /\ Range(b) \subseteq Evt
    BY <2>3, EvtSeqs
  <2>6. PICK Q : W \in Seq(Item) /\ Thin(W, o.queue) /\ Range(W) = Range(o.queue) \cap Q
                 /\ \A w \in Range(o.queue) : w \in Q \/
                      /\ IsEvt(w) /\ w.row \in Coalesced
                      /\ \E f \in Range(fs) : f.row = w.row
    <3> DEFINE Q == {w \in Range(o.queue) :
                ~ /\ same /\ IsEvt(w) /\ w.row \in Coalesced
                  /\ \E f \in Range(fs) : f.row = w.row
                  /\ ~ \E x \in Range(o.queue) : IsEvt(x) /\ x.row = w.row /\ x.seq > w.seq}
    <3>1. \A w \in Range(o.queue) : w \in Q \/
                      /\ IsEvt(w) /\ w.row \in Coalesced
                      /\ \E f \in Range(fs) : f.row = w.row
      OBVIOUS
    <3>2. W = KeepIn(o.queue, Q) BY DEF Waits
    <3> HIDE DEF Q, W
    <3>3. W \in Seq(Item) /\ Thin(W, o.queue) /\ Range(W) = Range(o.queue) \cap Q
      BY <1>0, <3>2, KeepInIs
    <3> QED BY <3>1, <3>3, Zenon
  <2>7. PICK P : N \in Seq(Item) /\ Thin(N, b) /\ Range(N) = Range(b) \cap P
                 /\ \A w \in Range(b) : w \in P \/
                      /\ w.row \in Coalesced
                      /\ \E g \in Range(b) : g.row = w.row /\ g.seq > w.seq
    <3> DEFINE P == {f \in Range(b) :
                ~ (f.row \in Coalesced /\ \E g \in Range(b) : g.row = f.row /\ g.seq > f.seq)}
    <3>1. \A w \in Range(b) : w \in P \/
              /\ w.row \in Coalesced
              /\ \E g \in Range(b) : g.row = w.row /\ g.seq > w.seq
      OBVIOUS
    <3>2. N = KeepIn(b, P) BY DEF Newest
    <3> HIDE DEF P, N
    <3>3. N \in Seq(Item) /\ Thin(N, b) /\ Range(N) = Range(b) \cap P BY <2>5, <3>2, KeepInIs
    <3> QED BY <3>1, <3>3, Zenon
  <2> HIDE DEF W, N
  <2>8. o.sock \o a \in Seq(Item) /\ W \o N \in Seq(Item) /\ o.queue \o b \in Seq(Item)
    BY <1>0, <2>5, <2>6, <2>7
  <2>9. pre \in Outs /\ pre.sock = o.sock \o a /\ pre.queue = W \o N /\ pre.over = o.over
    BY <2>2, <2>8 DEF Outs
  <2> HIDE DEF pre
  <2>10. Line(o) \o fs = (o.sock \o a) \o (o.queue \o b)
    <3>1. Same((o.sock \o a) \o (o.queue \o b), (o.sock \o o.queue) \o (a \o b))
      BY <1>0, <2>3, <2>5, LineGrows
    <3> QED BY <2>3, <3>1 DEF Line, Same
  <2>11. Thin(W \o N, o.queue \o b) BY <1>0, <2>5, <2>6, <2>7, ThinConcat
  <2>12. Thin(Line(pre), Line(o) \o fs)
    <3>1. Thin((o.sock \o a) \o (W \o N), (o.sock \o a) \o (o.queue \o b))
      BY <2>8, <2>11, ThinConcat, ThinSelf
    <3> QED BY <2>9, <2>10, <3>1 DEF Line
  <2>13. Sorted(Line(o) \o fs) => Sorted(Line(pre))
    <3>1. Line(pre) \in Seq(Item) BY <2>8, <2>9 DEF Line
    <3> QED BY <1>0, <2>12, <3>1, ThinSorted
  <2>14. /\ p \in Outs /\ Thin(Line(p), Line(pre)) /\ (pre.over => p.over)
         /\ Sorted(Line(o) \o fs) => \A g \in Evts(Line(pre)) :
              g \in Evts(Line(p)) \/ (p.over /\ Before(Evts(Line(p)), {g}))
    BY <2>4, <2>9, <2>13, OverflowedIs
  <2>15. ASSUME Sorted(Line(o) \o fs), NEW g \in Evts(Line(o) \o fs), g \notin Evts(Line(pre))
         PROVE  /\ g.row \in Coalesced
                /\ \E h \in Evts(Line(o) \o fs) : h.row = g.row /\ h.seq > g.seq
    <3>1. /\ Evts(Line(o) \o fs) = (Evts(o.sock) \cup Evts(a)) \cup (Evts(o.queue) \cup Evts(b))
          /\ Evts(Line(pre)) = (Evts(o.sock) \cup Evts(a)) \cup (Evts(W) \cup Evts(N))
      <4>1. /\ Evts(o.sock \o a) = Evts(o.sock) \cup Evts(a)
            /\ Evts(o.queue \o b) = Evts(o.queue) \cup Evts(b)
            /\ Evts(W \o N) = Evts(W) \cup Evts(N)
        BY <1>0, <2>5, <2>6, <2>7, EvtsConcat
      <4>2. /\ Evts((o.sock \o a) \o (o.queue \o b)) = Evts(o.sock \o a) \cup Evts(o.queue \o b)
            /\ Evts((o.sock \o a) \o (W \o N)) = Evts(o.sock \o a) \cup Evts(W \o N)
        <5> DEFINE x == o.sock \o a
                   y == o.queue \o b
                   z == W \o N
        <5>1. x \in Seq(Item) /\ y \in Seq(Item) /\ z \in Seq(Item) BY <2>8
        <5> HIDE DEF x, y, z
        <5>2. Evts(x \o y) = Evts(x) \cup Evts(y) /\ Evts(x \o z) = Evts(x) \cup Evts(z)
          BY <5>1, EvtsConcat
        <5> QED BY <5>2 DEF x, y, z
      <4> QED BY <2>9, <2>10, <4>1, <4>2 DEF Line
    <3>2. /\ Evts(Line(o) \o fs) = Evts(Line(o)) \cup Range(fs)
          /\ Evts(Line(o)) = Evts(o.sock) \cup Evts(o.queue)
          /\ Before(Evts(Line(o)), Range(fs))
      <4>1. /\ Evts(Line(o) \o fs) = Evts(Line(o)) \cup Evts(fs)
            /\ Before(Evts(Line(o)), Evts(fs))
        BY <1>0, <2>15, EvtsConcat, SortedConcat
      <4>2. Evts(o.sock \o o.queue) = Evts(o.sock) \cup Evts(o.queue) BY <1>0, EvtsConcat
      <4> QED BY <1>0, <4>1, <4>2 DEF Line
    <3>3. CASE g \in Evts(o.queue)
      <4>1. g \in Range(o.queue) /\ IsEvt(g) /\ g \notin Range(W) BY <2>15, <3>1, <3>3 DEF Evts
      <4>2. g.row \in Coalesced /\ \E f \in Range(fs) : f.row = g.row BY <2>6, <4>1
      <4>3. \A f \in Range(fs) : f.seq > g.seq
        <5>1. \A f \in Range(fs) : g.seq < f.seq BY <3>2, <3>3 DEF Before
        <5> QED BY <5>1
      <4> QED BY <3>2, <4>2, <4>3
    <3>4. CASE g \in Evts(b)
      <4>1. g \in Range(b) /\ IsEvt(g) /\ g \notin Range(N) BY <2>5, <2>15, <3>1, <3>4 DEF Evts
      <4>2. g.row \in Coalesced /\ \E h \in Range(b) : h.row = g.row /\ h.seq > g.seq BY <2>7, <4>1
      <4> QED BY <2>5, <3>1, <4>2
    <3> QED BY <2>15, <3>1, <3>3, <3>4
  <2>16. Thin(Line(p), Line(o) \o fs) BY <2>12, <2>14, ThinTrans
  <2> QED BY <2>9, <2>14, <2>15, <2>16 DEF Gone
<1> QED BY <1>1, <1>2

-----------------------------------------------------------------------------
(* Types *)

\* Nothing, as a sequence of anything.
LEMMA EmptySeq == ASSUME NEW T PROVE \E e \in Seq(T) : e = <<>>
<1>1. <<>> \in Seq(T) OBVIOUS
<1> QED BY <1>1, Zenon

\* A connection that is closed, and its line, hold nothing.
LEMMA ClosedIs ==
  /\ Closed \in Conns /\ Closed.up = FALSE /\ Closed.asked = <<>> /\ Closed.answers = <<>>
  /\ Closed.sentAny = FALSE /\ Closed.holding = FALSE /\ Closed.held = <<>>
  /\ Idle \in Outs /\ Idle.sock = <<>> /\ Idle.queue = <<>> /\ Idle.over = FALSE
<1>1. PICK a \in Seq(Asks) : a = <<>> BY EmptySeq
<1>2. PICK r \in Seq(Res) : r = <<>> BY EmptySeq
<1>3. PICK f \in Seq(Evt) : f = <<>> BY EmptySeq
<1>4. PICK i \in Seq(Item) : i = <<>> BY EmptySeq
<1>5. Closed = [up |-> FALSE, asked |-> a, answers |-> r,
                sentAny |-> FALSE, holding |-> FALSE, held |-> f]
  BY <1>1, <1>2, <1>3 DEF Closed
<1>6. Idle = [sock |-> i, queue |-> i, full |-> FALSE, over |-> FALSE] BY <1>4 DEF Idle
<1> QED BY <1>1, <1>2, <1>3, <1>4, <1>5, <1>6 DEF Conns, Outs

\* What a frame makes of the reader, field by field.
LEMMA TakesIs ==
  ASSUME NEW w \in Wins, NEW f \in Evt, NEW v, v = Takes(w, f)
  PROVE  /\ v \in Wins /\ v.heard = w.heard
         /\ w.mode # "live" =>
              /\ v.mode = w.mode /\ v.lastSeq = w.lastSeq /\ v.board = w.board
              /\ v.applied = w.applied /\ v.handed = w.handed /\ v.buffer = Append(w.buffer, f)
         /\ w.mode = "live" /\ f.seq <= w.lastSeq => v = w
         /\ w.mode = "live" /\ ~ (f.seq <= w.lastSeq) /\ f.row = Resync =>
              /\ v.mode = "reading" /\ v.lastSeq = f.seq /\ v.board = w.board
              /\ v.applied = w.applied /\ v.handed = w.handed /\ v.buffer = w.buffer
         /\ w.mode = "live" /\ ~ (f.seq <= w.lastSeq) /\ f.row # Resync =>
              /\ v.mode = "live" /\ v.lastSeq = f.seq
              /\ v.board = [w.board EXCEPT ![f.row] = f.val]
              /\ v.applied = [epoch |-> f.epoch, seq |-> f.seq]
              /\ v.handed = (IF w.heard THEN Append(w.handed, f) ELSE w.handed)
              /\ v.buffer = w.buffer
<1>0. /\ f.seq \in Nat /\ f.epoch \in Nat /\ f.val \in Nat /\ f.row \in Rows \cup {Resync}
      /\ f \in Handed
  BY DEF Evt, Handed
<1>1. CASE w.mode # "live"
  <2>1. v = [w EXCEPT !.buffer = Append(@, f)] BY <1>1 DEF Takes
  <2>2. Append(w.buffer, f) \in Seq(Evt) BY DEF Wins
  <2> QED BY <1>1, <2>1, <2>2 DEF Wins
<1>2. CASE w.mode = "live" /\ f.seq <= w.lastSeq BY <1>2 DEF Takes
<1>3. CASE w.mode = "live" /\ ~ (f.seq <= w.lastSeq) /\ f.row = Resync
  <2>1. v = [w EXCEPT !.lastSeq = f.seq, !.mode = "reading"] BY <1>3 DEF Takes
  <2> QED BY <1>0, <1>3, <2>1 DEF Wins
<1>4. CASE w.mode = "live" /\ ~ (f.seq <= w.lastSeq) /\ f.row # Resync
  <2> DEFINE b == [w.board EXCEPT ![f.row] = f.val]
             a == [epoch |-> f.epoch, seq |-> f.seq]
             x == [w EXCEPT !.lastSeq = f.seq, !.board = b, !.applied = a]
  <2>1. x = [w EXCEPT !.lastSeq = f.seq, !.board[f.row] = f.val,
                      !.applied = [epoch |-> f.epoch, seq |-> f.seq]]
    OBVIOUS
  <2>2. v = HandsOn(x, f) BY <1>4, <2>1 DEF Takes
  <2>3. b \in Boards /\ a \in Stamps BY <1>0, <1>4 DEF Wins, Boards, Stamps
  <2> HIDE DEF b, a
  <2>4. /\ x \in Wins /\ x.mode = "live" /\ x.lastSeq = f.seq /\ x.board = b /\ x.applied = a
        /\ x.handed = w.handed /\ x.buffer = w.buffer /\ x.heard = w.heard
    BY <1>0, <1>4, <2>3 DEF Wins
  <2> HIDE DEF x
  <2>5. v = IF x.heard THEN [x EXCEPT !.handed = Append(@, f)] ELSE x BY <2>2 DEF HandsOn
  <2>6. Append(x.handed, f) \in Seq(Handed) BY <1>0, <2>4 DEF Wins
  <2>7. CASE x.heard
    <3>1. v = [x EXCEPT !.handed = Append(x.handed, f)] BY <2>5, <2>7
    <3>2. v \in Wins /\ v.handed = Append(x.handed, f) /\ v.mode = x.mode
          /\ v.lastSeq = x.lastSeq /\ v.board = x.board /\ v.applied = x.applied
          /\ v.buffer = x.buffer /\ v.heard = x.heard
      BY <2>4, <2>6, <3>1 DEF Wins
    <3> QED BY <1>4, <2>4, <2>7, <3>2 DEF a, b
  <2>8. CASE ~ x.heard BY <1>4, <2>4, <2>5, <2>8 DEF a, b
  <2>9. x.heard \in BOOLEAN BY <2>4 DEF Wins
  <2> QED BY <2>7, <2>8, <2>9
<1> QED BY <1>1, <1>2, <1>3, <1>4

\* The states a drain goes through.
LEMMA DrainedIs ==
  ASSUME NEW w \in Wins
  PROVE  \E d \in [0..Len(w.buffer) -> Wins] :
           /\ d[0].mode = "live" /\ d[0].buffer = <<>> /\ d[0].lastSeq = w.lastSeq
           /\ d[0].board = w.board /\ d[0].applied = w.applied /\ d[0].handed = w.handed
           /\ d[0].heard = w.heard
           /\ \A i \in 1..Len(w.buffer) : d[i] = Takes(d[i - 1], w.buffer[i])
           /\ Drained(w) = d[Len(w.buffer)]
<1> DEFINE n == Len(w.buffer)
           z == [w EXCEPT !.mode = "live", !.buffer = <<>>]
           Is(f) == f = [i \in 0..n |-> IF i = 0 THEN z ELSE Takes(f[i - 1], w.buffer[i])]
           k == CHOOSE f : Is(f)
<1>1. n \in Nat /\ \A i \in 1..n : w.buffer[i] \in Evt BY DEF Wins
<1>2. /\ z \in Wins /\ z.mode = "live" /\ z.buffer = <<>> /\ z.lastSeq = w.lastSeq
      /\ z.board = w.board /\ z.applied = w.applied /\ z.handed = w.handed /\ z.heard = w.heard
  <2>1. PICK e \in Seq(Evt) : e = <<>> BY EmptySeq
  <2>2. z = [w EXCEPT !.mode = "live", !.buffer = e] BY <2>1
  <2> HIDE DEF z
  <2> QED BY <2>1, <2>2 DEF Wins
<1>3. Drained(w) = k[n] BY DEF Drained
<1> HIDE DEF z
<1>4. \E f : Is(f)
  <2> DEFINE step == [x \in Wins |-> [i \in 1..n |-> Takes(x, w.buffer[i])]]
  <2>1. \A x \in Wins, i \in 1..n : step[x][i] = Takes(x, w.buffer[i]) OBVIOUS
  <2>2. \A x \in Wins, i \in 1..n : Takes(x, w.buffer[i]) \in Wins BY <1>1, TakesIs
  <2> HIDE DEF step
  <2>3. Steps(step, n, Wins) BY <2>1, <2>2 DEF Steps
  <2>4. PICK f : IsRun(f, n, Wins, z, step) BY <1>1, <1>2, <2>3, RunExists, Zenon
  <2>5. f \in [0..n -> Wins] BY <2>4 DEF IsRun
  <2>6. ASSUME NEW i \in 0..n PROVE f[i] = IF i = 0 THEN z ELSE Takes(f[i - 1], w.buffer[i])
    <3>1. CASE i = 0 BY <2>4, <3>1 DEF IsRun
    <3>2. CASE i # 0
      <4>1. i \in 1..n /\ i - 1 \in 0..n BY <1>1, <3>2
      <4>2. f[i - 1] \in Wins /\ f[i] = step[f[i - 1]][i] BY <2>4, <4>1 DEF IsRun
      <4> QED BY <2>1, <3>2, <4>1, <4>2
    <3> QED BY <3>1, <3>2
  <2> QED BY <2>5, <2>6
<1>5. Is(k) BY <1>4
<1>6. \A i \in 0..n : k[i] = IF i = 0 THEN z ELSE Takes(k[i - 1], w.buffer[i]) BY <1>5
<1>7. DOMAIN k = 0..n /\ k = [i \in 0..n |-> k[i]] BY <1>5
<1> HIDE DEF k
<1> DEFINE Fit == {i \in Nat : i <= n => k[i] \in Wins}
<1>8. 0 \in Fit BY <1>1, <1>2, <1>6
<1>9. ASSUME NEW i \in Nat, i \in Fit PROVE i + 1 \in Fit
  <2> SUFFICES ASSUME i + 1 <= n PROVE k[i + 1] \in Wins OBVIOUS
  <2>1. k[i] \in Wins /\ i + 1 \in 1..n BY <1>1, <1>9
  <2>2. k[i + 1] = Takes(k[i], w.buffer[i + 1]) BY <1>6, <2>1
  <2> QED BY <1>1, <2>1, <2>2, TakesIs
<1> HIDE DEF Fit
<1>10. \A i \in Nat : i \in Fit BY <1>8, <1>9, SetInduction
<1>11. \A i \in 0..n : k[i] \in Wins BY <1>1, <1>10 DEF Fit
<1>12. k \in [0..n -> Wins] BY <1>7, <1>11
<1>13. \A i \in 1..n : k[i] = Takes(k[i - 1], w.buffer[i]) BY <1>1, <1>6
<1>14. k[0] = z BY <1>1, <1>6
<1> QED BY <1>2, <1>3, <1>12, <1>13, <1>14

\* What deliver may leave is typed, and comes from one of the queues it was given.
LEMMA DeliverIs ==
  ASSUME NEW c \in Conns, NEW os, os \subseteq Outs, NEW fs \in Seq(Evt), NEW same,
         NEW d \in Deliver(c, os, fs, same)
  PROVE  d[1] \in Conns /\ d[2] \in Outs /\ \E o \in os : Delivered(c, o, fs, same, d)
<1>0. c.up \in BOOLEAN /\ c.holding \in BOOLEAN /\ c.held \in Seq(Evt) /\ c.sentAny \in BOOLEAN
  BY DEF Conns
<1>1. CASE ~ c.up
  <2>1. PICK o \in os : d = <<c, o>> BY <1>1 DEF Deliver
  <2>2. Delivered(c, o, fs, same, d) BY <1>1, <2>1 DEF Delivered
  <2> QED BY <2>1, <2>2
<1>2. CASE c.up /\ c.holding
  <2>1. PICK o \in os : d = <<[c EXCEPT !.held = @ \o fs], o>> BY <1>2 DEF Deliver
  <2> DEFINE e == [c EXCEPT !.held = c.held \o fs]
  <2>2. c.held \o fs \in Seq(Evt) BY <1>0
  <2>3. /\ e \in Conns /\ e.held = c.held \o fs /\ e.up = c.up /\ e.asked = c.asked
        /\ e.answers = c.answers /\ e.holding = c.holding /\ e.sentAny = c.sentAny
    BY <2>2 DEF Conns
  <2>4. d[1] = e /\ d[2] = o BY <2>1
  <2> HIDE DEF e
  <2>5. Delivered(c, o, fs, same, d) BY <1>2, <2>3, <2>4 DEF Delivered
  <2> QED BY <2>3, <2>4, <2>5
<1>3. CASE c.up /\ ~ c.holding
  <2>0. PICK p \in UNION {Sent(q, fs, same) : q \in os} :
          d = <<[c EXCEPT !.sentAny = @ \/ fs # <<>>], p>>
    BY <1>3 DEF Deliver
  <2>1. PICK o \in os : p \in Sent(o, fs, same) OBVIOUS
  <2> DEFINE e == [c EXCEPT !.sentAny = c.sentAny \/ fs # <<>>]
  <2>2. (c.sentAny \/ fs # <<>>) \in BOOLEAN BY <1>0
  <2>3. /\ e \in Conns /\ e.held = c.held /\ e.up = c.up /\ e.asked = c.asked
        /\ e.answers = c.answers /\ e.holding = c.holding
        /\ e.sentAny = (c.sentAny \/ fs # <<>>)
    BY <2>2 DEF Conns
  <2>4. d[1] = e /\ d[2] = p BY <2>0
  <2>5. p \in Outs BY SentIs
  <2> HIDE DEF e
  <2>6. Delivered(c, o, fs, same, d) BY <1>3, <2>1, <2>3, <2>4 DEF Delivered
  <2> QED BY <2>3, <2>4, <2>5, <2>6
<1> QED BY <1>1, <1>2, <1>3

\* emit, of the ring: it holds the new frame, and what it lets go is evicted.
LEMMA RingIs ==
  ASSUME NEW g \in Seq(Evt), NEW f \in Evt, NEW h,
         h = (IF Len(g) = RingSize THEN Tail(g) ELSE g) \o <<f>>
  PROVE  /\ h \in Seq(Evt) /\ Range(h) \subseteq Range(g) \cup {f} /\ f \in Range(h)
         /\ Thin(h, g \o <<f>>)
         /\ Len(g) # RingSize => Range(h) = Range(g) \cup {f}
         /\ Len(g) = RingSize => /\ g # <<>> /\ Head(g) \in Range(g)
                                 /\ Range(g) \subseteq Range(h) \cup {Head(g)}
                                 /\ Sorted(g \o <<f>>) => Before({Head(g)}, Range(h))
<1> DEFINE e == <<f>>
<1>0. e \in Seq(Evt) /\ Range(e) = {f} /\ Evts(e) = {f} /\ Thin(e, e)
  <2>1. e \in Seq(Evt) /\ Range(e) = {f} BY RangeOne
  <2> QED BY <2>1, EvtSeqs, ThinSelf
<1>h. h = (IF Len(g) = RingSize THEN Tail(g) ELSE g) \o e OBVIOUS
<1> HIDE DEF e
<1>g. SUFFICES
         /\ h \in Seq(Evt) /\ Range(h) \subseteq Range(g) \cup {f} /\ f \in Range(h)
         /\ Thin(h, g \o e)
         /\ Len(g) # RingSize => Range(h) = Range(g) \cup {f}
         /\ Len(g) = RingSize => /\ g # <<>> /\ Head(g) \in Range(g)
                                 /\ Range(g) \subseteq Range(h) \cup {Head(g)}
                                 /\ Sorted(g \o e) => Before({Head(g)}, Range(h))
  BY DEF e
<1>1. CASE Len(g) # RingSize
  <2>1. h = g \o e BY <1>1, <1>h
  <2>2. Range(g \o e) = Range(g) \cup {f} /\ g \o e \in Seq(Evt) BY <1>0, RangeConcat
  <2>3. Thin(g \o e, g \o e) BY <2>2, ThinSelf
  <2> QED BY <1>0, <1>1, <2>1, <2>2, <2>3
<1>2. CASE Len(g) = RingSize
  <2>1. g # <<>> BY <1>2, FramesAssumption
  <2> DEFINE t == Tail(g)
  <2>2. /\ Head(g) \in Evt /\ t \in Seq(Evt) /\ Range(g) = {Head(g)} \cup Range(t)
        /\ g = <<Head(g)>> \o t /\ Thin(t, g)
    BY <2>1, RangeHeadTail, ThinTail
  <2>3. h = t \o e BY <1>2, <1>h
  <2> HIDE DEF t
  <2>4. Range(h) = Range(t) \cup {f} /\ h \in Seq(Evt)
    <3>1. Range(t \o e) = Range(t) \cup Range(e) BY <1>0, <2>2, RangeConcat
    <3>2. t \o e \in Seq(Evt) BY <1>0, <2>2
    <3> QED BY <1>0, <2>3, <3>1, <3>2
  <2>5. Thin(t \o e, g \o e) BY <1>0, <2>2, ThinConcat
  <2>6. ASSUME Sorted(g \o e) PROVE Before({Head(g)}, Range(h))
    <3>1. Sorted(g) /\ Before(Evts(g), {f}) BY <1>0, <2>6, SortedConcat
    <3>2. Evts(g) = Range(g) BY EvtSeqs
    <3> DEFINE k == <<Head(g)>>
    <3>3. k \in Seq(Evt) /\ Range(k) = {Head(g)} /\ g = k \o t BY <2>2, RangeOne
    <3> HIDE DEF k
    <3>4. Before(Evts(k), Evts(t)) BY <2>2, <3>1, <3>3, SortedConcat
    <3>5. Evts(k) = {Head(g)} /\ Evts(t) = Range(t) BY <2>2, <3>3, EvtSeqs
    <3> QED BY <2>2, <2>4, <3>1, <3>2, <3>4, <3>5 DEF Before
  <2> QED BY <1>2, <2>1, <2>2, <2>3, <2>4, <2>5, <2>6
<1> QED BY <1>1, <1>2

\* The elements of a sequence with one more.
LEMMA AppendRange ==
  ASSUME NEW T, NEW s \in Seq(T), NEW e \in T
  PROVE  Append(s, e) \in Seq(T) /\ Range(Append(s, e)) = Range(s) \cup {e}
<1>1. Append(s, e) \in Seq(T) /\ <<e>> \in Seq(T) /\ Append(s, e) = s \o <<e>> OBVIOUS
<1>2. Range(s \o <<e>>) = Range(s) \cup Range(<<e>>) BY <1>1, RangeConcat, Zenon
<1> QED BY <1>1, <1>2, RangeOne

\* resync, of the follower: its board stays, and it holds some of the frames.
LEMMA ResyncsIs ==
  ASSUME NEW v \in Views, NEW fs \in Seq(Evt), NEW w, w = Resyncs(v, fs)
  PROVE  /\ w \in Views /\ w.phase = "syncing" /\ w.again = FALSE
         /\ w.seq = v.seq /\ w.epoch = v.epoch /\ w.board = v.board /\ w.link = v.link
         /\ SansResyncs(w.buffer, fs)
         /\ Thin(w.buffer, fs)
<1> DEFINE S == {f \in Range(fs) : f.row # Resync}
           b == KeepIn(fs, S)
<1>1. w = [v EXCEPT !.phase = "syncing", !.again = FALSE, !.buffer = b] BY DEF Resyncs
<1>2. b \in Seq(Evt) /\ Range(b) = Range(fs) \cap S /\ Thin(b, fs) BY KeepInIs
<1>3. Range(fs) \cap S = S OBVIOUS
<1> HIDE DEF S, b
<1>4. /\ w \in Views /\ w.phase = "syncing" /\ w.again = FALSE /\ w.buffer = b
      /\ w.seq = v.seq /\ w.epoch = v.epoch /\ w.board = v.board /\ w.link = v.link
  BY <1>1, <1>2 DEF Views
<1> QED BY <1>2, <1>3, <1>4 DEF S, SansResyncs

\* What a frame makes of the follower: it applies it, or its board stays.
LEMMA HearsIs ==
  ASSUME NEW v \in Views, NEW f \in Evt, NEW w, w = Hears(v, f)
  PROVE  /\ w \in Views /\ w.link = v.link
         /\ v.phase = "idle" => w = v
         /\ v.phase = "syncing" =>
              /\ w.phase = "syncing" /\ w.buffer = Append(v.buffer, f)
              /\ w.again = v.again
         /\ v.phase = "stale" => w.phase = "syncing"
         /\ w.phase \in {v.phase, "syncing"}
         /\ Applied(v, f, w)
         /\ v.phase = "live" /\ f.row # Resync /\ f.epoch = v.epoch => w.phase = "live"
<1>0. f.seq \in Nat /\ f.epoch \in Nat /\ f.val \in Nat /\ f.row \in Rows \cup {Resync} BY DEF Evt
<1>e. v.phase \in {"idle", "syncing", "stale", "live"} BY DEF Views
<1>1. CASE v.phase = "idle" BY <1>1 DEF Hears, Applied
<1>2. CASE v.phase = "syncing"
  <2>1. w = [v EXCEPT !.buffer = Append(v.buffer, f)] BY <1>2 DEF Hears
  <2>2. Append(v.buffer, f) \in Seq(Evt) /\ Range(Append(v.buffer, f)) = Range(v.buffer) \cup {f}
    <3> DEFINE b == v.buffer
    <3>1. b \in Seq(Evt) BY DEF Views
    <3> HIDE DEF b
    <3>2. Append(b, f) \in Seq(Evt) /\ Range(Append(b, f)) = Range(b) \cup {f} BY <3>1, AppendRange
    <3> QED BY <3>2 DEF b
  <2>3. /\ w \in Views /\ w.phase = v.phase /\ w.again = v.again
        /\ w.buffer = Append(v.buffer, f)
        /\ w.seq = v.seq /\ w.epoch = v.epoch /\ w.board = v.board /\ w.link = v.link
    BY <2>1, <2>2 DEF Views
  <2> QED BY <1>2, <2>2, <2>3 DEF Applied
<1>3. CASE v.phase \in {"stale", "live"} /\ w = Resyncs(v, <<f>>)
           /\ ~ (v.phase = "live" /\ f.row # Resync /\ f.epoch = v.epoch)
  <2> DEFINE e == <<f>>
  <2>1. e \in Seq(Evt) /\ Range(e) = {f} BY RangeOne
  <2>2. w = Resyncs(v, e) BY <1>3
  <2> HIDE DEF e
  <2>3. /\ w \in Views /\ w.phase = "syncing" /\ w.again = FALSE
        /\ w.seq = v.seq /\ w.epoch = v.epoch /\ w.board = v.board /\ w.link = v.link
        /\ SansResyncs(w.buffer, e)
    BY <2>1, <2>2, ResyncsIs
  <2> QED BY <1>3, <2>1, <2>3 DEF Applied, SansResyncs
<1>4. CASE v.phase = "live" /\ f.row # Resync /\ f.epoch = v.epoch /\ f.seq <= v.seq
  BY <1>4 DEF Hears, Applied
<1>5. CASE v.phase = "live" /\ f.row # Resync /\ f.epoch = v.epoch /\ ~ (f.seq <= v.seq)
  <2> DEFINE b == [v.board EXCEPT ![f.row] = f.val]
  <2>1. w = [v EXCEPT !.seq = f.seq, !.board = b] BY <1>5 DEF Hears
  <2>2. b \in Boards BY <1>0, <1>5 DEF Views, Boards
  <2> HIDE DEF b
  <2>3. /\ w \in Views /\ w.phase = v.phase /\ w.buffer = v.buffer
        /\ w.seq = f.seq /\ w.epoch = v.epoch /\ w.board = b /\ w.link = v.link
    BY <1>0, <2>1, <2>2 DEF Views
  <2>4. f.seq > v.seq BY <1>0, <1>5 DEF Views
  <2> QED BY <1>5, <2>3, <2>4 DEF b, Applied
<1>6. v.phase = "stale" \/ (v.phase = "live" /\ (f.row = Resync \/ f.epoch # v.epoch))
      => w = Resyncs(v, <<f>>)
  BY DEF Hears
<1> QED BY <1>e, <1>1, <1>2, <1>3, <1>4, <1>5, <1>6

\* connectionChanged: the board of the follower stays.
LEMMA LinkedIs ==
  ASSUME NEW v \in Views, NEW state \in {"connected", "reconnecting"}, NEW w,
         w = Linked(v, state)
  PROVE  /\ w \in Views /\ w.seq = v.seq /\ w.epoch = v.epoch /\ w.board = v.board
         /\ Range(w.buffer) \subseteq Range(v.buffer)
         /\ w.phase \in {v.phase, "syncing"} /\ (v.phase = "idle" => w = v)
         /\ w.phase # v.phase => state = "connected"
         /\ w.phase # "syncing" /\ w.phase # "idle" /\ state = "connected" => v.link = "connected"
         /\ v.phase # "idle" => w.link = state
         /\ w.phase = v.phase => w.buffer = v.buffer
         /\ w.phase # v.phase => Range(w.buffer) = {}
         /\ v.phase = "syncing" /\ (v.again \/ (state = "connected" /\ v.link # "connected"))
              => w.again
<1> DEFINE u == [v EXCEPT !.link = state]
<1>1. /\ u \in Views /\ u.seq = v.seq /\ u.epoch = v.epoch /\ u.board = v.board
      /\ u.buffer = v.buffer /\ u.phase = v.phase /\ u.again = v.again
      /\ u.link = state
  BY DEF Views
<1>2. CASE v.phase = "idle" BY <1>2 DEF Linked
<1>3. CASE v.phase # "idle" /\ (state # "connected" \/ v.link = "connected")
  <2>1. w = u BY <1>3 DEF Linked
  <2> HIDE DEF u
  <2> QED BY <1>1, <1>3, <2>1
<1>4. CASE v.phase = "syncing" /\ ~ (state # "connected" \/ v.link = "connected")
  <2>1. w = [u EXCEPT !.again = TRUE] BY <1>4 DEF Linked
  <2> HIDE DEF u
  <2>2. /\ w \in Views /\ w.seq = u.seq /\ w.epoch = u.epoch /\ w.board = u.board
        /\ w.buffer = u.buffer /\ w.phase = u.phase /\ w.again = TRUE /\ w.link = u.link
    BY <1>1, <2>1 DEF Views
  <2> QED BY <1>1, <1>4, <2>2
<1>5. CASE v.phase \notin {"idle", "syncing"} /\ ~ (state # "connected" \/ v.link = "connected")
  <2>1. w = Resyncs(u, <<>>) BY <1>5 DEF Linked
  <2> HIDE DEF u
  <2>2. PICK e \in Seq(Evt) : e = <<>> BY EmptySeq
  <2>3. w = Resyncs(u, e) BY <2>1, <2>2
  <2>4. Range(e) = {} BY <2>2 DEF Range
  <2>5. /\ w \in Views /\ w.phase = "syncing" /\ w.seq = u.seq /\ w.epoch = u.epoch
        /\ w.board = u.board /\ w.link = u.link /\ SansResyncs(w.buffer, e)
    <3>1. u \in Views /\ e \in Seq(Evt) BY <1>1, <2>2
    <3> QED BY <2>3, <3>1, ResyncsIs
  <2> QED BY <1>1, <1>5, <2>4, <2>5 DEF SansResyncs
<1> QED BY <1>2, <1>3, <1>4, <1>5

\* load, once its read failed: the board stays.
LEMMA UnreadIs ==
  ASSUME NEW v \in Views, NEW w, w = Unread(v)
  PROVE  /\ w \in Views /\ w.seq = v.seq /\ w.epoch = v.epoch /\ w.board = v.board
         /\ w.link = v.link /\ Range(w.buffer) = {} /\ w.phase \in {"syncing", "stale"}
<1>2. PICK e \in Seq(Evt) : e = <<>> BY EmptySeq
<1>4. Range(e) = {} BY <1>2 DEF Range
<1>5. CASE v.again
  <2>1. w = Resyncs(v, e) BY <1>2, <1>5 DEF Unread
  <2>2. /\ w \in Views /\ w.phase = "syncing" /\ w.seq = v.seq /\ w.epoch = v.epoch
        /\ w.board = v.board /\ w.link = v.link /\ SansResyncs(w.buffer, e)
    BY <2>1, ResyncsIs
  <2> QED BY <1>4, <2>2 DEF SansResyncs
<1>6. CASE ~ v.again
  <2>1. w = [v EXCEPT !.phase = "stale", !.buffer = e] BY <1>2, <1>6 DEF Unread
  <2>2. /\ w \in Views /\ w.phase = "stale" /\ w.seq = v.seq /\ w.epoch = v.epoch
        /\ w.board = v.board /\ w.buffer = e /\ w.link = v.link
    BY <2>1 DEF Views
  <2> QED BY <1>4, <2>2
<1> QED BY <1>5, <1>6

\* load, with its page: the follower takes it, then hears what it held of that epoch.
LEMMA ReadIs ==
  ASSUME NEW v \in Views, NEW p \in Page
  PROVE  \E q \in Seq(Evt) : \E d \in [0..Len(q) -> Views] : Runs(v, p, q, d)
<1> DEFINE S == {f \in Range(v.buffer) : f.epoch = p.epoch}
           q == KeepIn(v.buffer, S)
           n == Len(q)
           z == [v EXCEPT !.phase = "live", !.seq = p.seq, !.epoch = p.epoch,
                          !.board = p.rows, !.buffer = <<>>]
           Is(f) == f = [i \in 0..n |-> IF i = 0 THEN z ELSE Hears(f[i - 1], q[i])]
           k == CHOOSE f : Is(f)
<1>1. q \in Seq(Evt) /\ Range(q) = Range(v.buffer) \cap S /\ Thin(q, v.buffer) BY KeepInIs DEF Views
<1>2. Range(v.buffer) \cap S = S OBVIOUS
<1>3. /\ z \in Views /\ z.phase = "live" /\ z.seq = p.seq /\ z.epoch = p.epoch
      /\ z.board = p.rows /\ Range(z.buffer) = {} /\ z.link = v.link
  <2>1. PICK e \in Seq(Evt) : e = <<>> BY EmptySeq
  <2>2. z = [v EXCEPT !.phase = "live", !.seq = p.seq, !.epoch = p.epoch,
                      !.board = p.rows, !.buffer = e]
    BY <2>1
  <2>3. Range(e) = {} BY <2>1 DEF Range
  <2> HIDE DEF z
  <2> QED BY <2>1, <2>2, <2>3 DEF Views, Page
<1>4. Read(v, p) = IF v.again THEN Resyncs(z, q) ELSE k[n] BY DEF Read
<1> HIDE DEF z, q, S
<1>5. n \in Nat /\ \A i \in 1..n : q[i] \in Evt BY <1>1
<1>6. \E f : Is(f)
  <2> DEFINE step == [x \in Views |-> [i \in 1..n |-> Hears(x, q[i])]]
  <2>1. \A x \in Views, i \in 1..n : step[x][i] = Hears(x, q[i]) OBVIOUS
  <2>2. \A x \in Views, i \in 1..n : Hears(x, q[i]) \in Views BY <1>5, HearsIs
  <2> HIDE DEF step
  <2>3. Steps(step, n, Views) BY <2>1, <2>2 DEF Steps
  <2>4. PICK f : IsRun(f, n, Views, z, step) BY <1>3, <1>5, <2>3, RunExists, Zenon
  <2>5. f \in [0..n -> Views] BY <2>4 DEF IsRun
  <2>6. ASSUME NEW i \in 0..n PROVE f[i] = IF i = 0 THEN z ELSE Hears(f[i - 1], q[i])
    <3>1. CASE i = 0 BY <2>4, <3>1 DEF IsRun
    <3>2. CASE i # 0
      <4>1. i \in 1..n /\ i - 1 \in 0..n BY <1>5, <3>2
      <4>2. f[i - 1] \in Views /\ f[i] = step[f[i - 1]][i] BY <2>4, <4>1 DEF IsRun
      <4> QED BY <2>1, <3>2, <4>1, <4>2
    <3> QED BY <3>1, <3>2
  <2> QED BY <2>5, <2>6
<1>7. Is(k) BY <1>6
<1>8. \A i \in 0..n : k[i] = IF i = 0 THEN z ELSE Hears(k[i - 1], q[i]) BY <1>7
<1>9. DOMAIN k = 0..n /\ k = [i \in 0..n |-> k[i]] BY <1>7
<1> HIDE DEF k
<1> DEFINE Fit == {i \in Nat : i <= n => k[i] \in Views}
<1>10. 0 \in Fit BY <1>3, <1>5, <1>8
<1>11. ASSUME NEW i \in Nat, i \in Fit PROVE i + 1 \in Fit
  <2> SUFFICES ASSUME i + 1 <= n PROVE k[i + 1] \in Views OBVIOUS
  <2>1. k[i] \in Views /\ i + 1 \in 1..n BY <1>5, <1>11
  <2>2. k[i + 1] = Hears(k[i], q[i + 1]) BY <1>8, <2>1
  <2>3. q[i + 1] \in Evt BY <1>5, <2>1
  <2>4. Hears(k[i], q[i + 1]) \in Views BY <2>1, <2>3, HearsIs
  <2> QED BY <2>2, <2>4
<1> HIDE DEF Fit
<1>12. \A i \in Nat : i \in Fit BY <1>10, <1>11, SetInduction
<1>13. \A i \in 0..n : k[i] \in Views BY <1>5, <1>12 DEF Fit
<1>14. k \in [0..n -> Views] BY <1>9, <1>13
<1>15. \A i \in 1..n : k[i] = Hears(k[i - 1], q[i]) BY <1>5, <1>8
<1>16. k[0] = z BY <1>5, <1>8
<1>17. Range(q) = {f \in Range(v.buffer) : f.epoch = p.epoch} BY <1>1, <1>2 DEF S
<1>18. Runs(v, p, q, k) BY <1>1, <1>3, <1>4, <1>14, <1>15, <1>16, <1>17 DEF Runs
<1> QED BY <1>1, <1>14, <1>18

-----------------------------------------------------------------------------
(* What each step does, in the terms of the invariants: the fields of the  *)
(* connection, the line, and the fields of the reader                      *)

\* The outcome of deliver, as a step takes it.
LEMMA HandsIs ==
  ASSUME NEW c \in Conns, NEW os, os \subseteq Outs, NEW fs \in Seq(Evt), NEW same \in BOOLEAN,
         NEW d \in Deliver(c, os, fs, same), conn' = d[1], out' = d[2]
  PROVE  conn' \in Conns /\ out' \in Outs /\ \E o \in os : Hands(c, o, fs)
<1>1. conn' \in Conns /\ out' \in Outs /\ \E o \in os : Delivered(c, o, fs, same, d) BY DeliverIs
<1>2. \A o : Delivered(c, o, fs, same, d) => Hands(c, o, fs) BY DEF Delivered, Hands
<1> QED BY <1>1, <1>2

\* emit: the frame, the ring and what is handed to the connection.
LEMMA EmitIs ==
  ASSUME TypeOK, NEW r \in Rows \cup {Resync}, NEW v \in Nat, Emit(r, v)
  PROVE  \E f : Emitted(f, r, v)
<1> DEFINE f == Frame(r, seq + 1, v)
<1>0. /\ epoch \in Nat /\ seq \in Nat /\ ring \in Seq(Evt) /\ evicted \in Nat
      /\ conn \in Conns /\ out \in Outs
  BY DEF TypeOK, HostOK
<1>1. f \in Evt /\ f.row = r /\ f.val = v /\ f.seq = seq + 1 /\ f.epoch = epoch
  BY <1>0 DEF Frame, Evt
<1>2. /\ seq' = seq + 1
      /\ ring' = (IF Len(ring) = RingSize THEN Tail(ring) ELSE ring) \o <<f>>
      /\ evicted' = IF Len(ring) = RingSize THEN Head(ring).seq ELSE evicted
      /\ \E same \in BOOLEAN : Delivers(<<f>>, same)
  BY DEF Emit
<1> HIDE DEF f
<1> DEFINE e == <<f>>
<1>3. e \in Seq(Evt) BY <1>1
<1>4. PICK same \in BOOLEAN : Delivers(e, same) BY <1>2
<1> HIDE DEF e
<1>5. PICK d \in Deliver(conn, {out}, e, same) : conn' = d[1] /\ out' = d[2] BY <1>4 DEF Delivers
<1>6. conn' \in Conns /\ out' \in Outs /\ \E o \in {out} : Hands(conn, o, e)
  <2>1. {out} \subseteq Outs BY <1>0
  <2> QED BY <1>0, <1>3, <1>5, <2>1, HandsIs
<1>7. Hands(conn, out, <<f>>) BY <1>6 DEF e
<1>8. ring' \in Seq(Evt) BY <1>0, <1>1, <1>2, RingIs
<1>9. evicted' \in Nat
  <2>1. CASE Len(ring) = RingSize
    <3>1. ring # <<>> BY <2>1, FramesAssumption
    <3>2. Head(ring) \in Evt BY <1>0, <3>1
    <3> QED BY <1>2, <2>1, <3>2 DEF Evt
  <2>2. CASE Len(ring) # RingSize BY <1>0, <1>2, <2>2
  <2> QED BY <2>1, <2>2
<1>10. Emitted(f, r, v) BY <1>0, <1>1, <1>2, <1>6, <1>7, <1>8, <1>9 DEF Emitted
<1> QED BY <1>10

\* The count of what went wrong stays a number.
LEMMA FaultIs == ASSUME faults \in Nat PROVE (Stalls \/ Fault => faults' \in Nat)
  BY DEF Stalls, Fault

\* A publish emits a frame of its row.
LEMMA PublishIs ==
  ASSUME TypeOK, NEW r \in Rows, Publish(r), ViewSame
  PROVE  TypeOK' /\ win' = win /\ \E f : Emits(f)
<1>0. /\ rows \in Boards /\ epoch \in Nat /\ changes \in Nat /\ faults \in Nat /\ win \in Wins
      /\ rows[r] \in Nat /\ \A x \in Rows : rows[x] \in Nat
  BY DEF TypeOK, HostOK, Boards
<1>1. /\ rows' = [rows EXCEPT ![r] = @ + 1] /\ Emit(r, rows[r] + 1) /\ epoch' = epoch /\ win' = win
      /\ changes' = changes + 1 /\ Stalls
  BY DEF Publish
<1>2. PICK f : Emitted(f, r, rows[r] + 1)
  <2>1. rows[r] + 1 \in Nat /\ r \in Rows \cup {Resync} BY <1>0
  <2> QED BY <1>1, <2>1, EmitIs
<1>3. rows' \in Boards /\ rows'[r] = rows[r] + 1 /\ \A x \in Rows \ {r} : rows'[x] = rows[x]
  BY <1>0, <1>1 DEF Boards
<1>4. faults' \in Nat /\ changes' \in Nat BY <1>0, <1>1, FaultIs
<1>5. TypeOK' BY <1>0, <1>1, <1>2, <1>3, <1>4 DEF TypeOK, HostOK, ViewSame, Emitted
<1>6. ReaderSame BY <1>1 DEF ReaderSame
<1>7. rows[r] < f.val /\ \A x \in Rows : rows[x] <= rows'[x]
  <2>1. f.val = rows[r] + 1 BY <1>2 DEF Emitted
  <2>2. \A x \in Rows : x = r \/ rows'[x] = rows[x] BY <1>3
  <2> QED BY <1>0, <1>3, <2>1, <2>2
<1>8. Emits(f) BY <1>1, <1>2, <1>3, <1>6, <1>7 DEF Emits, Emitted
<1> QED BY <1>1, <1>5, <1>8

\* A reset of the metrics emits a resync.
LEMMA ResetIs ==
  ASSUME TypeOK, ResetMetrics, ViewSame
  PROVE  TypeOK' /\ win' = win /\ \E f : Emits(f)
<1>0. /\ rows \in Boards /\ epoch \in Nat /\ changes \in Nat /\ faults \in Nat /\ win \in Wins
      /\ \A x \in Rows : rows[x] \in Nat
  BY DEF TypeOK, HostOK, Boards
<1>1. /\ rows' = [r \in Rows |-> rows[r] + 1] /\ Emit(Resync, 0) /\ epoch' = epoch /\ win' = win
      /\ changes' = changes + 1 /\ Stalls
  BY DEF ResetMetrics
<1>2. PICK f : Emitted(f, Resync, 0)
  <2>1. 0 \in Nat /\ Resync \in Rows \cup {Resync} OBVIOUS
  <2> QED BY <1>1, <2>1, EmitIs
<1>3. rows' \in Boards /\ \A x \in Rows : rows[x] <= rows'[x] BY <1>0, <1>1 DEF Boards
<1>4. faults' \in Nat /\ changes' \in Nat BY <1>0, <1>1, FaultIs
<1>5. TypeOK' BY <1>0, <1>1, <1>2, <1>3, <1>4 DEF TypeOK, HostOK, ViewSame, Emitted
<1>6. ReaderSame BY <1>1 DEF ReaderSame
<1>8. Emits(f) BY <1>1, <1>2, <1>3, <1>6 DEF Emits, Emitted
<1> QED BY <1>1, <1>5, <1>8

\* A resync of another window takes a seq.
LEMMA OtherResyncIs ==
  ASSUME TypeOK, OtherResync, ViewSame
  PROVE  /\ TypeOK' /\ seq' = seq + 1 /\ rows' = rows /\ epoch' = epoch /\ ring' = ring
         /\ evicted' = evicted /\ conn' = conn /\ out' = out /\ win' = win
<1>1. /\ seq' = seq + 1 /\ rows' = rows /\ epoch' = epoch /\ ring' = ring /\ Fault
      /\ evicted' = evicted /\ conn' = conn /\ out' = out /\ win' = win /\ changes' = changes
  BY DEF OtherResync
<1>2. faults' \in Nat /\ seq' \in Nat BY <1>1, FaultIs DEF TypeOK, HostOK
<1> QED BY <1>1, <1>2 DEF TypeOK, HostOK, ViewSame

\* An answer holds the Host's seq and its board.
LEMMA AnswerIs ==
  ASSUME TypeOK, NEW to \in {"reader", "window"}, NEW first, first = <<>> \/ first \in Seq(Evt),
         NEW says \in {"live", "replaying", "resync", "page", "refused", "expired"},
         NEW a, a = Answer(to, says, first)
  PROVE  AnswerOf(a, to, says, first)
<1>1. PICK e \in Seq(Evt) : e = <<>> BY EmptySeq
<1>2. first \in Seq(Evt) BY <1>1
<1> QED BY <1>2 DEF TypeOK, HostOK, Answer, Res, AnswerOf

\* A call that is answered leaves what is asked, and its answer waits.
LEMMA HandledIs ==
  ASSUME TypeOK, ViewSame, NEW q, Handling(q), NEW to, NEW says, NEW first,
         NEW a, AnswerOf(a, to, says, first), NEW d, d = Answers(a), NEW h \in BOOLEAN,
         (conn' = d /\ h = conn.holding) \/ (conn' = [d EXCEPT !.holding = TRUE] /\ h),
         rows' = rows, epoch' = epoch, seq' \in {seq, seq + 1}, ring' = ring, evicted' = evicted,
         out' = out, win' = win, changes' = changes, faults' \in Nat
  PROVE  TypeOK' /\ Handled(q, a, h)
<1>1. conn \in Conns /\ conn.asked # <<>> /\ a \in Res BY DEF TypeOK, Handling, AnswerOf
<1>2. Tail(conn.asked) \in Seq(Asks) /\ Append(conn.answers, a) \in Seq(Res) BY <1>1 DEF Conns
<1>3. d = [conn EXCEPT !.asked = Tail(conn.asked), !.answers = Append(conn.answers, a)]
  BY DEF Answers
<1>4. /\ d \in Conns /\ d.up = conn.up /\ d.asked = Tail(conn.asked)
      /\ d.answers = Append(conn.answers, a) /\ d.sentAny = conn.sentAny
      /\ d.holding = conn.holding /\ d.held = conn.held
  BY <1>1, <1>2, <1>3 DEF Conns
<1>5. /\ conn' \in Conns /\ conn'.up = d.up /\ conn'.asked = d.asked /\ conn'.answers = d.answers
      /\ conn'.sentAny = d.sentAny /\ conn'.holding = h /\ conn'.held = d.held
  BY <1>4 DEF Conns
<1>6. TypeOK' BY <1>5 DEF TypeOK, HostOK, ViewSame
<1> QED BY <1>4, <1>5, <1>6 DEF Handled, Handling, AnswerOf

\* One frame is a sequence of frames.
LEMMA EvtOne == ASSUME NEW f \in Evt PROVE <<f>> \in Seq(Evt)
  OBVIOUS

\* What the ring holds after a seq, in its order.
LEMMA AfterIs ==
  ASSUME TypeOK, NEW n
  PROVE  /\ After(n) \in Seq(Evt) /\ Thin(After(n), ring)
         /\ Range(After(n)) = {f \in Range(ring) : f.seq > n}
<1> DEFINE S == {f \in Range(ring) : f.seq > n}
<1>1. After(n) = KeepIn(ring, S) /\ ring \in Seq(Evt) BY DEF After, TypeOK, HostOK
<1>2. Range(ring) \cap S = S OBVIOUS
<1> HIDE DEF S
<1>3. KeepIn(ring, S) \in Seq(Evt) /\ Thin(KeepIn(ring, S), ring)
      /\ Range(KeepIn(ring, S)) = Range(ring) \cap S
  BY <1>1, KeepInIs
<1>4. Range(After(n)) = S BY <1>1, <1>2, <1>3
<1> QED BY <1>1, <1>3, <1>4 DEF S

\* A subscribe without a resume is handled.
LEMMA SubscribeLiveIs ==
  ASSUME TypeOK, SubscribeLive, ViewSame
  PROVE  TypeOK' /\ \E q, a : Handles(q, a)
<1> DEFINE a == Answer("reader", "live", <<>>)
           h == conn.holding
<1>1. AnswerOf(a, "reader", "live", <<>>) BY AnswerIs
<1>2. h \in BOOLEAN /\ faults' \in Nat BY DEF SubscribeLive, bounds, TypeOK, HostOK, Conns
<1>3. conn' = Answers(a) BY DEF SubscribeLive
<1> HIDE DEF a
<1>4. TypeOK' /\ Handled("subscribe", a, h)
  BY <1>1, <1>2, <1>3, HandledIs DEF SubscribeLive, hostVars, bounds
<1> QED BY <1>1, <1>4 DEF Handles, Handled, AnswerOf, SubscribeLive, hostVars

\* A subscribe the ring covers is handled.
LEMMA SubscribeReplayingIs ==
  ASSUME TypeOK, SubscribeReplaying, ViewSame
  PROVE  TypeOK' /\ \E q, a : Handles(q, a)
<1> DEFINE fs == After(win.lastSeq)
           a == Answer("reader", "replaying", fs)
<1>1. fs \in Seq(Evt) BY AfterIs
<1> HIDE DEF fs
<1>2. AnswerOf(a, "reader", "replaying", fs) BY <1>1, AnswerIs
<1>3. conn' = [Answers(a) EXCEPT !.holding = TRUE] BY DEF SubscribeReplaying, fs
<1> HIDE DEF a
<1>4. faults' \in Nat BY DEF SubscribeReplaying, bounds, TypeOK, HostOK
<1>5. TypeOK' /\ Handled("subscribe", a, TRUE)
  BY <1>2, <1>3, <1>4, HandledIs DEF SubscribeReplaying, hostVars, bounds
<1> QED BY <1>2, <1>5 DEF Handles, Handled, AnswerOf, SubscribeReplaying, Replayable, hostVars, fs

\* A subscribe the ring does not cover is handled.
LEMMA SubscribeRefusedIs ==
  ASSUME TypeOK, SubscribeRefused, ViewSame
  PROVE  TypeOK' /\ \E q, a : Handles(q, a)
<1> DEFINE f == Frame(Resync, seq + 1, 0)
           fs == <<f>>
           a == Answer("reader", "resync", fs)
<1>1. f \in Evt BY DEF TypeOK, HostOK, Frame, Evt
<1>2. fs \in Seq(Evt) BY <1>1, EvtOne
<1>3. conn' = [Answers(a) EXCEPT !.holding = TRUE] BY DEF SubscribeRefused
<1> HIDE DEF fs
<1>4. AnswerOf(a, "reader", "resync", fs) BY <1>2, AnswerIs
<1> HIDE DEF a
<1>5. faults' \in Nat BY DEF SubscribeRefused, bounds, TypeOK, HostOK
<1>6. TypeOK' /\ Handled("subscribe", a, TRUE)
  BY <1>3, <1>4, <1>5, HandledIs DEF SubscribeRefused, bounds
<1> QED BY <1>4, <1>6 DEF Handles, Handled, AnswerOf, SubscribeRefused, fs

\* session.snapshot, and a read that is refused.
LEMMA HostReadsIs ==
  ASSUME TypeOK, ViewSame, NEW who \in {"reader", "window"},
         NEW says \in {"page", "refused", "expired"},
         (HostReads(who) /\ says = "page") \/ HostRefuses(who, says)
  PROVE  TypeOK' /\ \E q, a : Handles(q, a)
<1> DEFINE a == Answer(who, says, <<>>)
           h == conn.holding
<1>1. AnswerOf(a, who, says, <<>>) BY AnswerIs
<1>2. /\ Handling(who) /\ conn' = Answers(a) /\ HostSame
      /\ out' = out /\ win' = win /\ changes' = changes /\ (faults' = faults \/ Fault)
  BY DEF HostReads, HostRefuses, HostSame, hostVars, bounds
<1>3. h \in BOOLEAN /\ faults' \in Nat BY <1>2, FaultIs DEF TypeOK, HostOK, Conns
<1> HIDE DEF a
<1>4. TypeOK' /\ Handled(who, a, h) BY <1>1, <1>2, <1>3, HandledIs DEF HostSame
<1> QED BY <1>1, <1>2, <1>4 DEF Handles, Handled, AnswerOf, HostSame

\* An answer is written, with or without frames to release after it.
LEMMA HostAnswersIs ==
  ASSUME TypeOK, HostAnswers, ViewSame
  PROVE  TypeOK' /\ \E a, b : Writes(a, b) \/ Releases(a, b)
<1> DEFINE a == Head(conn.answers)
           b == [a EXCEPT !.first = <<>>]
           written == Written(out, b)
           after == [conn EXCEPT !.answers = Tail(@)]
           released == [after EXCEPT !.holding = FALSE, !.held = <<>>]
<1>0. conn \in Conns /\ out \in Outs BY DEF TypeOK
<1>1. conn.up /\ conn.answers # <<>> /\ HostSame /\ win' = win /\ changes' = changes
  BY DEF HostAnswers, HostSame, hostVars
<1>2. faults' \in Nat BY FaultIs DEF HostAnswers, TypeOK, HostOK
<1>3. IF a.says \in {"replaying", "resync"}
      THEN \E same \in BOOLEAN :
             \E d \in Deliver(released, written, a.first \o conn.held, same) :
               conn' = d[1] /\ out' = d[2]
      ELSE conn' = after /\ out' \in written
  BY DEF HostAnswers
<1>4. PICK e \in Seq(Evt) : e = <<>> BY EmptySeq
<1>5. a \in Res /\ Tail(conn.answers) \in Seq(Res) BY <1>0, <1>1 DEF Conns
<1>6. /\ b \in Res /\ b \in Item /\ b.to = a.to /\ b.says = a.says /\ b.seq = a.seq
      /\ b.rows = a.rows
  <2> HIDE DEF a
  <2>1. b = [a EXCEPT !.first = e] BY <1>4
  <2> QED BY <1>5, <2>1 DEF Res, Item
<1>7. /\ after \in Conns /\ after.up = conn.up /\ after.asked = conn.asked
      /\ after.answers = Tail(conn.answers) /\ after.sentAny = conn.sentAny
      /\ after.holding = conn.holding /\ after.held = conn.held
  BY <1>0, <1>5 DEF Conns
<1> HIDE DEF a, b, after
<1>8. /\ released \in Conns /\ released.up = conn.up /\ released.asked = conn.asked
      /\ released.answers = Tail(conn.answers) /\ released.sentAny = conn.sentAny
      /\ released.holding = FALSE /\ released.held = <<>>
  <2>1. released = [after EXCEPT !.holding = FALSE, !.held = e] BY <1>4
  <2>2. /\ released \in Conns /\ released.up = after.up /\ released.asked = after.asked
        /\ released.answers = after.answers /\ released.sentAny = after.sentAny
        /\ released.holding = FALSE /\ released.held = e
    BY <1>7, <2>1 DEF Conns
  <2> QED BY <1>4, <1>7, <2>2
<1>9. \A w \in written : w \in Outs /\ Same(Line(w), Line(out) \o <<b>>) /\ w.over = out.over
  BY <1>0, <1>6, WrittenIs DEF Same
<1> HIDE DEF written, released
<1>a. a = Head(conn.answers) BY DEF a
<1>10. CASE a.says \in {"replaying", "resync"}
  <2> DEFINE fs == a.first \o conn.held
  <2>1. PICK same \in BOOLEAN : \E d \in Deliver(released, written, fs, same) :
                                  conn' = d[1] /\ out' = d[2]
    BY <1>3, <1>10
  <2>2. fs \in Seq(Evt)
    <3>1. a.first \in Seq(Evt) /\ conn.held \in Seq(Evt) BY <1>0, <1>5 DEF Res, Conns
    <3> QED BY <3>1
  <2>f. fs = a.first \o conn.held OBVIOUS
  <2> HIDE DEF fs
  <2>3. PICK d \in Deliver(released, written, fs, same) : conn' = d[1] /\ out' = d[2] BY <2>1
  <2>4. conn' \in Conns /\ out' \in Outs /\ \E o \in written : Hands(released, o, fs)
    <3>1. written \subseteq Outs BY <1>9
    <3> QED BY <1>8, <2>2, <2>3, <3>1, HandsIs
  <2>5. PICK o \in written : Hands(released, o, fs) BY <2>4
  <2>6. /\ conn'.up = conn.up /\ conn'.asked = conn.asked /\ conn'.answers = Tail(conn.answers)
        /\ conn'.holding = FALSE /\ conn'.held = <<>>
        /\ conn'.sentAny = (conn.sentAny \/ fs # <<>>)
        /\ \E tick \in BOOLEAN : out' \in Sent(o, fs, tick)
    BY <1>1, <1>8, <2>5 DEF Hands
  <2>7. Releases(a, b) BY <1>1, <1>5, <1>6, <1>9, <1>10, <1>a, <2>5, <2>6, <2>f DEF Releases
  <2>8. TypeOK' BY <1>1, <1>2, <2>4 DEF TypeOK, HostOK, ViewSame, HostSame
  <2> QED BY <2>7, <2>8
<1>11. CASE a.says \notin {"replaying", "resync"}
  <2>1. conn' = after /\ out' \in written BY <1>3, <1>11
  <2>2. Writes(a, b) BY <1>1, <1>5, <1>6, <1>7, <1>9, <1>11, <1>a, <2>1 DEF Writes
  <2>3. TypeOK' BY <1>1, <1>2, <1>7, <1>9, <2>1 DEF TypeOK, HostOK, ViewSame, HostSame
  <2> QED BY <2>2, <2>3
<1> QED BY <1>10, <1>11

\* The socket drained: the line is as it was, or an overflow ends with its resync.
LEMMA SocketDrainsIs ==
  ASSUME TypeOK, SocketDrains, ViewSame
  PROVE  TypeOK' /\ win' = win /\ ((Quiet /\ conn' = conn) \/ \E f : Recovers(f))
<1>0. conn \in Conns /\ out \in Outs /\ seq \in Nat /\ faults \in Nat BY DEF TypeOK, HostOK
<1>1. /\ conn.up /\ rows' = rows /\ epoch' = epoch /\ ring' = ring /\ evicted' = evicted
      /\ win' = win /\ changes' = changes
      /\ faults' = IF out'.full THEN faults + 1 ELSE faults
  BY DEF SocketDrains
<1>2. faults' \in Nat BY <1>0, <1>1
<1>3. PICK o \in Pumped(out) :
        IF o.over /\ ~ o.full
        THEN /\ seq' = seq + 1
             /\ \E d \in Deliver(conn, {[o EXCEPT !.over = FALSE]},
                                 <<Frame(Resync, seq + 1, 0)>>, FALSE) :
                  conn' = d[1] /\ out' = d[2]
        ELSE out' = o /\ UNCHANGED <<seq, conn>>
  BY DEF SocketDrains
<1>4. o \in Outs /\ Same(Line(o), Line(out)) /\ o.over = out.over BY <1>0, PumpedIs DEF Same
<1>5. CASE o.over /\ ~ o.full
  <2> DEFINE p == [o EXCEPT !.over = FALSE]
             f == Frame(Resync, seq + 1, 0)
             fs == <<f>>
             tick == FALSE
  <2>0. tick \in BOOLEAN OBVIOUS
  <2>1. p \in Outs /\ p.sock = o.sock /\ p.queue = o.queue /\ ~ p.over BY <1>4 DEF Outs
  <2>2. f \in Evt /\ f.row = Resync /\ f.seq = seq + 1 /\ f.epoch = epoch /\ seq + 1 \in Nat
    BY DEF TypeOK, HostOK, Frame, Evt
  <2>3. seq' = seq + 1 /\ \E d \in Deliver(conn, {p}, fs, tick) : conn' = d[1] /\ out' = d[2]
    BY <1>3, <1>5
  <2>4. fs \in Seq(Evt) BY <2>2
  <2> HIDE DEF p, fs, f, tick
  <2>5. PICK d \in Deliver(conn, {p}, fs, tick) : conn' = d[1] /\ out' = d[2] BY <2>3
  <2>6. conn' \in Conns /\ out' \in Outs /\ \E q \in {p} : Hands(conn, q, fs)
    <3>1. {p} \subseteq Outs BY <2>1
    <3> QED BY <1>0, <2>0, <2>4, <2>5, <3>1, HandsIs
  <2>7. Same(Line(p), Line(out)) BY <1>4, <2>1 DEF Line, Same
  <2>8. Hands(conn, p, <<f>>) BY <2>6 DEF fs
  <2>9. Recovers(f) BY <1>1, <1>4, <1>5, <2>1, <2>2, <2>3, <2>7, <2>8 DEF Recovers
  <2>10. TypeOK' BY <1>1, <1>2, <2>2, <2>3, <2>6 DEF TypeOK, HostOK, ViewSame
  <2> QED BY <1>1, <2>9, <2>10
<1>6. CASE ~ (o.over /\ ~ o.full)
  <2>1. out' = o /\ seq' = seq /\ conn' = conn BY <1>3, <1>6
  <2>2. Quiet BY <1>1, <1>4, <2>1 DEF Quiet, HostSame, ReaderSame, ConnSame, LineSame, Same
  <2>3. TypeOK' BY <1>1, <1>2, <1>4, <2>1 DEF TypeOK, HostOK, ViewSame
  <2> QED BY <1>1, <2>1, <2>2, <2>3
<1> QED BY <1>5, <1>6

\* The head of the line leaves it.
LEMMA LineHead ==
  ASSUME NEW o \in Outs, o.sock # <<>>, NEW p, p = [o EXCEPT !.sock = Tail(@)]
  PROVE  /\ p \in Outs /\ p.over = o.over
         /\ Line(o) # <<>> /\ Head(Line(o)) = Head(o.sock) /\ Head(o.sock) \in Item
         /\ Same(Line(p), Tail(Line(o)))
<1>0. o.sock \in Seq(Item) /\ o.queue \in Seq(Item) BY DEF Outs
<1>1. Head(o.sock) \in Item /\ Tail(o.sock) \in Seq(Item) BY <1>0
<1>2. p \in Outs /\ p.over = o.over /\ p.sock = Tail(o.sock) /\ p.queue = o.queue BY <1>1 DEF Outs
<1> DEFINE s == o.sock
           q == o.queue
<1>3. s \in Seq(Item) /\ q \in Seq(Item) /\ s # <<>> BY <1>0
<1> HIDE DEF s, q
<1>4. s \o q # <<>> /\ Head(s \o q) = Head(s) BY <1>3
<1>5. Tail(s) \o q = Tail(s \o q) BY <1>3
<1> QED BY <1>1, <1>2, <1>4, <1>5 DEF Line, Same, s, q

\* The reader with a page, field by field.
LEMMA WithIs ==
  ASSUME TypeOK, NEW w \in Wins, NEW page \in Res, NEW x, x = With(w, page)
  PROVE  /\ x \in Wins /\ x.mode = w.mode /\ x.lastSeq = page.seq /\ x.board = page.rows
         /\ x.applied.epoch = epoch /\ x.applied.seq = page.seq
         /\ x.buffer = w.buffer /\ x.handed = w.handed /\ x.heard = w.heard
<1> DEFINE s == [epoch |-> epoch, seq |-> page.seq]
<1>1. s \in Stamps /\ s.epoch = epoch /\ s.seq = page.seq /\ page.seq \in Nat /\ page.rows \in Boards
  BY DEF TypeOK, HostOK, Stamps, Res
<1>2. x = [w EXCEPT !.lastSeq = page.seq, !.board = page.rows, !.applied = s] BY DEF With
<1> HIDE DEF s
<1> QED BY <1>1, <1>2 DEF Wins

\* One call more is asked.
LEMMA AsksIs ==
  ASSUME NEW c \in Conns, NEW who \in Asks, NEW d, d = [c EXCEPT !.asked = Append(@, who)]
  PROVE  /\ d \in Conns /\ d.asked = Append(c.asked, who) /\ d.up = c.up /\ d.answers = c.answers
         /\ d.sentAny = c.sentAny /\ d.holding = c.holding /\ d.held = c.held
<1>1. Append(c.asked, who) \in Seq(Asks) BY DEF Conns
<1> QED BY <1>1 DEF Conns

\* A drained reader is a reader.
LEMMA DrainedOK == ASSUME NEW w \in Wins PROVE Drained(w) \in Wins
<1>1. PICK d \in [0..Len(w.buffer) -> Wins] : Drained(w) = d[Len(w.buffer)] BY DrainedIs
<1>2. Len(w.buffer) \in 0..Len(w.buffer) BY DEF Wins
<1> QED BY <1>1, <1>2

\* The reader takes a frame or an answer from the head of the line.
LEMMA ReaderTakesIs ==
  ASSUME TypeOK, ReaderTakes
  PROVE  /\ TypeOK' /\ view' = view /\ reply' = reply
         /\ \E x : (GetsEvt(x) /\ snaps' = snaps) \/ (GetsRes(x) /\ Snaps(x))
<1> DEFINE item == Head(out.sock)
<1>0. conn \in Conns /\ out \in Outs /\ win \in Wins /\ snaps \in [reader: Stamps, window: Stamps]
      /\ epoch \in Nat
  BY DEF TypeOK, HostOK
<1>1. /\ conn.up /\ out.sock # <<>> /\ (item.type = "res" => item.to = "reader")
      /\ win' = Received(item)
      /\ conn' = (IF Rereads(item) THEN [conn EXCEPT !.asked = Append(@, "reader")] ELSE conn)
      /\ out' = [out EXCEPT !.sock = Tail(@)]
      /\ rows' = rows /\ epoch' = epoch /\ seq' = seq /\ ring' = ring /\ evicted' = evicted
      /\ changes' = changes /\ faults' = faults
  BY DEF ReaderTakes, ReaderReceives, hostVars, bounds
<1>2. /\ snaps' = (IF ~ IsEvt(item) /\ item.says = "page"
                   THEN [snaps EXCEPT !.reader = [epoch |-> epoch, seq |-> item.seq]]
                   ELSE snaps)
      /\ view' = view /\ reply' = reply
  BY DEF ReaderTakes
<1>3. /\ out' \in Outs /\ out'.over = out.over
      /\ Line(out) # <<>> /\ Head(Line(out)) = item /\ item \in Item
      /\ Same(Line(out'), Tail(Line(out)))
  BY <1>0, <1>1, LineHead
<1> HIDE DEF item
<1>4. /\ conn' \in Conns /\ ConnSame
      /\ conn'.asked = IF Rereads(item) THEN Append(conn.asked, "reader") ELSE conn.asked
  <2>1. CASE Rereads(item)
    <3>1. conn' = [conn EXCEPT !.asked = Append(@, "reader")] /\ "reader" \in Asks
      BY <1>1, <2>1 DEF Asks
    <3>2. /\ conn' \in Conns /\ conn'.asked = Append(conn.asked, "reader") /\ conn'.up = conn.up
          /\ conn'.answers = conn.answers /\ conn'.sentAny = conn.sentAny
          /\ conn'.holding = conn.holding /\ conn'.held = conn.held
      BY <1>0, <3>1, AsksIs
    <3> QED BY <2>1, <3>2 DEF ConnSame
  <2>2. CASE ~ Rereads(item)
    <3>1. conn' = conn BY <1>1, <2>2
    <3> QED BY <1>0, <2>2, <3>1 DEF ConnSame
  <2> QED BY <2>1, <2>2
<1>5. Gets(item) BY <1>1, <1>3, <1>4 DEF Gets, HostSame
<1>6. win' \in Wins /\ (GetsEvt(item) \/ GetsRes(item))
  <2>1. CASE IsEvt(item)
    <3>1. item \in Evt BY <1>3, <2>1, ItemKinds
    <3>2. win' = Takes(win, item) BY <1>1, <2>1 DEF Received
    <3>3. win' \in Wins BY <1>0, <3>1, <3>2, TakesIs
    <3>4. Rereads(item) <=> win'.mode = "reading" /\ win.mode # "reading" BY <1>1, <2>1 DEF Rereads
    <3> QED BY <1>4, <1>5, <3>1, <3>2, <3>3, <3>4 DEF GetsEvt
  <2>2. CASE ~ IsEvt(item)
    <3>1. item \in Res /\ item.to = "reader"
      <4>1. item \in Res BY <1>3, <2>2, ItemKinds
      <4>2. item.type = "res" BY <4>1 DEF Res
      <4> QED BY <1>1, <4>1, <4>2
    <3>2. Rereads(item) <=> win'.mode = "reading" BY <1>1, <2>2 DEF Rereads
    <3>3. item.says \in {"live", "replaying", "resync", "page", "refused", "expired"}
      BY <3>1 DEF Res
    <3>4. CASE item.says = "replaying"
      <4>1. win' = Drained(win) BY <1>1, <2>2, <3>4 DEF Received
      <4>2. win' \in Wins BY <1>0, <4>1, DrainedOK
      <4> QED BY <1>4, <1>5, <3>1, <3>2, <3>4, <4>1, <4>2 DEF GetsRes
    <3>5. CASE item.says = "page"
      <4>1. win' = Drained(With(win, item)) BY <1>1, <2>2, <3>5 DEF Received, Loaded, With
      <4>2. With(win, item) \in Wins BY <1>0, <3>1, WithIs
      <4>3. win' \in Wins BY <4>1, <4>2, DrainedOK
      <4> QED BY <1>4, <1>5, <3>1, <3>2, <3>5, <4>1, <4>3 DEF GetsRes
    <3>6. CASE item.says \in {"live", "resync"}
      <4>1. win' = [win EXCEPT !.mode = "reading"] BY <1>1, <2>2, <3>6 DEF Received
      <4>2. /\ win' \in Wins /\ win'.mode = "reading" /\ win'.lastSeq = win.lastSeq
            /\ win'.buffer = win.buffer /\ win'.heard = win.heard
            /\ win'.board = win.board /\ win'.applied = win.applied /\ win'.handed = win.handed
        BY <1>0, <4>1 DEF Wins
      <4> QED BY <1>4, <1>5, <3>1, <3>2, <3>6, <4>2 DEF GetsRes
    <3>7. CASE item.says = "expired"
      <4>1. win' = win BY <1>1, <2>2, <3>7 DEF Received
      <4> QED BY <1>0, <1>4, <1>5, <3>1, <3>2, <3>7, <4>1 DEF GetsRes
    <3>8. CASE item.says = "refused"
      <4>1. win' = [win EXCEPT !.mode = "awaiting"] BY <1>1, <2>2, <3>8 DEF Received
      <4>2. /\ win' \in Wins /\ win'.mode = "awaiting" /\ win'.lastSeq = win.lastSeq
            /\ win'.buffer = win.buffer /\ win'.heard = win.heard
            /\ win'.board = win.board /\ win'.applied = win.applied /\ win'.handed = win.handed
        BY <1>0, <4>1 DEF Wins
      <4> QED BY <1>4, <1>5, <3>1, <3>2, <3>8, <4>2 DEF GetsRes
    <3> QED BY <3>3, <3>4, <3>5, <3>6, <3>7, <3>8
  <2> QED BY <2>1, <2>2
<1>7. snaps' \in [reader: Stamps, window: Stamps]
  <2>1. CASE ~ IsEvt(item) /\ item.says = "page"
    <3> DEFINE s == [epoch |-> epoch, seq |-> item.seq]
    <3>1. item \in Res BY <1>3, <2>1, ItemKinds
    <3>2. s \in Stamps BY <1>0, <3>1 DEF Res, Stamps
    <3>3. snaps' = [snaps EXCEPT !.reader = s] BY <1>2, <2>1
    <3> HIDE DEF s
    <3> QED BY <1>0, <3>2, <3>3
  <2>2. CASE ~ (~ IsEvt(item) /\ item.says = "page") BY <1>0, <1>2, <2>2
  <2> QED BY <2>1, <2>2
<1>8. TypeOK' BY <1>1, <1>2, <1>3, <1>4, <1>6, <1>7 DEF TypeOK, HostOK
<1>9. (GetsEvt(item) /\ snaps' = snaps) \/ (GetsRes(item) /\ Snaps(item))
  <2>1. CASE GetsEvt(item)
    <3>1. IsEvt(item) BY <2>1, ItemKinds DEF GetsEvt
    <3> QED BY <1>2, <2>1, <3>1
  <2>2. CASE GetsRes(item)
    <3>1. ~ IsEvt(item) BY <2>2, ItemKinds DEF GetsRes
    <3> QED BY <1>2, <2>2, <3>1 DEF Snaps
  <2> QED BY <1>6, <2>1, <2>2
<1> QED BY <1>2, <1>8, <1>9

\* What a handler that joins does.
LEMMA HandlerJoinsIs ==
  ASSUME TypeOK, HandlerJoins, ViewSame
  PROVE  TypeOK' /\ Joins
<1>0. conn \in Conns /\ out \in Outs /\ win \in Wins BY DEF TypeOK, HostOK
<1>1. /\ conn.up /\ win.mode = "live" /\ win' = [win EXCEPT !.mode = "reading"]
      /\ conn' = [conn EXCEPT !.asked = Append(@, "reader")]
      /\ rows' = rows /\ epoch' = epoch /\ seq' = seq /\ ring' = ring /\ evicted' = evicted
      /\ out' = out /\ changes' = changes /\ Fault
  BY DEF HandlerJoins, hostVars
<1>2. "reader" \in Asks BY DEF Asks
<1>3. /\ conn' \in Conns /\ conn'.asked = Append(conn.asked, "reader") /\ conn'.up = conn.up
      /\ conn'.answers = conn.answers /\ conn'.sentAny = conn.sentAny
      /\ conn'.holding = conn.holding /\ conn'.held = conn.held
  <2>1. conn \in Conns /\ conn' = [conn EXCEPT !.asked = Append(@, "reader")] BY <1>0, <1>1
  <2> QED BY <1>2, <2>1, AsksIs
<1>4. /\ win' \in Wins /\ win'.mode = "reading" /\ win'.lastSeq = win.lastSeq
      /\ win'.buffer = win.buffer /\ win'.heard = win.heard
      /\ win'.board = win.board /\ win'.applied = win.applied /\ win'.handed = win.handed
  BY <1>0, <1>1 DEF Wins
<1>5. faults' \in Nat BY <1>1, FaultIs DEF TypeOK, HostOK
<1>6. TypeOK' BY <1>1, <1>3, <1>4, <1>5 DEF TypeOK, HostOK, ViewSame
<1> QED BY <1>1, <1>3, <1>4, <1>6 DEF Joins, HostSame, ConnSame, LineSame

\* What is handed on to a window, when it is there.
LEMMA HandsOnIs ==
  ASSUME NEW w \in Wins, NEW item \in Handed, NEW x, x = HandsOn(w, item)
  PROVE  /\ x \in Wins /\ x.mode = w.mode /\ x.lastSeq = w.lastSeq /\ x.buffer = w.buffer
         /\ x.board = w.board /\ x.applied = w.applied /\ x.heard = w.heard
         /\ x.handed = IF w.heard THEN Append(w.handed, item) ELSE w.handed
<1>0. w.heard \in BOOLEAN BY DEF Wins
<1>1. CASE w.heard
  <2>1. Append(w.handed, item) \in Seq(Handed) BY DEF Wins
  <2>2. x = [w EXCEPT !.handed = Append(w.handed, item)] BY <1>1 DEF HandsOn
  <2>3. /\ x \in Wins /\ x.mode = w.mode /\ x.lastSeq = w.lastSeq /\ x.buffer = w.buffer
        /\ x.board = w.board /\ x.applied = w.applied /\ x.heard = w.heard
        /\ x.handed = Append(w.handed, item)
    BY <2>1, <2>2 DEF Wins
  <2> QED BY <1>1, <2>3
<1>2. CASE ~ w.heard BY <1>2 DEF HandsOn
<1> QED BY <1>0, <1>1, <1>2

\* What a new connection is.
LEMMA ConnectIs ==
  ASSUME TypeOK, Connect, ViewSame
  PROVE  TypeOK' /\ Connects
<1> DEFINE s == IF win.applied.epoch = epoch THEN win.applied.seq ELSE NoSeq
           w == [win EXCEPT !.mode = "awaiting", !.lastSeq = s]
           item == [type |-> "connected"]
<1>0. conn \in Conns /\ out \in Outs /\ win \in Wins BY DEF TypeOK, HostOK
<1>1. /\ ~ conn.up
      /\ conn' = [Closed EXCEPT !.up = TRUE, !.asked = <<"subscribe">>]
      /\ win' = HandsOn(w, item)
      /\ rows' = rows /\ epoch' = epoch /\ seq' = seq /\ ring' = ring /\ evicted' = evicted
      /\ out' = out /\ changes' = changes /\ faults' = faults
  BY DEF Connect, hostVars, bounds, Resumed
<1>2. item \in Handed BY DEF Handed, Note
<1>3. s \in Nat \cup {NoSeq} BY <1>0 DEF Wins, Stamps
<1> HIDE DEF s
<1>4. /\ w \in Wins /\ w.mode = "awaiting" /\ w.lastSeq = s /\ w.buffer = win.buffer
      /\ w.board = win.board /\ w.applied = win.applied /\ w.handed = win.handed
      /\ w.heard = win.heard
  BY <1>0, <1>3 DEF Wins
<1> HIDE DEF w, item
<1>5. /\ win' \in Wins /\ win'.mode = w.mode /\ win'.lastSeq = w.lastSeq
      /\ win'.buffer = w.buffer
      /\ win'.board = w.board /\ win'.applied = w.applied /\ win'.heard = w.heard
      /\ win'.handed = IF w.heard THEN Append(w.handed, item) ELSE w.handed
  BY <1>1, <1>2, <1>4, HandsOnIs
<1>6. /\ conn' \in Conns /\ conn'.up /\ conn'.asked = <<"subscribe">> /\ conn'.answers = <<>>
      /\ conn'.sentAny = FALSE /\ conn'.holding = FALSE /\ conn'.held = <<>>
  <2> DEFINE q == <<"subscribe">>
             c == Closed
  <2>1. q \in Seq(Asks) BY DEF Asks
  <2>2. conn' = [c EXCEPT !.up = TRUE, !.asked = q] BY <1>1
  <2>3. /\ c \in Conns /\ c.answers = <<>> /\ c.sentAny = FALSE /\ c.holding = FALSE
        /\ c.held = <<>>
    BY ClosedIs
  <2>q. q = <<"subscribe">> OBVIOUS
  <2> HIDE DEF c, q
  <2>4. /\ conn' \in Conns /\ conn'.up /\ conn'.asked = q /\ conn'.answers = c.answers
        /\ conn'.sentAny = c.sentAny /\ conn'.holding = c.holding /\ conn'.held = c.held
    BY <2>1, <2>2, <2>3 DEF Conns
  <2> QED BY <2>3, <2>4, <2>q
<1>7. TypeOK' BY <1>1, <1>5, <1>6 DEF TypeOK, HostOK, ViewSame
<1>8. HostSame BY <1>1 DEF HostSame
<1> QED BY <1>1, <1>4, <1>5, <1>6, <1>7, <1>8 DEF Connects, s, item

\* What a lost connection leaves, and a Host that stopped.
LEMMA HungIs ==
  ASSUME TypeOK, ConnectionLost \/ HostStops, ReadsFail, view' = view, snaps' = snaps
  PROVE  TypeOK' /\ Hung
<1> DEFINE item == [type |-> "reconnecting"]
<1>0. conn \in Conns /\ out \in Outs /\ win \in Wins /\ rows \in Boards /\ changes \in Nat
      /\ epoch \in Nat /\ ring \in Seq(Evt)
  BY DEF TypeOK, HostOK
<1>1. PICK e \in Seq(Evt) : e = <<>> BY EmptySeq
<1> DEFINE w == [win EXCEPT !.mode = "off", !.lastSeq = NoSeq, !.buffer = e]
<1>2. /\ conn.up /\ conn' = Closed /\ out' = Idle /\ win' = HandsOn(w, item)
      /\ Fault
  BY <1>1 DEF ConnectionLost, HostStops, Hangs
<1>3. item \in Handed BY DEF Handed, Note
<1>4. /\ w \in Wins /\ w.mode = "off" /\ w.lastSeq = NoSeq /\ w.buffer = e
      /\ w.board = win.board /\ w.applied = win.applied /\ w.handed = win.handed
      /\ w.heard = win.heard
  BY <1>0 DEF Wins
<1> HIDE DEF w, item
<1>5. /\ win' \in Wins /\ win'.mode = w.mode /\ win'.lastSeq = w.lastSeq
      /\ win'.buffer = w.buffer
      /\ win'.board = w.board /\ win'.applied = w.applied /\ win'.heard = w.heard
      /\ win'.handed = IF w.heard THEN Append(w.handed, item) ELSE w.handed
  BY <1>2, <1>3, <1>4, HandsOnIs
<1>6. conn' \in Conns /\ out' \in Outs /\ faults' \in Nat
  BY <1>2, ClosedIs, FaultIs DEF TypeOK, HostOK
<1>7. reply' \in Replies BY DEF ReadsFail, TypeOK, Replies
<1>8. /\ rows' \in Boards /\ changes' \in Nat /\ epoch' \in Nat /\ seq' \in Nat
      /\ ring' \in Seq(Evt) /\ evicted' \in Nat
      /\ \A r \in Rows : rows[r] <= rows'[r]
      /\ HostSame \/ (epoch' = epoch + 1 /\ seq' = 0 /\ ring' = <<>> /\ evicted' = 0)
  <2>1. CASE ConnectionLost
    <3>1. HostSame /\ changes' = changes BY <2>1 DEF ConnectionLost, HostSame, hostVars
    <3> QED BY <3>1 DEF HostSame, TypeOK, HostOK, Boards
  <2>2. CASE HostStops
    <3>1. epoch' = epoch + 1 /\ seq' = 0 /\ ring' = <<>> /\ evicted' = 0 BY <2>2 DEF HostStops
    <3>2. rows' \in Boards /\ changes' \in Nat /\ \A r \in Rows : rows[r] <= rows'[r]
      <4>1. CASE rows' = rows /\ changes' = changes BY <1>0, <4>1 DEF Boards
      <4>2. CASE changes' = changes + 1 /\ \E r \in Rows : rows' = [rows EXCEPT ![r] = @ + 1]
        BY <1>0, <4>2 DEF Boards
      <4> QED BY <2>2, <4>1, <4>2 DEF HostStops
    <3>3. ring' \in Seq(Evt) BY <1>1, <3>1
    <3> QED BY <1>0, <3>1, <3>2, <3>3
  <2> QED BY <2>1, <2>2
<1>9. TypeOK' BY <1>5, <1>6, <1>7, <1>8 DEF TypeOK, HostOK
<1> QED BY <1>1, <1>2, <1>4, <1>5, <1>8, <1>9 DEF Hung, item

\* What a read of the window does to the connection.
LEMMA ReadsIs ==
  ASSUME NEW c \in Conns, c = conn, Reads
  PROVE  conn' \in Conns /\ ConnSame /\ reply' \in Replies /\ WindowReads
<1>1. CASE conn.up
  <2>1. reply' = Asked /\ conn' = [c EXCEPT !.asked = Append(@, "window")] /\ "window" \in Asks
    BY <1>1 DEF Reads, Asks
  <2>2. /\ conn' \in Conns /\ conn'.asked = Append(c.asked, "window") /\ conn'.up = c.up
        /\ conn'.answers = c.answers /\ conn'.sentAny = c.sentAny /\ conn'.holding = c.holding
        /\ conn'.held = c.held
    BY <2>1, AsksIs
  <2> QED BY <1>1, <2>1, <2>2 DEF ConnSame, WindowReads, Replies
<1>2. CASE ~ conn.up
  <2>1. reply' = Failed /\ conn' = conn BY <1>2 DEF Reads
  <2> QED BY <1>2, <2>1 DEF ConnSame, WindowReads, Replies
<1> QED BY <1>1, <1>2

\* A window opens, as its follower and the connection see it.
LEMMA WindowOpensIs ==
  ASSUME TypeOK, WindowOpens
  PROVE  /\ TypeOK' /\ Quiet /\ WindowReads /\ win'.handed = win.handed
         /\ view.phase = "idle" /\ view'.phase = "syncing" /\ view'.buffer = view.buffer
         /\ view'.seq = view.seq /\ view'.epoch = view.epoch /\ view'.board = view.board
<1>0. conn \in Conns /\ out \in Outs /\ win \in Wins /\ view \in Views BY DEF TypeOK, HostOK
<1>1. /\ view.phase = "idle" /\ view' = [view EXCEPT !.phase = "syncing"]
      /\ win' = [win EXCEPT !.heard = TRUE] /\ Reads /\ Fault
      /\ rows' = rows /\ epoch' = epoch /\ seq' = seq /\ ring' = ring /\ evicted' = evicted
      /\ out' = out /\ changes' = changes /\ snaps' = snaps
  BY DEF WindowOpens, hostVars
<1>2. conn' \in Conns /\ ConnSame /\ reply' \in Replies /\ WindowReads BY <1>0, <1>1, ReadsIs
<1>3. /\ win' \in Wins /\ win'.mode = win.mode /\ win'.lastSeq = win.lastSeq
      /\ win'.buffer = win.buffer
      /\ win'.board = win.board /\ win'.applied = win.applied /\ win'.handed = win.handed
  BY <1>0, <1>1 DEF Wins
<1>4. /\ view' \in Views /\ view'.phase = "syncing" /\ view'.seq = view.seq
      /\ view'.buffer = view.buffer
      /\ view'.epoch = view.epoch /\ view'.board = view.board
  BY <1>0, <1>1 DEF Views
<1>5. faults' \in Nat BY <1>1, FaultIs DEF TypeOK, HostOK
<1>6. TypeOK' BY <1>1, <1>2, <1>3, <1>4, <1>5 DEF TypeOK, HostOK
<1>7. Quiet BY <1>1, <1>2, <1>3 DEF Quiet, HostSame, ReaderSame, LineSame, WindowReads
<1> QED BY <1>1, <1>2, <1>3, <1>4, <1>6, <1>7

\* A window hears, as its follower and the connection see it.
LEMMA WindowHearsIs ==
  ASSUME TypeOK, WindowHears
  PROVE  /\ TypeOK' /\ Quiet /\ win.handed # <<>> /\ win'.handed = Tail(win.handed)
         /\ Head(win.handed) \in Handed
         /\ view' = IF IsEvt(Head(win.handed)) THEN Hears(view, Head(win.handed))
                    ELSE Linked(view, Head(win.handed).type)
         /\ IF view.phase # "syncing" /\ view'.phase = "syncing" THEN WindowReads
            ELSE reply' = reply /\ conn'.asked = conn.asked
<1> DEFINE item == Head(win.handed)
<1>0. conn \in Conns /\ out \in Outs /\ win \in Wins /\ view \in Views BY DEF TypeOK, HostOK
<1>1. /\ win.handed # <<>>
      /\ view' = (IF IsEvt(item) THEN Hears(view, item) ELSE Linked(view, item.type))
      /\ win' = [win EXCEPT !.handed = Tail(@)]
      /\ (IF view.phase # "syncing" /\ view'.phase = "syncing" THEN Reads
          ELSE reply' = reply /\ conn' = conn)
      /\ rows' = rows /\ epoch' = epoch /\ seq' = seq /\ ring' = ring /\ evicted' = evicted
      /\ out' = out /\ changes' = changes /\ faults' = faults /\ snaps' = snaps
  BY DEF WindowHears, hostVars, bounds
<1>2. item \in Handed /\ Tail(win.handed) \in Seq(Handed) BY <1>0, <1>1 DEF Wins
<1>3. /\ win' \in Wins /\ win'.mode = win.mode /\ win'.lastSeq = win.lastSeq
      /\ win'.buffer = win.buffer
      /\ win'.board = win.board /\ win'.applied = win.applied /\ win'.handed = Tail(win.handed)
  BY <1>0, <1>1, <1>2 DEF Wins
<1>i. item = Head(win.handed) OBVIOUS
<1> HIDE DEF item
<1>4. view' \in Views
  <2>1. CASE IsEvt(item)
    <3>1. item \in Evt BY <1>2, <2>1 DEF Handed, Note, IsEvt
    <3> QED BY <1>0, <1>1, <2>1, <3>1, HearsIs
  <2>2. CASE ~ IsEvt(item)
    <3>1. item.type \in {"connected", "reconnecting"} BY <1>2, <2>2, ItemKinds DEF Handed, Note
    <3> QED BY <1>0, <1>1, <2>2, <3>1, LinkedIs
  <2> QED BY <2>1, <2>2
<1>5. /\ conn' \in Conns /\ ConnSame /\ reply' \in Replies
      /\ IF view.phase # "syncing" /\ view'.phase = "syncing" THEN WindowReads
         ELSE reply' = reply /\ conn'.asked = conn.asked
  <2>1. CASE view.phase # "syncing" /\ view'.phase = "syncing"
    <3>1. Reads BY <1>1, <2>1
    <3> QED BY <1>0, <2>1, <3>1, ReadsIs
  <2>2. CASE ~ (view.phase # "syncing" /\ view'.phase = "syncing")
    <3>1. reply' = reply /\ conn' = conn BY <1>1, <2>2
    <3> QED BY <1>0, <2>2, <3>1 DEF ConnSame, TypeOK
  <2> QED BY <2>1, <2>2
<1>6. TypeOK' BY <1>1, <1>3, <1>4, <1>5 DEF TypeOK, HostOK
<1>7. Quiet BY <1>1, <1>3, <1>5 DEF Quiet, HostSame, ReaderSame, LineSame, WindowReads
<1> QED BY <1>1, <1>2, <1>3, <1>5, <1>6, <1>7, <1>i

\* An answer for the window comes out of the line.
LEMMA WindowAnsweredIs ==
  ASSUME TypeOK, WindowAnswered
  PROVE  /\ TypeOK' /\ view' = view /\ snaps' = snaps
         /\ \E a : /\ GetsWin(a)
                   /\ reply' = IF a.says = "page"
                               THEN [is |-> "page", epoch |-> epoch, seq |-> a.seq, rows |-> a.rows]
                               ELSE Failed
<1> DEFINE item == Head(out.sock)
<1>0. conn \in Conns /\ out \in Outs /\ win \in Wins /\ epoch \in Nat BY DEF TypeOK, HostOK
<1>1. /\ conn.up /\ out.sock # <<>> /\ ~ IsEvt(item) /\ item.to = "window"
      /\ reply' = (IF item.says = "page"
                   THEN [is |-> "page", epoch |-> epoch, seq |-> item.seq, rows |-> item.rows]
                   ELSE Failed)
      /\ out' = [out EXCEPT !.sock = Tail(@)]
      /\ rows' = rows /\ epoch' = epoch /\ seq' = seq /\ ring' = ring /\ evicted' = evicted
      /\ conn' = conn /\ win' = win /\ changes' = changes /\ faults' = faults
      /\ view' = view /\ snaps' = snaps
  BY DEF WindowAnswered, hostVars, bounds
<1>2. /\ out' \in Outs /\ out'.over = out.over
      /\ Line(out) # <<>> /\ Head(Line(out)) = item /\ item \in Item
      /\ Same(Line(out'), Tail(Line(out)))
  BY <1>0, <1>1, LineHead
<1> HIDE DEF item
<1>3. item \in Res BY <1>1, <1>2, ItemKinds
<1>4. GetsWin(item) BY <1>1, <1>2, <1>3 DEF GetsWin, Gets, HostSame, ConnSame
<1>5. reply' \in Replies
  <2>1. item.seq \in Nat /\ item.rows \in Boards BY <1>3 DEF Res
  <2>2. [is |-> "page", epoch |-> epoch, seq |-> item.seq, rows |-> item.rows] \in Page
    BY <1>0, <2>1 DEF Page
  <2> QED BY <1>1, <2>2 DEF Replies
<1>6. TypeOK' BY <1>1, <1>2, <1>5 DEF TypeOK, HostOK
<1> QED BY <1>1, <1>4, <1>6

\* A follower that took a page is a follower.
LEMMA ReadOK == ASSUME NEW v \in Views, NEW p \in Page PROVE Read(v, p) \in Views
<1>1. PICK q \in Seq(Evt) : \E d \in [0..Len(q) -> Views] : Runs(v, p, q, d) BY ReadIs
<1>e. PICK d \in [0..Len(q) -> Views] : Runs(v, p, q, d) BY <1>1
<1>2. Read(v, p) = IF v.again THEN Resyncs(d[0], q) ELSE d[Len(q)] BY <1>e DEF Runs
<1>3. Len(q) \in 0..Len(q) /\ 0 \in 0..Len(q) OBVIOUS
<1>4. d[0] \in Views /\ d[Len(q)] \in Views BY <1>3
<1>5. Resyncs(d[0], q) \in Views BY <1>4, ResyncsIs
<1> QED BY <1>2, <1>4, <1>5

\* The read of the window ended, as its follower and the connection see it.
LEMMA WindowLoadsIs ==
  ASSUME TypeOK, WindowLoads
  PROVE  /\ TypeOK' /\ Quiet /\ win' = win /\ reply.is \in {"page", "failed"}
         /\ (reply.is = "page" => reply \in Page)
         /\ view' = (IF reply.is = "page" THEN Read(view, reply) ELSE Unread(view))
         /\ IF view'.phase = "syncing" THEN WindowReads
            ELSE reply' = NoRead /\ conn'.asked = conn.asked
<1>0. conn \in Conns /\ out \in Outs /\ win \in Wins /\ view \in Views /\ reply \in Replies
      /\ snaps \in [reader: Stamps, window: Stamps]
  BY DEF TypeOK, HostOK
<1>1. /\ reply.is \in {"page", "failed"}
      /\ view' = (IF reply.is = "page" THEN Read(view, reply) ELSE Unread(view))
      /\ (IF view'.phase = "syncing" THEN Reads ELSE reply' = NoRead /\ conn' = conn)
      /\ snaps' = (IF reply.is = "page"
                   THEN [snaps EXCEPT !.window = [epoch |-> reply.epoch, seq |-> reply.seq]]
                   ELSE snaps)
      /\ rows' = rows /\ epoch' = epoch /\ seq' = seq /\ ring' = ring /\ evicted' = evicted
      /\ out' = out /\ win' = win /\ changes' = changes /\ faults' = faults
  BY DEF WindowLoads, hostVars, bounds
<1>2. reply.is = "page" => reply \in Page BY <1>0 DEF Replies, NoRead, Asked, Failed
<1>3. view' \in Views
  <2>1. CASE reply.is = "page" BY <1>0, <1>1, <1>2, <2>1, ReadOK
  <2>2. CASE reply.is # "page"
    <3>1. view' = Unread(view) BY <1>1, <2>2
    <3> QED BY <1>0, <3>1, UnreadIs
  <2> QED BY <2>1, <2>2
<1>4. /\ conn' \in Conns /\ ConnSame /\ reply' \in Replies
      /\ IF view'.phase = "syncing" THEN WindowReads
         ELSE reply' = NoRead /\ conn'.asked = conn.asked
  <2>1. CASE view'.phase = "syncing"
    <3>1. Reads BY <1>1, <2>1
    <3> QED BY <1>0, <2>1, <3>1, ReadsIs
  <2>2. CASE view'.phase # "syncing"
    <3>1. reply' = NoRead /\ conn' = conn BY <1>1, <2>2
    <3> QED BY <1>0, <2>2, <3>1 DEF ConnSame, Replies
  <2> QED BY <2>1, <2>2
<1>5. snaps' \in [reader: Stamps, window: Stamps]
  <2>1. CASE reply.is = "page"
    <3> DEFINE s == [epoch |-> reply.epoch, seq |-> reply.seq]
    <3>1. s \in Stamps BY <1>2, <2>1 DEF Page, Stamps
    <3>2. snaps' = [snaps EXCEPT !.window = s] BY <1>1, <2>1
    <3> HIDE DEF s
    <3> QED BY <1>0, <3>1, <3>2
  <2>2. CASE reply.is # "page" BY <1>0, <1>1, <2>2
  <2> QED BY <2>1, <2>2
<1>6. TypeOK' BY <1>1, <1>3, <1>4, <1>5 DEF TypeOK, HostOK
<1>7. Quiet BY <1>1, <1>4 DEF Quiet, HostSame, ReaderSame, LineSame, WindowReads
<1> QED BY <1>1, <1>2, <1>4, <1>6, <1>7

\* Each step keeps the types, and is one of the moves.
LEMMA NextIs ==
  ASSUME TypeOK, [Next]_vars
  PROVE  TypeOK' /\ Moves
<1>1. CASE FNext /\ ViewSame
  <2>1. ASSUME NEW r \in Rows, Publish(r) PROVE TypeOK' /\ Moves BY <1>1, <2>1, PublishIs DEF Moves
  <2>2. CASE ResetMetrics BY <1>1, <2>2, ResetIs DEF Moves
  <2>3. CASE OtherResync BY <1>1, <2>3, OtherResyncIs DEF Moves, OthersResync
  <2>4. CASE SubscribeLive BY <1>1, <2>4, SubscribeLiveIs DEF Moves
  <2>5. CASE SubscribeReplaying BY <1>1, <2>5, SubscribeReplayingIs DEF Moves
  <2>6. CASE SubscribeRefused BY <1>1, <2>6, SubscribeRefusedIs DEF Moves
  <2>7. ASSUME NEW who \in {"reader", "window"}, HostReads(who) PROVE TypeOK' /\ Moves
    <3>1. "page" \in {"page", "refused", "expired"} OBVIOUS
    <3>2. TypeOK' /\ \E q, a : Handles(q, a) BY <1>1, <2>7, <3>1, HostReadsIs
    <3> QED BY <3>2 DEF Moves
  <2>8. ASSUME NEW who \in {"reader", "window"}, NEW says \in {"refused", "expired"},
               HostRefuses(who, says)
        PROVE  TypeOK' /\ Moves
    <3>1. says \in {"page", "refused", "expired"} OBVIOUS
    <3>2. TypeOK' /\ \E q, a : Handles(q, a) BY <1>1, <2>8, <3>1, HostReadsIs
    <3> QED BY <3>2 DEF Moves
  <2>9. CASE HostAnswers BY <1>1, <2>9, HostAnswersIs DEF Moves
  <2>10. CASE SocketDrains BY <1>1, <2>10, SocketDrainsIs DEF Moves
  <2>11. CASE HandlerJoins BY <1>1, <2>11, HandlerJoinsIs DEF Moves
  <2>12. CASE Connect BY <1>1, <2>12, ConnectIs DEF Moves
  <2> QED BY <1>1, <2>1, <2>2, <2>3, <2>4, <2>5, <2>6, <2>7, <2>8, <2>9, <2>10, <2>11, <2>12
          DEF FNext, HostSteps
<1>2. CASE ReaderTakes BY <1>2, ReaderTakesIs DEF Moves
<1>3. CASE (ConnectionLost \/ HostStops) /\ ReadsFail /\ view' = view /\ snaps' = snaps
  BY <1>3, HungIs DEF Moves
<1>4. CASE WindowOpens BY <1>4, WindowOpensIs DEF Moves
<1>5. CASE WindowHears BY <1>5, WindowHearsIs DEF Moves
<1>6. CASE WindowAnswered BY <1>6, WindowAnsweredIs DEF Moves
<1>7. CASE WindowLoads BY <1>7, WindowLoadsIs DEF Moves
<1>8. CASE UNCHANGED vars
  <2>1. /\ rows' = rows /\ epoch' = epoch /\ seq' = seq /\ ring' = ring /\ evicted' = evicted
        /\ conn' = conn /\ out' = out /\ win' = win /\ changes' = changes /\ faults' = faults
        /\ view' = view /\ reply' = reply /\ snaps' = snaps
    BY <1>8 DEF vars, fvars, hostVars, bounds
  <2>2. Quiet BY <2>1 DEF Quiet, HostSame, ReaderSame, ConnSame, LineSame
  <2> QED BY <2>1, <2>2 DEF TypeOK, HostOK, Moves
<1> QED BY <1>1, <1>2, <1>3, <1>4, <1>5, <1>6, <1>7, <1>8 DEF Next, ViewSame

\* The first state is typed.
LEMMA InitTyped == Init => TypeOK
<1> SUFFICES ASSUME Init PROVE TypeOK OBVIOUS
<1>1. /\ rows = [r \in Rows |-> 1] /\ epoch = 1 /\ seq = 0 /\ ring = <<>> /\ evicted = 0
      /\ conn = Closed /\ out = Idle /\ changes = 0 /\ faults = 0
      /\ win = [mode |-> "off", lastSeq |-> NoSeq, buffer |-> <<>>,
                heard |-> FALSE, handed |-> <<>>,
                board |-> [r \in Rows |-> 0], applied |-> [epoch |-> 0, seq |-> 0]]
      /\ view = [phase |-> "idle", seq |-> 0, epoch |-> 0, board |-> [r \in Rows |-> 0],
                 buffer |-> <<>>, again |-> FALSE, link |-> "none"]
      /\ reply = NoRead
      /\ snaps = [reader |-> [epoch |-> 0, seq |-> 0], window |-> [epoch |-> 0, seq |-> 0]]
  BY DEF Init, FInit
<1>2. PICK e \in Seq(Evt) : e = <<>> BY EmptySeq
<1>3. PICK h \in Seq(Handed) : h = <<>> BY EmptySeq
<1> DEFINE b == [r \in Rows |-> 0]
           s == [epoch |-> 0, seq |-> 0]
<1>4. b \in Boards /\ s \in Stamps BY DEF Boards, Stamps
<1>5. /\ win = [mode |-> "off", lastSeq |-> NoSeq, buffer |-> e,
                heard |-> FALSE, handed |-> h, board |-> b, applied |-> s]
      /\ view = [phase |-> "idle", seq |-> 0, epoch |-> 0, board |-> b,
                 buffer |-> e, again |-> FALSE, link |-> "none"]
      /\ snaps = [reader |-> s, window |-> s]
  BY <1>1, <1>2, <1>3
<1> HIDE DEF b, s
<1>6. win \in Wins /\ view \in Views /\ snaps \in [reader: Stamps, window: Stamps]
  BY <1>4, <1>5 DEF Wins, Views
<1>7. conn \in Conns /\ out \in Outs BY <1>1, ClosedIs
<1>8. ring \in Seq(Evt) /\ rows \in Boards BY <1>1, <1>2 DEF Boards
<1> QED BY <1>1, <1>6, <1>7, <1>8 DEF TypeOK, HostOK, Replies

\* WindowTyped: every variable keeps its type: the frames of the ring, of the queue and of
\* the buffers are frames, the boards hold a version of every row.
THEOREM WindowTyped == Spec => []TypeOK
<1>1. TypeOK /\ [Next]_vars => TypeOK' BY NextIs
<1> QED BY <1>1, InitTyped, PTL DEF Spec

-----------------------------------------------------------------------------
(* The stops of a feed *)

\* A stop before the new frame stays one.
LEMMA StopKeep ==
  ASSUME NEW rw, NEW rg, NEW ev \in Nat, NEW sq \in Nat, NEW f, NEW rw2, NEW rg2, NEW ev2 \in Nat,
         NEW b, NEW s \in Nat, NEW G, NEW H, NEW n \in Nat,
         Newer(rw, rg, ev, sq, f, rw2, rg2, ev2), Seqs(rg, sq), Seqs(G, sq), G \subseteq H, n <= sq,
         Stop(rw, rg, ev, b, s, G, n)
  PROVE  Stop(rw2, rg2, ev2, b, s, H, n)
<1>0. /\ f.seq = sq + 1 /\ f \in rg2 /\ ev <= ev2
      /\ \A g \in rg : (g \in rg2 \/ g.seq <= ev2) /\ g.seq \in Nat
      /\ \A g \in G : g.seq \in Nat /\ g \in H
  BY DEF Newer, Seqs
<1> SUFFICES ASSUME ~ (ev2 > n) PROVE Stop(rw2, rg2, ev2, b, s, H, n) BY DEF Stop
<1>1. \A g \in rg : n < g.seq => g \in rg2 BY <1>0
<1>2. CASE \E g \in G : g.row = Resync /\ s < g.seq /\ g.seq <= n BY <1>0, <1>2 DEF Stop
<1>3. CASE \E g \in rg : g.row = Resync /\ n < g.seq BY <1>1, <1>3 DEF Stop
<1>4. CASE f.row = Resync BY <1>0, <1>4 DEF Stop
<1>5. CASE f.row # Resync /\ \A r \in Rows :
             \/ b[r] = rw[r]
             \/ \E g \in G : g.row = r /\ g.val = rw[r] /\ s < g.seq /\ g.seq <= n
             \/ \E g \in rg : g.row = r /\ g.val = rw[r] /\ n < g.seq
  <2>1. f.row \in Rows /\ rw2[f.row] = f.val /\ \A r \in Rows \ {f.row} : rw2[r] = rw[r]
    BY <1>5 DEF Newer
  <2>2. ASSUME NEW r \in Rows
        PROVE  \/ b[r] = rw2[r]
               \/ \E g \in H : g.row = r /\ g.val = rw2[r] /\ s < g.seq /\ g.seq <= n
               \/ \E g \in rg2 : g.row = r /\ g.val = rw2[r] /\ n < g.seq
    <3>1. CASE r = f.row BY <1>0, <2>1, <3>1
    <3>2. CASE r # f.row
      <4>1. rw2[r] = rw[r] BY <2>1, <3>2
      <4> QED BY <1>0, <1>1, <1>5, <4>1
    <3> QED BY <3>1, <3>2
  <2> QED BY <2>2 DEF Stop
<1> QED BY <1>0, <1>2, <1>3, <1>4, <1>5 DEF Stop

\* A stop stays one when the reader has more frames.
LEMMA StopMore ==
  ASSUME NEW rw, NEW rg, NEW ev, NEW b, NEW s, NEW G, NEW H, NEW n, G \subseteq H,
         Stop(rw, rg, ev, b, s, G, n)
  PROVE  Stop(rw, rg, ev, b, s, H, n)
<1>1. CASE \A r \in Rows :
       \/ b[r] = rw[r]
       \/ \E f \in G : f.row = r /\ f.val = rw[r] /\ s < f.seq /\ f.seq <= n
       \/ \E f \in rg : f.row = r /\ f.val = rw[r] /\ n < f.seq
  <2>1. \A r \in Rows :
       \/ b[r] = rw[r]
       \/ \E f \in H : f.row = r /\ f.val = rw[r] /\ s < f.seq /\ f.seq <= n
       \/ \E f \in rg : f.row = r /\ f.val = rw[r] /\ n < f.seq
    BY <1>1
  <2> QED BY <2>1 DEF Stop
<1> QED BY <1>1 DEF Stop

\* At the end of it, with no overflow: all that the board lacks is among the frames.
LEMMA LastStop ==
  ASSUME NEW rw, NEW rg, NEW ev \in Nat, NEW sq \in Nat, NEW b, NEW s \in Nat, NEW G,
         Feeds(rw, rg, ev, sq, FALSE, b, s, G), Seqs(rg, sq), ev <= sq
  PROVE  Fetched(rw, b, s, G)
<1>1. sq \in Stops(sq, FALSE, s, G) BY DEF Stops
<1>2. Stop(rw, rg, ev, b, s, G, sq) BY <1>1 DEF Feeds
<1>3. ~ (ev > sq) /\ \A f \in rg : ~ (sq < f.seq) BY DEF Seqs
<1>4. \/ \E f \in G : f.row = Resync /\ s < f.seq /\ f.seq <= sq
      \/ \A r \in Rows :
           \/ b[r] = rw[r]
           \/ \E f \in G : f.row = r /\ f.val = rw[r] /\ s < f.seq /\ f.seq <= sq
  BY <1>2, <1>3 DEF Stop
<1> QED BY <1>4 DEF Fetched

\* A stop that all frames are before.
LEMMA EndStop ==
  ASSUME NEW rw, NEW rg, NEW ev, NEW b, NEW s, NEW G, NEW n \in Nat, \A f \in G : f.seq <= n,
         Fetched(rw, b, s, G)
  PROVE  Stop(rw, rg, ev, b, s, G, n)
<1>1. CASE \E f \in G : f.row = Resync /\ s < f.seq BY <1>1 DEF Stop
<1>2. CASE \A r \in Rows : \/ b[r] = rw[r]
                           \/ \E f \in G : f.row = r /\ f.val = rw[r] /\ s < f.seq
  <2>1. \A r \in Rows :
          \/ b[r] = rw[r]
          \/ \E f \in G : f.row = r /\ f.val = rw[r] /\ s < f.seq /\ f.seq <= n
    BY <1>2
  <2> QED BY <2>1 DEF Stop
<1> QED BY <1>1, <1>2 DEF Fetched

\* A seq that no frame of the reader has.
LEMMA FeedsSkip ==
  ASSUME NEW rw, NEW rg, NEW ev \in Nat, NEW sq \in Nat, NEW ov \in BOOLEAN, NEW b, NEW s \in Nat,
         NEW G, Seqs(G, sq), Seqs(rg, sq), ev <= sq, Feeds(rw, rg, ev, sq, ov, b, s, G)
  PROVE  Feeds(rw, rg, ev, sq + 1, ov, b, s, G)
<1> SUFFICES ASSUME NEW n \in Stops(sq + 1, ov, s, G) PROVE Stop(rw, rg, ev, b, s, G, n)
  BY DEF Feeds
<1>1. CASE n \in Stops(sq, ov, s, G) BY <1>1 DEF Feeds
<1>2. CASE n \notin Stops(sq, ov, s, G)
  <2>1. ov = FALSE /\ n = sq + 1 BY <1>2 DEF Stops
  <2>2. Fetched(rw, b, s, G)
    <3>1. Feeds(rw, rg, ev, sq, FALSE, b, s, G) BY <2>1
    <3> QED BY <3>1, LastStop
  <2>3. n \in Nat /\ \A f \in G : f.seq <= n BY <2>1 DEF Seqs
  <2> QED BY <2>2, <2>3, EndStop
<1> QED BY <1>1, <1>2

\* A frame is emitted: it comes, or an overflow keeps it out.
LEMMA FeedsGrow ==
  ASSUME NEW rw, NEW rg, NEW ev \in Nat, NEW sq \in Nat, NEW ov \in BOOLEAN, NEW f,
         NEW rw2, NEW rg2, NEW ev2 \in Nat, NEW b, NEW s \in Nat, s <= sq, NEW G,
         Newer(rw, rg, ev, sq, f, rw2, rg2, ev2), Seqs(G, sq), Seqs(rg, sq), ev <= sq,
         Feeds(rw, rg, ev, sq, ov, b, s, G)
  PROVE  /\ ov => Feeds(rw2, rg2, ev2, sq + 1, ov, b, s, G)
         /\ ~ ov => Feeds(rw2, rg2, ev2, sq + 1, ov, b, s, G \cup {f})
<1>0. f.seq = sq + 1 BY DEF Newer
<1>1. ASSUME NEW n \in Stops(sq, ov, s, G), NEW H, G \subseteq H
      PROVE  Stop(rw2, rg2, ev2, b, s, H, n)
  <2>1. Stop(rw, rg, ev, b, s, G, n) BY DEF Feeds
  <2>2. n \in Nat /\ n <= sq BY DEF Stops, Seqs
  <2> QED BY <1>1, <2>1, <2>2, StopKeep
<1>2. ASSUME ov PROVE Feeds(rw2, rg2, ev2, sq + 1, ov, b, s, G)
  <2>1. \A n \in Stops(sq + 1, ov, s, G) : n \in Stops(sq, ov, s, G) BY <1>2 DEF Stops
  <2> QED BY <1>1, <2>1 DEF Feeds
<1>3. ASSUME ~ ov PROVE Feeds(rw2, rg2, ev2, sq + 1, ov, b, s, G \cup {f})
  <2> DEFINE H == G \cup {f}
  <2> SUFFICES ASSUME NEW n \in Stops(sq + 1, ov, s, H) PROVE Stop(rw2, rg2, ev2, b, s, H, n)
    BY DEF Feeds
  <2>1. n \in Stops(sq, ov, s, G) \/ n = sq + 1 BY <1>0, <1>3 DEF Stops
  <2>2. CASE n = sq + 1
    <3>1. Fetched(rw, b, s, G)
      <4>1. Feeds(rw, rg, ev, sq, FALSE, b, s, G) BY <1>3
      <4> QED BY <4>1, LastStop
    <3>2. Fetched(rw2, b, s, H)
      <4>1. CASE f.row = Resync BY <1>0, <4>1 DEF Fetched
      <4>2. CASE f.row # Resync
        <5>1. f.row \in Rows /\ rw2[f.row] = f.val /\ \A r \in Rows \ {f.row} : rw2[r] = rw[r]
          BY <4>2 DEF Newer
        <5>2. ASSUME NEW r \in Rows, r = f.row
              PROVE  \E g \in H : g.row = r /\ g.val = rw2[r] /\ s < g.seq
          BY <1>0, <5>1, <5>2
        <5>3. ASSUME NEW r \in Rows, r # f.row PROVE rw2[r] = rw[r] BY <5>1, <5>3
        <5> QED BY <3>1, <5>2, <5>3 DEF Fetched
      <4> QED BY <4>1, <4>2
    <3>3. \A g \in H : g.seq <= n BY <1>0, <2>2 DEF Seqs
    <3>4. n \in Nat BY <2>2
    <3> HIDE DEF H
    <3> QED BY <3>2, <3>3, <3>4, EndStop
  <2>3. G \subseteq H OBVIOUS
  <2> HIDE DEF H
  <2> QED BY <1>1, <2>1, <2>2, <2>3
<1> QED BY <1>2, <1>3

\* A resync comes after all the rest.
LEMMA FeedsResync ==
  ASSUME NEW rw, NEW rg, NEW ev \in Nat, NEW sq \in Nat, NEW ov \in BOOLEAN, NEW ov2 \in BOOLEAN,
         NEW b, NEW s \in Nat, s <= sq, NEW G, NEW f, f.seq = sq + 1, f.row = Resync,
         Seqs(G, sq), Feeds(rw, rg, ev, sq, ov, b, s, G)
  PROVE  Feeds(rw, rg, ev, sq + 1, ov2, b, s, G \cup {f})
<1> DEFINE H == G \cup {f}
<1> SUFFICES ASSUME NEW n \in Stops(sq + 1, ov2, s, H) PROVE Stop(rw, rg, ev, b, s, H, n)
  BY DEF Feeds
<1>1. n \in Stops(sq, ov, s, G) \/ n = sq + 1 BY DEF Stops
<1>2. CASE n = sq + 1
  <2>1. f \in H /\ s < f.seq /\ f.seq <= n BY <1>2
  <2> QED BY <2>1 DEF Stop
<1>3. CASE n \in Stops(sq, ov, s, G)
  <2>1. Stop(rw, rg, ev, b, s, G, n) BY <1>3 DEF Feeds
  <2>2. G \subseteq H OBVIOUS
  <2> HIDE DEF H
  <2> QED BY <2>1, <2>2, StopMore
<1> QED BY <1>1, <1>2, <1>3

\* What feeds a board feeds it without the frames that are stale or lost to an overflow.
LEMMA FeedsThin ==
  ASSUME NEW rw, NEW rg, NEW ev, NEW sq \in Nat, NEW ov \in BOOLEAN, NEW ov2 \in BOOLEAN,
         NEW b, NEW s \in Nat, NEW G, NEW H, \A g \in G : g.seq \in Nat,
         Feeds(rw, rg, ev, sq, ov, b, s, G), H \subseteq G, ov => ov2,
         \A g \in G : g \in H \/ Missing(rw, ov2, H, g)
  PROVE  Feeds(rw, rg, ev, sq, ov2, b, s, H)
<1> SUFFICES ASSUME NEW n \in Stops(sq, ov2, s, H) PROVE Stop(rw, rg, ev, b, s, H, n) BY DEF Feeds
<1>1. n \in Stops(sq, ov, s, G) /\ n \in Nat BY DEF Stops
<1>2. Stop(rw, rg, ev, b, s, G, n) BY <1>1 DEF Feeds
<1>3. ASSUME NEW g \in G, s < g.seq, g.seq <= n, g \notin H
      PROVE  g.row \in Rows /\ g.val # rw[g.row]
  <2>1. SUFFICES ASSUME ov2, \A x \in H : x.seq < g.seq PROVE FALSE BY <1>3 DEF Missing
  <2>2. n = s \/ \E x \in H : x.seq = n BY <2>1 DEF Stops
  <2> QED BY <1>3, <2>1, <2>2
<1>4. \A g \in G : g.row = Resync /\ s < g.seq /\ g.seq <= n => g \in H BY <1>3, FramesAssumption
<1>5. \A r \in Rows : \A g \in G : g.row = r /\ g.val = rw[r] /\ s < g.seq /\ g.seq <= n => g \in H
  BY <1>3
<1>6. CASE \A r \in Rows :
       \/ b[r] = rw[r]
       \/ \E f \in G : f.row = r /\ f.val = rw[r] /\ s < f.seq /\ f.seq <= n
       \/ \E f \in rg : f.row = r /\ f.val = rw[r] /\ n < f.seq
  <2>1. \A r \in Rows :
       \/ b[r] = rw[r]
       \/ \E f \in H : f.row = r /\ f.val = rw[r] /\ s < f.seq /\ f.seq <= n
       \/ \E f \in rg : f.row = r /\ f.val = rw[r] /\ n < f.seq
    BY <1>5, <1>6
  <2> QED BY <2>1 DEF Stop
<1> QED BY <1>2, <1>4, <1>6 DEF Stop

\* A snapshot of the Host's board, at its seq.
LEMMA FeedsPage ==
  ASSUME NEW rw, NEW rg, NEW ev, NEW sq \in Nat, NEW ov \in BOOLEAN, NEW G, Seqs(G, sq)
  PROVE  Feeds(rw, rg, ev, sq, ov, rw, sq, G)
<1> SUFFICES ASSUME NEW n \in Stops(sq, ov, sq, G) PROVE Stop(rw, rg, ev, rw, sq, G, n) BY DEF Feeds
<1> QED BY DEF Stop

\* A replay: the frames of the ring after s.
LEMMA FeedsReplay ==
  ASSUME NEW rw, NEW rg, NEW ev \in Nat, NEW sq \in Nat, NEW ov \in BOOLEAN, NEW b, NEW s \in Nat,
         NEW G, Seqs(rg, sq), ev <= s, s <= sq,
         \A f : f \in G <=> f \in rg /\ f.seq > s,
         Stop(rw, rg, ev, b, s, {}, s)
  PROVE  Feeds(rw, rg, ev, sq, ov, b, s, G)
<1> SUFFICES ASSUME NEW n \in Stops(sq, ov, s, G) PROVE Stop(rw, rg, ev, b, s, G, n) BY DEF Feeds
<1>1. n \in Nat /\ s <= n BY DEF Stops
<1>2. \/ \E f \in rg : f.row = Resync /\ s < f.seq
      \/ \A r \in Rows : \/ b[r] = rw[r]
                         \/ \E f \in rg : f.row = r /\ f.val = rw[r] /\ s < f.seq
  <2>1. ~ (ev > s) OBVIOUS
  <2> QED BY <2>1 DEF Stop
<1>3. \A f \in rg : s < f.seq => f \in G /\ (f.seq <= n \/ n < f.seq) BY <1>1 DEF Seqs
<1>4. CASE \E f \in rg : f.row = Resync /\ s < f.seq BY <1>3, <1>4 DEF Stop
<1>5. CASE \A r \in Rows : \/ b[r] = rw[r]
                           \/ \E f \in rg : f.row = r /\ f.val = rw[r] /\ s < f.seq
  <2>1. \A r \in Rows :
       \/ b[r] = rw[r]
       \/ \E f \in G : f.row = r /\ f.val = rw[r] /\ s < f.seq /\ f.seq <= n
       \/ \E f \in rg : f.row = r /\ f.val = rw[r] /\ n < f.seq
    BY <1>3, <1>5
  <2> QED BY <2>1 DEF Stop
<1> QED BY <1>2, <1>4, <1>5

-----------------------------------------------------------------------------
(* The calls of a connection, one after the other *)

\* A kind of item in a sequence with one more, and at most one of it.
LEMMA HasAppend ==
  ASSUME NEW T, NEW s \in Seq(T), NEW e \in T, NEW S
  PROVE  /\ Has(Append(s, e), S) <=> Has(s, S) \/ e \in S
         /\ Lone(Append(s, e), S) <=> Lone(s, S) /\ ~ (Has(s, S) /\ e \in S)
<1> DEFINE k == <<e>>
<1>1. k \in Seq(T) /\ Append(s, e) = s \o k /\ Range(k) = {e} BY RangeOne
<1>2. Lone(k, S) BY DEF Lone
<1> HIDE DEF k
<1>3. Has(k, S) <=> e \in S BY <1>1 DEF Has
<1>4. /\ Has(s \o k, S) <=> Has(s, S) \/ Has(k, S)
      /\ Lone(s \o k, S) <=> Lone(s, S) /\ Lone(k, S) /\ ~ (Has(s, S) /\ Has(k, S))
  BY <1>1, HasConcat, LoneConcat
<1> QED BY <1>1, <1>2, <1>3, <1>4

\* A kind of item in a sequence, from its head and its tail.
LEMMA HasHead ==
  ASSUME NEW T, NEW s \in Seq(T), s # <<>>, NEW S
  PROVE  /\ Has(s, S) <=> Has(Tail(s), S) \/ Head(s) \in S
         /\ Lone(s, S) <=> Lone(Tail(s), S) /\ ~ (Has(Tail(s), S) /\ Head(s) \in S)
<1> DEFINE k == <<Head(s)>>
           t == Tail(s)
<1>1. k \in Seq(T) /\ t \in Seq(T) /\ s = k \o t /\ Range(k) = {Head(s)} BY RangeHeadTail, RangeOne
<1>2. Lone(k, S) BY DEF Lone
<1> HIDE DEF k
<1>3. Has(k, S) <=> Head(s) \in S BY <1>1 DEF Has
<1> HIDE DEF t
<1>4. /\ Has(k \o t, S) <=> Has(k, S) \/ Has(t, S)
      /\ Lone(k \o t, S) <=> Lone(k, S) /\ Lone(t, S) /\ ~ (Has(k, S) /\ Has(t, S))
  BY <1>1, HasConcat, LoneConcat
<1> QED BY <1>1, <1>2, <1>3, <1>4 DEF t

\* Frames are no calls: a line that is thinned, of more frames, has no more of them.
LEMMA HasThin ==
  ASSUME NEW s \in Seq(Item), NEW fs \in Seq(Evt), NEW t \in Seq(Item), Thin(t, s \o fs),
         NEW S, S \subseteq Res
  PROVE  (Has(t, S) => Has(s, S)) /\ (Lone(s, S) => Lone(t, S))
<1>1. fs \in Seq(Item) /\ s \o fs \in Seq(Item) /\ Range(fs) \subseteq Evt BY EvtSeqs
<1>2. ~ Has(fs, S) BY <1>1, ItemKinds DEF Has
<1>3. Lone(fs, S) BY <1>2 DEF Lone, Has, Range
<1>4. /\ Has(s \o fs, S) <=> Has(s, S) \/ Has(fs, S)
      /\ Lone(s \o fs, S) <=> Lone(s, S) /\ Lone(fs, S) /\ ~ (Has(s, S) /\ Has(fs, S))
  BY <1>1, HasConcat, LoneConcat
<1> DEFINE u == s \o fs
<1>5. u \in Seq(Item) /\ Thin(t, u) BY <1>1
<1> HIDE DEF u
<1>6. Range(t) \subseteq Range(u) BY <1>5, ThinRange
<1>7. Lone(u, S) => Lone(t, S) BY <1>5, ThinLone
<1> QED BY <1>2, <1>3, <1>4, <1>6, <1>7 DEF Has, u

\* A call is asked when none of its kind is under way, or it is of another kind.
LEMMA OneAsks ==
  ASSUME NEW asked \in Seq(Asks), NEW answers, NEW line, NEW Q, NEW S, NEW q \in Asks
  PROVE  /\ q \notin Q /\ One(asked, answers, line, Q, S)
              => One(Append(asked, q), answers, line, Q, S)
         /\ q \notin Q /\ None(asked, answers, line, Q, S)
              => None(Append(asked, q), answers, line, Q, S)
         /\ One(asked, answers, line, Q, S) /\ None(asked, answers, line, Q, S)
              => One(Append(asked, q), answers, line, Q, S)
<1>1. /\ Has(Append(asked, q), Q) <=> Has(asked, Q) \/ q \in Q
      /\ Lone(Append(asked, q), Q) <=> Lone(asked, Q) /\ ~ (Has(asked, Q) /\ q \in Q)
  BY HasAppend
<1> QED BY <1>1 DEF One, None

\* A call is answered: it is no longer asked, its answer waits.
LEMMA OneHandled ==
  ASSUME NEW asked \in Seq(Asks), asked # <<>>, NEW answers \in Seq(Res), NEW line, NEW Q, NEW S,
         NEW a \in Res, Head(asked) \in Q <=> a \in S
  PROVE  /\ One(asked, answers, line, Q, S) => One(Tail(asked), Append(answers, a), line, Q, S)
         /\ None(asked, answers, line, Q, S)
              => None(Tail(asked), Append(answers, a), line, Q, S) /\ Head(asked) \notin Q
         /\ One(asked, answers, line, Q, S) /\ Head(asked) \in Q
              => None(Tail(asked), answers, line, Q, S)
<1>1. /\ Has(asked, Q) <=> Has(Tail(asked), Q) \/ Head(asked) \in Q
      /\ Lone(asked, Q) <=> Lone(Tail(asked), Q) /\ ~ (Has(Tail(asked), Q) /\ Head(asked) \in Q)
  BY HasHead
<1>2. /\ Has(Append(answers, a), S) <=> Has(answers, S) \/ a \in S
      /\ Lone(Append(answers, a), S) <=> Lone(answers, S) /\ ~ (Has(answers, S) /\ a \in S)
  BY HasAppend
<1> QED BY <1>1, <1>2 DEF One, None

\* An answer is written: it no longer waits, it is in the line.
LEMMA OneWritten ==
  ASSUME NEW asked, NEW answers \in Seq(Res), answers # <<>>, NEW line \in Seq(Item), NEW Q, NEW S,
         NEW b \in Item, Head(answers) \in S <=> b \in S
  PROVE  /\ One(asked, answers, line, Q, S) => One(asked, Tail(answers), Append(line, b), Q, S)
         /\ None(asked, answers, line, Q, S) => None(asked, Tail(answers), Append(line, b), Q, S)
         /\ One(asked, answers, line, Q, S) /\ b \in S
              => None(asked, Tail(answers), line, Q, S)
<1>1. /\ Has(answers, S) <=> Has(Tail(answers), S) \/ Head(answers) \in S
      /\ Lone(answers, S) <=> Lone(Tail(answers), S) /\ ~ (Has(Tail(answers), S) /\ Head(answers) \in S)
  BY HasHead
<1>2. /\ Has(Append(line, b), S) <=> Has(line, S) \/ b \in S
      /\ Lone(Append(line, b), S) <=> Lone(line, S) /\ ~ (Has(line, S) /\ b \in S)
  BY HasAppend
<1> QED BY <1>1, <1>2 DEF One, None

\* Frames that are handed to the line leave the calls as they are.
LEMMA OneThin ==
  ASSUME NEW asked, NEW answers, NEW s \in Seq(Item), NEW fs \in Seq(Evt), NEW t \in Seq(Item),
         Thin(t, s \o fs), NEW Q, NEW S, S \subseteq Res
  PROVE  /\ One(asked, answers, s, Q, S) => One(asked, answers, t, Q, S)
         /\ None(asked, answers, s, Q, S) => None(asked, answers, t, Q, S)
<1>1. (Has(t, S) => Has(s, S)) /\ (Lone(s, S) => Lone(t, S)) BY HasThin
<1> QED BY <1>1 DEF One, None

\* The head of the line has left it.
LEMMA OneGot ==
  ASSUME NEW asked, NEW answers, NEW line \in Seq(Item), line # <<>>, NEW Q, NEW S
  PROVE  /\ One(asked, answers, line, Q, S) => One(asked, answers, Tail(line), Q, S)
         /\ None(asked, answers, line, Q, S)
              => None(asked, answers, Tail(line), Q, S) /\ Head(line) \notin S
         /\ One(asked, answers, line, Q, S) /\ Head(line) \in S
              => None(asked, answers, Tail(line), Q, S)
<1>1. /\ Has(line, S) <=> Has(Tail(line), S) \/ Head(line) \in S
      /\ Lone(line, S) <=> Lone(Tail(line), S) /\ ~ (Has(Tail(line), S) /\ Head(line) \in S)
  BY HasHead
<1> QED BY <1>1 DEF One, None

\* A connection with nothing but one call asked, or without.
LEMMA NoCalls ==
  ASSUME NEW asked, NEW answers, NEW line, NEW Q, NEW S, answers = <<>>, line = <<>>
  PROVE  /\ asked = <<>> => One(asked, answers, line, Q, S) /\ None(asked, answers, line, Q, S)
         /\ \A q : asked = <<q>> => One(asked, answers, line, Q, S)
         /\ \A q : asked = <<q>> /\ q \notin Q => None(asked, answers, line, Q, S)
<1>1. \A s, P : s = <<>> => Lone(s, P) /\ ~ Has(s, P) BY DEF Lone, Has, Range
<1>2. \A s, P, q : s = <<q>> => Lone(s, P) /\ (Has(s, P) => q \in P) BY DEF Lone, Has, Range
<1> QED BY <1>1, <1>2 DEF One, None

\* A sequence is thinner than itself with more behind it.
LEMMA ThinMore == ASSUME NEW T, NEW s \in Seq(T), NEW t \in Seq(T) PROVE Thin(s, s \o t)
<1>1. PICK z \in Seq(T) : z = <<>> BY EmptySeq
<1>2. Thin(s \o z, s \o t) BY <1>1, ThinConcat, ThinSelf, ThinEmpty
<1>3. s \o z = s BY <1>1
<1> QED BY <1>2, <1>3

\* Whatever becomes of frames that are handed on, the line only grows by some of them.
LEMMA HandsLine ==
  ASSUME NEW c, NEW o \in Outs, NEW fs \in Seq(Evt), Hands(c, o, fs)
  PROVE  Line(out') \in Seq(Item) /\ Thin(Line(out'), Line(o) \o fs)
<1>1. fs \in Seq(Item) /\ Line(o) \in Seq(Item) BY EvtSeqs DEF Outs, Line
<1>2. CASE out' = o
  <2>1. Thin(Line(o), Line(o) \o fs) BY <1>1, ThinMore
  <2> QED BY <1>1, <1>2, <2>1
<1>3. ASSUME NEW same \in BOOLEAN, out' \in Sent(o, fs, same)
      PROVE  Line(out') \in Seq(Item) /\ Thin(Line(out'), Line(o) \o fs)
  <2>1. out' \in Outs /\ Thin(Line(out'), Line(o) \o fs) BY <1>3, SentIs
  <2> QED BY <2>1 DEF Outs, Line
<1> QED BY <1>2, <1>3 DEF Hands

\* The line, what is asked and what is answered are sequences of their types.
LEMMA LineOK == TypeOK => L \in Seq(Item) /\ conn.asked \in Seq(Asks) /\ conn.answers \in Seq(Res)
  BY DEF TypeOK, Outs, Line, L, Conns

\* A step the reader takes no part in keeps the calls.
LEMMA QuietCalls ==
  ASSUME TypeOK, TypeOK', NEW Q, NEW S, Calling(Q, S), Quiet,
         conn'.asked = conn.asked \/ Q = Subs
  PROVE  KeepsCalls(Q, S)
<1>1. L' = L /\ conn'.answers = conn.answers BY DEF Quiet, LineSame, ConnSame, L
<1>2. CASE conn'.asked = conn.asked BY <1>1, <1>2 DEF KeepsCalls, Once, Never
<1>3. CASE conn'.asked = Append(conn.asked, "window") /\ Q = Subs
  <2>1. "window" \in Asks /\ "window" \notin Q /\ conn.asked \in Seq(Asks)
    BY <1>3, LineOK DEF Asks, Subs
  <2>2. /\ One(conn.asked, conn.answers, L, Q, S)
             => One(Append(conn.asked, "window"), conn.answers, L, Q, S)
        /\ None(conn.asked, conn.answers, L, Q, S)
             => None(Append(conn.asked, "window"), conn.answers, L, Q, S)
    BY <2>1, OneAsks
  <2> QED BY <1>1, <1>3, <2>2 DEF KeepsCalls, Once, Never
<1> QED BY <1>2, <1>3 DEF Quiet

\* Frames that are handed on keep the calls.
LEMMA HandsCalls ==
  ASSUME TypeOK, TypeOK', NEW Q, NEW S, Calling(Q, S), NEW f,
         Emits(f) \/ Recovers(f)
  PROVE  KeepsCalls(Q, S)
<1> DEFINE e == <<f>>
<1>1. f \in Evt /\ e \in Seq(Evt) BY DEF Emits, Recovers
<1>2. S \subseteq Res BY DEF Calling, ToReader, ToWindow
<1> HIDE DEF e
<1>3. PICK o \in Outs : Line(o) = L /\ Hands(conn, o, e)
  <2>1. CASE Emits(f) BY <2>1 DEF Emits, TypeOK, L, e
  <2>2. CASE Recovers(f) BY <2>2 DEF Recovers, Same, L, e
  <2> QED BY <2>1, <2>2
<1>4. L' \in Seq(Item) /\ Thin(L', L \o e) /\ L \in Seq(Item) BY <1>1, <1>3, HandsLine, LineOK DEF L
<1>5. /\ One(conn.asked, conn.answers, L, Q, S) => One(conn.asked, conn.answers, L', Q, S)
      /\ None(conn.asked, conn.answers, L, Q, S) => None(conn.asked, conn.answers, L', Q, S)
  BY <1>1, <1>2, <1>4, OneThin
<1>6. conn'.asked = conn.asked /\ conn'.answers = conn.answers BY <1>3 DEF Hands
<1> QED BY <1>5, <1>6 DEF KeepsCalls, Once, Never

\* A call that is handled keeps the calls of each kind, and leaves none of its own asked.
LEMMA HandlesCalls ==
  ASSUME TypeOK, TypeOK', NEW Q, NEW S, Calling(Q, S), NEW q, NEW a, Handles(q, a)
  PROVE  /\ KeepsCalls(Q, S)
         /\ q \in Q <=> a \in S
         /\ Never(Q, S) => q \notin Q
         /\ Once(Q, S) /\ q \in Q => None(conn'.asked, conn.answers, L', Q, S)
                                     /\ ~ Has(conn.answers, S) /\ ~ Has(L, S)
<1>1. /\ conn.asked # <<>> /\ Head(conn.asked) = q /\ a \in Res
      /\ conn'.asked = Tail(conn.asked) /\ conn'.answers = Append(conn.answers, a)
      /\ L' = L
  BY DEF Handles, L
<1>2. q \in Q <=> a \in S
  <2>1. (q = "subscribe" /\ a.to = "reader") \/ (q = a.to /\ a.to \in {"reader", "window"})
    BY DEF Handles, Res
  <2> QED BY <1>1, <2>1 DEF Calling, Subs, ToReader, ToWindow
<1>3. conn.asked \in Seq(Asks) /\ conn.answers \in Seq(Res) /\ L \in Seq(Item) BY LineOK
<1>4. /\ One(conn.asked, conn.answers, L, Q, S)
           => One(Tail(conn.asked), Append(conn.answers, a), L, Q, S)
      /\ None(conn.asked, conn.answers, L, Q, S)
           => None(Tail(conn.asked), Append(conn.answers, a), L, Q, S) /\ Head(conn.asked) \notin Q
      /\ One(conn.asked, conn.answers, L, Q, S) /\ Head(conn.asked) \in Q
           => None(Tail(conn.asked), conn.answers, L, Q, S)
  BY <1>1, <1>2, <1>3, OneHandled
<1> QED BY <1>1, <1>2, <1>4 DEF KeepsCalls, Once, Never, None

\* An answer that is written keeps the calls of each kind.
LEMMA WrittenCalls ==
  ASSUME TypeOK, TypeOK', NEW Q, NEW S, Calling(Q, S), NEW a, NEW b,
         Writes(a, b) \/ Releases(a, b)
  PROVE  /\ KeepsCalls(Q, S)
         /\ Once(Q, S) /\ a \in S => None(conn.asked, conn'.answers, L, Q, S)
<1>1. /\ conn.answers # <<>> /\ a = Head(conn.answers) /\ a \in Res /\ b \in Res /\ b.to = a.to
      /\ conn'.asked = conn.asked /\ conn'.answers = Tail(conn.answers)
  BY DEF Writes, Releases
<1>2. conn.asked \in Seq(Asks) /\ conn.answers \in Seq(Res) /\ L \in Seq(Item) /\ L' \in Seq(Item)
  BY LineOK DEF TypeOK, Outs, Line, L
<1>3. Head(conn.answers) \in S <=> b \in S BY <1>1 DEF Calling, ToReader, ToWindow
<1>4. /\ One(conn.asked, conn.answers, L, Q, S)
           => One(conn.asked, Tail(conn.answers), Append(L, b), Q, S)
      /\ None(conn.asked, conn.answers, L, Q, S)
           => None(conn.asked, Tail(conn.answers), Append(L, b), Q, S)
      /\ One(conn.asked, conn.answers, L, Q, S) /\ b \in S
           => None(conn.asked, Tail(conn.answers), L, Q, S)
  <2>1. b \in Item BY <1>1 DEF Item
  <2> QED BY <1>1, <1>2, <1>3, <2>1, OneWritten
<1>5. PICK fs \in Seq(Evt) : Thin(L', Append(L, b) \o fs)
  <2>0. Append(L, b) = L \o <<b>> /\ Append(L, b) \in Seq(Item) BY <1>1, <1>2 DEF Item
  <2>1. CASE Writes(a, b)
    <3>1. PICK z \in Seq(Evt) : z = <<>> BY EmptySeq
    <3>2. L' = Append(L, b) BY <2>0, <2>1 DEF Writes, Same, L
    <3>3. z \in Seq(Item) BY <3>1, EvtSeqs
    <3>4. Thin(L', Append(L, b) \o z) BY <2>0, <3>2, <3>3, ThinMore
    <3> QED BY <3>1, <3>4
  <2>2. CASE Releases(a, b)
    <3> DEFINE fs == a.first \o conn.held
    <3>1. fs \in Seq(Evt) BY <1>1 DEF TypeOK, Conns, Res
    <3>2. PICK w \in Outs, same \in BOOLEAN :
            Same(Line(w), Line(out) \o <<b>>) /\ out' \in Sent(w, fs, same)
      BY <2>2 DEF Releases
    <3> HIDE DEF fs
    <3>3. Thin(Line(out'), Line(w) \o fs) BY <3>1, <3>2, SentIs
    <3>4. Line(w) = Append(L, b) BY <2>0, <3>2 DEF Same, L
    <3> QED BY <3>1, <3>3, <3>4 DEF L
  <2> QED BY <2>1, <2>2
<1>6. Append(L, b) \in Seq(Item) /\ S \subseteq Res
  BY <1>1, <1>2 DEF Item, Calling, ToReader, ToWindow
<1> DEFINE l == Append(L, b)
           t == Tail(conn.answers)
<1> HIDE DEF l, t
<1>7. /\ One(conn.asked, t, l, Q, S) => One(conn.asked, t, L', Q, S)
      /\ None(conn.asked, t, l, Q, S) => None(conn.asked, t, L', Q, S)
  BY <1>2, <1>5, <1>6, OneThin DEF l
<1> QED BY <1>1, <1>3, <1>4, <1>7 DEF KeepsCalls, Once, Never, l, t

\* What the head of the line leaves of the calls.
LEMMA GotCalls ==
  ASSUME TypeOK, NEW Q, NEW S, Calling(Q, S), NEW x, Gets(x)
  PROVE  /\ conn'.answers = conn.answers /\ L' = Tail(L) /\ L # <<>> /\ x = Head(L)
         /\ Once(Q, S) => One(conn.asked, conn'.answers, L', Q, S)
         /\ Never(Q, S) => None(conn.asked, conn'.answers, L', Q, S) /\ x \notin S
         /\ Once(Q, S) /\ x \in S => None(conn.asked, conn'.answers, L', Q, S)
<1>1. conn'.answers = conn.answers /\ L' = Tail(L) /\ L # <<>> /\ x = Head(L)
  BY DEF Gets, ConnSame, Same, L
<1>2. L \in Seq(Item) BY LineOK
<1>3. /\ One(conn.asked, conn.answers, L, Q, S) => One(conn.asked, conn.answers, Tail(L), Q, S)
      /\ None(conn.asked, conn.answers, L, Q, S)
           => None(conn.asked, conn.answers, Tail(L), Q, S) /\ Head(L) \notin S
      /\ One(conn.asked, conn.answers, L, Q, S) /\ Head(L) \in S
           => None(conn.asked, conn.answers, Tail(L), Q, S)
  BY <1>1, <1>2, OneGot
<1> QED BY <1>1, <1>3 DEF Once, Never

\* What may be in the line after frames were handed on.
LEMMA HandsRange ==
  ASSUME TypeOK, NEW f, Emits(f) \/ Recovers(f)
  PROVE  /\ f \in Evt /\ L' \in Seq(Item) /\ Range(L') \subseteq Range(L) \cup {f}
         /\ conn'.answers = conn.answers /\ conn'.asked = conn.asked /\ conn'.up = conn.up
         /\ conn'.holding = conn.holding
         /\ \/ ~ conn.up /\ L' = L /\ conn' = conn /\ out' = out
            \/ /\ conn.up /\ conn.holding /\ L' = L /\ (out'.over => out.over)
               /\ conn'.held = Append(conn.held, f) /\ conn'.sentAny = conn.sentAny
            \/ /\ conn.up /\ ~ conn.holding
               /\ conn'.held = conn.held /\ conn'.sentAny = TRUE
<1> DEFINE e == <<f>>
<1>1. f \in Evt /\ e \in Seq(Evt) /\ Range(e) = {f} BY RangeOne DEF Emits, Recovers
<1>h. conn.held \in Seq(Evt) /\ conn.sentAny \in BOOLEAN BY DEF TypeOK, Conns
<1>2. conn.held \o e = Append(conn.held, f) /\ e # <<>> BY <1>1, <1>h
<1> HIDE DEF e
<1>3. PICK o \in Outs : /\ Line(o) = L /\ Hands(conn, o, e) /\ (o.over => out.over)
                        /\ ~ conn.up => o = out
  <2>1. CASE Emits(f) BY <2>1 DEF Emits, TypeOK, L, e
  <2>2. CASE Recovers(f) BY <2>2 DEF Recovers, Same, L, e
  <2> QED BY <2>1, <2>2
<1>4. L' \in Seq(Item) /\ Thin(L', L \o e) /\ L \in Seq(Item) BY <1>1, <1>3, HandsLine, LineOK DEF L
<1>5. Range(L') \subseteq Range(L) \cup {f}
  <2>1. e \in Seq(Item) BY <1>1, EvtSeqs
  <2>2. Range(L \o e) = Range(L) \cup Range(e) /\ L \o e \in Seq(Item) BY <1>4, <2>1, RangeConcat
  <2> DEFINE u == L \o e
  <2>3. u \in Seq(Item) /\ Thin(L', u) BY <1>4, <2>2
  <2> HIDE DEF u
  <2>4. Range(L') \subseteq Range(u) BY <2>3, ThinRange
  <2> QED BY <1>1, <2>2, <2>4 DEF u
<1>6. /\ conn'.up = conn.up /\ conn'.asked = conn.asked /\ conn'.answers = conn.answers
      /\ conn'.holding = conn.holding
      /\ \/ ~ conn.up /\ conn' = conn /\ out' = o
         \/ /\ conn.up /\ conn.holding /\ out' = o
            /\ conn'.held = conn.held \o e /\ conn'.sentAny = conn.sentAny
         \/ /\ conn.up /\ ~ conn.holding /\ conn'.held = conn.held
            /\ conn'.sentAny = (conn.sentAny \/ e # <<>>)
  BY <1>3 DEF Hands
<1>7. out' = o => L' = L /\ (out'.over => out.over) BY <1>3 DEF L
<1> QED BY <1>1, <1>2, <1>3, <1>4, <1>5, <1>6, <1>7, <1>h

\* The answers on their way, before and after a step.
LEMMA TransitHands ==
  ASSUME TypeOK, NEW f, Emits(f) \/ Recovers(f)
  PROVE  InTransit' \subseteq InTransit
<1>1. f \in Evt /\ Range(L') \subseteq Range(L) \cup {f} /\ conn'.answers = conn.answers
  BY HandsRange
<1> QED BY <1>1, ItemKinds DEF InTransit

\* The answers on their way, with the one that is made.
LEMMA TransitHandles ==
  ASSUME TypeOK, NEW q, NEW a, Handles(q, a)
  PROVE  /\ \A x : x \in InTransit' <=> x \in InTransit \/ x = a
         /\ \A x : x \in Range(conn'.answers) <=> x \in Range(conn.answers) \/ x = a
<1>1. a \in Res /\ conn'.answers = Append(conn.answers, a) /\ L' = L BY DEF Handles, L
<1>2. Range(Append(conn.answers, a)) = Range(conn.answers) \cup {a} BY <1>1, LineOK, AppendRange
<1>3. ~ IsEvt(a) BY <1>1, ItemKinds
<1> QED BY <1>1, <1>2, <1>3 DEF InTransit

\* The first of the answers that wait, and the others.
LEMMA AnswersTail ==
  ASSUME TypeOK, conn.answers # <<>>, conn'.answers = Tail(conn.answers)
  PROVE  /\ Head(conn.answers) \in Res /\ Head(conn.answers) \in InTransit
         /\ Range(conn.answers) = {Head(conn.answers)} \cup Range(conn'.answers)
<1>1. conn.answers \in Seq(Res) BY LineOK
<1>2. /\ Head(conn.answers) \in Res
      /\ Range(conn.answers) = {Head(conn.answers)} \cup Range(Tail(conn.answers))
  BY <1>1, RangeHeadTail
<1> QED BY <1>2, ItemKinds DEF InTransit

\* The line with an answer written to it.
LEMMA WrittenRange ==
  ASSUME TypeOK, NEW a, NEW b, Writes(a, b)
  PROVE  L' = Append(L, b) /\ Range(L') = Range(L) \cup {b} /\ Evts(L') = Evts(L)
<1>1. b \in Res /\ L \in Seq(Item) /\ b \in Item BY LineOK DEF Writes, Item
<1>2. L' = Append(L, b)
  <2>1. L' = L \o <<b>> BY DEF Writes, Same, L
  <2> QED BY <1>1, <2>1
<1>3. Range(Append(L, b)) = Range(L) \cup {b} BY <1>1, AppendRange
<1> QED BY <1>1, <1>2, <1>3, ItemKinds DEF Evts

\* The line an answer and the frames it releases are written to.
LEMMA ReleasedLine ==
  ASSUME TypeOK, NEW a, NEW b, Releases(a, b)
  PROVE  \E w \in Outs, fs \in Seq(Evt), same \in BOOLEAN : Frees(a, b, w, fs, same)
<1>1. b \in Res /\ L \in Seq(Item) /\ b \in Item /\ a \in Res BY LineOK DEF Releases, Item
<1> DEFINE fs == a.first \o conn.held
<1>2. fs \in Seq(Evt) BY <1>1 DEF TypeOK, Conns, Res
<1>3. PICK w \in Outs, same \in BOOLEAN :
        /\ Same(Line(w), Line(out) \o <<b>>) /\ w.over = out.over
        /\ out' \in Sent(w, fs, same)
  BY DEF Releases
<1> HIDE DEF fs
<1>4. Line(w) = Append(L, b)
  <2>1. Line(w) = L \o <<b>> BY <1>3 DEF Same, L
  <2> QED BY <1>1, <2>1
<1>5. Range(Append(L, b)) = Range(L) \cup {b} BY <1>1, AppendRange
<1>6. Evts(Line(w)) = Evts(L) BY <1>1, <1>4, <1>5, ItemKinds DEF Evts
<1>7. Frees(a, b, w, fs, same) BY <1>3, <1>4, <1>5, <1>6 DEF Frees, fs
<1> QED BY <1>2, <1>7

\* The answers on their way, once one is written.
LEMMA TransitWritten ==
  ASSUME TypeOK, NEW a, NEW b, Writes(a, b) \/ Releases(a, b)
  PROVE  /\ a \in InTransit /\ a \in Range(conn.answers)
         /\ Range(conn.answers) = {a} \cup Range(conn'.answers)
         /\ \A x \in InTransit' : x \in InTransit \/ x = b
<1>1. /\ conn.answers # <<>> /\ a = Head(conn.answers) /\ b \in Res
      /\ conn'.answers = Tail(conn.answers)
  BY DEF Writes, Releases
<1>2. /\ Head(conn.answers) \in InTransit
      /\ Range(conn.answers) = {Head(conn.answers)} \cup Range(conn'.answers)
  BY <1>1, AnswersTail
<1>3. \A x \in Range(L') : x \in Range(L) \/ x = b \/ IsEvt(x)
  <2>1. CASE Writes(a, b) BY <2>1, WrittenRange
  <2>2. CASE Releases(a, b)
    <3>10. PICK w \in Outs, fs \in Seq(Evt), same \in BOOLEAN : Frees(a, b, w, fs, same)
      BY <2>2, ReleasedLine
    <3>1. out' \in Sent(w, fs, same) /\ Range(Line(w)) = Range(L) \cup {b} BY <3>10 DEF Frees
    <3>2. Thin(L', Line(w) \o fs) BY <3>1, SentIs DEF L
    <3>3. fs \in Seq(Item) /\ Range(fs) \subseteq Evt /\ Line(w) \in Seq(Item)
      BY EvtSeqs DEF Outs, Line
    <3>4. Range(Line(w) \o fs) = Range(Line(w)) \cup Range(fs) /\ Line(w) \o fs \in Seq(Item)
      BY <3>3, RangeConcat
    <3> DEFINE u == Line(w) \o fs
    <3>5. u \in Seq(Item) /\ Thin(L', u) BY <3>2, <3>4
    <3> HIDE DEF u
    <3>6. Range(L') \subseteq Range(u) BY <3>5, ThinRange
    <3> QED BY <3>1, <3>3, <3>4, <3>6, ItemKinds DEF u
  <2> QED BY <2>1, <2>2
<1> QED BY <1>1, <1>2, <1>3 DEF InTransit

\* The answers on their way, once the head of the line has left it.
LEMMA TransitGot ==
  ASSUME TypeOK, NEW x, Gets(x)
  PROVE  /\ conn'.answers = conn.answers /\ L' = Tail(L)
         /\ x \in Item /\ Range(L) = {x} \cup Range(L') /\ L \in Seq(Item)
         /\ L' \in Seq(Item)
         /\ InTransit' \subseteq InTransit /\ (x \in Res => x \in InTransit)
<1>1. conn'.answers = conn.answers /\ L' = Tail(L) /\ L # <<>> /\ x = Head(L)
  BY DEF Gets, ConnSame, Same, L
<1>2. L \in Seq(Item) BY LineOK
<1>3. Head(L) \in Item /\ Tail(L) \in Seq(Item) /\ Range(L) = {Head(L)} \cup Range(Tail(L))
  BY <1>1, <1>2, RangeHeadTail
<1> QED BY <1>1, <1>2, <1>3, ItemKinds DEF InTransit

\* None of them is for the reader, or for the window.
LEMMA TransitIs ==
  ASSUME TypeOK
  PROVE  /\ InTransit \subseteq Res
         /\ \A Q, S, asked : None(asked, conn.answers, L, Q, S) => \A x \in InTransit : x \notin S
<1>1. Range(conn.answers) \subseteq Res /\ Range(L) \subseteq Item BY LineOK, RangeIn
<1>2. InTransit \subseteq Res BY <1>1, ItemKinds DEF InTransit
<1>3. ASSUME NEW Q, NEW S, NEW asked, None(asked, conn.answers, L, Q, S), NEW x \in InTransit
      PROVE  x \notin S
  BY <1>3 DEF None, Has, InTransit
<1> QED BY <1>2, <1>3

-----------------------------------------------------------------------------
(* Calls, kept by the steps of the Host and of the connection *)

\* Nothing the calls depend on changes but for a window that asks.
LEMMA CallsQuiet ==
  ASSUME TypeOK, TypeOK', Calls, Quiet \/ OthersResync
  PROVE  Calls'
<1>1. /\ L' = L /\ conn'.up = conn.up /\ conn'.answers = conn.answers
      /\ conn'.sentAny = conn.sentAny /\ conn'.holding = conn.holding /\ conn'.held = conn.held
      /\ out'.over = out.over /\ epoch' = epoch
      /\ win'.mode = win.mode /\ win'.lastSeq = win.lastSeq /\ win'.buffer = win.buffer
      /\ win'.applied = win.applied
      /\ conn'.asked = conn.asked \/ (conn.up /\ conn'.asked = Append(conn.asked, "window"))
  BY DEF Quiet, OthersResync, HostSame, ReaderSame, ConnSame, LineSame, L
<1>2. InTransit' = InTransit BY <1>1 DEF InTransit
<1>3. KeepsCalls(Subs, ToReader)
  <2>1. CASE Quiet BY <2>1, QuietCalls DEF Calling
  <2>2. CASE OthersResync BY <2>2 DEF OthersResync, KeepsCalls, Once, Never, L
  <2> QED BY <2>1, <2>2
<1>4. Has(conn'.asked, {"subscribe"}) => Has(conn.asked, {"subscribe"})
  <2>1. CASE conn'.asked = Append(conn.asked, "window")
    <3>1. "window" \in Asks /\ conn.asked \in Seq(Asks) /\ "window" \notin {"subscribe"}
      BY LineOK DEF Asks
    <3>2. Has(Append(conn.asked, "window"), {"subscribe"}) <=>
             Has(conn.asked, {"subscribe"}) \/ "window" \in {"subscribe"}
      BY <3>1, HasAppend
    <3> QED BY <2>1, <3>1, <3>2
  <2> QED BY <1>1, <2>1
<1>5. Single' BY <1>1, <1>3 DEF Calls, Single, KeepsCalls, Once, Never
<1>6. Behind' BY <1>1, <1>2 DEF Calls, Behind
<1>7. Down' BY <1>1 DEF Calls, Down
<1>8. Resuming' BY <1>1, <1>2, <1>4 DEF Calls, Resuming
<1> QED BY <1>5, <1>6, <1>7, <1>8 DEF Calls

\* A handler that joins is the reader's only call.
LEMMA CallsJoins ==
  ASSUME TypeOK, TypeOK', Calls, Joins
  PROVE  Calls'
<1>1. /\ L' = L /\ conn'.up = conn.up /\ conn'.answers = conn.answers
      /\ conn'.sentAny = conn.sentAny /\ conn'.holding = conn.holding /\ conn'.held = conn.held
      /\ out'.over = out.over /\ epoch' = epoch /\ conn.up
      /\ win.mode = "live" /\ win'.mode = "reading"
      /\ win'.lastSeq = win.lastSeq /\ win'.buffer = win.buffer /\ win'.applied = win.applied
      /\ conn'.asked = Append(conn.asked, "reader")
  BY DEF Joins, HostSame, ConnSame, LineSame, L
<1>2. InTransit' = InTransit BY <1>1 DEF InTransit
<1>3. Once(Subs, ToReader) /\ Never(Subs, ToReader) BY <1>1 DEF Calls, Single, Once, Never
<1>4. "reader" \in Asks /\ conn.asked \in Seq(Asks) BY LineOK DEF Asks
<1>5. Once(Subs, ToReader)'
  <2>1. One(conn.asked, conn.answers, L, Subs, ToReader)
        /\ None(conn.asked, conn.answers, L, Subs, ToReader)
          => One(Append(conn.asked, "reader"), conn.answers, L, Subs, ToReader)
    BY <1>4, OneAsks
  <2> QED BY <1>1, <1>3, <2>1 DEF Once, Never
<1>6. \A x \in InTransit : x \notin ToReader BY <1>3, TransitIs DEF Never
<1>7. \A x \in InTransit : x.says # "replaying" BY <1>6, TransitIs DEF Calls, Behind, ToReader
<1>8. ~ Has(conn'.asked, {"subscribe"})
  <2>1. Has(Append(conn.asked, "reader"), {"subscribe"}) <=>
             Has(conn.asked, {"subscribe"}) \/ "reader" \in {"subscribe"}
    BY <1>4, HasAppend
  <2>2. ~ Has(conn.asked, {"subscribe"}) BY <1>3 DEF Never, None, Has, Subs
  <2> QED BY <1>1, <2>1, <2>2
<1>9. Single' BY <1>1, <1>5 DEF Single, Once
<1>10. Behind' BY <1>1, <1>2 DEF Calls, Behind
<1>11. Down' BY <1>1 DEF Calls, Down
<1>12. Resuming' BY <1>1, <1>2, <1>7, <1>8 DEF Calls, Resuming
<1> QED BY <1>9, <1>10, <1>11, <1>12 DEF Calls

\* A connection that has nothing yet, or nothing any more.
LEMMA NothingYet ==
  ASSUME conn'.answers = <<>>, L' = <<>>
  PROVE  Range(conn'.answers) = {} /\ Range(L') = {} /\ InTransit' = {} /\ Evts(L') = {}
<1>1. Range(conn'.answers) = {} /\ Range(L') = {} BY DEF Range
<1> QED BY <1>1 DEF InTransit, Evts

\* A new connection has one call, the reader's subscribe.
LEMMA CallsConnects ==
  ASSUME TypeOK, TypeOK', Calls, Connects
  PROVE  Calls'
<1>1. /\ ~ conn.up /\ conn'.up /\ conn'.asked = <<"subscribe">> /\ conn'.answers = <<>>
      /\ conn'.sentAny = FALSE /\ conn'.holding = FALSE /\ conn'.held = <<>>
      /\ win'.mode = "awaiting" /\ epoch' = epoch
      /\ win'.lastSeq = (IF win.applied.epoch = epoch THEN win.applied.seq ELSE NoSeq)
      /\ win'.buffer = win.buffer /\ win'.applied = win.applied /\ L' = L /\ out' = out
  BY DEF Connects, HostSame, L
<1>2. L = <<>> /\ ~ out.over /\ win.mode = "off" /\ win.buffer = <<>> BY <1>1 DEF Calls, Down
<1>3. Range(conn'.answers) = {} /\ InTransit' = {} /\ Evts(L') = {} BY <1>1, <1>2, NothingYet
<1>4. One(conn'.asked, conn'.answers, L', Subs, ToReader) BY <1>1, <1>2, NoCalls
<1>5. Single' BY <1>1, <1>4 DEF Single
<1>6. Behind' BY <1>1, <1>3 DEF Behind
<1>7. Down' BY <1>1 DEF Down
<1>8. Resuming' BY <1>1, <1>2, <1>3 DEF Resuming
<1> QED BY <1>5, <1>6, <1>7, <1>8 DEF Calls

\* A lost connection has no call.
LEMMA CallsHung ==
  ASSUME Hung
  PROVE  Calls' /\ InTransit' = {} /\ L' = <<>> /\ conn'.answers = <<>> /\ conn'.held = <<>>
<1>1. /\ conn' = Closed /\ out' = Idle /\ win'.mode = "off" /\ win'.buffer = <<>>
      /\ win'.lastSeq = NoSeq
  BY DEF Hung
<1>2. /\ ~ conn'.up /\ conn'.asked = <<>> /\ conn'.answers = <<>> /\ ~ conn'.sentAny
      /\ ~ conn'.holding /\ conn'.held = <<>> /\ L' = <<>> /\ ~ out'.over
  BY <1>1, ClosedIs DEF L, Line
<1>3. Range(conn'.answers) = {} /\ InTransit' = {} /\ Evts(L') = {} BY <1>2, NothingYet
<1>4. /\ One(conn'.asked, conn'.answers, L', Subs, ToReader)
      /\ None(conn'.asked, conn'.answers, L', Subs, ToReader)
  BY <1>2, NoCalls
<1>5. Single' BY <1>4 DEF Single
<1>6. Behind' BY <1>2, <1>3 DEF Behind
<1>7. Down' BY <1>1, <1>2 DEF Down
<1>8. Resuming' BY <1>1, <1>2, <1>3 DEF Resuming
<1> QED BY <1>2, <1>3, <1>5, <1>6, <1>7, <1>8 DEF Calls

\* Frames that are handed on leave the calls in order.
LEMMA CallsHands ==
  ASSUME TypeOK, TypeOK', Calls, NEW f, Emits(f) \/ Recovers(f)
  PROVE  Calls'
<1>1. /\ f \in Evt /\ L' \in Seq(Item) /\ Range(L') \subseteq Range(L) \cup {f}
      /\ conn'.answers = conn.answers /\ conn'.asked = conn.asked /\ conn'.up = conn.up
      /\ conn'.holding = conn.holding
      /\ \/ ~ conn.up /\ L' = L /\ conn' = conn /\ out' = out
         \/ /\ conn.up /\ conn.holding /\ L' = L /\ (out'.over => out.over)
            /\ conn'.held = Append(conn.held, f) /\ conn'.sentAny = conn.sentAny
         \/ /\ conn.up /\ ~ conn.holding
            /\ conn'.held = conn.held /\ conn'.sentAny = TRUE
  BY HandsRange
<1>2. /\ win'.mode = win.mode /\ win'.lastSeq = win.lastSeq /\ win'.buffer = win.buffer
      /\ win'.applied = win.applied /\ epoch' = epoch
  BY DEF Emits, Recovers, ReaderSame
<1>3. InTransit' \subseteq InTransit BY TransitHands
<1>4. KeepsCalls(Subs, ToReader) BY HandsCalls DEF Calling
<1>5. Single' BY <1>2, <1>4 DEF Calls, Single, KeepsCalls, Once, Never
<1>6. Behind' BY <1>1, <1>3 DEF Calls, Behind
<1>7. Down' BY <1>1, <1>2 DEF Calls, Down
<1>8. /\ (\A a \in InTransit' : a.says = "replaying" => a \in InTransit)
      /\ (\A a \in Range(conn'.answers) : a.says = "replaying" => ~ conn'.sentAny)
  <2>1. \A a \in Range(conn.answers) : a.says = "replaying" => conn.holding /\ ~ conn.sentAny
    BY DEF Calls, Behind, Resuming, Held
  <2> QED BY <1>1, <1>3, <2>1 DEF Calls, Down
<1>9. (out'.over => conn'.sentAny) /\ (~ conn'.sentAny => Evts(L') = {} /\ win'.buffer = <<>>)
  <2>1. /\ out.over => conn.sentAny
        /\ ~ conn.sentAny => Evts(L) = {} /\ win.buffer = <<>>
    BY DEF Calls, Resuming
  <2> QED BY <1>1, <1>2, <2>1
<1>10. Resuming' BY <1>1, <1>2, <1>3, <1>8, <1>9 DEF Calls, Resuming
<1> QED BY <1>5, <1>6, <1>7, <1>10 DEF Calls

\* A call of the reader is taken up: nothing was on its way to it, nothing is held.
LEMMA TakenUp ==
  ASSUME TypeOK, TypeOK', Calls, NEW q, NEW a, Handles(q, a), q \in Subs
  PROVE  /\ win.mode \notin {"live", "off"} /\ a.to = "reader"
         /\ \A x \in InTransit : x.to # "reader"
         /\ \A x \in Range(conn.answers) : x.says \notin Held /\ x.first = <<>>
         /\ ~ conn.holding /\ conn.held = <<>>
<1>1. Once(Subs, ToReader) /\ (win.mode \in {"live", "off"} => Never(Subs, ToReader))
  BY DEF Calls, Single, Once, Never
<1>2. /\ q \in Subs <=> a \in ToReader
      /\ Never(Subs, ToReader) => q \notin Subs
      /\ Once(Subs, ToReader) /\ q \in Subs => None(conn'.asked, conn.answers, L', Subs, ToReader)
  BY HandlesCalls DEF Calling
<1>3. L' = L BY DEF Handles, L
<1>4. \A x \in InTransit : x \in Res /\ x \notin ToReader BY <1>1, <1>2, <1>3, TransitIs
<1>5. \A x \in Range(conn.answers) : x \in InTransit BY LineOK, RangeIn, ItemKinds DEF InTransit
<1>6. \A x \in Range(conn.answers) : x.says \notin Held /\ x.first = <<>>
  BY <1>4, <1>5 DEF Calls, Behind, ToReader, Held
<1> QED BY <1>1, <1>2, <1>4, <1>6 DEF Calls, Behind, ToReader

\* A call that is handled leaves the calls in order.
LEMMA CallsHandles ==
  ASSUME TypeOK, TypeOK', Calls, NEW q, NEW a, Handles(q, a)
  PROVE  Calls'
<1>1. /\ conn.up /\ conn'.up /\ conn'.asked = Tail(conn.asked) /\ conn.asked # <<>>
      /\ Head(conn.asked) = q /\ a \in Res
      /\ conn'.sentAny = conn.sentAny /\ conn'.held = conn.held
      /\ epoch' = epoch /\ out' = out /\ win' = win /\ L' = L
  BY DEF Handles, L
<1>2. /\ \A x : x \in InTransit' <=> x \in InTransit \/ x = a
      /\ \A x : x \in Range(conn'.answers) <=> x \in Range(conn.answers) \/ x = a
  BY TransitHandles
<1>3. KeepsCalls(Subs, ToReader) BY HandlesCalls DEF Calling
<1>4. \/ /\ q = "subscribe" /\ a.to = "reader" /\ a.says = "live" /\ a.first = <<>>
         /\ win.lastSeq = NoSeq /\ conn'.holding = conn.holding
      \/ /\ q = "subscribe" /\ a.to = "reader" /\ a.says = "replaying"
         /\ win.lastSeq # NoSeq /\ ~ conn.sentAny /\ conn'.holding = TRUE
      \/ /\ q = "subscribe" /\ a.to = "reader" /\ a.says = "resync"
         /\ conn'.holding = TRUE
      \/ /\ q = a.to /\ a.says \in {"page", "refused", "expired"} /\ a.first = <<>>
         /\ conn'.holding = conn.holding
  BY DEF Handles
<1>5. Single' BY <1>1, <1>3 DEF Calls, Single, KeepsCalls, Once, Never
<1>6. Behind'
  <2>1. \A x \in InTransit' : x.says \in {"live", "replaying", "resync"} => x.to = "reader"
    BY <1>2, <1>4 DEF Calls, Behind
  <2>2. \A x \in Range(conn'.answers) : x.says \notin Held => x.first = <<>>
    BY <1>2, <1>4 DEF Calls, Behind, Held
  <2>3. conn'.holding => \E x \in Range(conn'.answers) : x.says \in Held
    BY <1>2, <1>4 DEF Calls, Behind, Held
  <2>4. ~ conn'.holding => conn'.held = <<>> /\ \A x \in Range(conn'.answers) : x.says \notin Held
    BY <1>1, <1>2, <1>4 DEF Calls, Behind, Held
  <2> QED BY <2>1, <2>2, <2>3, <2>4 DEF Behind
<1>7. Down' BY <1>1 DEF Calls, Down
<1>8. Has(conn.asked, {"subscribe"}) <=> Has(conn'.asked, {"subscribe"}) \/ q = "subscribe"
  <2>1. conn.asked \in Seq(Asks) BY LineOK
  <2>2. Has(conn.asked, {"subscribe"}) <=>
          Has(Tail(conn.asked), {"subscribe"}) \/ Head(conn.asked) \in {"subscribe"}
    BY <1>1, <2>1, HasHead
  <2> QED BY <1>1, <2>2
<1>9. Resuming' BY <1>1, <1>2, <1>4, <1>8 DEF Calls, Resuming
<1> QED BY <1>5, <1>6, <1>7, <1>9 DEF Calls

\* An answer that releases nothing leaves the calls in order.
LEMMA CallsWrites ==
  ASSUME TypeOK, TypeOK', Calls, NEW a, NEW b, Writes(a, b)
  PROVE  Calls'
<1>1. /\ conn.up /\ conn'.up /\ conn'.asked = conn.asked /\ a \in Res
      /\ conn'.sentAny = conn.sentAny /\ conn'.held = conn.held /\ conn'.holding = conn.holding
      /\ epoch' = epoch /\ win' = win /\ out'.over = out.over
      /\ a.says \notin Held /\ b.to = a.to /\ b.says = a.says
  BY DEF Writes, HostSame, Held
<1>2. /\ a \in InTransit /\ a \in Range(conn.answers)
      /\ Range(conn.answers) = {a} \cup Range(conn'.answers)
      /\ \A x \in InTransit' : x \in InTransit \/ x = b
  BY TransitWritten
<1>3. KeepsCalls(Subs, ToReader) BY WrittenCalls DEF Calling
<1>4. Evts(L') = Evts(L) BY WrittenRange
<1>5. Single' BY <1>1, <1>3 DEF Calls, Single, KeepsCalls, Once, Never
<1>6. Behind' BY <1>1, <1>2 DEF Calls, Behind
<1>7. Down' BY <1>1 DEF Calls, Down
<1>8. Resuming' BY <1>1, <1>2, <1>4 DEF Calls, Resuming, Held
<1> QED BY <1>5, <1>6, <1>7, <1>8 DEF Calls

\* What is released is all that was held back.
LEMMA Freed ==
  ASSUME TypeOK, TypeOK', Calls, NEW a, NEW b, Releases(a, b)
  PROVE  \A x \in Range(conn'.answers) : x.says \notin Held /\ x.first = <<>>
<1>1. a \in Res /\ a.says \in Held /\ L' \in Seq(Item) BY DEF Releases, Held, TypeOK, Outs, Line, L
<1>2. /\ a \in InTransit /\ a \in Range(conn.answers)
      /\ Range(conn.answers) = {a} \cup Range(conn'.answers)
  BY TransitWritten
<1>3. a \in ToReader BY <1>1, <1>2 DEF Calls, Behind, Held, ToReader
<1>4. None(conn.asked, conn'.answers, L, Subs, ToReader)
  BY <1>3, WrittenCalls DEF Calling, Calls, Single, Once
<1>5. \A x \in Range(conn'.answers) : x \in InTransit /\ x \in Res
  BY <1>2, LineOK, RangeIn, ItemKinds DEF InTransit
<1>6. \A x \in Range(conn'.answers) : x \notin ToReader BY <1>4 DEF None, Has
<1> QED BY <1>2, <1>5, <1>6 DEF Calls, Behind, Held, ToReader

\* An answer that releases frames leaves the calls in order.
LEMMA CallsReleases ==
  ASSUME TypeOK, TypeOK', Calls, NEW a, NEW b, Releases(a, b)
  PROVE  Calls'
<1>1. /\ conn.up /\ conn'.up /\ conn'.asked = conn.asked /\ a \in Res
      /\ conn'.held = <<>> /\ conn'.holding = FALSE
      /\ epoch' = epoch /\ win' = win
      /\ a.says \in Held /\ b.to = a.to /\ b.says = a.says
  BY DEF Releases, HostSame, Held
<1>2. /\ a \in InTransit /\ a \in Range(conn.answers)
      /\ Range(conn.answers) = {a} \cup Range(conn'.answers)
      /\ \A x \in InTransit' : x \in InTransit \/ x = b
  BY TransitWritten
<1>3. KeepsCalls(Subs, ToReader) BY WrittenCalls DEF Calling
<1>4. \A x \in Range(conn'.answers) : x.says \notin Held /\ x.first = <<>> BY Freed
<1>5. Single' BY <1>1, <1>3 DEF Calls, Single, KeepsCalls, Once, Never
<1>6. Behind' BY <1>1, <1>2, <1>4 DEF Calls, Behind
<1>7. Down' BY <1>1 DEF Calls, Down
<1>8. (out'.over => conn'.sentAny) /\ (~ conn'.sentAny => Evts(L') = {} /\ win'.buffer = <<>>)
  <2>10. PICK w \in Outs, fs \in Seq(Evt), same \in BOOLEAN : Frees(a, b, w, fs, same)
    BY ReleasedLine
  <2>1. /\ fs = a.first \o conn.held /\ out' \in Sent(w, fs, same) /\ w.over = out.over
        /\ Evts(Line(w)) = Evts(L)
    BY <2>10 DEF Frees
  <2>2. conn'.sentAny = (conn.sentAny \/ fs # <<>>) BY <2>1 DEF Releases
  <2>3. fs = <<>> => out' = w BY <2>1 DEF Sent
  <2>4. fs = <<>> => Evts(L') = Evts(L) /\ out'.over = out.over BY <2>1, <2>3 DEF L
  <2> QED BY <1>1, <2>2, <2>4 DEF Calls, Resuming
<1>9. Resuming' BY <1>1, <1>2, <1>4, <1>8 DEF Calls, Resuming, Held
<1> QED BY <1>5, <1>6, <1>7, <1>9 DEF Calls

-----------------------------------------------------------------------------
(* The order of the frames, and their versions *)

\* The order of a sequence with one item more.
LEMMA SortedAppend ==
  ASSUME NEW T, NEW s \in Seq(T), NEW e \in T
  PROVE  /\ Evts(Append(s, e)) = Evts(s) \cup {x \in {e} : IsEvt(x)}
         /\ Sorted(Append(s, e)) <=> Sorted(s) /\ Before(Evts(s), {x \in {e} : IsEvt(x)})
<1> DEFINE k == <<e>>
           K == {x \in {e} : IsEvt(x)}
<1>1. k \in Seq(T) /\ Append(s, e) = s \o k /\ Range(k) = {e} BY RangeOne
<1>2. Sorted(k) BY DEF Sorted
<1> HIDE DEF k
<1>3. Evts(k) = K BY <1>1 DEF Evts
<1>4. /\ Evts(s \o k) = Evts(s) \cup Evts(k)
      /\ Sorted(s \o k) <=> Sorted(s) /\ Sorted(k) /\ Before(Evts(s), Evts(k))
  BY <1>1, EvtsConcat, SortedConcat
<1> QED BY <1>1, <1>2, <1>3, <1>4

\* The order of a sequence, from its head and its tail.
LEMMA SortedHead ==
  ASSUME NEW T, NEW s \in Seq(T), s # <<>>
  PROVE  /\ Evts(s) = Evts(Tail(s)) \cup {x \in {Head(s)} : IsEvt(x)}
         /\ Sorted(s) => Sorted(Tail(s)) /\ Before({x \in {Head(s)} : IsEvt(x)}, Evts(Tail(s)))
<1> DEFINE k == <<Head(s)>>
           K == {x \in {Head(s)} : IsEvt(x)}
           t == Tail(s)
<1>1. k \in Seq(T) /\ s = k \o t /\ t \in Seq(T) /\ Range(k) = {Head(s)} BY RangeHeadTail, RangeOne
<1> HIDE DEF k, t
<1>3. Evts(k) = K BY <1>1 DEF Evts
<1>4. /\ Evts(k \o t) = Evts(k) \cup Evts(t)
      /\ Sorted(k \o t) <=> Sorted(k) /\ Sorted(t) /\ Before(Evts(k), Evts(t))
  BY <1>1, EvtsConcat, SortedConcat
<1> QED BY <1>1, <1>3, <1>4 DEF t

\* The frames on their way are frames.
LEMMA UpsOK ==
  ASSUME TypeOK
  PROVE  /\ Range(win.buffer) \subseteq Evt /\ Evts(L) \subseteq Evt /\ Firsts \subseteq Evt
         /\ Range(conn.held) \subseteq Evt /\ Range(ring) \subseteq Evt /\ Ups \subseteq Evt
         /\ \A f \in Ups : f.seq \in Nat /\ f.val \in Nat /\ f.epoch \in Nat
         /\ win.buffer \in Seq(Evt) /\ conn.held \in Seq(Evt) /\ ring \in Seq(Evt)
<1>1. win.buffer \in Seq(Evt) /\ conn.held \in Seq(Evt) /\ ring \in Seq(Evt) /\ L \in Seq(Item)
      /\ conn.answers \in Seq(Res)
  BY LineOK DEF TypeOK, HostOK, Wins, Conns
<1>2. Evts(L) \subseteq Evt BY <1>1, RangeIn, ItemKinds DEF Evts
<1>3. Firsts \subseteq Evt
  <2>0. Range(conn.answers) \subseteq Res BY <1>1, RangeIn
  <2>1. \A a \in Range(conn.answers) : a.first \in Seq(Evt) BY <2>0 DEF Res
  <2>2. \A a \in Range(conn.answers) : Range(a.first) \subseteq Evt BY <2>1, RangeIn
  <2> QED BY <2>2 DEF Firsts
<1>4. Range(win.buffer) \subseteq Evt /\ Range(conn.held) \subseteq Evt /\ Range(ring) \subseteq Evt
  BY <1>1, RangeIn
<1>5. Ups \subseteq Evt BY <1>2, <1>3, <1>4 DEF Ups, Bag, Later
<1>6. \A f \in Ups : f.seq \in Nat /\ f.val \in Nat /\ f.epoch \in Nat BY <1>5 DEF Evt
<1> QED BY <1>1, <1>2, <1>3, <1>4, <1>5, <1>6

\* Answers that release nothing have no frames.
LEMMA NoneFirst ==
  ASSUME \A x \in Range(conn.answers) : x.first = <<>>
  PROVE  Firsts = {}
<1>1. \A x \in Range(conn.answers) : Range(x.first) = {} BY DEF Range
<1> QED BY <1>1 DEF Firsts

\* A step that moves no frame keeps their order.
LEMMA OrderSame ==
  ASSUME Order, Quiet \/ OthersResync \/ Joins
  PROVE  Order' /\ Bag' = Bag /\ Ups' = Ups
<1>1. /\ L' = L /\ conn'.answers = conn.answers /\ conn'.held = conn.held
      /\ win'.buffer = win.buffer /\ ring' = ring
  BY DEF Quiet, OthersResync, Joins, HostSame, ReaderSame, ConnSame, LineSame, L
<1>2. Firsts' = Firsts /\ Later' = Later BY <1>1 DEF Firsts, Later
<1>3. Bag' = Bag /\ Ups' = Ups BY <1>1, <1>2 DEF Bag, Ups
<1> QED BY <1>1, <1>2, <1>3 DEF Order

\* The ring, with the frame that is emitted.
LEMMA RingEmits ==
  ASSUME TypeOK, TypeOK', Order, Stamped, NEW f, Emits(f)
  PROVE  /\ Sorted(ring') /\ Range(ring') \subseteq Range(ring) \cup {f} /\ f \in Range(ring')
         /\ \A g \in Range(ring') : evicted' < g.seq
         /\ evicted <= evicted' /\ evicted' <= seq'
         /\ \A g \in Range(ring) : g \in Range(ring') \/ g.seq <= evicted'
<1> DEFINE e == <<f>>
<1>1. /\ f \in Evt /\ f.seq = seq + 1 /\ seq' = seq + 1 /\ seq \in Nat /\ evicted \in Nat
      /\ ring' = (IF Len(ring) = RingSize THEN Tail(ring) ELSE ring) \o <<f>>
      /\ evicted' = (IF Len(ring) = RingSize THEN Head(ring).seq ELSE evicted)
      /\ ring \in Seq(Evt)
  BY DEF Emits, TypeOK, HostOK
<1>2. /\ ring' \in Seq(Evt) /\ Range(ring') \subseteq Range(ring) \cup {f} /\ f \in Range(ring')
      /\ Thin(ring', ring \o <<f>>)
      /\ Len(ring) # RingSize => Range(ring') = Range(ring) \cup {f}
      /\ Len(ring) = RingSize => /\ ring # <<>> /\ Head(ring) \in Range(ring)
                                 /\ Range(ring) \subseteq Range(ring') \cup {Head(ring)}
                                 /\ Sorted(ring \o <<f>>) => Before({Head(ring)}, Range(ring'))
  BY <1>1, RingIs
<1>3. \A g \in Range(ring) : g.seq \in Nat /\ evicted < g.seq /\ g.seq <= seq
  BY UpsOK DEF Stamped, Ups
<1>4. Sorted(ring \o e) /\ ring \o e \in Seq(Evt)
  <2>1. e \in Seq(Evt) /\ Range(e) = {f} /\ Sorted(e) BY <1>1, RangeOne DEF Sorted
  <2>2. Evts(e) = {f} /\ Evts(ring) = Range(ring) BY <1>1, <2>1, EvtSeqs
  <2> HIDE DEF e
  <2>3. Sorted(ring \o e) <=> Sorted(ring) /\ Sorted(e) /\ Before(Evts(ring), Evts(e))
    BY <1>1, <2>1, SortedConcat
  <2>4. ring \o e \in Seq(Evt) BY <1>1, <2>1
  <2> QED BY <1>1, <1>3, <2>1, <2>2, <2>3, <2>4 DEF Order, Before
<1>5. Sorted(ring')
  <2> DEFINE u == ring \o e
  <2>1. u \in Seq(Evt) /\ Sorted(u) /\ Thin(ring', u) BY <1>2, <1>4
  <2> HIDE DEF u, e
  <2> QED BY <1>2, <2>1, ThinSorted
<1>6. CASE Len(ring) = RingSize
  <2>1. Before({Head(ring)}, Range(ring')) /\ Head(ring) \in Range(ring)
        /\ Range(ring) \subseteq Range(ring') \cup {Head(ring)}
    BY <1>2, <1>4, <1>6
  <2> QED BY <1>1, <1>2, <1>3, <1>5, <1>6, <2>1 DEF Before
<1>7. CASE Len(ring) # RingSize
  <2>1. evicted <= seq BY DEF Stamped
  <2> QED BY <1>1, <1>2, <1>3, <1>5, <1>7, <2>1
<1> QED BY <1>6, <1>7

\* The line and what is held back, with a frame that is handed to the connection.
LEMMA OrderHands ==
  ASSUME TypeOK, TypeOK', Calls, Order, Stamped, NEW f, Emits(f) \/ Recovers(f)
  PROVE  Order' /\ Bag' \subseteq Bag \cup {f} /\ Fresh(f) /\ \A g \in Ups' : g \in Ups \/ g = f
<1> DEFINE e == <<f>>
<1>1. /\ f \in Evt /\ L' \in Seq(Item) /\ Range(L') \subseteq Range(L) \cup {f}
      /\ conn'.answers = conn.answers
      /\ \/ ~ conn.up /\ L' = L /\ conn' = conn /\ out' = out
         \/ /\ conn.up /\ conn.holding /\ L' = L /\ (out'.over => out.over)
            /\ conn'.held = Append(conn.held, f) /\ conn'.sentAny = conn.sentAny
         \/ /\ conn.up /\ ~ conn.holding
            /\ conn'.held = conn.held /\ conn'.sentAny = TRUE
  BY HandsRange
<1>2. /\ f.seq = seq + 1 /\ seq \in Nat /\ win'.buffer = win.buffer /\ Fresh(f)
  BY FramesAssumption DEF Emits, Recovers, ReaderSame, TypeOK, HostOK, Fresh
<1>3. /\ Sorted(ring') /\ Range(ring') \subseteq Range(ring) \cup {f}
  <2>1. CASE Emits(f) BY <2>1, RingEmits
  <2>2. CASE Recovers(f) BY <2>2 DEF Recovers, Order
  <2> QED BY <2>1, <2>2
<1>4. \A g \in Ups : g.seq \in Nat /\ g.seq < f.seq BY <1>2, UpsOK DEF Stamped
<1>5. Evts(L') \subseteq Evts(L) \cup {f} BY <1>1 DEF Evts
<1>6. Sorted(L')
  <2>1. PICK o \in Outs : Line(o) = L /\ Hands(conn, o, e)
    <3>1. CASE Emits(f) BY <3>1 DEF Emits, TypeOK, L
    <3>2. CASE Recovers(f) BY <3>2 DEF Recovers, Same, L
    <3> QED BY <3>1, <3>2
  <2>2. e \in Seq(Evt) BY <1>1
  <2>3. Thin(L', L \o e)
    <3> HIDE DEF e
    <3> QED BY <2>1, <2>2, HandsLine DEF L
  <2>4. f \in Item /\ IsEvt(f) /\ L \in Seq(Item) BY <1>1, LineOK, ItemKinds DEF Item
  <2>5. L \o e = Append(L, f) BY <2>4
  <2>6. Sorted(Append(L, f)) <=> Sorted(L) /\ Before(Evts(L), {x \in {f} : IsEvt(x)})
    BY <2>4, SortedAppend
  <2>7. Sorted(Append(L, f)) /\ Append(L, f) \in Seq(Item)
    BY <1>4, <2>4, <2>6 DEF Order, Before, Ups, Bag
  <2>8. Thin(L', Append(L, f)) BY <2>3, <2>5
  <2> QED BY <1>1, <2>7, <2>8, ThinSorted
<1>7. Firsts' = Firsts /\ \A a \in Range(conn'.answers) : Sorted(a.first) BY <1>1 DEF Firsts, Order
<1>8. Before(Range(win'.buffer), Evts(L')) BY <1>2, <1>4, <1>5 DEF Order, Before, Ups, Bag
<1>9. /\ Sorted(conn'.held) /\ Before(Firsts', Range(conn'.held))
      /\ Later' \subseteq Later \cup {f} /\ Before(Range(win'.buffer) \cup Evts(L'), Later')
  <2>1. CASE ~ conn.up /\ L' = L /\ conn' = conn BY <1>2, <1>7, <2>1 DEF Order, Later
  <2>2. CASE conn.holding /\ L' = L /\ conn'.held = Append(conn.held, f)
    <3>1. /\ conn.held \in Seq(Evt) /\ Evts(conn.held) = Range(conn.held) /\ IsEvt(f)
      BY <1>1, UpsOK, EvtSeqs, ItemKinds
    <3>2. /\ Sorted(Append(conn.held, f))
               <=> Sorted(conn.held) /\ Before(Evts(conn.held), {x \in {f} : IsEvt(x)})
          /\ Range(Append(conn.held, f)) = Range(conn.held) \cup {f}
      BY <1>1, <3>1, SortedAppend, AppendRange
    <3>3. Sorted(conn'.held) BY <1>4, <2>2, <3>1, <3>2 DEF Order, Before, Ups, Bag, Later
    <3>4. Range(conn'.held) = Range(conn.held) \cup {f} /\ Later' = Later \cup {f}
      BY <1>7, <2>2, <3>2 DEF Later
    <3> QED BY <1>2, <1>4, <1>7, <2>2, <3>3, <3>4 DEF Order, Before, Ups, Bag, Later
  <2>3. CASE ~ conn.holding /\ conn'.held = conn.held
    <3>1. conn.held = <<>> /\ \A a \in Range(conn.answers) : a.first = <<>>
      BY <2>3 DEF Calls, Behind
    <3>2. Firsts = {} /\ Range(conn'.held) = {} BY <2>3, <3>1, NoneFirst DEF Range
    <3> QED BY <1>7, <2>3, <3>2 DEF Order, Before, Later
  <2> QED BY <1>1, <2>1, <2>2, <2>3
<1>10. Bag' \subseteq Bag \cup {f} BY <1>2, <1>5, <1>9 DEF Bag
<1>11. Order'
  <2>1. Sorted(win'.buffer) BY <1>2 DEF Order
  <2> QED BY <1>3, <1>6, <1>7, <1>8, <1>9, <2>1 DEF Order
<1> QED BY <1>2, <1>3, <1>10, <1>11 DEF Ups

\* sendEvt, with the frames B ahead of the line.
LEMMA LineThin ==
  ASSUME NEW o \in Outs, NEW fs \in Seq(Evt), NEW same, NEW p \in Sent(o, fs, same), NEW B,
         Sorted(Line(o)), Sorted(fs), Before(Evts(Line(o)), Range(fs)),
         Before(B, Evts(Line(o)) \cup Range(fs)),
         NEW G, \A g : g \in G <=> g \in B \/ g \in Evts(Line(o)) \/ g \in Range(fs),
         NEW H, \A g : g \in H <=> g \in B \/ g \in Evts(Line(p))
  PROVE  /\ Line(p) \in Seq(Item) /\ Sorted(Line(p)) /\ (o.over => p.over)
         /\ Evts(Line(p)) \subseteq Evts(Line(o)) \cup Range(fs)
         /\ H \subseteq G /\ \A g \in G : g \in H \/ Lost(G, p.over, H, g)
<1>1. /\ Line(o) \in Seq(Item) /\ fs \in Seq(Item) /\ Evts(fs) = Range(fs) BY EvtSeqs DEF Outs, Line
<1> DEFINE u == Line(o) \o fs
<1>2. u \in Seq(Item) /\ Sorted(u) /\ Evts(u) = Evts(Line(o)) \cup Range(fs)
  <2>1. Sorted(u) <=> Sorted(Line(o)) /\ Sorted(fs) /\ Before(Evts(Line(o)), Evts(fs))
    BY <1>1, SortedConcat
  <2>2. Evts(u) = Evts(Line(o)) \cup Evts(fs) BY <1>1, EvtsConcat
  <2>3. u \in Seq(Item) BY <1>1
  <2> HIDE DEF u
  <2> QED BY <1>1, <2>1, <2>2, <2>3
<1>3. /\ p \in Outs /\ Thin(Line(p), u) /\ (o.over => p.over)
      /\ \A g \in Evts(u) : g \in Evts(Line(p)) \/ Gone(Evts(u), p, g)
  BY <1>2, SentIs
<1> HIDE DEF u
<1>4. Line(p) \in Seq(Item) BY <1>3 DEF Outs, Line
<1>5. Sorted(Line(p)) BY <1>2, <1>3, <1>4, ThinSorted
<1>6. Evts(Line(p)) \subseteq Evts(u)
  <2>1. Range(Line(p)) \subseteq Range(u) BY <1>2, <1>3, ThinRange
  <2> QED BY <2>1 DEF Evts
<1>7. H \subseteq G BY <1>2, <1>6
<1>8. ASSUME NEW g \in G, g \notin H PROVE Lost(G, p.over, H, g)
  <2>1. g \in Evts(u) /\ g \notin Evts(Line(p)) /\ Evts(u) \subseteq G BY <1>2, <1>8
  <2>2. CASE g.row \in Coalesced /\ \E h \in Evts(u) : h.row = g.row /\ h.seq > g.seq
    BY <2>1, <2>2, FramesAssumption DEF Lost
  <2>3. CASE p.over /\ Before(Evts(Line(p)), {g})
    <3>1. \A x \in B : x.seq < g.seq BY <1>2, <2>1 DEF Before
    <3>2. \A x \in Evts(Line(p)) : x.seq < g.seq BY <2>3 DEF Before
    <3> QED BY <2>3, <3>1, <3>2 DEF Lost
  <2> QED BY <1>3, <2>1, <2>2, <2>3 DEF Gone
<1> QED BY <1>2, <1>3, <1>4, <1>5, <1>6, <1>7, <1>8

\* A call that is handled keeps the order: a replay comes before what is held behind it.
LEMMA OrderHandles ==
  ASSUME TypeOK, TypeOK', Calls, Order, Stamped, NEW q, NEW a, Handles(q, a)
  PROVE  /\ Order'
         /\ \A g : g \in Bag' <=> g \in Bag \/ g \in Range(a.first)
         /\ \A g \in Ups' : g \in Ups \/ Fresh(g)
<1>1. /\ a \in Res /\ conn'.held = conn.held /\ rows' = rows /\ ring' = ring
      /\ win' = win /\ L' = L /\ seq \in Nat /\ a.first \in Seq(Evt)
  BY DEF Handles, L, TypeOK, HostOK, Res
<1>2. \A x : x \in Range(conn'.answers) <=> x \in Range(conn.answers) \/ x = a BY TransitHandles
<1>3. Firsts' = Firsts \cup Range(a.first) BY <1>2 DEF Firsts
<1>4. Later' = Later \cup Range(a.first) BY <1>1, <1>3 DEF Later
<1>5. /\ Bag' = Bag \cup Range(a.first) /\ Ups' = Ups \cup Range(a.first)
      /\ Sorted(win'.buffer) /\ Sorted(L') /\ Before(Range(win'.buffer), Evts(L'))
      /\ Sorted(conn'.held) /\ Sorted(ring')
  BY <1>1, <1>4 DEF Bag, Ups, Order
<1>6. CASE a.first = <<>>
  <2>1. Range(a.first) = {} /\ Sorted(a.first) BY <1>6 DEF Range, Sorted
  <2>2. Firsts' = Firsts /\ Later' = Later BY <1>3, <1>4, <2>1
  <2>3. /\ Before(Range(win'.buffer) \cup Evts(L'), Later') /\ Before(Firsts', Range(conn'.held))
        /\ \A x \in Range(conn'.answers) : Sorted(x.first)
    BY <1>1, <1>2, <2>1, <2>2 DEF Order
  <2>4. Order' BY <1>5, <2>3 DEF Order
  <2> QED BY <1>5, <2>1, <2>4
<1>7. CASE a.first # <<>>
  <2>1. q \in Subs BY <1>7 DEF Handles, Subs
  <2>2. \A x \in Range(conn.answers) : x.first = <<>> BY <2>1, TakenUp
  <2>3. Firsts = {} /\ Range(conn.held) = {}
    <3>1. conn.held = <<>> BY <2>1, TakenUp
    <3> QED BY <2>2, <3>1, NoneFirst DEF Range
  <2>4. CASE a.says = "replaying" /\ a.first = After(win.lastSeq) /\ ~ conn.sentAny
    <3>1. /\ After(win.lastSeq) \in Seq(Evt) /\ Thin(After(win.lastSeq), ring)
          /\ Range(After(win.lastSeq)) = {f \in Range(ring) : f.seq > win.lastSeq}
      BY AfterIs
    <3>2. Sorted(a.first) BY <2>4, <3>1, UpsOK, ThinSorted DEF Order
    <3>3. Range(a.first) \subseteq Ups BY <2>4, <3>1 DEF Ups
    <3>4. Range(win.buffer) \cup Evts(L) = {} BY <2>4 DEF Calls, Resuming, Range
    <3>5. Order'
      <4>1. \A x \in Range(conn'.answers) : Sorted(x.first) BY <1>2, <3>2 DEF Order
      <4>2. Before(Range(win'.buffer) \cup Evts(L'), Later') /\ Before(Firsts', Range(conn'.held))
        BY <1>1, <2>3, <3>4 DEF Before
      <4> QED BY <1>5, <4>1, <4>2 DEF Order
    <3> QED BY <1>5, <3>3, <3>5
  <2>5. CASE a.says = "resync" /\ a.first = <<Frame(Resync, seq + 1, 0)>>
    <3> DEFINE f == Frame(Resync, seq + 1, 0)
    <3>1. f.seq = seq + 1 /\ f.epoch = epoch /\ f.row = Resync BY DEF Frame
    <3>2. Fresh(f) BY <3>1, FramesAssumption DEF Fresh
    <3> HIDE DEF f
    <3>3. a.first = <<f>> BY <2>5 DEF f
    <3>4. Range(a.first) = {f} /\ Sorted(a.first) BY <3>3, RangeOne DEF Sorted
    <3>5. \A g \in Ups : g.seq \in Nat /\ g.seq < f.seq BY <1>1, <3>1, UpsOK DEF Stamped
    <3>6. Order'
      <4>1. \A x \in Range(conn'.answers) : Sorted(x.first) BY <1>2, <3>4 DEF Order
      <4>2. Later' = {f} /\ Before(Firsts', Range(conn'.held))
        BY <1>1, <1>4, <2>3, <3>4 DEF Later, Before
      <4>3. Before(Range(win'.buffer) \cup Evts(L'), Later')
        BY <1>1, <3>5, <4>2 DEF Before, Ups, Bag
      <4> QED BY <1>5, <4>1, <4>2, <4>3 DEF Order
    <3> QED BY <1>5, <3>2, <3>4, <3>6
  <2> QED BY <1>7, <2>4, <2>5 DEF Handles
<1> QED BY <1>6, <1>7

\* An answer that releases nothing keeps the order.
LEMMA OrderWrites ==
  ASSUME TypeOK, TypeOK', Calls, Order, NEW a, NEW b, Writes(a, b)
  PROVE  Order' /\ Bag' = Bag /\ Ups' = Ups
<1>1. /\ conn'.held = conn.held /\ ring' = ring /\ win' = win /\ a.says \notin Held /\ b \in Res
  BY DEF Writes, HostSame, Held
<1>2. a \in Range(conn.answers) /\ Range(conn.answers) = {a} \cup Range(conn'.answers)
  BY TransitWritten
<1>3. L' = Append(L, b) /\ Evts(L') = Evts(L) BY WrittenRange
<1>4. Firsts' = Firsts
  <2>1. a.first = <<>> BY <1>1, <1>2 DEF Calls, Behind
  <2>2. Range(a.first) = {} BY <2>1 DEF Range
  <2> QED BY <1>2, <2>2 DEF Firsts
<1>5. Later' = Later BY <1>1, <1>4 DEF Later
<1>6. Bag' = Bag /\ Ups' = Ups BY <1>1, <1>3, <1>5 DEF Bag, Ups
<1>7. Sorted(L')
  <2>1. b \in Item /\ L \in Seq(Item) /\ ~ IsEvt(b) BY <1>1, LineOK, ItemKinds DEF Item
  <2>2. Sorted(Append(L, b)) <=> Sorted(L) /\ Before(Evts(L), {x \in {b} : IsEvt(x)})
    BY <2>1, SortedAppend
  <2> QED BY <1>3, <2>1, <2>2 DEF Order, Before
<1>8. Order' BY <1>1, <1>2, <1>3, <1>4, <1>5, <1>7 DEF Order
<1> QED BY <1>6, <1>8

\* What was held back follows the result.
LEMMA OrderReleases ==
  ASSUME TypeOK, TypeOK', Calls, Order, NEW a, NEW b, Releases(a, b)
  PROVE  /\ Order' /\ Bag' \subseteq Bag /\ Ups' \subseteq Ups /\ (out.over => out'.over)
         /\ \A g \in Bag : g \in Bag' \/ Lost(Bag, out'.over, Bag', g)
<1>1. /\ conn'.held = <<>> /\ ring' = ring /\ win' = win BY DEF Releases, HostSame
<1>2. a \in Range(conn.answers) /\ Range(conn.answers) = {a} \cup Range(conn'.answers)
  BY TransitWritten
<1>3. \A x \in Range(conn'.answers) : x.says \notin Held /\ x.first = <<>> BY Freed
<1>4. Firsts' = {} /\ Range(conn'.held) = {} /\ Later' = {}
  <2>1. \A x \in Range(conn'.answers) : Range(x.first) = {} BY <1>3 DEF Range
  <2>2. \A f : f \notin Firsts' BY <2>1 DEF Firsts
  <2>3. Range(conn'.held) = {} BY <1>1 DEF Range
  <2> QED BY <2>2, <2>3 DEF Later
<1>5. Firsts = Range(a.first)
  <2>1. \A x \in Range(conn'.answers) : Range(x.first) = {} BY <1>3 DEF Range
  <2> QED BY <1>2, <2>1 DEF Firsts
<1>60. PICK w \in Outs, fs \in Seq(Evt), same \in BOOLEAN : Frees(a, b, w, fs, same) BY ReleasedLine
<1>6. /\ fs = a.first \o conn.held /\ out' \in Sent(w, fs, same) /\ w.over = out.over
      /\ Line(w) = Append(L, b) /\ Evts(Line(w)) = Evts(L)
  BY <1>60 DEF Frees
<1>7. Range(fs) = Later /\ Sorted(fs)
  <2>1. a.first \in Seq(Evt) /\ conn.held \in Seq(Evt) BY UpsOK DEF Releases, Res
  <2>2. /\ Range(a.first \o conn.held) = Range(a.first) \cup Range(conn.held)
        /\ Sorted(a.first \o conn.held)
             <=> Sorted(a.first) /\ Sorted(conn.held) /\ Before(Evts(a.first), Evts(conn.held))
    BY <2>1, RangeConcat, SortedConcat
  <2>3. Evts(a.first) = Range(a.first) /\ Evts(conn.held) = Range(conn.held) BY <2>1, EvtSeqs
  <2> QED BY <1>2, <1>5, <1>6, <2>2, <2>3 DEF Order, Later
<1>8. Sorted(Line(w))
  <2>1. b \in Item /\ L \in Seq(Item) /\ ~ IsEvt(b) BY LineOK, ItemKinds DEF Item, Releases
  <2>2. Sorted(Append(L, b)) <=> Sorted(L) /\ Before(Evts(L), {x \in {b} : IsEvt(x)})
    BY <2>1, SortedAppend
  <2> QED BY <1>6, <2>1, <2>2 DEF Order, Before
<1>9. /\ Before(Evts(Line(w)), Range(fs))
      /\ Before(Range(win.buffer), Evts(Line(w)) \cup Range(fs))
  BY <1>6, <1>7 DEF Order, Before
<1>10. /\ \A g : g \in Bag <=> g \in Range(win.buffer) \/ g \in Evts(Line(w)) \/ g \in Range(fs)
       /\ \A g : g \in Bag' <=> g \in Range(win.buffer) \/ g \in Evts(Line(out'))
  BY <1>1, <1>4, <1>6, <1>7 DEF Bag, L
<1>11. /\ Line(out') \in Seq(Item) /\ Sorted(Line(out')) /\ (w.over => out'.over)
       /\ Evts(Line(out')) \subseteq Evts(Line(w)) \cup Range(fs)
       /\ Bag' \subseteq Bag /\ \A g \in Bag : g \in Bag' \/ Lost(Bag, out'.over, Bag', g)
  <2> DEFINE p == out'
             H == Bag'
             B == Range(win.buffer)
  <2>1. p \in Sent(w, fs, same) /\ Sorted(Line(w)) /\ Sorted(fs)
        /\ Before(Evts(Line(w)), Range(fs)) /\ Before(B, Evts(Line(w)) \cup Range(fs))
    BY <1>6, <1>7, <1>8, <1>9
  <2>2. /\ \A g : g \in Bag <=> g \in B \/ g \in Evts(Line(w)) \/ g \in Range(fs)
        /\ \A g : g \in H <=> g \in B \/ g \in Evts(Line(p))
    BY <1>10
  <2> HIDE DEF p, H, B
  <2>3. /\ Line(p) \in Seq(Item) /\ Sorted(Line(p)) /\ (w.over => p.over)
        /\ Evts(Line(p)) \subseteq Evts(Line(w)) \cup Range(fs)
        /\ H \subseteq Bag /\ \A g \in Bag : g \in H \/ Lost(Bag, p.over, H, g)
    BY <2>1, <2>2, LineThin
  <2> QED BY <2>3 DEF p, H
<1>12. Order'
  <2>1. Before(Range(win'.buffer), Evts(L')) BY <1>1, <1>9, <1>11 DEF Before, L
  <2>2. Sorted(conn'.held) /\ \A x \in Range(conn'.answers) : Sorted(x.first)
    BY <1>1, <1>3 DEF Sorted
  <2>3. /\ Before(Range(win'.buffer) \cup Evts(L'), Later') /\ Before(Firsts', Range(conn'.held))
    BY <1>4 DEF Before
  <2>4. Sorted(win'.buffer) /\ Sorted(L') /\ Sorted(ring') BY <1>1, <1>11 DEF Order, L
  <2> QED BY <2>1, <2>2, <2>3, <2>4 DEF Order
<1> QED BY <1>1, <1>6, <1>11, <1>12 DEF Ups

\* A new connection has no frame.
LEMMA OrderConnects ==
  ASSUME TypeOK, TypeOK', Calls, Order, Connects
  PROVE  Order' /\ Bag' = {} /\ Ups' \subseteq Ups
<1>1. /\ ~ conn.up /\ conn'.answers = <<>> /\ conn'.held = <<>> /\ L' = L /\ ring' = ring
      /\ win'.buffer = win.buffer
  BY DEF Connects, HostSame, L
<1>2. L = <<>> /\ win.buffer = <<>> BY <1>1 DEF Calls, Down
<1>3. /\ Range(conn'.answers) = {} /\ Evts(L') = {} /\ Range(conn'.held) = {}
      /\ Range(win'.buffer) = {} /\ Sorted(conn'.held) /\ Sorted(L') /\ Sorted(win'.buffer)
  BY <1>1, <1>2, NothingYet DEF Range, Sorted
<1>4. Firsts' = {} /\ Later' = {} /\ Bag' = {} BY <1>3 DEF Firsts, Later, Bag
<1> QED BY <1>1, <1>3, <1>4 DEF Order, Before, Ups

\* A lost connection keeps the ring's frames, or the Host's next life none.
LEMMA OrderHung ==
  ASSUME TypeOK, Calls, Order, Hung
  PROVE  /\ Order' /\ Bag' = {} /\ Ups' = Range(ring')
         /\ \/ HostSame
            \/ epoch' = epoch + 1 /\ seq' = 0 /\ Range(ring') = {} /\ evicted' = 0
<1>1. /\ InTransit' = {} /\ L' = <<>> /\ conn'.answers = <<>> /\ conn'.held = <<>>
      /\ win'.buffer = <<>>
  BY CallsHung DEF Hung
<1>3. /\ Range(conn'.answers) = {} /\ Evts(L') = {} /\ Range(conn'.held) = {}
      /\ Range(win'.buffer) = {} /\ Sorted(conn'.held) /\ Sorted(L') /\ Sorted(win'.buffer)
  BY <1>1, NothingYet DEF Range, Sorted
<1>4. Firsts' = {} /\ Later' = {} /\ Bag' = {} BY <1>3 DEF Firsts, Later, Bag
<1>5. /\ Sorted(ring')
      /\ \/ HostSame
         \/ epoch' = epoch + 1 /\ seq' = 0 /\ Range(ring') = {} /\ evicted' = 0
  BY DEF Hung, Order, Sorted, HostSame, Range
<1> QED BY <1>1, <1>3, <1>4, <1>5 DEF Order, Before, Ups

\* Such a step keeps the stamps: what is new has the next seq of this epoch.
LEMMA StampedFlows ==
  ASSUME TypeOK, TypeOK', Stamped, Flows
  PROVE  Stamped'
<1>1. seq \in Nat /\ seq' \in Nat /\ win.applied \in Stamps BY DEF TypeOK, HostOK, Wins
<1>2. \A f \in Ups' : f.seq <= seq' /\ f.epoch = epoch'
  <2>1. \A f \in Ups : f.seq \in Nat /\ f.seq <= seq /\ f.epoch = epoch BY UpsOK DEF Stamped
  <2> QED BY <1>1, <2>1 DEF Flows, Fresh
<1>3. \A x \in InTransit' : x.seq <= seq'
  <2>1. \A y \in InTransit : y.seq \in Nat /\ y.seq <= seq BY TransitIs DEF Stamped, Res
  <2> QED BY <1>1, <2>1 DEF Flows, Twin
<1>4. /\ win'.applied.epoch <= epoch'
      /\ win'.applied.epoch = epoch' => win'.applied.seq <= seq'
  BY <1>1 DEF Flows, Stamped, Stamps
<1> QED BY <1>2, <1>3, <1>4 DEF Stamped, Flows

\* Such a step keeps the versions in time with the seqs.
LEMMA TimelyFlows ==
  ASSUME TypeOK, TypeOK', Stamped, Timely, Flows
  PROVE  Timely'
<1>1. /\ seq \in Nat /\ rows \in Boards /\ rows' \in Boards /\ win.board \in Boards
      /\ win.applied \in Stamps
  BY DEF TypeOK, HostOK, Wins
<1>2. \A r \in Rows : rows[r] \in Nat /\ rows'[r] \in Nat /\ win.board[r] \in Nat
                      /\ rows[r] <= rows'[r]
  BY <1>1 DEF Boards, Flows
<1>3. \A f \in Ups : /\ f.seq \in Nat /\ f.val \in Nat /\ f.seq <= seq
                     /\ (f.row \in Rows => f.val <= rows[f.row])
  BY UpsOK DEF Stamped, Timely
<1>4. \A f \in Ups' : f \in Ups \/ (f.seq = seq + 1 /\ (f.row \in Rows =>
                                     rows'[f.row] = f.val /\ rows[f.row] < f.val))
  BY DEF Flows, Fresh
<1>5. \A f \in Ups' : f.row \in Rows => f.val <= rows'[f.row] BY <1>2, <1>3, <1>4
<1>6. ASSUME NEW f \in Ups', NEW g \in Ups', f.row \in Rows, g.row = f.row, f.seq < g.seq
      PROVE  f.val < g.val
  <2>1. CASE f \in Ups /\ g \in Ups BY <1>6, <2>1 DEF Timely
  <2>2. CASE f \in Ups /\ g \notin Ups
    <3>1. rows[f.row] < g.val /\ f.val <= rows[f.row] /\ g.val = rows'[f.row]
      BY <1>3, <1>4, <1>6, <2>2
    <3> QED BY <1>2, <1>3, <1>6, <2>2, <3>1
  <2>3. CASE f \notin Ups
    <3>1. f.seq = seq + 1 /\ g.seq <= seq + 1 /\ g.seq \in Nat BY <1>1, <1>3, <1>4, <2>3
    <3> QED BY <1>1, <1>6, <3>1
  <2> QED BY <2>1, <2>2, <2>3
<1>7. Below(win'.board, rows')
  <2>1. Below(win.board, rows) BY DEF Timely
  <2> QED BY <1>2, <2>1 DEF Below, Flows
<1>9. win'.applied.epoch = epoch' => Ahead(win.board, win.applied.seq)'
  <2> SUFFICES ASSUME win'.applied.epoch = epoch' PROVE Ahead(win.board, win.applied.seq)' OBVIOUS
  <2>1. Ahead(win.board, win.applied.seq) /\ Below(win.board, rows) BY DEF Flows, Timely
  <2>2. \A f \in Ups : f.row \in Rows /\ f.seq > win.applied.seq => f.val >= win.board[f.row]
    BY <2>1 DEF Ahead
  <2>3. \A f \in Ups' : f.row \in Rows /\ f.seq > win.applied.seq => f.val >= win.board[f.row]
    BY <1>2, <1>4, <2>1, <2>2 DEF Below
  <2> QED BY <2>3 DEF Ahead, Flows
<1>10. ASSUME NEW x \in InTransit', PageFor(x)'
       PROVE  Below(x.rows, rows') /\ Ahead(x.rows, x.seq)' /\ Below(win'.board, x.rows)
  <2>1. CASE \E y \in InTransit : Twin(x, y)
    <3>1. PICK y \in InTransit : Twin(x, y) BY <2>1
    <3>2. PageFor(y) /\ y.rows \in Boards BY <1>10, <3>1, TransitIs DEF PageFor, Twin, Res
    <3>3. Below(y.rows, rows) /\ Ahead(y.rows, y.seq) /\ Below(win.board, y.rows) BY <3>2 DEF Timely
    <3>4. x.rows = y.rows /\ x.seq = y.seq /\ win'.board = win.board BY <3>1 DEF Twin, Flows
    <3>5. \A r \in Rows : y.rows[r] \in Nat BY <3>2 DEF Boards
    <3>6. Below(x.rows, rows') BY <1>2, <3>3, <3>4, <3>5 DEF Below
    <3>7. \A f \in Ups' : f.row \in Rows /\ f.seq > x.seq => f.val >= x.rows[f.row]
      BY <1>2, <1>4, <3>3, <3>4, <3>5 DEF Ahead, Below
    <3> QED BY <3>3, <3>4, <3>6, <3>7 DEF Ahead
  <2>2. CASE x.seq = seq /\ x.rows = rows /\ rows' = rows
    <3>1. \A f \in Ups' : f.row \in Rows /\ f.seq > x.seq => f.val >= x.rows[f.row]
      BY <1>1, <1>2, <1>3, <1>4, <2>2
    <3>2. Below(x.rows, rows') /\ Below(win'.board, x.rows) BY <1>2, <1>7, <2>2 DEF Below
    <3> QED BY <3>1, <3>2 DEF Ahead
  <2> QED BY <1>10, <2>1, <2>2 DEF Flows
<1> QED BY <1>5, <1>6, <1>7, <1>9, <1>10 DEF Timely

\* An answer is its own twin.
LEMMA TwinSelf == \A x : Twin(x, x)
  BY DEF Twin

\* A step that moves no frame is such a step.
LEMMA FlowsSame ==
  ASSUME TypeOK, Order, Stamped, Quiet \/ OthersResync \/ Joins
  PROVE  Flows /\ InTransit' = InTransit
<1>1. /\ L' = L /\ conn'.answers = conn.answers /\ ring' = ring /\ evicted' = evicted
      /\ rows' = rows /\ epoch' = epoch /\ (seq' = seq \/ seq' = seq + 1) /\ seq \in Nat
      /\ win'.board = win.board /\ win'.applied = win.applied /\ evicted \in Nat
  BY DEF Quiet, OthersResync, Joins, HostSame, ReaderSame, ConnSame, LineSame, L, TypeOK, HostOK
<1>2. InTransit' = InTransit BY <1>1 DEF InTransit
<1>3. Ups' = Ups BY OrderSame
<1>4. \A r \in Rows : rows[r] <= rows'[r] BY <1>1 DEF TypeOK, HostOK, Boards
<1>5. (\A g \in Range(ring') : evicted' < g.seq) /\ evicted' <= seq' BY <1>1 DEF Stamped
<1> QED BY <1>1, <1>2, <1>3, <1>4, <1>5, TwinSelf DEF Flows

\* So is one that hands a frame to the connection.
LEMMA FlowsHands ==
  ASSUME TypeOK, TypeOK', Calls, Order, Stamped, NEW f, Emits(f) \/ Recovers(f)
  PROVE  Flows
<1>1. Fresh(f) /\ \A g \in Ups' : g \in Ups \/ g = f BY OrderHands
<1>2. InTransit' \subseteq InTransit BY TransitHands
<1>3. /\ epoch' = epoch /\ seq' = seq + 1 /\ seq \in Nat
      /\ win'.board = win.board /\ win'.applied = win.applied
  BY DEF Emits, Recovers, ReaderSame, TypeOK, HostOK
<1>4. \A r \in Rows : rows[r] <= rows'[r]
  <2>1. CASE Emits(f) BY <2>1 DEF Emits
  <2>2. CASE Recovers(f) BY <2>2 DEF Recovers, TypeOK, HostOK, Boards
  <2> QED BY <2>1, <2>2
<1>5. (\A g \in Range(ring') : evicted' < g.seq) /\ evicted' <= seq'
  <2>1. CASE Emits(f) BY <2>1, RingEmits
  <2>2. CASE Recovers(f) BY <1>3, <2>2 DEF Recovers, Stamped, TypeOK, HostOK
  <2> QED BY <2>1, <2>2
<1> QED BY <1>1, <1>2, <1>3, <1>4, <1>5, TwinSelf DEF Flows

\* So is the handling of a call.
LEMMA FlowsHandles ==
  ASSUME TypeOK, TypeOK', Calls, Order, Stamped, NEW q, NEW a, Handles(q, a)
  PROVE  Flows
<1>1. \A g \in Ups' : g \in Ups \/ Fresh(g) BY OrderHandles
<1>2. \A x : x \in InTransit' <=> x \in InTransit \/ x = a BY TransitHandles
<1>3. /\ epoch' = epoch /\ (seq' = seq \/ seq' = seq + 1) /\ seq \in Nat
      /\ win' = win /\ rows' = rows /\ ring' = ring /\ evicted' = evicted
      /\ a.seq = seq /\ a.rows = rows /\ evicted \in Nat
  BY DEF Handles, TypeOK, HostOK
<1>4. \A r \in Rows : rows[r] <= rows'[r] BY <1>3 DEF TypeOK, HostOK, Boards
<1>5. (\A g \in Range(ring') : evicted' < g.seq) /\ evicted' <= seq' BY <1>3 DEF Stamped
<1>6. \A g \in Ups' : g \in Ups \/ (Fresh(g) /\ seq' = seq + 1)
  <2>1. CASE seq' = seq + 1 BY <1>1, <2>1
  <2>2. CASE seq' = seq
    <3>1. \A g \in Range(a.first) : g \in Ups
      <4>1. CASE a.first = <<>> BY <4>1 DEF Range
      <4>2. CASE a.first = After(win.lastSeq)
        <5>1. Range(After(win.lastSeq)) = {g \in Range(ring) : g.seq > win.lastSeq} BY AfterIs
        <5> QED BY <4>2, <5>1 DEF Ups
      <4>3. seq' # seq + 1 BY <1>3, <2>2
      <4> QED BY <4>1, <4>2, <4>3 DEF Handles
    <3>2. \A g : g \in Bag' <=> g \in Bag \/ g \in Range(a.first) BY OrderHandles
    <3> QED BY <1>3, <3>1, <3>2 DEF Ups
  <2> QED BY <1>3, <2>1, <2>2
<1> QED BY <1>2, <1>3, <1>4, <1>5, <1>6, TwinSelf DEF Flows

\* So is the writing of an answer.
LEMMA FlowsWritten ==
  ASSUME TypeOK, TypeOK', Calls, Order, Stamped, NEW a, NEW b, Writes(a, b) \/ Releases(a, b)
  PROVE  Flows /\ \A x \in InTransit' : \E y \in InTransit : Twin(x, y)
<1>1. Ups' \subseteq Ups BY OrderWrites, OrderReleases
<1>2. /\ a \in InTransit /\ \A x \in InTransit' : x \in InTransit \/ x = b BY TransitWritten
<1>3. /\ epoch' = epoch /\ seq' = seq /\ seq \in Nat
      /\ win' = win /\ rows' = rows /\ ring' = ring /\ evicted' = evicted
      /\ Twin(b, a) /\ evicted \in Nat
  BY DEF Writes, Releases, Twin, HostSame, TypeOK, HostOK
<1>4. \A r \in Rows : rows[r] <= rows'[r] BY <1>3 DEF TypeOK, HostOK, Boards
<1>5. (\A g \in Range(ring') : evicted' < g.seq) /\ evicted' <= seq' BY <1>3 DEF Stamped
<1>6. \A x \in InTransit' : \E y \in InTransit : Twin(x, y) BY <1>2, <1>3, TwinSelf
<1> QED BY <1>1, <1>3, <1>4, <1>5, <1>6 DEF Flows

\* So is a new connection.
LEMMA FlowsConnects ==
  ASSUME TypeOK, TypeOK', Calls, Order, Stamped, Connects
  PROVE  Flows /\ InTransit' = {}
<1>1. Ups' \subseteq Ups BY OrderConnects
<1>2. InTransit' = {}
  <2>1. conn'.answers = <<>> /\ L' = <<>> BY DEF Connects, L, Calls, Down
  <2> QED BY <2>1, NothingYet
<1>3. /\ epoch' = epoch /\ seq' = seq /\ seq \in Nat
      /\ win'.board = win.board /\ win'.applied = win.applied
      /\ rows' = rows /\ ring' = ring /\ evicted' = evicted /\ evicted \in Nat
  BY DEF Connects, HostSame, TypeOK, HostOK
<1>4. \A r \in Rows : rows[r] <= rows'[r] BY <1>3 DEF TypeOK, HostOK, Boards
<1>5. (\A g \in Range(ring') : evicted' < g.seq) /\ evicted' <= seq' BY <1>3 DEF Stamped
<1> QED BY <1>1, <1>2, <1>3, <1>4, <1>5 DEF Flows

\* A connection that is lost leaves the ring; a Host that stops leaves nothing.
LEMMA HungFlows ==
  ASSUME TypeOK, TypeOK', Calls, Order, Stamped, Timely, Hung
  PROVE  Stamped' /\ Timely'
<1>1. /\ InTransit' = {} /\ Ups' = Range(ring')
      /\ \/ HostSame
         \/ epoch' = epoch + 1 /\ seq' = 0 /\ Range(ring') = {} /\ evicted' = 0
  BY CallsHung, OrderHung
<1>2. /\ win'.board = win.board /\ win'.applied = win.applied
      /\ \A r \in Rows : rows[r] <= rows'[r]
  BY DEF Hung
<1>3. /\ win.applied \in Stamps /\ epoch \in Nat /\ \A r \in Rows : rows[r] \in Nat
         /\ rows'[r] \in Nat /\ win.board[r] \in Nat
  BY DEF TypeOK, HostOK, Wins, Boards
<1>4. Below(win'.board, rows') BY <1>2, <1>3 DEF Timely, Below
<1>5. CASE HostSame
  <2>1. Ups' \subseteq Ups BY <1>1, <1>5 DEF HostSame, Ups
  <2>2. Stamped' BY <1>1, <1>2, <1>5, <2>1 DEF Stamped, HostSame
  <2>3. win'.applied.epoch = epoch' => Ahead(win.board, win.applied.seq)'
    BY <1>2, <1>5, <2>1 DEF Timely, HostSame, Ahead
  <2>4. Timely' BY <1>1, <1>4, <1>5, <2>1, <2>3 DEF Timely, HostSame, PageFor
  <2> QED BY <2>2, <2>4
<1>6. CASE epoch' = epoch + 1 /\ seq' = 0 /\ Range(ring') = {} /\ evicted' = 0
  <2>1. win'.applied.epoch <= epoch' /\ win'.applied.epoch # epoch'
    <3>1. win.applied.epoch \in Nat /\ win.applied.epoch <= epoch BY <1>3 DEF Stamps, Stamped
    <3> QED BY <1>2, <1>3, <1>6, <3>1
  <2>2. Stamped' BY <1>1, <1>6, <2>1 DEF Stamped
  <2>3. Timely' BY <1>1, <1>4, <1>6, <2>1 DEF Timely, PageFor
  <2> QED BY <2>2, <2>3
<1> QED BY <1>1, <1>5, <1>6

-----------------------------------------------------------------------------
(* What feeds the reader, through the steps of the Host *)

\* The seqs of the frames, and of the ring, are those of the Host's past.
LEMMA SeqsOK ==
  ASSUME TypeOK, Stamped
  PROVE  /\ Seqs(Bag, seq) /\ Seqs(Range(ring), seq) /\ evicted <= seq
         /\ seq \in Nat /\ evicted \in Nat /\ out.over \in BOOLEAN
         /\ \A g \in Bag : g \in Ups /\ g.seq \in Nat
<1>1. \A f \in Ups : f.seq \in Nat /\ f.seq <= seq BY UpsOK DEF Stamped
<1> QED BY <1>1 DEF Seqs, Ups, Stamped, TypeOK, HostOK, Outs

\* A reader to which something is owed is connected, and its state is of this epoch.
LEMMA OwedIs ==
  ASSUME TypeOK, Calls, Stamped, NEW b \in Boards, NEW s \in Nat, Owed(b, s)
  PROVE  s <= seq /\ conn.up /\ (conn.holding => ~ out.over)
<1>0. InTransit \subseteq Res /\ NoSeq \notin Nat BY TransitIs DEF NoSeq
<1>1. s <= seq
  <2>1. CASE win.mode = "live" /\ s = win.lastSeq BY <2>1 DEF Calls, Down, Stamped
  <2>2. CASE (\E a \in InTransit : a.says = "replaying") /\ s = win.lastSeq
    BY <1>0, <2>2 DEF Calls, Resuming, Stamped
  <2>3. CASE \E a \in InTransit : s = a.seq BY <2>3 DEF Stamped
  <2> QED BY <2>1, <2>2, <2>3 DEF Owed
<1>2. conn.up
  <2> SUFFICES ASSUME ~ conn.up PROVE FALSE OBVIOUS
  <2>1. conn.answers = <<>> /\ L = <<>> /\ win.mode = "off" BY DEF Calls, Down
  <2>2. InTransit = {} BY <2>1 DEF InTransit, Range
  <2> QED BY <2>1, <2>2 DEF Owed, PageFor
<1>3. ASSUME conn.holding PROVE ~ out.over
  <2>1. PICK a \in Range(conn.answers) : a.says \in Held BY <1>3 DEF Calls, Behind
  <2>2. a \in InTransit /\ a \in ToReader
    <3>1. a \in InTransit BY LineOK, RangeIn, ItemKinds DEF InTransit
    <3> QED BY <1>0, <2>1, <3>1 DEF Calls, Behind, Held, ToReader
  <2>3. Once(Subs, ToReader) /\ Has(conn.answers, ToReader) BY <2>2 DEF Calls, Single, Once, Has
  <2>4. \A x \in InTransit : x \in ToReader => x = a
    <3>1. ~ Has(L, ToReader) /\ Lone(conn.answers, ToReader) BY <2>3 DEF Once, One
    <3> QED BY <2>2, <3>1 DEF InTransit, Has, Lone, Range
  <2>5. win.mode # "live" BY <2>3 DEF Calls, Single, None
  <2>6. \A x \in InTransit : x.says = "replaying" \/ PageFor(x) => x = a
    BY <1>0, <2>4 DEF Calls, Behind, ToReader, PageFor
  <2>7. a.says = "replaying"
    <3>1. ~ PageFor(a) BY <2>1 DEF Held, PageFor
    <3> QED BY <2>5, <2>6, <3>1 DEF Owed
  <2> QED BY <2>7 DEF Calls, Resuming
<1> QED BY <1>1, <1>2, <1>3

\* What the reader goes on from stays what it was.
LEMMA OwedSame ==
  ASSUME win'.mode = win.mode \/ win'.mode # "live",
         win'.board = win.board, win'.lastSeq = win.lastSeq,
         \A x \in InTransit' : \E y \in InTransit : Twin(x, y),
         NEW b, NEW s, Owed(b, s)'
  PROVE  Owed(b, s)
<1>1. CASE win'.mode = "live" /\ b = win'.board /\ s = win'.lastSeq BY <1>1 DEF Owed
<1>2. CASE (\E a \in InTransit' : a.says = "replaying") /\ b = win'.board /\ s = win'.lastSeq
  BY <1>2 DEF Owed, Twin
<1>3. CASE \E a \in InTransit' : PageFor(a)' /\ b = a.rows /\ s = a.seq
  BY <1>3 DEF Owed, Twin, PageFor
<1> QED BY <1>1, <1>2, <1>3 DEF Owed

\* The versions of what is on its way, with a frame that is numbered next.
LEMMA TimedFresh ==
  ASSUME TypeOK, TypeOK', Stamped, Timely, NEW f \in Evt, Fresh(f),
         \A r \in Rows : rows[r] <= rows'[r],
         NEW G, \A g \in G : g \in Ups \/ g = f
  PROVE  /\ \A g \in G : g.row \in Rows => g.val \in Nat /\ rows'[g.row] \in Nat /\ g.val <= rows'[g.row]
         /\ \A g, h \in G : g.row \in Rows /\ h.row = g.row /\ g.seq < h.seq => g.val < h.val
<1>1. \A r \in Rows : rows[r] \in Nat /\ rows'[r] \in Nat /\ rows[r] <= rows'[r]
  BY DEF TypeOK, HostOK, Boards
<1>2. \A g \in Ups : /\ g.seq \in Nat /\ g.val \in Nat /\ g.seq <= seq
                     /\ (g.row \in Rows => g.val <= rows[g.row])
  BY UpsOK DEF Stamped, Timely
<1>3. /\ f.seq = seq + 1 /\ seq \in Nat /\ f.val \in Nat
      /\ (f.row \in Rows => rows'[f.row] = f.val /\ rows[f.row] < f.val)
  BY DEF Fresh, TypeOK, HostOK, Evt
<1>4. \A g, h \in Ups : g.row \in Rows /\ h.row = g.row /\ g.seq < h.seq => g.val < h.val
  BY DEF Timely
<1>5. \A g \in G : g.row \in Rows => g.val \in Nat /\ rows'[g.row] \in Nat /\ g.val <= rows'[g.row]
  BY <1>1, <1>2, <1>3
<1>6. ASSUME NEW g \in G, NEW h \in G, g.row \in Rows, h.row = g.row, g.seq < h.seq
      PROVE  g.val < h.val
  <2>1. CASE g \in Ups /\ h \in Ups BY <1>4, <1>6, <2>1
  <2>2. CASE g \in Ups /\ h = f
    <3>1. g.val <= rows[g.row] /\ rows[g.row] < h.val /\ rows[g.row] \in Nat
      BY <1>1, <1>2, <1>3, <1>6, <2>2
    <3> QED BY <1>2, <1>3, <2>2, <3>1
  <2>3. CASE g = f BY <1>2, <1>3, <1>6, <2>3
  <2> QED BY <1>6, <2>1, <2>2, <2>3
<1> QED BY <1>5, <1>6

\* A frame that is lost is stale, or an overflow took it.
LEMMA LostMissing ==
  ASSUME NEW rw, NEW ov, NEW G, NEW H, NEW g \in G, Lost(G, ov, H, g),
         \A x \in G : x.row \in Rows => x.val \in Nat /\ rw[x.row] \in Nat /\ x.val <= rw[x.row],
         \A x, h \in G : x.row \in Rows /\ h.row = x.row /\ x.seq < h.seq => x.val < h.val,
         \A x \in G : x.seq \in Nat
  PROVE  Missing(rw, ov, H, g)
<1>1. CASE g.row \in Rows /\ \E h \in G : h.row = g.row /\ h.seq > g.seq
  <2>1. PICK h \in G : h.row = g.row /\ h.seq > g.seq BY <1>1
  <2>2. g.val < h.val /\ h.val <= rw[g.row] /\ g.val \in Nat /\ h.val \in Nat /\ rw[g.row] \in Nat
    BY <1>1, <2>1
  <2> QED BY <1>1, <2>2 DEF Missing
<1>2. CASE ov /\ \A x \in H : x.seq < g.seq BY <1>2 DEF Missing
<1> QED BY <1>1, <1>2 DEF Lost

\* A frame is handed to a connection that has not overflowed: it is with the others, or lost.
LEMMA HandsBag ==
  ASSUME TypeOK, TypeOK', Calls, Order, Stamped, NEW f, Emits(f) \/ Recovers(f), conn.up,
         Recovers(f) \/ ~ out.over, NEW G, \A g : g \in G <=> g \in Bag \/ g = f
  PROVE  Bag' \subseteq G /\ \A g \in G : g \in Bag' \/ Lost(G, out'.over, Bag', g)
<1> DEFINE e == <<f>>
<1>1. /\ f \in Evt /\ conn'.answers = conn.answers /\ win'.buffer = win.buffer
      /\ f.seq = seq + 1 /\ e \in Seq(Evt) /\ Range(e) = {f} /\ Sorted(e)
  <2>1. f \in Evt /\ conn'.answers = conn.answers BY HandsRange
  <2>2. win'.buffer = win.buffer /\ f.seq = seq + 1 BY DEF Emits, Recovers, ReaderSame
  <2>3. e \in Seq(Evt) /\ Range(e) = {f} BY <2>1, EvtOne, RangeOne
  <2>4. Sorted(e) BY DEF Sorted
  <2> QED BY <2>1, <2>2, <2>3, <2>4
<1>2. Firsts' = Firsts BY <1>1 DEF Firsts
<1>3. CASE conn.holding
  <2>1. L' = L /\ conn'.held = Append(conn.held, f) BY <1>3, HandsRange
  <2>2. Range(conn'.held) = Range(conn.held) \cup {f} BY <1>1, <2>1, UpsOK, AppendRange
  <2>3. \A g : g \in Bag' <=> g \in G BY <1>1, <1>2, <2>1, <2>2 DEF Bag, Later
  <2> QED BY <2>3
<1>4. CASE ~ conn.holding
  <2>1. conn.held = <<>> /\ \A a \in Range(conn.answers) : a.first = <<>> BY <1>4 DEF Calls, Behind
  <2>2. Later = {} BY <2>1, NoneFirst DEF Later, Range
  <2>3. conn'.held = conn.held BY <1>4, HandsRange
  <2>4. Later' = {} BY <1>2, <2>1, <2>2, <2>3 DEF Later
  <2> HIDE DEF e
  <2>5. PICK o \in Outs : Line(o) = L /\ Hands(conn, o, e)
    <3>1. CASE Emits(f) BY <3>1 DEF Emits, TypeOK, L, e
    <3>2. CASE Recovers(f) BY <3>2 DEF Recovers, Same, L, e
    <3> QED BY <3>1, <3>2
  <2>6. PICK same \in BOOLEAN : out' \in Sent(o, e, same) BY <1>4, <2>5 DEF Hands
  <2> DEFINE B == Range(win.buffer)
             p == out'
             H == Bag'
  <2>7. /\ Sorted(Line(o)) /\ Sorted(e) /\ Before(Evts(Line(o)), Range(e))
        /\ Before(B, Evts(Line(o)) \cup Range(e))
    <3>1. \A g \in Ups : g.seq \in Nat /\ g.seq < f.seq BY <1>1, UpsOK DEF Stamped, TypeOK, HostOK
    <3> QED BY <1>1, <2>5, <3>1 DEF Order, Before, Ups, Bag
  <2>8. /\ \A g : g \in G <=> g \in B \/ g \in Evts(Line(o)) \/ g \in Range(e)
        /\ \A g : g \in H <=> g \in B \/ g \in Evts(Line(p))
    BY <1>1, <2>2, <2>4, <2>5 DEF Bag, L
  <2>9. p \in Sent(o, e, same) BY <2>6
  <2> HIDE DEF B, p, H
  <2>11. o \in Outs /\ same \in BOOLEAN /\ e \in Seq(Evt) BY <1>1, <2>5, <2>6
  <2>10. H \subseteq G /\ \A g \in G : g \in H \/ Lost(G, p.over, H, g)
    BY <2>7, <2>8, <2>9, <2>11, LineThin
  <2> QED BY <2>10 DEF p, H
<1> QED BY <1>3, <1>4

\* What an emitted frame makes of the Host's board and ring.
LEMMA NewerIs ==
  ASSUME TypeOK, TypeOK', Order, Stamped, NEW f, Emits(f)
  PROVE  Newer(rows, Range(ring), evicted, seq, f, rows', Range(ring'), evicted')
  BY RingEmits DEF Emits, Newer

\* A frame that is emitted keeps the reader fed.
LEMMA FedEmits ==
  ASSUME TypeOK, TypeOK', ReaderInv, NEW f, Emits(f)
  PROVE  Fed'
<1>0. Calls /\ Order /\ Stamped /\ Timely /\ Fed BY DEF ReaderInv
<1>1. Newer(rows, Range(ring), evicted, seq, f, rows', Range(ring'), evicted') BY <1>0, NewerIs
<1>2. /\ Seqs(Bag, seq) /\ Seqs(Range(ring), seq) /\ evicted <= seq
      /\ seq \in Nat /\ evicted \in Nat /\ out.over \in BOOLEAN
      /\ \A g \in Bag : g \in Ups /\ g.seq \in Nat
  BY <1>0, SeqsOK
<1>3. /\ f \in Evt /\ f.seq \in Nat /\ seq' = seq + 1 /\ epoch' = epoch /\ ReaderSame
      /\ evicted' \in Nat /\ out'.over \in BOOLEAN /\ win.applied.seq \in Nat
      /\ \A r \in Rows : rows[r] <= rows'[r]
  BY DEF Emits, TypeOK, HostOK, Outs, Evt, Wins, Stamps
<1>4. win'.applied.epoch = epoch' => Covered(win.board, win.applied.seq)'
  <2> SUFFICES ASSUME win'.applied.epoch = epoch' PROVE Covered(win.board, win.applied.seq)' OBVIOUS
  <2>1. /\ Stop(rows, Range(ring), evicted, win.board, win.applied.seq, {}, win.applied.seq)
        /\ win.applied.seq <= seq
    BY <1>0, <1>3 DEF Fed, Covered, ReaderSame, Stamped
  <2> DEFINE n == win.applied.seq
             b == win.board
             N == {}
  <2>2. n \in Nat /\ n <= seq /\ Stop(rows, Range(ring), evicted, b, n, N, n)
        /\ Seqs(N, seq) /\ N \subseteq N
    BY <1>3, <2>1 DEF Seqs
  <2> HIDE DEF n, b, N
  <2>3. Stop(rows', Range(ring'), evicted', b, n, N, n) BY <1>1, <1>2, <1>3, <2>2, StopKeep
  <2> QED BY <1>3, <2>3 DEF Covered, n, b, N, ReaderSame
<1>5. ASSUME NEW b \in Boards, NEW s \in Nat, Owed(b, s)'
      PROVE  Feeds(rows', Range(ring'), evicted', seq', out'.over, b, s, Bag')
  <2>1. Owed(b, s)
    <3>1. InTransit' \subseteq InTransit BY TransitHands
    <3> QED BY <1>3, <1>5, <3>1, OwedSame, TwinSelf DEF ReaderSame
  <2>2. s <= seq /\ conn.up /\ (conn.holding => ~ out.over) BY <1>0, <2>1, OwedIs
  <2>3. Feeds(rows, Range(ring), evicted, seq, out.over, b, s, Bag) BY <1>0, <2>1 DEF Fed
  <2>4. /\ out.over => Feeds(rows', Range(ring'), evicted', seq + 1, out.over, b, s, Bag)
        /\ ~ out.over
             => Feeds(rows', Range(ring'), evicted', seq + 1, out.over, b, s, Bag \cup {f})
    <3> DEFINE rw == rows
               rg == Range(ring)
               ev == evicted
               sq == seq
               ov == out.over
               G == Bag
               rw2 == rows'
               rg2 == Range(ring')
               ev2 == evicted'
    <3>1. ev \in Nat /\ sq \in Nat /\ ov \in BOOLEAN /\ ev2 \in Nat /\ s <= sq BY <1>2, <1>3, <2>2
    <3>2. Newer(rw, rg, ev, sq, f, rw2, rg2, ev2) /\ Seqs(G, sq) /\ Seqs(rg, sq) /\ ev <= sq
      BY <1>1, <1>2
    <3>3. Feeds(rw, rg, ev, sq, ov, b, s, G) BY <2>3
    <3> HIDE DEF rw, rg, ev, sq, ov, G, rw2, rg2, ev2
    <3>4. (ov => Feeds(rw2, rg2, ev2, sq + 1, ov, b, s, G)) BY <3>1, <3>2, <3>3, FeedsGrow
    <3>5. (~ ov => Feeds(rw2, rg2, ev2, sq + 1, ov, b, s, G \cup {f}))
      BY <3>1, <3>2, <3>3, FeedsGrow
    <3> QED BY <3>4, <3>5 DEF rw, rg, ev, sq, ov, G, rw2, rg2, ev2
  <2>5. CASE out.over
    <3>1. out' = out /\ conn'.held = conn.held /\ conn'.answers = conn.answers
      BY <2>2, <2>5 DEF Emits, Hands, Sent
    <3>2. Firsts' = Firsts /\ Later' = Later BY <3>1 DEF Firsts, Later
    <3>3. Bag' = Bag BY <1>3, <3>1, <3>2 DEF Bag, L, ReaderSame
    <3> QED BY <1>3, <2>4, <2>5, <3>1, <3>3
  <2>6. CASE ~ out.over
    <3> DEFINE G == Bag \cup {f}
               H == Bag'
    <3>1. H \subseteq G /\ \A g \in G : g \in H \/ Lost(G, out'.over, H, g)
      BY <1>0, <2>2, <2>6, HandsBag
    <3>2. /\ \A g \in G : g.row \in Rows
                            => g.val \in Nat /\ rows'[g.row] \in Nat /\ g.val <= rows'[g.row]
          /\ \A g, h \in G : g.row \in Rows /\ h.row = g.row /\ g.seq < h.seq => g.val < h.val
      <4>1. Fresh(f) BY <1>0, OrderHands
      <4>2. \A g \in G : g \in Ups \/ g = f BY <1>2
      <4> HIDE DEF G, H
      <4> QED BY <1>0, <1>3, <4>1, <4>2, TimedFresh
    <3>3. \A g \in G : g.seq \in Nat BY <1>2, <1>3
    <3>5. Feeds(rows', Range(ring'), evicted', seq', out.over, b, s, G) BY <1>3, <2>4, <2>6
    <3> HIDE DEF G, H
    <3>4. \A g \in G : g \in H \/ Missing(rows', out'.over, H, g) BY <3>1, <3>2, <3>3, LostMissing
    <3>6. seq' \in Nat BY <1>2, <1>3
    <3>7. Feeds(rows', Range(ring'), evicted', seq', out'.over, b, s, H)
      BY <1>2, <1>3, <2>6, <3>1, <3>3, <3>4, <3>5, <3>6, FeedsThin
    <3> QED BY <3>7 DEF H
  <2> QED BY <2>5, <2>6
<1> QED BY <1>4, <1>5 DEF Fed

\* The resync that ends an overflow keeps the reader fed.
LEMMA FedRecovers ==
  ASSUME TypeOK, TypeOK', ReaderInv, NEW f, Recovers(f)
  PROVE  Fed'
<1>0. Calls /\ Order /\ Stamped /\ Timely /\ Fed BY DEF ReaderInv
<1>2. /\ Seqs(Bag, seq) /\ Seqs(Range(ring), seq) /\ evicted <= seq
      /\ seq \in Nat /\ evicted \in Nat /\ out.over \in BOOLEAN
      /\ \A g \in Bag : g \in Ups /\ g.seq \in Nat
  BY <1>0, SeqsOK
<1>3. /\ f \in Evt /\ f.seq \in Nat /\ f.seq = seq + 1 /\ f.row = Resync
      /\ seq' = seq + 1 /\ epoch' = epoch /\ win' = win
      /\ rows' = rows /\ ring' = ring /\ evicted' = evicted
      /\ out'.over \in BOOLEAN
      /\ \A r \in Rows : rows[r] <= rows'[r]
  BY DEF Recovers, TypeOK, HostOK, Outs, Evt, Boards
<1>4. win'.applied.epoch = epoch' => Covered(win.board, win.applied.seq)'
  BY <1>0, <1>3 DEF Fed, Covered
<1>5. ASSUME NEW b \in Boards, NEW s \in Nat, Owed(b, s)'
      PROVE  Feeds(rows', Range(ring'), evicted', seq', out'.over, b, s, Bag')
  <2>1. Owed(b, s)
    <3>1. InTransit' \subseteq InTransit BY TransitHands
    <3> QED BY <1>3, <1>5, <3>1, OwedSame, TwinSelf
  <2>2. s <= seq /\ conn.up BY <1>0, <2>1, OwedIs
  <2>3. Feeds(rows, Range(ring), evicted, seq, out.over, b, s, Bag) BY <1>0, <2>1 DEF Fed
  <2> DEFINE G == Bag \cup {f}
             H == Bag'
             no == FALSE
  <2>4. Feeds(rows, Range(ring), evicted, seq + 1, no, b, s, G)
    <3>1. no \in BOOLEAN OBVIOUS
    <3> HIDE DEF no, H
    <3> QED BY <1>2, <1>3, <2>2, <2>3, <3>1, FeedsResync
  <2>5. H \subseteq G /\ \A g \in G : g \in H \/ Lost(G, out'.over, H, g) BY <1>0, <2>2, HandsBag
  <2>6. /\ \A g \in G : g.row \in Rows
                          => g.val \in Nat /\ rows'[g.row] \in Nat /\ g.val <= rows'[g.row]
        /\ \A g, h \in G : g.row \in Rows /\ h.row = g.row /\ g.seq < h.seq => g.val < h.val
    <3>1. Fresh(f) BY <1>0, OrderHands
    <3>2. \A g \in G : g \in Ups \/ g = f BY <1>2
    <3> HIDE DEF G, H
    <3> QED BY <1>0, <1>3, <3>1, <3>2, TimedFresh
  <2>7. \A g \in G : g.seq \in Nat BY <1>2, <1>3
  <2>8. no \in BOOLEAN /\ (no => out'.over) /\ seq' \in Nat
        /\ Feeds(rows', Range(ring'), evicted', seq', no, b, s, G)
    BY <1>2, <1>3, <2>4
  <2> HIDE DEF G, H, no
  <2>9. \A g \in G : g \in H \/ Missing(rows', out'.over, H, g) BY <2>5, <2>6, <2>7, LostMissing
  <2>10. Feeds(rows', Range(ring'), evicted', seq', out'.over, b, s, H)
    BY <1>3, <2>5, <2>7, <2>8, <2>9, FeedsThin
  <2> QED BY <2>10 DEF H
<1> QED BY <1>4, <1>5 DEF Fed

\* A step of which the reader sees nothing keeps what feeds it.
LEMMA FedKeeps ==
  ASSUME TypeOK, Fed, HostSame, win'.board = win.board, win'.applied = win.applied,
         Bag' = Bag, out'.over = out.over,
         \A b \in Boards, s \in Nat : Owed(b, s)' => Owed(b, s)
  PROVE  Fed'
<1>1. win'.applied.epoch = epoch' => Covered(win.board, win.applied.seq)'
  BY DEF Fed, Covered, HostSame
<1>2. ASSUME NEW b \in Boards, NEW s \in Nat, Owed(b, s)'
      PROVE  Feeds(rows', Range(ring'), evicted', seq', out'.over, b, s, Bag')
  <2>1. Owed(b, s) BY <1>2
  <2>2. Feeds(rows, Range(ring), evicted, seq, out.over, b, s, Bag) BY <2>1 DEF Fed
  <2> QED BY <2>2 DEF HostSame
<1> QED BY <1>1, <1>2 DEF Fed

\* A step the reader takes no part in keeps it fed, and so does a handler that joins.
LEMMA FedQuiet ==
  ASSUME TypeOK, ReaderInv, Quiet \/ Joins
  PROVE  Fed'
<1>1. Order /\ Stamped /\ Fed BY DEF ReaderInv
<1>2. Bag' = Bag /\ InTransit' = InTransit BY <1>1, OrderSame, FlowsSame
<1>3. /\ HostSame /\ win'.board = win.board /\ win'.applied = win.applied
      /\ out'.over = out.over /\ win'.lastSeq = win.lastSeq
      /\ win'.mode = win.mode \/ win'.mode # "live"
  BY DEF Quiet, Joins, ReaderSame, LineSame
<1>4. \A x \in InTransit' : \E y \in InTransit : Twin(x, y) BY <1>2, TwinSelf
<1>5. \A b \in Boards, s \in Nat : Owed(b, s)' => Owed(b, s) BY <1>3, <1>4, OwedSame
<1> QED BY <1>1, <1>2, <1>3, <1>5, FedKeeps

\* A seq that is taken by another window's resync keeps the reader fed.
LEMMA FedOthersResync ==
  ASSUME TypeOK, ReaderInv, OthersResync
  PROVE  Fed'
<1>1. Order /\ Stamped /\ Fed BY DEF ReaderInv
<1>2. Bag' = Bag /\ InTransit' = InTransit BY <1>1, OrderSame, FlowsSame
<1>3. /\ seq' = seq + 1 /\ rows' = rows /\ epoch' = epoch /\ ring' = ring /\ evicted' = evicted
      /\ out' = out /\ win' = win
  BY DEF OthersResync
<1>4. win'.applied.epoch = epoch' => Covered(win.board, win.applied.seq)'
  BY <1>1, <1>3 DEF Fed, Covered
<1>5. ASSUME NEW b \in Boards, NEW s \in Nat, Owed(b, s)'
      PROVE  Feeds(rows', Range(ring'), evicted', seq', out'.over, b, s, Bag')
  <2>1. Owed(b, s)
    <3>1. \A x \in InTransit' : \E y \in InTransit : Twin(x, y) BY <1>2, TwinSelf
    <3> QED BY <1>3, <1>5, <3>1, OwedSame
  <2>2. Feeds(rows, Range(ring), evicted, seq, out.over, b, s, Bag) BY <1>1, <2>1 DEF Fed
  <2>3. Feeds(rows, Range(ring), evicted, seq + 1, out.over, b, s, Bag)
    <3>1. /\ Seqs(Bag, seq) /\ Seqs(Range(ring), seq) /\ evicted <= seq
          /\ seq \in Nat /\ evicted \in Nat /\ out.over \in BOOLEAN
      BY <1>1, SeqsOK
    <3> QED BY <2>2, <3>1, FeedsSkip
  <2> QED BY <1>2, <1>3, <2>3
<1> QED BY <1>4, <1>5 DEF Fed

\* An answer that releases nothing keeps the reader fed.
LEMMA FedWrites ==
  ASSUME TypeOK, TypeOK', ReaderInv, NEW a, NEW b, Writes(a, b)
  PROVE  Fed'
<1>1. Calls /\ Order /\ Stamped /\ Fed BY DEF ReaderInv
<1>2. Bag' = Bag BY <1>1, OrderWrites
<1>3. HostSame /\ win' = win /\ out'.over = out.over BY DEF Writes
<1>4. \A x \in InTransit' : \E y \in InTransit : Twin(x, y) BY <1>1, FlowsWritten
<1>5. \A c \in Boards, s \in Nat : Owed(c, s)' => Owed(c, s) BY <1>3, <1>4, OwedSame
<1> QED BY <1>1, <1>2, <1>3, <1>5, FedKeeps

\* An answer that releases frames keeps the reader fed: none is lost but to an overflow.
LEMMA FedReleases ==
  ASSUME TypeOK, TypeOK', ReaderInv, NEW a, NEW b, Releases(a, b)
  PROVE  Fed'
<1>1. Calls /\ Order /\ Stamped /\ Timely /\ Fed BY DEF ReaderInv
<1>2. /\ Bag' \subseteq Bag /\ (out.over => out'.over)
      /\ \A g \in Bag : g \in Bag' \/ Lost(Bag, out'.over, Bag', g)
  BY <1>1, OrderReleases
<1>3. HostSame /\ win' = win BY DEF Releases
<1>4. \A x \in InTransit' : \E y \in InTransit : Twin(x, y) BY <1>1, FlowsWritten
<1>5. /\ \A g \in Bag : g \in Ups /\ g.seq \in Nat
      /\ seq \in Nat /\ out.over \in BOOLEAN /\ out'.over \in BOOLEAN
  BY <1>1, SeqsOK DEF TypeOK, Outs
<1>6. /\ \A g \in Bag : g.row \in Rows
                          => g.val \in Nat /\ rows[g.row] \in Nat /\ g.val <= rows[g.row]
      /\ \A g, h \in Bag : g.row \in Rows /\ h.row = g.row /\ g.seq < h.seq => g.val < h.val
  <2>1. \A g \in Bag : g.val \in Nat BY <1>5, UpsOK
  <2>2. \A r \in Rows : rows[r] \in Nat BY DEF TypeOK, HostOK, Boards
  <2> QED BY <1>1, <1>5, <2>1, <2>2 DEF Timely
<1>7. \A g \in Bag : g \in Bag' \/ Missing(rows, out'.over, Bag', g)
  <2> DEFINE G == Bag
             H == Bag'
             ov == out'.over
             rw == rows
  <2>1. /\ \A g \in G : g \in H \/ Lost(G, ov, H, g)
        /\ \A x \in G : x.row \in Rows => x.val \in Nat /\ rw[x.row] \in Nat /\ x.val <= rw[x.row]
        /\ \A x, h \in G : x.row \in Rows /\ h.row = x.row /\ x.seq < h.seq => x.val < h.val
        /\ \A x \in G : x.seq \in Nat
    BY <1>2, <1>5, <1>6
  <2> HIDE DEF G, H, ov, rw
  <2>2. \A g \in G : g \in H \/ Missing(rw, ov, H, g) BY <2>1, LostMissing
  <2> QED BY <2>2 DEF G, H, ov, rw
<1>8. win'.applied.epoch = epoch' => Covered(win.board, win.applied.seq)'
  BY <1>1, <1>3 DEF Fed, Covered, HostSame
<1>9. ASSUME NEW c \in Boards, NEW s \in Nat, Owed(c, s)'
      PROVE  Feeds(rows', Range(ring'), evicted', seq', out'.over, c, s, Bag')
  <2>1. Owed(c, s) BY <1>3, <1>4, <1>9, OwedSame
  <2>2. Feeds(rows, Range(ring), evicted, seq, out.over, c, s, Bag) BY <1>1, <2>1 DEF Fed
  <2> DEFINE H == Bag'
             ov == out'.over
  <2>3. /\ H \subseteq Bag /\ (out.over => ov) /\ ov \in BOOLEAN
        /\ \A g \in Bag : g \in H \/ Missing(rows, ov, H, g)
    BY <1>2, <1>5, <1>7
  <2> HIDE DEF H, ov
  <2>4. Feeds(rows, Range(ring), evicted, seq, ov, c, s, H) BY <1>5, <2>2, <2>3, FeedsThin
  <2> QED BY <1>3, <2>4 DEF HostSame, H, ov
<1> QED BY <1>8, <1>9 DEF Fed

\* A new connection feeds nothing yet.
LEMMA FedConnects ==
  ASSUME TypeOK, TypeOK', ReaderInv, Connects
  PROVE  Fed'
<1>1. Calls /\ Order /\ Stamped /\ Fed BY DEF ReaderInv
<1>2. InTransit' = {} BY <1>1, FlowsConnects
<1>3. HostSame /\ win'.mode = "awaiting" /\ win'.board = win.board /\ win'.applied = win.applied
  BY DEF Connects
<1>4. \A b, s : ~ Owed(b, s)' BY <1>2, <1>3 DEF Owed, PageFor
<1>5. win'.applied.epoch = epoch' => Covered(win.board, win.applied.seq)'
  BY <1>1, <1>3 DEF Fed, Covered, HostSame
<1> QED BY <1>4, <1>5 DEF Fed

\* A lost connection leaves what can be resumed, or nothing of this epoch.
LEMMA FedHung ==
  ASSUME TypeOK, TypeOK', ReaderInv, Hung
  PROVE  Fed'
<1>1. Calls /\ Order /\ Stamped /\ Fed BY DEF ReaderInv
<1>2. InTransit' = {} BY CallsHung
<1>3. win'.mode = "off" /\ win'.board = win.board /\ win'.applied = win.applied BY DEF Hung
<1>4. \A b, s : ~ Owed(b, s)' BY <1>2, <1>3 DEF Owed, PageFor
<1>5. win'.applied.epoch = epoch' => Covered(win.board, win.applied.seq)'
  <2>1. CASE HostSame BY <1>1, <1>3, <2>1 DEF Fed, Covered, HostSame
  <2>2. CASE epoch' = epoch + 1 BY <1>1, <1>3, <2>2 DEF Stamped, TypeOK, HostOK, Wins, Stamps
  <2> QED BY <2>1, <2>2 DEF Hung
<1> QED BY <1>4, <1>5 DEF Fed

\* A call that is handled keeps the reader fed: a page is the Host's board at its seq, a
\* replay has all the ring holds after the reader's.
LEMMA FedHandles ==
  ASSUME TypeOK, TypeOK', ReaderInv, NEW q, NEW a, Handles(q, a)
  PROVE  Fed'
<1>0. Calls /\ Order /\ Stamped /\ Timely /\ Fed BY DEF ReaderInv
<1>1. /\ rows' = rows /\ epoch' = epoch /\ ring' = ring /\ evicted' = evicted
      /\ out' = out /\ win' = win /\ seq' \in {seq, seq + 1} /\ a \in Res
      /\ a.seq = seq /\ a.rows = rows
  BY DEF Handles
<1>2. \A g : g \in Bag' <=> g \in Bag \/ g \in Range(a.first) BY <1>0, OrderHandles
<1>3. \A x : x \in InTransit' <=> x \in InTransit \/ x = a BY TransitHandles
<1>4. win'.applied.epoch = epoch' => Covered(win.board, win.applied.seq)'
  BY <1>0, <1>1 DEF Fed, Covered
<1>5. /\ Seqs(Bag, seq) /\ Seqs(Range(ring), seq) /\ evicted <= seq
      /\ seq \in Nat /\ evicted \in Nat /\ out.over \in BOOLEAN
  BY <1>0, SeqsOK
<1>6. ASSUME NEW b \in Boards, NEW s \in Nat, Owed(b, s)', q \notin Subs
      PROVE  Feeds(rows', Range(ring'), evicted', seq', out'.over, b, s, Bag')
  <2>1. a.says \in {"page", "refused", "expired"} /\ a.to = q /\ a.first = <<>> /\ seq' = seq
    BY <1>6 DEF Handles, Subs
  <2>2. Owed(b, s) BY <1>1, <1>3, <1>6, <2>1 DEF Owed, PageFor, Subs
  <2>3. \A g : g \in Bag' <=> g \in Bag BY <1>2, <2>1 DEF Range
  <2>4. Bag' = Bag BY <2>3
  <2>5. Feeds(rows, Range(ring), evicted, seq, out.over, b, s, Bag) BY <1>0, <2>2 DEF Fed
  <2> QED BY <1>1, <2>1, <2>4, <2>5
<1>7. ASSUME NEW b \in Boards, NEW s \in Nat, Owed(b, s)', q \in Subs
      PROVE  Feeds(rows', Range(ring'), evicted', seq', out'.over, b, s, Bag')
  <2>1. /\ win.mode \notin {"live", "off"} /\ a.to = "reader"
        /\ \A x \in InTransit : x.to # "reader"
        /\ \A x \in Range(conn.answers) : x.says \notin Held /\ x.first = <<>>
        /\ ~ conn.holding /\ conn.held = <<>>
    BY <1>0, <1>7, TakenUp
  <2>2. \A x \in InTransit : x.says # "replaying" /\ ~ PageFor(x)
    BY <1>0, <2>1 DEF Calls, Behind, PageFor
  <2>3. CASE a.says = "replaying"
    <3>1. /\ a.first = After(win.lastSeq) /\ win.lastSeq # NoSeq /\ ~ conn.sentAny
          /\ Covers(win.lastSeq) /\ seq' = seq /\ Has(conn.asked, {"subscribe"})
      <4>1. q = "subscribe" => Has(conn.asked, {"subscribe"})
        <5>1. conn.asked \in Seq(Asks) /\ conn.asked # <<>> /\ q = Head(conn.asked)
          BY LineOK DEF Handles
        <5>2. q \in Range(conn.asked) BY <5>1, RangeHeadTail
        <5> QED BY <5>2 DEF Has
      <4> QED BY <2>3, <4>1 DEF Handles
    <3>2. b = win.board /\ s = win.lastSeq BY <1>1, <1>3, <1>7, <2>1, <2>2, <2>3 DEF Owed, PageFor
    <3>3. win.applied.epoch = epoch /\ win.applied.seq = s BY <1>0, <3>1, <3>2 DEF Calls, Resuming
    <3>4. Stop(rows, Range(ring), evicted, b, s, {}, s) BY <1>0, <3>2, <3>3 DEF Fed, Covered
    <3>5. \A g : g \in Bag' <=> g \in Range(ring) /\ g.seq > s
      <4>1. Range(win.buffer) = {} /\ Evts(L) = {} BY <1>0, <3>1 DEF Calls, Resuming, Range
      <4>2. Later = {} BY <2>1, NoneFirst DEF Later, Range
      <4>3. Range(After(s)) = {g \in Range(ring) : g.seq > s} BY AfterIs
      <4> QED BY <1>2, <3>1, <3>2, <4>1, <4>2, <4>3 DEF Bag
    <3>6. evicted <= s /\ s <= seq BY <3>1, <3>2 DEF Covers
    <3> DEFINE G == Bag'
    <3>7. \A g : g \in G <=> g \in Range(ring) /\ g.seq > s BY <3>5
    <3> HIDE DEF G
    <3>8. Feeds(rows, Range(ring), evicted, seq, out.over, b, s, G)
      BY <1>5, <3>4, <3>6, <3>7, FeedsReplay
    <3> QED BY <1>1, <3>1, <3>8 DEF G
  <2>4. CASE a.says # "replaying"
    <3>1. a.says = "page" /\ b = rows /\ s = seq
      BY <1>1, <1>3, <1>7, <2>1, <2>2, <2>4 DEF Owed, PageFor
    <3>2. a.first = <<>> /\ seq' = seq BY <3>1 DEF Handles
    <3>3. \A g : g \in Bag' <=> g \in Bag BY <1>2, <3>2 DEF Range
    <3>4. Bag' = Bag BY <3>3
    <3>5. Feeds(rows, Range(ring), evicted, seq, out.over, rows, seq, Bag) BY <1>5, FeedsPage
    <3> QED BY <1>1, <3>1, <3>2, <3>4, <3>5
  <2> QED BY <2>3, <2>4
<1> QED BY <1>4, <1>6, <1>7 DEF Fed
-----------------------------------------------------------------------------
(* What the reader makes of the frames *)

\* A stop with the frames before it left out.
LEMMA StopHere ==
  ASSUME NEW rw, NEW rg, NEW ev, NEW b, NEW n \in Nat, NEW G, \A g \in G : g.seq \in Nat,
         Stop(rw, rg, ev, b, n, G, n)
  PROVE  Stop(rw, rg, ev, b, n, {}, n)
<1>1. \A g \in G : ~ (n < g.seq /\ g.seq <= n) OBVIOUS
<1> QED BY <1>1 DEF Stop

\* The board takes the first of the frames that come.
LEMMA StopTakes ==
  ASSUME NEW rw, NEW rg, NEW ev, NEW b, NEW s \in Nat, NEW G, NEW n \in Nat, NEW f, NEW c, NEW H,
         First(rw, b, G, f, c, H), Stop(rw, rg, ev, b, s, G, n)
  PROVE  Stop(rw, rg, ev, c, f.seq, H, n)
<1>0. /\ f \in G /\ \A g \in G : g.seq \in Nat /\ (g = f \/ f.seq < g.seq)
      /\ f.row \in Rows /\ f.row # Resync /\ (b[f.row] = rw[f.row] => f.val = rw[f.row])
      /\ b \in Boards /\ c = [b EXCEPT ![f.row] = f.val]
      /\ \A g : g \in H <=> g \in G /\ g # f
  BY DEF First
<1>1. \A r \in Rows : c[r] = IF r = f.row THEN f.val ELSE b[r] BY <1>0 DEF Boards
<1>2. CASE ev > n \/ \E g \in rg : g.row = Resync /\ n < g.seq BY <1>2 DEF Stop
<1>3. CASE \E g \in G : g.row = Resync /\ s < g.seq /\ g.seq <= n
  <2>1. PICK g \in G : g.row = Resync /\ s < g.seq /\ g.seq <= n BY <1>3
  <2>2. g \in H /\ f.seq < g.seq BY <1>0, <2>1
  <2> QED BY <2>1, <2>2 DEF Stop
<1>4. CASE \A r \in Rows :
             \/ b[r] = rw[r]
             \/ \E g \in G : g.row = r /\ g.val = rw[r] /\ s < g.seq /\ g.seq <= n
             \/ \E g \in rg : g.row = r /\ g.val = rw[r] /\ n < g.seq
  <2>1. ASSUME NEW r \in Rows
        PROVE  \/ c[r] = rw[r]
               \/ \E g \in H : g.row = r /\ g.val = rw[r] /\ f.seq < g.seq /\ g.seq <= n
               \/ \E g \in rg : g.row = r /\ g.val = rw[r] /\ n < g.seq
    <3>1. CASE b[r] = rw[r] BY <1>0, <1>1, <2>1, <3>1
    <3>2. CASE \E g \in G : g.row = r /\ g.val = rw[r] /\ s < g.seq /\ g.seq <= n
      <4>1. PICK g \in G : g.row = r /\ g.val = rw[r] /\ s < g.seq /\ g.seq <= n BY <3>2
      <4>2. CASE g = f BY <1>0, <1>1, <2>1, <4>1, <4>2
      <4>3. CASE g # f BY <1>0, <4>1, <4>3
      <4> QED BY <4>2, <4>3
    <3>3. CASE \E g \in rg : g.row = r /\ g.val = rw[r] /\ n < g.seq BY <3>3
    <3> QED BY <1>4, <2>1, <3>1, <3>2, <3>3
  <2> QED BY <2>1 DEF Stop
<1> QED BY <1>2, <1>3, <1>4 DEF Stop

\* What feeds the board feeds it when it has taken the first frame.
LEMMA FeedsTakes ==
  ASSUME NEW rw, NEW rg, NEW ev, NEW sq \in Nat, NEW ov \in BOOLEAN, NEW b, NEW s \in Nat,
         NEW G, NEW f, NEW c, NEW H, First(rw, b, G, f, c, H), s < f.seq, f.seq <= sq,
         Feeds(rw, rg, ev, sq, ov, b, s, G)
  PROVE  Feeds(rw, rg, ev, sq, ov, c, f.seq, H) /\ Stop(rw, rg, ev, c, f.seq, {}, f.seq)
<1>0. f.seq \in Nat /\ f \in G /\ H \subseteq G /\ \A g \in G : g.seq \in Nat BY DEF First
<1>1. \A n \in Stops(sq, ov, f.seq, H) : n \in Nat /\ n \in Stops(sq, ov, s, G) BY <1>0 DEF Stops
<1>2. \A n \in Stops(sq, ov, s, G) : Stop(rw, rg, ev, b, s, G, n) BY DEF Feeds
<1>3. ASSUME NEW n \in Stops(sq, ov, f.seq, H)
      PROVE  Stop(rw, rg, ev, c, f.seq, H, n)
  <2>1. n \in Nat /\ Stop(rw, rg, ev, b, s, G, n) BY <1>1, <1>2
  <2> QED BY <2>1, StopTakes
<1>4. f.seq \in Stops(sq, ov, f.seq, H) /\ f.seq \in Nat BY <1>0 DEF Stops
<1>5. \A g \in H : g.seq \in Nat BY <1>0
<1>6. Stop(rw, rg, ev, c, f.seq, {}, f.seq)
  <2> DEFINE n == f.seq
  <2>1. n \in Nat /\ Stop(rw, rg, ev, c, n, H, n) BY <1>3, <1>4
  <2> HIDE DEF n
  <2>2. Stop(rw, rg, ev, c, n, {}, n) BY <1>5, <2>1, StopHere
  <2> QED BY <2>2 DEF n
<1> QED BY <1>3, <1>6 DEF Feeds

\* A frame the board already holds feeds it nothing.
LEMMA FeedsDrops ==
  ASSUME NEW rw, NEW rg, NEW ev, NEW sq \in Nat, NEW ov \in BOOLEAN,
         NEW b, NEW s \in Nat, NEW G, NEW f \in G, f.seq <= s, \A g \in G : g.seq \in Nat,
         NEW H, \A g : g \in H <=> g \in G /\ g # f,
         Feeds(rw, rg, ev, sq, ov, b, s, G)
  PROVE  Feeds(rw, rg, ev, sq, ov, b, s, H)
<1>1. \A n \in Stops(sq, ov, s, H) : n \in Stops(sq, ov, s, G) BY DEF Stops
<1>2. ASSUME NEW n \in Stops(sq, ov, s, H) PROVE Stop(rw, rg, ev, b, s, H, n)
  <2>1. Stop(rw, rg, ev, b, s, G, n) BY <1>1 DEF Feeds
  <2>2. \A g \in G : s < g.seq => g \in H OBVIOUS
  <2> QED BY <2>1, <2>2 DEF Stop
<1> QED BY <1>2 DEF Feeds

\* A live reader that takes a resync reads anew.
LEMMA TakesResync ==
  ASSUME NEW w \in Wins, NEW f \in Evt, NEW v, v = Takes(w, f),
         w.mode = "live", ~ (f.seq <= w.lastSeq), f.row = Resync
  PROVE  /\ v \in Wins /\ v.mode = "reading" /\ v.board = w.board /\ v.applied = w.applied
         /\ v.buffer = w.buffer
<1>1. f.seq \in Nat BY DEF Evt
<1>2. v = [w EXCEPT !.lastSeq = f.seq, !.mode = "reading"] BY DEF Takes
<1> QED BY <1>1, <1>2 DEF Wins

\* A live reader takes the first of the frames that feed it.
LEMMA TakesGood ==
  ASSUME TypeOK, Stamped, Timely, NEW w \in Wins, w.mode = "live", Sound(w),
         NEW G, G \subseteq Ups, Live(w, G), NEW f, NEW H, Leads(f, G, H),
         NEW v, v = Takes(w, f)
  PROVE  /\ v \in Wins /\ Sound(v) /\ Live(v, H) /\ v.mode \in {"live", "reading"}
         /\ Below(w.board, v.board) /\ v.buffer = <<>>
<1>0. /\ f \in G /\ \A g \in G : g = f \/ f.seq < g.seq
      /\ \A g : g \in H <=> g \in G /\ g # f
  BY DEF Leads
<1>1. /\ f \in Evt /\ f.seq \in Nat /\ f.val \in Nat /\ f \in Ups /\ f.epoch = epoch
      /\ f.seq <= seq
  BY <1>0, UpsOK DEF Stamped
<1>2. /\ w.buffer = <<>> /\ w.lastSeq = w.applied.seq /\ w.lastSeq \in Nat
      /\ w.board \in Boards
      /\ Feeds(rows, Range(ring), evicted, seq, out.over, w.board, w.lastSeq, G)
  BY DEF Live, Wins, Stamps
<1>3. /\ seq \in Nat /\ epoch \in Nat /\ out.over \in BOOLEAN
      /\ \A r \in Rows : rows[r] \in Nat /\ w.board[r] \in Nat
  BY <1>2 DEF TypeOK, HostOK, Outs, Boards
<1>4. \A g \in G : g.seq \in Nat /\ (g = f \/ f.seq < g.seq) BY <1>0, UpsOK
<1>5. CASE f.seq <= w.lastSeq
  <2>1. v = w BY <1>1, <1>5, TakesIs
  <2>2. Feeds(rows, Range(ring), evicted, seq, out.over, w.board, w.lastSeq, H)
    BY <1>0, <1>2, <1>3, <1>4, <1>5, FeedsDrops
  <2>3. Below(w.board, w.board) BY <1>3 DEF Below
  <2> QED BY <1>2, <2>1, <2>2, <2>3 DEF Live
<1>6. CASE ~ (f.seq <= w.lastSeq) /\ f.row = Resync
  <2>1. /\ v \in Wins /\ v.mode = "reading" /\ v.board = w.board /\ v.applied = w.applied
        /\ v.buffer = w.buffer
    BY <1>1, <1>6, TakesResync
  <2>2. Below(w.board, v.board) BY <1>3, <2>1 DEF Below
  <2> QED BY <1>2, <2>1, <2>2 DEF Live, Sound
<1>7. CASE ~ (f.seq <= w.lastSeq) /\ f.row # Resync
  <2>1. /\ v \in Wins /\ v.mode = "live" /\ v.lastSeq = f.seq
        /\ v.board = [w.board EXCEPT ![f.row] = f.val]
        /\ v.applied = [epoch |-> f.epoch, seq |-> f.seq] /\ v.buffer = <<>>
    BY <1>1, <1>2, <1>7, TakesIs
  <2>2. /\ f.row \in Rows /\ w.lastSeq < f.seq
        /\ \A r \in Rows : v.board[r] = IF r = f.row THEN f.val ELSE w.board[r]
    BY <1>1, <1>2, <1>7, <2>1 DEF Evt, Boards
  <2>3. w.board[f.row] <= f.val /\ f.val <= rows[f.row] BY <1>1, <1>2, <2>2 DEF Sound, Ahead, Timely
  <2>4. w.board[f.row] = rows[f.row] => f.val = rows[f.row] BY <1>1, <1>3, <2>2, <2>3
  <2>5. /\ Feeds(rows, Range(ring), evicted, seq, out.over, v.board, f.seq, H)
        /\ Stop(rows, Range(ring), evicted, v.board, f.seq, {}, f.seq)
    <3> DEFINE rw == rows
               rg == Range(ring)
               ev == evicted
               ov == out.over
               b == w.board
               s == w.lastSeq
               c == v.board
    <3>1. seq \in Nat /\ ov \in BOOLEAN /\ s \in Nat /\ s < f.seq /\ f.seq <= seq
      BY <1>1, <1>2, <1>3, <2>2
    <3>2. First(rw, b, G, f, c, H) BY <1>0, <1>2, <1>4, <1>7, <2>1, <2>2, <2>4 DEF First
    <3>3. Feeds(rw, rg, ev, seq, ov, b, s, G) BY <1>2
    <3> HIDE DEF rw, rg, ev, ov, b, s, c
    <3>4. Feeds(rw, rg, ev, seq, ov, c, f.seq, H) /\ Stop(rw, rg, ev, c, f.seq, {}, f.seq)
      BY <3>1, <3>2, <3>3, FeedsTakes
    <3> QED BY <3>4 DEF rw, rg, ev, ov, c
  <2>6. Below(w.board, v.board) /\ Below(v.board, rows)
    <3>1. Below(w.board, rows) BY DEF Sound
    <3> QED BY <1>1, <1>3, <2>2, <2>3, <3>1 DEF Below
  <2>7. Ahead(v.board, f.seq)
    <3> SUFFICES ASSUME NEW g \in Ups, g.row \in Rows, g.seq > f.seq
                 PROVE  g.val >= v.board[g.row]
      BY DEF Ahead
    <3>1. g.seq \in Nat /\ g.val \in Nat BY UpsOK
    <3>2. CASE g.row = f.row
      <4>1. f.val < g.val BY <1>1, <2>2, <3>1, <3>2 DEF Timely
      <4> QED BY <1>1, <2>2, <3>1, <3>2, <4>1
    <3>3. CASE g.row # f.row
      <4>1. g.val >= w.board[g.row] BY <1>1, <1>2, <2>2, <3>1 DEF Sound, Ahead
      <4> QED BY <2>2, <3>3, <4>1
    <3> QED BY <3>2, <3>3
  <2>8. v.applied.epoch = epoch /\ v.applied.seq = f.seq BY <1>1, <2>1
  <2> QED BY <1>1, <2>1, <2>5, <2>6, <2>7, <2>8 DEF Live, Sound, Covered
<1> QED BY <1>5, <1>6, <1>7

\* The next of the buffered frames leads those that are left.
LEMMA LeftIs ==
  ASSUME NEW buf \in Seq(Evt), NEW R, Range(buf) \subseteq Ups, R \subseteq Ups, Sorted(buf),
         Before(Range(buf), R), TypeOK, NEW i \in Nat, i < Len(buf), NEW f, f = buf[i + 1]
  PROVE  /\ f \in Evt /\ f \in Range(buf) /\ f \in Left(buf, i, R)
         /\ Left(buf, i, R) \subseteq Ups
         /\ \A g \in Left(buf, i, R) : g = f \/ f.seq < g.seq
         /\ \A g : g \in Left(buf, i + 1, R) <=> g \in Left(buf, i, R) /\ g # f
<1> DEFINE k == i + 1
<1>1. k \in DOMAIN buf /\ f = buf[k] /\ DOMAIN buf = 1..Len(buf) /\ Len(buf) \in Nat OBVIOUS
<1>2. \A j \in DOMAIN buf : buf[j] \in Evt /\ buf[j] \in Range(buf) BY DEF Range
<1>3. f \in Evt /\ f \in Range(buf) /\ f.seq \in Nat BY <1>1, <1>2 DEF Evt
<1>4. \A j \in DOMAIN buf : j > k => f.seq < buf[j].seq
  <2> TAKE j \in DOMAIN buf
  <2> HAVE j > k
  <2>1. IsEvt(buf[j]) /\ IsEvt(f) BY <1>2, <1>3, ItemKinds
  <2> QED BY <1>1, <2>1 DEF Sorted
<1>5. \A g \in R : f.seq < g.seq BY <1>3 DEF Before
<1>6. \A j \in DOMAIN buf : j > i <=> j = k \/ j > k BY <1>1
<1>7. \A g : g \in Left(buf, i, R) <=> (\E j \in DOMAIN buf : j > i /\ g = buf[j]) \/ g \in R
  BY DEF Left
<1>8. \A g : g \in Left(buf, k, R) <=> (\E j \in DOMAIN buf : j > k /\ g = buf[j]) \/ g \in R
  BY DEF Left
<1>10. f \in Left(buf, i, R) BY <1>1, <1>6, <1>7
<1>11. \A g \in Left(buf, i, R) : g = f \/ (f.seq < g.seq /\ g \in Left(buf, k, R))
  BY <1>1, <1>4, <1>5, <1>6, <1>7, <1>8
<1>12. \A g \in Left(buf, k, R) : g \in Left(buf, i, R) /\ f.seq < g.seq
  BY <1>4, <1>5, <1>6, <1>7, <1>8
<1>13. Left(buf, i, R) \subseteq Ups BY <1>2, <1>7
<1>14. \A g \in Left(buf, k, R) : g # f BY <1>3, <1>12
<1> QED BY <1>3, <1>10, <1>11, <1>12, <1>13, <1>14

\* The reader takes one more of the buffered frames.
LEMMA DrainStep ==
  ASSUME TypeOK, Stamped, Timely, NEW w \in Wins, Range(w.buffer) \subseteq Ups, Sorted(w.buffer),
         NEW R, R \subseteq Ups, Before(Range(w.buffer), R),
         NEW i \in Nat, i < Len(w.buffer), NEW x, Draining(w, x, i, R),
         NEW v, v = Takes(x, w.buffer[i + 1])
  PROVE  Draining(w, v, i + 1, R)
<1> DEFINE buf == w.buffer
           f == buf[i + 1]
           G == Left(buf, i, R)
           H == Left(buf, i + 1, R)
<1>1. buf \in Seq(Evt) /\ i + 1 \in DOMAIN buf BY DEF Wins
<1>2. /\ f \in Evt /\ f \in Range(buf) /\ f \in G /\ G \subseteq Ups
      /\ \A g \in G : g = f \/ f.seq < g.seq
      /\ \A g : g \in H <=> g \in G /\ g # f
  BY <1>1, LeftIs
<1>3. /\ x \in Wins /\ Sound(x) /\ Live(x, G) /\ x.mode \in {"live", "reading"}
      /\ Below(w.board, x.board) /\ Sorted(x.buffer)
      /\ \A g \in Range(x.buffer) : \E j \in DOMAIN buf : j <= i /\ g = buf[j]
  BY DEF Draining
<1>4. CASE x.mode = "live"
  <2> HIDE DEF f, G, H
  <2>0. v = Takes(x, f) BY DEF f
  <2>1. /\ v \in Wins /\ Sound(v) /\ Live(v, H) /\ v.mode \in {"live", "reading"}
        /\ Below(x.board, v.board) /\ v.buffer = <<>>
    <3>1. Leads(f, G, H) BY <1>2 DEF Leads
    <3> QED BY <1>2, <1>3, <1>4, <2>0, <3>1, TakesGood
  <2>2. Below(w.board, v.board)
    <3>1. \A r \in Rows : w.board[r] \in Nat /\ x.board[r] \in Nat /\ v.board[r] \in Nat
      BY <1>3, <2>1 DEF Wins, Boards
    <3> QED BY <1>3, <2>1, <3>1 DEF Below
  <2>3. Sorted(v.buffer) /\ Range(v.buffer) = {} BY <2>1 DEF Sorted, Range
  <2> QED BY <2>1, <2>2, <2>3 DEF Draining, H
<1>5. CASE x.mode = "reading"
  <2>1. /\ v \in Wins /\ v.mode = "reading" /\ v.board = x.board /\ v.applied = x.applied
        /\ v.buffer = Append(x.buffer, f)
    <3> HIDE DEF f
    <3>1. v = Takes(x, f) /\ x.mode # "live" BY <1>5 DEF f
    <3>2. v = [x EXCEPT !.buffer = Append(@, f)] BY <3>1 DEF Takes
    <3>3. v \in Wins BY <1>2, <1>3, <3>1, TakesIs
    <3> QED BY <1>3, <1>5, <3>2, <3>3 DEF Wins
  <2>2. x.buffer \in Seq(Evt) BY <1>3 DEF Wins
  <2>3. Range(v.buffer) = Range(x.buffer) \cup {f} BY <1>2, <2>1, <2>2, AppendRange
  <2>4. \A g \in Range(x.buffer) : g.seq < f.seq
    <3> TAKE g \in Range(x.buffer)
    <3>1. PICK j \in DOMAIN buf : j <= i /\ g = buf[j] BY <1>3
    <3>2. j < i + 1 BY <1>1, <3>1
    <3>3. IsEvt(buf[j]) /\ IsEvt(f)
      <4>1. buf[j] \in Evt BY <1>1, <3>1
      <4> QED BY <1>2, <4>1, ItemKinds
    <3> QED BY <1>1, <3>1, <3>2, <3>3 DEF Sorted
  <2>5. Sorted(v.buffer)
    <3>1. Before(Evts(x.buffer), {y \in {f} : IsEvt(y)}) BY <2>4 DEF Before, Evts
    <3> HIDE DEF f
    <3>2. Sorted(Append(x.buffer, f)) BY <1>2, <1>3, <2>2, <3>1, SortedAppend
    <3> QED BY <2>1, <3>2
  <2>6. \A g \in Range(v.buffer) : \E j \in DOMAIN buf : j <= i + 1 /\ g = buf[j]
    <3> TAKE g \in Range(v.buffer)
    <3>1. CASE g = f BY <1>1, <3>1
    <3>2. CASE g \in Range(x.buffer)
      <4>1. PICK j \in DOMAIN buf : j <= i /\ g = buf[j] BY <1>3, <3>2
      <4> QED BY <1>1, <4>1
    <3> QED BY <2>3, <3>1, <3>2
  <2>7. Sound(v) /\ Live(v, H) BY <1>3, <2>1 DEF Sound, Live
  <2> QED BY <1>3, <2>1, <2>5, <2>6, <2>7 DEF Draining
<1> QED BY <1>3, <1>4, <1>5

\* A sound reader that drains stays sound, and fed while it is live.
LEMMA DrainGood ==
  ASSUME TypeOK, Stamped, Timely, NEW w \in Wins, Sound(w), w.lastSeq = w.applied.seq,
         Range(w.buffer) \subseteq Ups, Sorted(w.buffer),
         NEW R, R \subseteq Ups, Before(Range(w.buffer), R),
         Feeds(rows, Range(ring), evicted, seq, out.over, w.board, w.lastSeq,
               Range(w.buffer) \cup R),
         NEW v, v = Drained(w)
  PROVE  /\ v \in Wins /\ Sound(v) /\ Live(v, R) /\ v.mode \in {"live", "reading"}
         /\ Below(w.board, v.board)
         /\ Sorted(v.buffer) /\ Range(v.buffer) \subseteq Range(w.buffer)
<1> DEFINE buf == w.buffer
           m == Len(buf)
<1>0. buf \in Seq(Evt) /\ m \in Nat /\ DOMAIN buf = 1..m BY DEF Wins
<1>1. PICK d \in [0..m -> Wins] :
           /\ d[0].mode = "live" /\ d[0].buffer = <<>> /\ d[0].lastSeq = w.lastSeq
           /\ d[0].board = w.board /\ d[0].applied = w.applied /\ d[0].handed = w.handed
           /\ d[0].heard = w.heard
           /\ \A i \in 1..m : d[i] = Takes(d[i - 1], buf[i])
           /\ Drained(w) = d[m]
  BY DrainedIs
<1> DEFINE S == {i \in Nat : i <= m => Draining(w, d[i], i, R)}
<1>2. 0 \in S
  <2>1. Left(buf, 0, R) = Range(buf) \cup R BY <1>0 DEF Left, Range
  <2>2. Live(d[0], Left(buf, 0, R)) BY <1>1, <2>1 DEF Live
  <2>3. Sound(d[0]) BY <1>1 DEF Sound
  <2>4. Below(w.board, d[0].board)
    <3>1. \A r \in Rows : w.board[r] \in Nat BY DEF Wins, Boards
    <3> QED BY <1>1, <3>1 DEF Below
  <2>5. Sorted(d[0].buffer) /\ Range(d[0].buffer) = {} BY <1>1 DEF Sorted, Range
  <2>6. d[0] \in Wins BY <1>0, <1>1
  <2>7. Draining(w, d[0], 0, R) BY <1>1, <2>2, <2>3, <2>4, <2>5, <2>6 DEF Draining
  <2> QED BY <2>7
<1>3. \A i \in Nat : i \in S => i + 1 \in S
  <2> SUFFICES ASSUME NEW i \in Nat, i \in S, i + 1 <= m
               PROVE  Draining(w, d[i + 1], i + 1, R)
    OBVIOUS
  <2>1. Draining(w, d[i], i, R) /\ i < m BY <1>0
  <2>2. d[i + 1] = Takes(d[i], buf[i + 1])
    <3>1. i + 1 \in 1..m /\ (i + 1) - 1 = i BY <1>0
    <3>2. \A j \in 1..m : d[j] = Takes(d[j - 1], buf[j]) BY <1>1
    <3> QED BY <3>1, <3>2
  <2> HIDE DEF S
  <2> QED BY <2>1, <2>2, DrainStep
<1>4. Draining(w, v, m, R)
  <2> HIDE DEF S
  <2>1. \A i \in Nat : i \in S BY <1>2, <1>3, SetInduction
  <2>2. m \in S BY <1>0, <2>1
  <2> QED BY <1>0, <1>1, <2>2 DEF S
<1>5. Left(buf, m, R) = R BY <1>0 DEF Left
<1>6. Range(v.buffer) \subseteq Range(buf) BY <1>4 DEF Draining, Range
<1> QED BY <1>4, <1>5, <1>6 DEF Draining

\* A sequence with no element is empty.
LEMMA RangeNone == ASSUME NEW T, NEW s \in Seq(T), Range(s) = {} PROVE s = <<>>
<1>1. Len(s) \in Nat /\ DOMAIN s = 1..Len(s) OBVIOUS
<1>2. ASSUME Len(s) # 0 PROVE FALSE
  <2>1. 1 \in DOMAIN s BY <1>1, <1>2
  <2> QED BY <2>1 DEF Range
<1> QED BY <1>1, <1>2

\* What stays in the line, and behind it.
LEMMA LineGot ==
  ASSUME TypeOK, NEW x, Gets(x)
  PROVE  /\ \A g : g \in Evts(L) <=> g \in Evts(L') \/ (g = x /\ IsEvt(x))
         /\ Sorted(L) => Sorted(L') /\ (IsEvt(x) => \A g \in Evts(L') : x.seq < g.seq)
         /\ Firsts' = Firsts /\ Later' = Later /\ conn'.held = conn.held
         /\ conn'.answers = conn.answers
         /\ HostSame
<1>1. L \in Seq(Item) /\ L # <<>> /\ x = Head(L) /\ L' = Tail(L)
  <2>1. L \in Seq(Item) BY LineOK
  <2>2. L # <<>> /\ x = Head(L) BY DEF Gets, L
  <2>3. L' = Tail(L) BY TransitGot
  <2> QED BY <2>1, <2>2, <2>3
<1>2. /\ Evts(L) = Evts(Tail(L)) \cup {y \in {Head(L)} : IsEvt(y)}
      /\ Sorted(L) => Sorted(Tail(L)) /\ Before({y \in {Head(L)} : IsEvt(y)}, Evts(Tail(L)))
  BY <1>1, SortedHead
<1>3. conn'.held = conn.held /\ conn'.answers = conn.answers /\ HostSame BY DEF Gets, ConnSame
<1>4. Firsts' = Firsts /\ Later' = Later BY <1>3 DEF Firsts, Later
<1>5. \A g : g \in Evts(L) <=> g \in Evts(L') \/ (g = x /\ IsEvt(x)) BY <1>1, <1>2
<1>6. Sorted(L) => Sorted(L') /\ (IsEvt(x) => \A g \in Evts(L') : x.seq < g.seq)
  BY <1>1, <1>2 DEF Before
<1> QED BY <1>3, <1>4, <1>5, <1>6

\* The frames keep their order when the head of the line is received.
LEMMA OrderGot ==
  ASSUME TypeOK, TypeOK', Order, NEW x, Gets(x), Buffers(x)
  PROVE  Order' /\ Ups' \subseteq Ups
<1>1. /\ \A g : g \in Evts(L) <=> g \in Evts(L') \/ (g = x /\ IsEvt(x))
      /\ Sorted(L) => Sorted(L') /\ (IsEvt(x) => \A g \in Evts(L') : x.seq < g.seq)
      /\ Firsts' = Firsts /\ Later' = Later /\ conn'.held = conn.held
      /\ conn'.answers = conn.answers /\ ring' = ring
  BY LineGot DEF HostSame
<1>2. \A g \in Range(win'.buffer) : g \in Range(win.buffer) \/ (g = x /\ IsEvt(x)) BY DEF Buffers
<1>3. Before(Range(win'.buffer), Evts(L')) BY <1>1, <1>2 DEF Order, Before
<1>4. Before(Range(win'.buffer) \cup Evts(L'), Later') BY <1>1, <1>2 DEF Order, Before
<1>5. Sorted(win'.buffer) /\ Sorted(L') BY <1>1 DEF Order, Buffers
<1>6. Before(Firsts', Range(conn'.held)) /\ Sorted(conn'.held) /\ Sorted(ring') BY <1>1 DEF Order
<1>7. \A a \in Range(conn'.answers) : Sorted(a.first) BY <1>1 DEF Order
<1>8. Ups' \subseteq Ups BY <1>1, <1>2 DEF Ups, Bag
<1> QED BY <1>3, <1>4, <1>5, <1>6, <1>7, <1>8 DEF Order

\* No answer for the reader is left on its way.
LEMMA NoneGot ==
  ASSUME TypeOK, NEW x, Gets(x), NoneLeft
  PROVE  \A a \in InTransit' : a.to # "reader"
<1>1. InTransit' \subseteq InTransit BY TransitGot
<1>2. InTransit \subseteq Res BY TransitIs
<1> QED BY <1>1, <1>2 DEF NoneLeft, None, Has, ToReader, InTransit

\* The calls stay in order when the head of the line is received.
LEMMA CallsGot ==
  ASSUME TypeOK, TypeOK', Calls, NEW x, Got(x)
  PROVE  Calls'
<1>1. /\ Gets(x) /\ AsksOnce /\ Buffers(x) /\ (Rests \/ Advances)
      /\ conn'.up = conn.up /\ conn.up /\ conn'.answers = conn.answers
      /\ conn'.sentAny = conn.sentAny /\ conn'.holding = conn.holding
      /\ conn'.held = conn.held /\ out'.over = out.over /\ epoch' = epoch
  BY DEF Got, Gets, ConnSame, HostSame
<1>2. InTransit' \subseteq InTransit /\ InTransit \subseteq Res BY <1>1, TransitGot, TransitIs
<1>3. /\ Once(Subs, ToReader)
      /\ win.mode \in {"live", "off"} => Never(Subs, ToReader)
      /\ Calling(Subs, ToReader)
  BY DEF Calls, Single, Once, Never, Calling
<1>4. /\ One(conn.asked, conn'.answers, L', Subs, ToReader)
      /\ Never(Subs, ToReader) => NoneLeft
  BY <1>1, <1>3, GotCalls DEF NoneLeft
<1>5. win'.mode \in {"live", "off"} => NoneLeft /\ conn'.asked = conn.asked
  BY <1>1, <1>3, <1>4 DEF Rests, Advances, AsksOnce
<1>6. conn.asked \in Seq(Asks) /\ "reader" \in Asks /\ "reader" \notin {"subscribe"}
  BY LineOK DEF Asks
<1>7. Single'
  <2>1. CASE conn'.asked = conn.asked BY <1>4, <1>5, <2>1 DEF Single, NoneLeft
  <2>2. CASE conn'.asked = Append(conn.asked, "reader") /\ win'.mode = "reading" /\ NoneLeft
    <3> DEFINE answers == conn'.answers
               line == L'
    <3>1. One(conn.asked, answers, line, Subs, ToReader) /\ None(conn.asked, answers, line, Subs, ToReader)
      BY <1>4, <2>2 DEF NoneLeft
    <3> HIDE DEF answers, line
    <3>2. One(Append(conn.asked, "reader"), answers, line, Subs, ToReader) BY <1>6, <3>1, OneAsks
    <3> QED BY <2>2, <3>2 DEF Single, answers, line
  <2> QED BY <1>1, <2>1, <2>2 DEF AsksOnce
<1>8. Behind' BY <1>1, <1>2 DEF Calls, Behind
<1>9. Down'
  <2>1. win'.mode # "off" BY <1>1 DEF Rests, Advances, Calls, Down
  <2>2. ASSUME win'.mode = "live"
        PROVE  win'.buffer = <<>> /\ win'.applied.epoch = epoch' /\ win'.applied.seq = win'.lastSeq
    BY <1>1, <2>2 DEF Rests, Advances, Calls, Down, Sound, Live
  <2> QED BY <1>1, <2>1, <2>2 DEF Down
<1>10. Resuming'
  <2>1. \A a \in InTransit : a.says = "replaying" => a.to = "reader" BY DEF Calls, Behind
  <2>2. Advances => \A a \in InTransit' : a.says # "replaying"
    BY <1>1, <1>2, <2>1, NoneGot DEF Advances
  <2>3. Has(conn'.asked, {"subscribe"}) => Has(conn.asked, {"subscribe"})
    <3> DEFINE U == {"subscribe"}
               q == "reader"
    <3>1. q \in Asks /\ q \notin U BY <1>6
    <3>2. conn'.asked = conn.asked \/ conn'.asked = Append(conn.asked, q) BY <1>1 DEF AsksOnce
    <3> HIDE DEF U, q
    <3>3. Has(Append(conn.asked, q), U) => Has(conn.asked, U) BY <1>6, <3>1, HasAppend
    <3> QED BY <3>2, <3>3 DEF U
  <2>4. Advances => ~ Has(conn.asked, {"subscribe"}) BY DEF Advances, NoneLeft, None, Has, Subs
  <2>5. /\ Has(conn'.asked, {"subscribe"}) \/ (\E a \in InTransit' : a.says = "replaying") =>
             \/ win'.lastSeq = NoSeq
             \/ win'.applied.epoch = epoch' /\ win'.applied.seq = win'.lastSeq
        /\ \A a \in InTransit' : a.says = "replaying" => win'.lastSeq # NoSeq
    <3>1. CASE Advances BY <2>2, <2>3, <2>4, <3>1
    <3>2. CASE Rests BY <1>1, <1>2, <2>3, <3>2 DEF Rests, Calls, Resuming
    <3> QED BY <1>1, <3>1, <3>2
  <2>6. ~ conn'.sentAny => Evts(L') = {} /\ win'.buffer = <<>>
    <3> SUFFICES ASSUME ~ conn'.sentAny PROVE Evts(L') = {} /\ win'.buffer = <<>> OBVIOUS
    <3>1. Evts(L) = {} /\ Range(win.buffer) = {} BY <1>1 DEF Calls, Resuming, Range
    <3>2. Evts(L') = {} /\ ~ IsEvt(x) BY <1>1, <3>1, LineGot
    <3>3. Range(win'.buffer) = {} BY <1>1, <3>1, <3>2 DEF Buffers
    <3>4. win'.buffer \in Seq(Evt) BY DEF TypeOK, Wins
    <3> QED BY <3>2, <3>3, <3>4, RangeNone
  <2> QED BY <1>1, <2>5, <2>6 DEF Calls, Resuming
<1> QED BY <1>7, <1>8, <1>9, <1>10 DEF Calls

\* So do the stamps.
LEMMA StampedGot ==
  ASSUME TypeOK, TypeOK', Order, Stamped, NEW x, Got(x)
  PROVE  Stamped'
<1>1. /\ Gets(x) /\ Buffers(x) /\ (Rests \/ Advances) /\ HostSame BY DEF Got, Gets
<1>2. Ups' \subseteq Ups /\ InTransit' \subseteq InTransit BY <1>1, OrderGot, TransitGot
<1>3. /\ win'.applied.epoch <= epoch'
      /\ win'.applied.epoch = epoch' => win'.applied.seq <= seq'
  <2>1. CASE Rests BY <1>1, <2>1 DEF Rests, Stamped, HostSame
  <2>2. CASE Advances BY <1>1, <2>2 DEF Advances, Sound, HostSame, TypeOK, HostOK
  <2> QED BY <1>1, <2>1, <2>2
<1> QED BY <1>1, <1>2, <1>3 DEF Stamped, HostSame

\* So do the versions.
LEMMA TimelyGot ==
  ASSUME TypeOK, TypeOK', Calls, Order, Timely, NEW x, Got(x)
  PROVE  Timely'
<1>1. /\ Gets(x) /\ Buffers(x) /\ (Rests \/ Advances) /\ HostSame BY DEF Got, Gets
<1>2. Ups' \subseteq Ups /\ InTransit' \subseteq InTransit BY <1>1, OrderGot, TransitGot
<1>4. /\ \A f \in Ups' : f.row \in Rows => f.val <= rows'[f.row]
      /\ \A f, g \in Ups' : f.row \in Rows /\ g.row = f.row /\ f.seq < g.seq => f.val < g.val
  BY <1>1, <1>2 DEF Timely, HostSame
<1>5. Below(win'.board, rows') BY <1>1 DEF Rests, Advances, Sound, Timely, HostSame
<1>6. win'.applied.epoch = epoch' => Ahead(win.board, win.applied.seq)'
  <2> SUFFICES ASSUME win'.applied.epoch = epoch' PROVE Ahead(win.board, win.applied.seq)' OBVIOUS
  <2> DEFINE b == win'.board
             s == win'.applied.seq
  <2>1. Ahead(b, s) BY <1>1 DEF Rests, Advances, Sound, Timely, HostSame
  <2> QED BY <1>2, <2>1 DEF Ahead
<1>7. ASSUME NEW a \in InTransit', a.says = "page", a.to = "reader"
      PROVE  /\ Below(a.rows, rows') /\ Below(win'.board, a.rows)
             /\ \A f \in Ups' : f.row \in Rows /\ f.seq > a.seq => f.val >= a.rows[f.row]
  <2>1. Rests BY <1>1, <1>7, NoneGot DEF Advances
  <2>2. PageFor(a) BY <1>2, <1>7 DEF PageFor
  <2>3. Below(a.rows, rows) /\ Ahead(a.rows, a.seq) /\ Below(win.board, a.rows)
    BY <1>2, <1>7, <2>2 DEF Timely
  <2> QED BY <1>1, <1>2, <2>1, <2>3 DEF Rests, HostSame, Ahead
<1> QED BY <1>4, <1>5, <1>6, <1>7 DEF Timely, PageFor, Ahead

\* So does what feeds the reader.
LEMMA FedGot ==
  ASSUME TypeOK, TypeOK', ReaderInv, NEW x, Got(x)
  PROVE  Fed'
<1>1. /\ Gets(x) /\ (Rests \/ Advances) /\ HostSame /\ out'.over = out.over
      /\ Calls /\ Fed
  BY DEF Got, Gets, ReaderInv
<1>2. InTransit' \subseteq InTransit BY <1>1, TransitGot
<1>3. CASE Rests
  <2>1. \A b \in Boards, s \in Nat : Owed(b, s)' => Owed(b, s)
    <3>1. \A y \in InTransit' : \E z \in InTransit : Twin(y, z) BY <1>2, TwinSelf
    <3> QED BY <1>3, <3>1, OwedSame DEF Rests
  <2> QED BY <1>1, <1>3, <2>1, FedKeeps DEF Rests
<1>4. CASE Advances
  <2>1. Sound(win') /\ Live(win', Bag') /\ \A a \in InTransit' : a.to # "reader"
    BY <1>1, <1>4, NoneGot DEF Advances
  <2>2. Covered(win.board, win.applied.seq)' BY <1>1, <2>1 DEF Sound, Covered, HostSame
  <2>3. ASSUME NEW b \in Boards, NEW s \in Nat, Owed(b, s)'
        PROVE  Feeds(rows', Range(ring'), evicted', seq', out'.over, b, s, Bag')
    <3>1. \A a \in InTransit' : a.says # "replaying" BY <1>1, <1>2, <2>1 DEF Calls, Behind
    <3>2. win'.mode = "live" /\ b = win'.board /\ s = win'.lastSeq
      BY <2>1, <2>3, <3>1 DEF Owed, PageFor
    <3>3. Feeds(rows, Range(ring), evicted, seq, out.over, win'.board, win'.lastSeq, Bag')
      BY <2>1, <3>2 DEF Live
    <3> QED BY <1>1, <3>2, <3>3 DEF HostSame
  <2> QED BY <2>2, <2>3 DEF Fed
<1> QED BY <1>1, <1>3, <1>4

\* A reader whose state is of this epoch is sound.
LEMMA SoundNow ==
  ASSUME ReaderInv, win.applied.epoch = epoch
  PROVE  Sound(win)
<1>1. Stamped /\ Timely /\ Fed BY DEF ReaderInv
<1>2. win.applied.seq <= seq BY <1>1 DEF Stamped
<1>3. Ahead(win.board, win.applied.seq) /\ Below(win.board, rows) BY <1>1 DEF Timely
<1>4. Covered(win.board, win.applied.seq) BY <1>1 DEF Fed
<1> QED BY <1>2, <1>3, <1>4 DEF Sound

\* A frame is buffered, or taken by a live reader.
LEMMA EvtGot ==
  ASSUME TypeOK, TypeOK', ReaderInv, NEW f, GetsEvt(f)
  PROVE  Got(f)
<1>1. /\ Gets(f) /\ f \in Evt /\ win' = Takes(win, f) /\ win \in Wins
      /\ Calls /\ Order /\ Stamped /\ Timely /\ Fed
  BY DEF GetsEvt, TypeOK, ReaderInv
<1>2. /\ \A g : g \in Evts(L) <=> g \in Evts(L') \/ g = f
      /\ \A g \in Evts(L') : f.seq < g.seq
      /\ Later' = Later
  <2>1. IsEvt(f) /\ Sorted(L) BY <1>1, ItemKinds DEF Order
  <2> QED BY <1>1, <2>1, LineGot
<1>3. f \in Evts(L) /\ f \in Bag /\ f.seq \in Nat BY <1>1, <1>2 DEF Bag, Evt
<1>4. CASE win.mode # "live"
  <2>1. win' = [win EXCEPT !.buffer = Append(@, f)] BY <1>1, <1>4 DEF Takes
  <2>2. /\ win'.board = win.board /\ win'.lastSeq = win.lastSeq /\ win'.applied = win.applied
        /\ win'.mode = win.mode /\ win'.buffer = Append(win.buffer, f)
    BY <1>1, <2>1 DEF Wins
  <2>3. win.buffer \in Seq(Evt) BY UpsOK
  <2>4. Range(win'.buffer) = Range(win.buffer) \cup {f} BY <1>1, <2>2, <2>3, AppendRange
  <2>5. Sorted(win'.buffer)
    <3>1. Before(Evts(win.buffer), {y \in {f} : IsEvt(y)}) BY <1>1, <1>3 DEF Order, Before, Evts
    <3>2. Sorted(win.buffer) BY <1>1 DEF Order
    <3>3. Sorted(Append(win.buffer, f)) BY <1>1, <2>3, <3>1, <3>2, SortedAppend
    <3> QED BY <2>2, <3>3
  <2>6. Buffers(f) BY <1>1, <2>4, <2>5, ItemKinds DEF Buffers
  <2>7. Bag' = Bag BY <1>2, <2>4 DEF Bag
  <2>8. AsksOnce BY <2>2 DEF AsksOnce, GetsEvt
  <2>9. Rests BY <1>4, <2>2, <2>7 DEF Rests
  <2> QED BY <1>1, <2>6, <2>8, <2>9 DEF Got
<1>5. CASE win.mode = "live"
  <2> DEFINE R == Evts(L') \cup Later
  <2>1. /\ win.buffer = <<>> /\ Range(win.buffer) = {} /\ win.applied.epoch = epoch
        /\ win.applied.seq = win.lastSeq /\ win.lastSeq \in Nat /\ win.board \in Boards
    BY <1>1, <1>5 DEF Calls, Down, Range, Wins, Stamps
  <2>2. Sound(win) BY <2>1, SoundNow
  <2>3. Live(win, Bag)
    <3>1. Owed(win.board, win.lastSeq) BY <1>5 DEF Owed
    <3>2. Feeds(rows, Range(ring), evicted, seq, out.over, win.board, win.lastSeq, Bag)
      BY <1>1, <2>1, <3>1 DEF Fed
    <3> QED BY <2>1, <3>2 DEF Live
  <2>4. Leads(f, Bag, R)
    <3>1. \A g \in Later : f.seq < g.seq BY <1>1, <1>3 DEF Order, Before
    <3>2. \A g \in R : f.seq < g.seq /\ g # f BY <1>2, <1>3, <3>1
    <3>3. \A g : g \in Bag <=> g \in R \/ g = f BY <1>2, <2>1 DEF Bag
    <3> HIDE DEF R
    <3> QED BY <1>3, <3>2, <3>3 DEF Leads
  <2>5. Bag \subseteq Ups BY DEF Ups
  <2>6. /\ Sound(win') /\ Live(win', R) /\ win'.mode \in {"live", "reading"}
        /\ Below(win.board, win'.board) /\ win'.buffer = <<>>
    <3> DEFINE v == win'
    <3>1. v = Takes(win, f) BY <1>1
    <3> HIDE DEF R, v
    <3>2. /\ Sound(v) /\ Live(v, R) /\ v.mode \in {"live", "reading"}
          /\ Below(win.board, v.board) /\ v.buffer = <<>>
      BY <1>1, <1>5, <2>2, <2>3, <2>4, <2>5, <3>1, TakesGood
    <3> QED BY <3>2 DEF v
  <2>7. Bag' = R BY <1>2, <2>6 DEF Bag, Range
  <2>8. NoneLeft
    <3>1. Never(Subs, ToReader) /\ Calling(Subs, ToReader)
      BY <1>1, <1>5 DEF Calls, Single, Never, Calling
    <3> QED BY <1>1, <3>1, GotCalls DEF NoneLeft
  <2>9. Buffers(f) BY <2>6 DEF Buffers, Sorted, Range
  <2>10. AsksOnce BY <2>8 DEF AsksOnce, GetsEvt
  <2>11. Advances BY <2>6, <2>7, <2>8 DEF Advances
  <2> QED BY <1>1, <2>9, <2>10, <2>11 DEF Got
<1> QED BY <1>4, <1>5

\* The reader drains what it buffered: with a replay that starts, or with a page.
LEMMA DrainGot ==
  ASSUME TypeOK, TypeOK', ReaderInv, NEW a, Gets(a), a \in Res, NoneLeft, AsksOnce,
         NEW w \in Wins, Sound(w), w.lastSeq = w.applied.seq, w.buffer = win.buffer,
         Feeds(rows, Range(ring), evicted, seq, out.over, w.board, w.lastSeq, Bag),
         Below(win.board, w.board), win' = Drained(w)
  PROVE  Got(a)
<1>1. Calls /\ Order /\ Stamped /\ Timely /\ Fed BY DEF ReaderInv
<1> DEFINE R == Evts(L') \cup Later
           v == win'
<1>2. Evts(L') = Evts(L) /\ Later' = Later
  <2>1. ~ IsEvt(a) BY ItemKinds
  <2>2. \A g : g \in Evts(L) <=> g \in Evts(L') BY <2>1, LineGot
  <2> QED BY <2>2, LineGot
<1>3. /\ Range(w.buffer) \subseteq Ups /\ R \subseteq Ups /\ Sorted(w.buffer)
      /\ Before(Range(w.buffer), R)
  BY <1>1, <1>2 DEF Order, Before, Ups, Bag
<1>4. Bag = Range(w.buffer) \cup R BY <1>2 DEF Bag
<1>5. /\ v \in Wins /\ Sound(v) /\ Live(v, R) /\ v.mode \in {"live", "reading"}
      /\ Below(w.board, v.board)
      /\ Sorted(v.buffer) /\ Range(v.buffer) \subseteq Range(w.buffer)
  <2>1. Feeds(rows, Range(ring), evicted, seq, out.over, w.board, w.lastSeq, Range(w.buffer) \cup R)
    BY <1>4
  <2>2. v = Drained(w) OBVIOUS
  <2> HIDE DEF R, v
  <2> QED BY <1>1, <1>3, <2>1, <2>2, DrainGood
<1>6. Live(win', Bag')
  <2>1. CASE win'.mode = "live"
    <3>1. win'.buffer = <<>> BY <1>5, <2>1 DEF Live
    <3>2. Bag' = R BY <1>2, <3>1 DEF Bag, Range
    <3> QED BY <1>5, <3>2
  <2>2. CASE win'.mode # "live" BY <2>2 DEF Live
  <2> QED BY <2>1, <2>2
<1>7. Below(win.board, win'.board)
  <2>1. \A r \in Rows : win.board[r] \in Nat /\ w.board[r] \in Nat /\ v.board[r] \in Nat
    BY <1>5 DEF TypeOK, Wins, Boards
  <2> QED BY <1>5, <2>1 DEF Below
<1>8. Buffers(a) BY <1>5 DEF Buffers
<1>9. Advances BY <1>5, <1>6, <1>7 DEF Advances
<1> QED BY <1>8, <1>9 DEF Got

\* An answer for the reader is received.
LEMMA ResGot ==
  ASSUME TypeOK, TypeOK', ReaderInv, NEW a, GetsRes(a)
  PROVE  Got(a)
<1>1. /\ Gets(a) /\ a \in Res /\ a.to = "reader" /\ win \in Wins
      /\ Calls /\ Order /\ Stamped /\ Timely /\ Fed
  BY DEF GetsRes, TypeOK, ReaderInv
<1>2. a \in ToReader /\ a \in InTransit BY <1>1, TransitGot DEF ToReader
<1>3. NoneLeft
  <2>1. Once(Subs, ToReader) /\ Calling(Subs, ToReader) BY <1>1 DEF Calls, Single, Once, Calling
  <2> QED BY <1>1, <1>2, <2>1, GotCalls DEF NoneLeft
<1>5. AsksOnce BY <1>3 DEF AsksOnce, GetsRes
<1>6. CASE a.says = "replaying"
  <2>1. /\ win.lastSeq # NoSeq /\ win.applied.epoch = epoch /\ win.applied.seq = win.lastSeq
        /\ win.lastSeq \in Nat /\ win.board \in Boards
    BY <1>1, <1>2, <1>6 DEF Calls, Resuming, Wins, Stamps
  <2>2. Sound(win) BY <2>1, SoundNow
  <2>3. Owed(win.board, win.lastSeq) BY <1>2, <1>6 DEF Owed
  <2>4. Feeds(rows, Range(ring), evicted, seq, out.over, win.board, win.lastSeq, Bag)
    BY <1>1, <2>1, <2>3 DEF Fed
  <2>5. Below(win.board, win.board)
    <3>1. \A r \in Rows : win.board[r] \in Nat BY <1>1 DEF Wins, Boards
    <3> QED BY <3>1 DEF Below
  <2>6. win' = Drained(win) BY <1>6 DEF GetsRes
  <2> QED BY <1>1, <1>3, <1>5, <2>1, <2>2, <2>4, <2>5, <2>6, DrainGot
<1>7. CASE a.says = "page"
  <2> DEFINE w == With(win, a)
  <2>1. /\ w \in Wins /\ w.lastSeq = a.seq /\ w.board = a.rows
        /\ w.applied.epoch = epoch /\ w.applied.seq = a.seq /\ w.buffer = win.buffer
    BY <1>1, WithIs
  <2>2. win' = Drained(w) BY <1>7 DEF GetsRes
  <2>3. PageFor(a) /\ a.seq \in Nat /\ a.rows \in Boards BY <1>1, <1>2, <1>7 DEF PageFor, Res
  <2>4. a.seq <= seq BY <1>1, <1>2 DEF Stamped
  <2>5. Below(a.rows, rows) /\ Ahead(a.rows, a.seq) /\ Below(win.board, a.rows)
    BY <1>1, <1>2, <2>3 DEF Timely
  <2>6. Feeds(rows, Range(ring), evicted, seq, out.over, a.rows, a.seq, Bag)
    <3>1. Owed(a.rows, a.seq) BY <1>2, <2>3 DEF Owed
    <3> QED BY <1>1, <2>3, <3>1 DEF Fed
  <2>7. Covered(a.rows, a.seq)
    <3> DEFINE n == a.seq
               b == a.rows
    <3>1. n \in Nat /\ Stop(rows, Range(ring), evicted, b, n, Bag, n) BY <2>3, <2>6 DEF Feeds, Stops
    <3>2. \A g \in Bag : g.seq \in Nat BY <1>1, SeqsOK
    <3> HIDE DEF n, b
    <3>3. Stop(rows, Range(ring), evicted, b, n, {}, n) BY <3>1, <3>2, StopHere
    <3> QED BY <3>3 DEF Covered, n, b
  <2> HIDE DEF w
  <2>8. Sound(w) BY <2>1, <2>4, <2>5, <2>7 DEF Sound
  <2>9. /\ w.lastSeq = w.applied.seq /\ Below(win.board, w.board)
        /\ Feeds(rows, Range(ring), evicted, seq, out.over, w.board, w.lastSeq, Bag)
    BY <2>1, <2>5, <2>6
  <2> QED BY <1>1, <1>3, <1>5, <2>1, <2>2, <2>8, <2>9, DrainGot
<1>8. CASE a.says \notin {"replaying", "page"}
  <2>1. a.says \in {"live", "resync", "expired", "refused"} BY <1>1, <1>8 DEF Res
  <2>2. /\ win'.lastSeq = win.lastSeq /\ win'.buffer = win.buffer /\ win'.board = win.board
        /\ win'.applied = win.applied
        /\ win'.mode = win.mode \/ win'.mode \in {"reading", "awaiting"}
    BY <2>1 DEF GetsRes
  <2>3. Bag' = Bag
    <3>1. \A g : g \in Evts(L) <=> g \in Evts(L')
      <4>1. ~ IsEvt(a) BY <1>1, ItemKinds
      <4> QED BY <1>1, <4>1, LineGot
    <3>2. Later' = Later BY <1>1, LineGot
    <3> QED BY <2>2, <3>1, <3>2 DEF Bag
  <2>4. Buffers(a) BY <1>1, <2>2 DEF Buffers, Order
  <2>5. Rests BY <2>2, <2>3 DEF Rests
  <2> QED BY <1>1, <1>5, <2>4, <2>5 DEF Got
<1> QED BY <1>6, <1>7, <1>8

\* An answer for the window is received.
LEMMA WinGot ==
  ASSUME TypeOK, TypeOK', ReaderInv, NEW a, GetsWin(a)
  PROVE  Got(a)
<1>1. Gets(a) /\ a \in Res /\ win' = win /\ conn'.asked = conn.asked /\ Order
  BY DEF GetsWin, ReaderInv
<1>2. Bag' = Bag
  <2>1. \A g : g \in Evts(L) <=> g \in Evts(L')
    <3>1. ~ IsEvt(a) BY <1>1, ItemKinds
    <3> QED BY <1>1, <3>1, LineGot
  <2>2. Later' = Later BY <1>1, LineGot
  <2> QED BY <1>1, <2>1, <2>2 DEF Bag
<1>3. Buffers(a) BY <1>1 DEF Buffers, Order
<1>4. Rests /\ AsksOnce BY <1>1, <1>2 DEF Rests, AsksOnce
<1> QED BY <1>1, <1>3, <1>4 DEF Got
-----------------------------------------------------------------------------
(* The invariant, through every step *)

\* The invariant, when something is received.
LEMMA GotStep ==
  ASSUME TypeOK, TypeOK', ReaderInv, NEW x, GetsEvt(x) \/ GetsRes(x) \/ GetsWin(x)
  PROVE  ReaderInv' /\ Below(win.board, win'.board)
<1>1. Got(x) BY EvtGot, ResGot, WinGot
<1>2. Calls /\ Order /\ Stamped /\ Timely /\ Gets(x) /\ Buffers(x) BY <1>1 DEF Got, ReaderInv
<1>3. Below(win.board, win'.board)
  <2>1. \A r \in Rows : win.board[r] \in Nat BY DEF TypeOK, Wins, Boards
  <2> QED BY <1>1, <2>1 DEF Got, Rests, Advances, Below
<1>4. Calls' /\ Stamped' /\ Timely' /\ Fed' BY <1>1, <1>2, CallsGot, StampedGot, TimelyGot, FedGot
<1>5. Order' BY <1>2, OrderGot
<1> QED BY <1>3, <1>4, <1>5 DEF ReaderInv

\* The invariant, when the reader takes no part.
LEMMA FlowStep ==
  ASSUME TypeOK, TypeOK', ReaderInv, Flows, Calls', Order', Fed'
  PROVE  ReaderInv' /\ Below(win.board, win'.board)
<1>1. Stamped' /\ Timely' BY StampedFlows, TimelyFlows DEF ReaderInv
<1>2. Below(win.board, win'.board)
  <2>1. \A r \in Rows : win.board[r] \in Nat BY DEF TypeOK, Wins, Boards
  <2> QED BY <2>1 DEF Flows, Below
<1> QED BY <1>1, <1>2 DEF ReaderInv

\* The invariant, when a frame is handed to the connection.
LEMMA HandsStep ==
  ASSUME TypeOK, TypeOK', ReaderInv, NEW f, Emits(f) \/ Recovers(f)
  PROVE  ReaderInv' /\ Below(win.board, win'.board)
<1>1. Calls /\ Order /\ Stamped BY DEF ReaderInv
<1>2. Calls' /\ Order' /\ Flows BY <1>1, CallsHands, OrderHands, FlowsHands
<1>3. Fed' BY FedEmits, FedRecovers
<1> QED BY <1>2, <1>3, FlowStep

\* The invariant, when a call is handled.
LEMMA HandlesStep ==
  ASSUME TypeOK, TypeOK', ReaderInv, NEW q, NEW a, Handles(q, a)
  PROVE  ReaderInv' /\ Below(win.board, win'.board)
<1>1. Calls /\ Order /\ Stamped BY DEF ReaderInv
<1>2. Calls' /\ Order' /\ Flows BY <1>1, CallsHandles, OrderHandles, FlowsHandles
<1>3. Fed' BY FedHandles
<1> QED BY <1>2, <1>3, FlowStep

\* The invariant, when an answer is written.
LEMMA AnswersStep ==
  ASSUME TypeOK, TypeOK', ReaderInv, NEW a, NEW b, Writes(a, b) \/ Releases(a, b)
  PROVE  ReaderInv' /\ Below(win.board, win'.board)
<1>1. Calls /\ Order /\ Stamped BY DEF ReaderInv
<1>2. Calls' /\ Order' /\ Flows
  BY <1>1, CallsWrites, CallsReleases, OrderWrites, OrderReleases, FlowsWritten
<1>3. Fed' BY FedWrites, FedReleases
<1> QED BY <1>2, <1>3, FlowStep

\* The invariant, through the steps that move no frame.
LEMMA OtherStep ==
  ASSUME TypeOK, TypeOK', ReaderInv, Quiet \/ OthersResync \/ Joins \/ Connects
  PROVE  ReaderInv' /\ Below(win.board, win'.board)
<1>1. Calls /\ Order /\ Stamped BY DEF ReaderInv
<1>2. Calls' /\ Order' /\ Flows
  BY <1>1, CallsQuiet, CallsJoins, CallsConnects, OrderSame, OrderConnects, FlowsSame, FlowsConnects
<1>3. Fed' BY FedQuiet, FedOthersResync, FedConnects
<1> QED BY <1>2, <1>3, FlowStep

\* The invariant, when the connection is lost or the Host stops.
LEMMA HungStep ==
  ASSUME TypeOK, TypeOK', ReaderInv, Hung
  PROVE  ReaderInv' /\ Below(win.board, win'.board)
<1>1. Calls /\ Order /\ Stamped /\ Timely BY DEF ReaderInv
<1>2. Calls' /\ Order' /\ Stamped' /\ Timely' /\ Fed'
  BY <1>1, CallsHung, OrderHung, HungFlows, FedHung
<1>3. Below(win.board, win'.board)
  <2>1. \A r \in Rows : win.board[r] \in Nat BY DEF TypeOK, Wins, Boards
  <2> QED BY <2>1 DEF Hung, Below
<1> QED BY <1>2, <1>3 DEF ReaderInv

\* The invariant, through every step; the reader's board never goes back.
LEMMA ReaderStep ==
  ASSUME TypeOK, TypeOK', ReaderInv, Moves
  PROVE  ReaderInv' /\ Below(win.board, win'.board)
<1>1. CASE Quiet \/ OthersResync \/ Joins \/ Connects BY <1>1, OtherStep
<1>2. CASE Hung BY <1>2, HungStep
<1>3. ASSUME NEW f, Emits(f) \/ Recovers(f) \/ GetsEvt(f)
      PROVE  ReaderInv' /\ Below(win.board, win'.board)
  BY <1>3, HandsStep, GotStep
<1>4. ASSUME NEW q, NEW a, Handles(q, a)
      PROVE  ReaderInv' /\ Below(win.board, win'.board)
  BY <1>4, HandlesStep
<1>5. ASSUME NEW a, NEW b, Writes(a, b) \/ Releases(a, b)
      PROVE  ReaderInv' /\ Below(win.board, win'.board)
  BY <1>5, AnswersStep
<1>6. ASSUME NEW a, GetsRes(a) \/ GetsWin(a)
      PROVE  ReaderInv' /\ Below(win.board, win'.board)
  BY <1>6, GotStep
<1> QED BY <1>1, <1>2, <1>3, <1>4, <1>5, <1>6 DEF Moves

\* The first state has the invariant.
LEMMA InitReader == Init => ReaderInv
<1> SUFFICES ASSUME Init PROVE ReaderInv OBVIOUS
<1>1. /\ conn = Closed /\ out = Idle /\ ring = <<>> /\ evicted = 0 /\ seq = 0 /\ epoch = 1
      /\ win.mode = "off" /\ win.buffer = <<>> /\ win.applied = [epoch |-> 0, seq |-> 0]
      /\ rows = [r \in Rows |-> 1] /\ win.board = [r \in Rows |-> 0]
  BY DEF Init, FInit
<1>2. /\ conn.asked = <<>> /\ conn.answers = <<>> /\ ~ conn.sentAny /\ ~ conn.holding
      /\ conn.held = <<>> /\ ~ conn.up /\ ~ out.over /\ out.sock = <<>> /\ out.queue = <<>>
  BY <1>1, ClosedIs
<1>3. L = <<>> BY <1>2 DEF L, Line
<1>4. Range(conn.answers) = {} /\ Range(L) = {} /\ Range(conn.held) = {} /\ Range(ring) = {}
      /\ Range(win.buffer) = {}
  BY <1>1, <1>2, <1>3 DEF Range
<1>5. InTransit = {} /\ Firsts = {} /\ Later = {} /\ Evts(L) = {} /\ Bag = {} /\ Ups = {}
  BY <1>4 DEF InTransit, Firsts, Later, Evts, Bag, Ups
<1>6. Calls
  <2>1. Single BY <1>2, <1>3, NoCalls DEF Single
  <2>2. Behind BY <1>2, <1>4, <1>5 DEF Behind
  <2>3. Down BY <1>1, <1>2, <1>3 DEF Down
  <2>4. Resuming BY <1>1, <1>2, <1>4, <1>5 DEF Resuming, Has, Range
  <2> QED BY <2>1, <2>2, <2>3, <2>4 DEF Calls
<1>7. Order
  <2>1. Sorted(win.buffer) /\ Sorted(L) /\ Sorted(conn.held) /\ Sorted(ring)
    BY <1>1, <1>2, <1>3 DEF Sorted
  <2> QED BY <1>4, <1>5, <2>1 DEF Order, Before
<1>8. Stamped BY <1>1, <1>4, <1>5 DEF Stamped
<1>9. Timely BY <1>1, <1>5 DEF Timely, PageFor, Below
<1>10. Fed BY <1>1, <1>5 DEF Fed, Owed, PageFor
<1> QED BY <1>6, <1>7, <1>8, <1>9, <1>10 DEF ReaderInv

\* The reader's invariant, and its board, through every step.
LEMMA ReaderKept == Spec => [](TypeOK /\ ReaderInv)
<1>1. Init => TypeOK /\ ReaderInv BY InitTyped, InitReader
<1>2. TypeOK /\ ReaderInv /\ [Next]_vars => (TypeOK /\ ReaderInv)'
  <2> SUFFICES ASSUME TypeOK, ReaderInv, [Next]_vars PROVE TypeOK' /\ ReaderInv' OBVIOUS
  <2>1. TypeOK' /\ Moves BY NextIs
  <2> QED BY <2>1, ReaderStep
<1> QED BY <1>1, <1>2, PTL DEF Spec

\* The frames that come to a live reader are those in flight.
LEMMA BagInFlight ==
  ASSUME TypeOK, Calls, win.mode = "live"
  PROVE  \A g : g \in Bag <=> g \in InFlight
<1>1. Range(win.buffer) = {} BY DEF Calls, Down, Range
<1>2. Range(L) = Range(out.sock) \cup Range(out.queue)
  <2>1. out.sock \in Seq(Item) /\ out.queue \in Seq(Item) BY DEF TypeOK, Outs
  <2>2. Range(out.sock \o out.queue) = Range(out.sock) \cup Range(out.queue) BY <2>1, RangeConcat
  <2> QED BY <2>2 DEF L, Line
<1>3. Evts(L) = {item \in Range(out.sock) \cup Range(out.queue) : IsEvt(item)} BY <1>2 DEF Evts
<1> QED BY <1>1, <1>3 DEF Bag, Later, Firsts, InFlight

\* With the invariant, a live reader misses nothing.
LEMMA MissesNothing ==
  ASSUME TypeOK, ReaderInv
  PROVE  NothingMissed
<1> SUFFICES ASSUME win.mode = "live", NEW r \in Rows
             PROVE  win.board[r] = rows[r] \/ Coming(r, rows[r]) \/ ResyncComing
  BY DEF NothingMissed
<1>1. Calls /\ Stamped /\ Fed BY DEF ReaderInv
<1>2. win.lastSeq \in Nat /\ win.board \in Boards BY <1>1 DEF Calls, Down, TypeOK, Wins, Stamps
<1>3. Feeds(rows, Range(ring), evicted, seq, out.over, win.board, win.lastSeq, Bag)
  <2>1. Owed(win.board, win.lastSeq) BY DEF Owed
  <2> QED BY <1>1, <1>2, <2>1 DEF Fed
<1>4. CASE out.over BY <1>4 DEF ResyncComing
<1>5. CASE ~ out.over
  <2> DEFINE no == FALSE
  <2>1. Feeds(rows, Range(ring), evicted, seq, no, win.board, win.lastSeq, Bag)
    <3>1. out.over = no BY <1>1, <1>5, SeqsOK
    <3> QED BY <1>3, <3>1
  <2>2. Fetched(rows, win.board, win.lastSeq, Bag)
    <3>1. evicted \in Nat /\ seq \in Nat /\ Seqs(Range(ring), seq) /\ evicted <= seq BY <1>1, SeqsOK
    <3> QED BY <1>2, <2>1, <3>1, LastStop
  <2>3. \A g \in Bag : g \in InFlight /\ g.seq \in Nat BY <1>1, BagInFlight, SeqsOK
  <2> QED BY <1>2, <2>2, <2>3 DEF Fetched, Coming, ResyncComing
<1> QED BY <1>4, <1>5

\* NothingMissedHolds: whatever frames are folded, dropped by an overflow, held behind a
\* result or replayed from the ring, and whenever a snapshot is read while they arrive, what a
\* live reader lacks of the Host's rows is on its way to it, or a resync is: for every number of
\* rows, every high water and every size of the ring (framePublisher.ts, ring.ts, outbound.ts,
\* snapshotReader.ts).
THEOREM NothingMissedHolds == Spec => []NothingMissed
<1>1. TypeOK /\ ReaderInv => NothingMissed BY MissesNothing
<1> QED BY <1>1, ReaderKept, PTL
-----------------------------------------------------------------------------
(* The window that follows: what it hears, and what it reads *)

\* Each step is one of these, as the window sees it.
LEMMA FollowsIs ==
  ASSUME TypeOK, [Next]_vars
  PROVE  Follows
<1>1. CASE FNext /\ ViewSame
  <2>0. Still /\ snaps' = snaps BY <1>1 DEF ViewSame, Still
  <2> SUFFICES (HandedSame /\ Flowing) \/ Connects BY <2>0 DEF Follows
  <2>1. ASSUME NEW r \in Rows, Publish(r) PROVE HandedSame /\ Flowing
    BY <1>1, <2>1, PublishIs DEF Flowing, HandedSame
  <2>2. CASE ResetMetrics BY <1>1, <2>2, ResetIs DEF Flowing, HandedSame
  <2>3. CASE OtherResync BY <1>1, <2>3, OtherResyncIs DEF Flowing, OthersResync, HandedSame
  <2>4. ASSUME \E q, a : Handles(q, a) PROVE HandedSame /\ Flowing
    BY <2>4 DEF Flowing, HandedSame, Handles
  <2>5. CASE SubscribeLive \/ SubscribeReplaying \/ SubscribeRefused
    BY <1>1, <2>4, <2>5, SubscribeLiveIs, SubscribeReplayingIs, SubscribeRefusedIs
  <2>7. ASSUME NEW who \in {"reader", "window"}, HostReads(who) PROVE HandedSame /\ Flowing
    <3>1. "page" \in {"page", "refused", "expired"} OBVIOUS
    <3>2. \E q, a : Handles(q, a) BY <1>1, <2>7, <3>1, HostReadsIs
    <3> QED BY <2>4, <3>2
  <2>8. ASSUME NEW who \in {"reader", "window"}, NEW says \in {"refused", "expired"},
               HostRefuses(who, says)
        PROVE  HandedSame /\ Flowing
    <3>1. says \in {"page", "refused", "expired"} OBVIOUS
    <3>2. \E q, a : Handles(q, a) BY <1>1, <2>8, <3>1, HostReadsIs
    <3> QED BY <2>4, <3>2
  <2>9. CASE HostAnswers BY <1>1, <2>9, HostAnswersIs DEF Flowing, HandedSame, Writes, Releases
  <2>10. CASE SocketDrains BY <1>1, <2>10, SocketDrainsIs DEF Flowing, HandedSame
  <2>11. CASE HandlerJoins BY <1>1, <2>11, HandlerJoinsIs DEF Flowing, HandedSame, Joins
  <2>12. CASE Connect BY <1>1, <2>12, ConnectIs
  <2> QED BY <1>1, <2>1, <2>2, <2>3, <2>5, <2>7, <2>8, <2>9, <2>10, <2>11, <2>12
          DEF FNext, HostSteps
<1>2. CASE ReaderTakes BY <1>2, ReaderTakesIs DEF Follows, Still
<1>3. CASE (ConnectionLost \/ HostStops) /\ ReadsFail /\ view' = view /\ snaps' = snaps
  BY <1>3, HungIs DEF Follows
<1>4. CASE WindowOpens \/ WindowHears \/ WindowLoads BY <1>4 DEF Follows
<1>5. CASE WindowAnswered BY <1>5, WindowAnsweredIs DEF Follows, Answered
<1>6. CASE UNCHANGED vars
  <2>1. /\ rows' = rows /\ epoch' = epoch /\ seq' = seq /\ ring' = ring /\ evicted' = evicted
        /\ conn' = conn /\ out' = out /\ win' = win /\ view' = view /\ reply' = reply
        /\ snaps' = snaps
    BY <1>6 DEF vars, fvars, hostVars
  <2>2. Quiet BY <2>1 DEF Quiet, HostSame, ReaderSame, ConnSame, LineSame
  <2> QED BY <2>1, <2>2 DEF Follows, Still, HandedSame, Flowing
<1> QED BY <1>1, <1>2, <1>3, <1>4, <1>5, <1>6 DEF Next, ViewSame

\* What the reader hands on is a frame it took.
LEMMA TakesHands ==
  ASSUME NEW w \in Wins, NEW f \in Evt, NEW v, v = Takes(w, f)
  PROVE  \A x \in Range(v.handed) : x \in Range(w.handed) \/ x = f
<1>2. w.handed \in Seq(Handed) /\ f \in Handed BY DEF Wins, Handed
<1>3. Range(Append(w.handed, f)) = Range(w.handed) \cup {f} BY <1>2, AppendRange
<1>4. CASE w.mode # "live"
  <2>1. v = [w EXCEPT !.buffer = Append(@, f)] BY <1>4 DEF Takes
  <2>2. v.handed = w.handed BY <2>1 DEF Wins
  <2> QED BY <2>2
<1>5. CASE w.mode = "live" /\ f.seq <= w.lastSeq BY <1>5 DEF Takes
<1>6. CASE w.mode = "live" /\ ~ (f.seq <= w.lastSeq) /\ f.row = Resync
  <2>1. v = [w EXCEPT !.lastSeq = f.seq, !.mode = "reading"] BY <1>6 DEF Takes
  <2>2. v.handed = w.handed BY <2>1 DEF Wins
  <2> QED BY <2>2
<1>7. CASE w.mode = "live" /\ ~ (f.seq <= w.lastSeq) /\ f.row # Resync
  <2> DEFINE y == [w EXCEPT !.lastSeq = f.seq, !.board[f.row] = f.val,
                            !.applied = [epoch |-> f.epoch, seq |-> f.seq]]
  <2>1. v = HandsOn(y, f) BY <1>7 DEF Takes
  <2>2. y.handed = w.handed /\ y \in [DOMAIN w -> {y[k] : k \in DOMAIN w}] BY DEF Wins
  <2>3. v = y \/ v = [y EXCEPT !.handed = Append(@, f)] BY <2>1 DEF HandsOn
  <2>4. [y EXCEPT !.handed = Append(@, f)].handed = Append(w.handed, f) BY <2>2 DEF Wins
  <2>5. v.handed = w.handed \/ v.handed = Append(w.handed, f) BY <2>2, <2>3, <2>4
  <2> QED BY <2>5, <1>3
<1> QED BY <1>4, <1>5, <1>6, <1>7

\* What a reader that drains hands on are frames it had buffered.
LEMMA DrainedHands ==
  ASSUME NEW w \in Wins, NEW v, v = Drained(w)
  PROVE  \A x \in Range(v.handed) : x \in Range(w.handed) \/ x \in Range(w.buffer)
<1> DEFINE buf == w.buffer
           m == Len(buf)
           Ok(h) == \A x \in Range(h) : x \in Range(w.handed) \/ x \in Range(buf)
<1>0. buf \in Seq(Evt) /\ m \in Nat /\ DOMAIN buf = 1..m BY DEF Wins
<1>1. PICK d \in [0..m -> Wins] :
           /\ d[0].handed = w.handed
           /\ \A i \in 1..m : d[i] = Takes(d[i - 1], buf[i])
           /\ Drained(w) = d[m]
  BY DrainedIs
<1> DEFINE S == {i \in Nat : i <= m => Ok(d[i].handed)}
<1>2. 0 \in S BY <1>1
<1>3. \A i \in Nat : i \in S => i + 1 \in S
  <2> SUFFICES ASSUME NEW i \in Nat, i \in S, i + 1 <= m
               PROVE  Ok(d[i + 1].handed)
    OBVIOUS
  <2>1. i + 1 \in 1..m /\ (i + 1) - 1 = i /\ i \in 0..m /\ i <= m BY <1>0
  <2>2. d[i + 1] = Takes(d[i], buf[i + 1]) /\ d[i] \in Wins
    <3>1. \A j \in 1..m : d[j] = Takes(d[j - 1], buf[j]) BY <1>1
    <3> QED BY <1>1, <2>1, <3>1
  <2>3. buf[i + 1] \in Evt /\ buf[i + 1] \in Range(buf) BY <1>0, <2>1 DEF Range
  <2> DEFINE w1 == d[i]
             w2 == d[i + 1]
             f == buf[i + 1]
  <2>4. w2 = Takes(w1, f) /\ w1 \in Wins /\ f \in Evt BY <2>2, <2>3
  <2> HIDE DEF w1, w2, f
  <2>5. \A x \in Range(w2.handed) : x \in Range(w1.handed) \/ x = f BY <2>4, TakesHands
  <2> QED BY <2>1, <2>3, <2>5 DEF w1, w2, f
<1>4. m \in S
  <2> HIDE DEF S
  <2>1. \A i \in Nat : i \in S BY <1>2, <1>3, SetInduction
  <2> QED BY <1>0, <2>1
<1> QED BY <1>0, <1>1, <1>4

\* What the reader hands on of what it receives are the Host's frames.
LEMMA GetsHands ==
  ASSUME TypeOK, NEW x, GetsEvt(x) \/ GetsRes(x)
  PROVE  HandsOver
<1>0. win \in Wins /\ Range(win.buffer) \subseteq Ups BY DEF TypeOK, Ups, Bag
<1>1. CASE GetsEvt(x)
  <2>1. x \in Evt /\ win' = Takes(win, x) /\ Gets(x) BY <1>1 DEF GetsEvt
  <2>2. x \in Ups
    <3>1. x \in Range(L) /\ IsEvt(x) BY <2>1, TransitGot, ItemKinds
    <3> QED BY <3>1 DEF Ups, Bag, Evts
  <2> QED BY <1>0, <2>1, <2>2, TakesHands DEF HandsOver
<1>2. CASE GetsRes(x) /\ x.says = "replaying"
  <2>1. win' = Drained(win) BY <1>2 DEF GetsRes
  <2> QED BY <1>0, <2>1, DrainedHands DEF HandsOver
<1>3. CASE GetsRes(x) /\ x.says = "page"
  <2> DEFINE w == With(win, x)
  <2>1. win' = Drained(w) /\ x \in Res BY <1>3 DEF GetsRes
  <2>2. w \in Wins /\ w.buffer = win.buffer /\ w.handed = win.handed BY <1>0, <2>1, WithIs
  <2> HIDE DEF w
  <2> QED BY <1>0, <2>1, <2>2, DrainedHands DEF HandsOver
<1>4. CASE GetsRes(x) /\ x.says \notin {"replaying", "page"}
  <2>1. win'.handed = win.handed BY <1>4 DEF GetsRes, Res
  <2> QED BY <2>1 DEF HandsOver
<1> QED BY <1>1, <1>2, <1>3, <1>4

\* A state of the connection is no frame.
LEMMA NotesHand ==
  ASSUME TypeOK, Connects \/ Hung
  PROVE  HandsOver
<1>0. [type |-> "connected"] \in Note /\ [type |-> "reconnecting"] \in Note BY DEF Note
<1>1. PICK n \in Note : win'.handed \in {win.handed, Append(win.handed, n)}
  <2>1. CASE Connects
    <3>1. win'.handed \in {win.handed, Append(win.handed, [type |-> "connected"])}
      BY <2>1 DEF Connects
    <3> QED BY <1>0, <3>1
  <2>2. CASE Hung
    <3>1. win'.handed \in {win.handed, Append(win.handed, [type |-> "reconnecting"])}
      BY <2>2 DEF Hung
    <3> QED BY <1>0, <3>1
  <2> QED BY <2>1, <2>2
<1>2. win.handed \in Seq(Handed) /\ n \in Handed /\ ~ IsEvt(n)
  BY DEF TypeOK, Wins, Handed, Note, IsEvt
<1>3. Range(Append(win.handed, n)) = Range(win.handed) \cup {n} BY <1>2, AppendRange
<1> QED BY <1>1, <1>2, <1>3 DEF HandsOver
-----------------------------------------------------------------------------
(* The inductive invariant, on the window's side *)

\* A board stays older than the frames after it when those that are new are newer than it.
LEMMA TimedKeeps ==
  ASSUME NEW K, NEW M, NEW rw \in Boards, NEW b \in Boards, Below(b, rw), NEW e, NEW s,
         Timed(K, e, s, b),
         \A g \in M : g \in K \/ (g.row \in Rows => g.val \in Nat /\ rw[g.row] < g.val)
  PROVE  Timed(M, e, s, b)
<1> SUFFICES ASSUME NEW f \in M, f.row \in Rows, f.epoch = e, f.seq > s
             PROVE  f.val >= b[f.row]
  BY DEF Timed
<1>1. CASE f \in K BY <1>1 DEF Timed
<1>2. CASE f \notin K
  <2>1. f.val \in Nat /\ rw[f.row] < f.val BY <1>2
  <2>2. b[f.row] <= rw[f.row] /\ b[f.row] \in Nat /\ rw[f.row] \in Nat BY DEF Below, Boards
  <2> QED BY <2>1, <2>2
<1> QED BY <1>1, <1>2

\* A board that is older stays older.
LEMMA GoodKeeps ==
  ASSUME NEW K, NEW M, NEW rw \in Boards, NEW rw2 \in Boards, Below(rw, rw2),
         NEW vb, NEW e, NEW s, NEW b \in Boards, Good(K, vb, rw, e, s, b),
         \A g \in M : g \in K \/ (g.row \in Rows => g.val \in Nat /\ rw[g.row] < g.val)
  PROVE  Good(M, vb, rw2, e, s, b)
<1>1. Timed(M, e, s, b) BY TimedKeeps DEF Good
<1>2. Below(b, rw2)
  <2> SUFFICES ASSUME NEW r \in Rows PROVE b[r] <= rw2[r] BY DEF Below
  <2>1. b[r] <= rw[r] /\ rw[r] <= rw2[r] BY DEF Good, Below
  <2>2. b[r] \in Nat /\ rw[r] \in Nat /\ rw2[r] \in Nat BY DEF Boards
  <2> QED BY <2>1, <2>2
<1> QED BY <1>1, <1>2 DEF Good

\* What is known, with a frame that is numbered next.
LEMMA KnownFlows ==
  ASSUME TypeOK, TypeOK', Past(Known, epoch, seq, rows), Grows(Known), WinFlows, Known' \subseteq Evt
  PROVE  /\ Past(Known, epoch, seq, rows)' /\ Grows(Known)'
         /\ \A g \in Known' : g \in Known \/ (g.row \in Rows => g.val \in Nat /\ rows[g.row] < g.val)
<1> DEFINE K == Known
           M == Known'
<1>0. /\ epoch \in Nat /\ epoch' \in Nat /\ seq \in Nat /\ seq' \in Nat
      /\ \A r \in Rows : rows[r] \in Nat /\ rows'[r] \in Nat /\ rows[r] <= rows'[r]
  BY DEF TypeOK, HostOK, Boards, WinFlows
<1>1. \A g \in M : g \in Evt /\ g.epoch \in Nat /\ g.seq \in Nat /\ g.val \in Nat BY DEF Evt
<1>2. \A g \in M : g \in K \/ (/\ g.seq = seq + 1 /\ g.epoch = epoch /\ epoch' = epoch /\ seq' = seq + 1
                               /\ g.row \in Rows => rows'[g.row] = g.val /\ rows[g.row] < g.val)
  BY DEF WinFlows, Fresh
<1>3. \A g \in K : g \in Evt /\ g.epoch <= epoch /\ (g.epoch = epoch => g.seq <= seq)
                   /\ (g.row \in Rows => g.val <= rows[g.row])
  BY DEF Past
<1>4. \A g \in K, h \in K : g.row \in Rows /\ h.row = g.row /\ h.epoch = g.epoch /\ g.seq < h.seq
                              => g.val < h.val
  BY DEF Grows
<1>5. (epoch' = epoch /\ seq <= seq') \/ epoch' = epoch + 1 BY DEF WinFlows
<1> HIDE DEF K, M
<1>6. \A f \in M : /\ f \in Evt /\ f.epoch <= epoch' /\ (f.epoch = epoch' => f.seq <= seq')
                   /\ f.row \in Rows => f.val <= rows'[f.row]
  <2> SUFFICES ASSUME NEW f \in M
               PROVE  /\ f.epoch <= epoch' /\ (f.epoch = epoch' => f.seq <= seq')
                      /\ f.row \in Rows => f.val <= rows'[f.row]
    BY <1>1
  <2>1. CASE f \in K
    <3>1. f.epoch <= epoch' /\ (f.epoch = epoch' => f.seq <= seq') BY <2>1, <1>0, <1>1, <1>3, <1>5
    <3>2. f.row \in Rows => f.val <= rows'[f.row] BY <2>1, <1>0, <1>1, <1>3
    <3> QED BY <3>1, <3>2
  <2>2. CASE f \notin K BY <2>2, <1>0, <1>1, <1>2
  <2> QED BY <2>1, <2>2
<1>7. \A f \in M, g \in M : f.row \in Rows /\ g.row = f.row /\ g.epoch = f.epoch /\ f.seq < g.seq
                              => f.val < g.val
  <2> SUFFICES ASSUME NEW f \in M, NEW g \in M,
                      f.row \in Rows, g.row = f.row, g.epoch = f.epoch, f.seq < g.seq
               PROVE  f.val < g.val
    OBVIOUS
  <2>1. CASE f \in K /\ g \in K BY <2>1, <1>4
  <2>2. CASE f \notin K
    <3>1. f.seq = seq + 1 /\ f.epoch = epoch BY <2>2, <1>2
    <3>2. g.seq <= seq + 1
      <4>1. CASE g \in K BY <4>1, <3>1, <1>0, <1>1, <1>3
      <4>2. CASE g \notin K BY <4>2, <1>0, <1>2
      <4> QED BY <4>1, <4>2
    <3> QED BY <3>1, <3>2, <1>0, <1>1
  <2>3. CASE f \in K /\ g \notin K
    <3>1. rows[g.row] < g.val BY <2>3, <1>2
    <3>2. f.val <= rows[f.row] BY <2>3, <1>3
    <3> QED BY <3>1, <3>2, <1>0, <1>1
  <2> QED BY <2>1, <2>2, <2>3
<1>8. \A g \in M : g \in K \/ (g.row \in Rows => g.val \in Nat /\ rows[g.row] < g.val) BY <1>1, <1>2
<1> QED
  <2>1. Past(M, epoch', seq', rows') BY <1>6 DEF Past
  <2>2. Grows(M) BY <1>7 DEF Grows
  <2> QED BY <2>1, <2>2, <1>8 DEF K, M

\* What the window has, and the pages for it.
LEMMA ViewFlows ==
  ASSUME TypeOK, TypeOK', Past(Known, epoch, seq, rows), Grows(Known), Viewed, Paged, WinFlows,
         Known' \subseteq Evt
  PROVE  /\ Past(Known, epoch, seq, rows)' /\ Grows(Known)' /\ Viewed' /\ Paged'
         /\ reply' = reply /\ Loading => Loading'
<1>0. /\ epoch \in Nat /\ epoch' \in Nat /\ seq \in Nat
      /\ rows \in Boards /\ rows' \in Boards /\ view.board \in Boards /\ Below(rows, rows')
  BY DEF TypeOK, HostOK, WinFlows, Below, Views
<1>1. /\ Past(Known, epoch, seq, rows)' /\ Grows(Known)'
      /\ \A g \in Known' : g \in Known \/ (g.row \in Rows => g.val \in Nat /\ rows[g.row] < g.val)
  BY KnownFlows
<1> DEFINE M == Known'
<1>2. view'.board = view.board /\ view'.seq = view.seq /\ view'.epoch = view.epoch BY DEF WinFlows
<1>3. \A e, s : \A b \in Boards : Good(Known, view.board, rows, e, s, b) => Good(M, view.board, rows', e, s, b)
  <2> TAKE e, s
  <2> TAKE b \in Boards
  <2> HAVE Good(Known, view.board, rows, e, s, b)
  <2> HIDE DEF M
  <2>1. \A g \in M : g \in Known \/ (g.row \in Rows => g.val \in Nat /\ rows[g.row] < g.val)
    BY <1>1 DEF M
  <2> QED BY <2>1, <1>0, GoodKeeps
<1>4. Good(Known, view.board, rows, view.epoch, view.seq, view.board)
  BY <1>0 DEF Viewed, Good, Below, Boards
<1>5. Viewed' BY <1>0, <1>2, <1>3, <1>4 DEF Viewed, Good
<1>6. Paged'
  <2> SUFFICES ASSUME NEW x \in InTransit', x.says = "page", x.to = "window"
               PROVE  Good(M, view.board, rows', epoch', x.seq, x.rows)
    BY <1>2 DEF Paged
  <2>1. epoch' = epoch BY <1>0 DEF WinFlows
  <2>2. CASE \E y \in InTransit : Twin(x, y)
    <3>1. PICK y \in InTransit : Twin(x, y) BY <2>2
    <3>2. y.says = "page" /\ y.to = "window" /\ y.seq = x.seq /\ y.rows = x.rows BY <3>1 DEF Twin
    <3>3. y.rows \in Boards BY <3>1, TransitIs DEF Res
    <3>4. Good(Known, view.board, rows, epoch, y.seq, y.rows) BY <3>1, <3>2 DEF Paged
    <3> QED BY <2>1, <3>2, <3>3, <3>4, <1>3
  <2>3. CASE x.seq = seq /\ x.rows = rows
    <3>1. Timed(Known, epoch, seq, rows)
      <4> SUFFICES ASSUME NEW f \in Known, f.epoch = epoch, f.seq > seq PROVE FALSE BY DEF Timed
      <4>1. f.seq <= seq /\ f.seq \in Nat BY DEF Past, Evt
      <4> QED BY <4>1, <1>0
    <3>2. Good(Known, view.board, rows, epoch, seq, rows)
      BY <1>0, <3>1 DEF Viewed, Good, Below, Boards
    <3> QED BY <1>0, <1>3, <2>1, <2>3, <3>2
  <2> QED BY <2>2, <2>3 DEF WinFlows
<1>7. ASSUME reply' = reply, Loading PROVE Loading'
  <2> SUFFICES ASSUME reply.is = "page"
               PROVE  Good(M, view.board, rows', reply.epoch, reply.seq, reply.rows)
    BY <1>2, <1>7 DEF Loading
  <2>1. reply.rows \in Boards BY DEF TypeOK, Replies, Page, NoRead, Asked, Failed
  <2> QED BY <2>1, <1>3, <1>7 DEF Loading
<1> QED BY <1>1, <1>5, <1>6, <1>7

\* The frames of the window are frames.
LEMMA KnownOK == ASSUME TypeOK PROVE Known \subseteq Evt
<1>1. Ups \subseteq Evt BY UpsOK
<1>2. win.handed \in Seq(Handed) /\ view.buffer \in Seq(Evt) BY DEF TypeOK, Wins, Views
<1>3. Range(win.handed) \subseteq Handed /\ Range(view.buffer) \subseteq Evt BY <1>2, RangeIn
<1>4. \A x \in Handed : IsEvt(x) => x \in Evt BY DEF Handed, Note, IsEvt
<1> QED BY <1>1, <1>3, <1>4 DEF Known, Heard

\* The steps of the Host, of the socket and of the reader leave the window's board.
LEMMA WinFlowsFlows ==
  ASSUME TypeOK, TypeOK', Flows, HandsOver, view' = view
  PROVE  WinFlows
<1>1. \A g \in Known' : g \in Known \/ (Fresh(g) /\ epoch' = epoch /\ seq' = seq + 1)
  <2> SUFFICES ASSUME NEW g \in Known', g \notin Known
               PROVE  Fresh(g) /\ epoch' = epoch /\ seq' = seq + 1
    OBVIOUS
  <2>1. g \in Ups' BY DEF Known, Heard, HandsOver
  <2>2. g \notin Ups BY DEF Known
  <2> QED BY <2>1, <2>2 DEF Flows
<1> QED BY <1>1 DEF WinFlows, Flows

\* So does the reader that receives.
LEMMA WinFlowsGot ==
  ASSUME TypeOK, TypeOK', Order, NEW x, Gets(x), Buffers(x), HandsOver, view' = view
  PROVE  WinFlows
<1>1. Ups' \subseteq Ups /\ InTransit' \subseteq InTransit /\ HostSame
  BY OrderGot, TransitGot DEF Gets
<1>2. \A g \in Known' : g \in Known BY <1>1 DEF Known, Heard, HandsOver
<1>3. \A r \in Rows : rows[r] <= rows'[r] BY <1>1 DEF HostSame, TypeOK, HostOK, Boards
<1>4. seq <= seq' BY <1>1 DEF HostSame, TypeOK, HostOK
<1> QED BY <1>1, <1>2, <1>3, <1>4, TwinSelf DEF WinFlows, HostSame

\* So does a connection that is lost.
LEMMA WinFlowsHung ==
  ASSUME TypeOK, TypeOK', Calls, Order, Hung, HandsOver, view' = view
  PROVE  WinFlows
<1>1. Ups' = Range(ring') /\ InTransit' = {} BY OrderHung, CallsHung
<1>2. Range(ring') \subseteq Range(ring) /\ ((epoch' = epoch /\ seq <= seq') \/ epoch' = epoch + 1)
  <2>1. HostSame \/ (epoch' = epoch + 1 /\ Range(ring') = {}) BY OrderHung
  <2> QED BY <2>1 DEF HostSame, TypeOK, HostOK
<1>3. \A g \in Known' : g \in Known BY <1>1, <1>2 DEF Known, Heard, HandsOver, Ups
<1> QED BY <1>1, <1>2, <1>3 DEF WinFlows, Hung

\* Nothing is handed on.
LEMMA SameHands == ASSUME HandedSame PROVE HandsOver
BY DEF HandedSame, HandsOver

\* The window's call, through the steps in which it takes no part.
LEMMA CallingWindow == Calling({"window"}, ToWindow)
BY DEF Calling

\* No step of the Host, of the socket or of the reader touches the window's call.
LEMMA WindowCalls ==
  ASSUME TypeOK, TypeOK', Flowing \/ \E x : GetsEvt(x) \/ GetsRes(x)
  PROVE  KeepsCalls({"window"}, ToWindow)
<1> DEFINE Q == {"window"}
<1>0. Calling(Q, ToWindow) /\ "reader" \notin Q /\ "reader" \in Asks BY CallingWindow DEF Asks
<1>1. conn.asked \in Seq(Asks) /\ conn.answers \in Seq(Res) /\ L \in Seq(Item) BY LineOK
<1> HIDE DEF Q
<1>2. CASE Quiet /\ conn'.asked = conn.asked BY <1>0, <1>2, QuietCalls DEF Q
<1>3. CASE OthersResync
  <2>1. conn' = conn /\ L' = L BY <1>3 DEF OthersResync, L
  <2> QED BY <2>1 DEF KeepsCalls, Once, Never
<1>4. CASE Joins
  <2>1. conn'.asked = Append(conn.asked, "reader") /\ conn'.answers = conn.answers /\ L' = L
    BY <1>4 DEF Joins, ConnSame, LineSame, L
  <2> DEFINE q == "reader"
  <2>2. q \in Asks /\ q \notin Q /\ conn'.asked = Append(conn.asked, q) BY <1>0, <2>1
  <2> HIDE DEF q
  <2>3. /\ One(conn.asked, conn.answers, L, Q, ToWindow)
             => One(Append(conn.asked, q), conn.answers, L, Q, ToWindow)
        /\ None(conn.asked, conn.answers, L, Q, ToWindow)
             => None(Append(conn.asked, q), conn.answers, L, Q, ToWindow)
    BY <1>1, <2>2, OneAsks
  <2> QED BY <2>1, <2>2, <2>3 DEF KeepsCalls, Once, Never, Q
<1>5. ASSUME NEW f, Emits(f) \/ Recovers(f) PROVE KeepsCalls(Q, ToWindow) BY <1>0, <1>5, HandsCalls
<1>6. ASSUME NEW q, NEW a, Handles(q, a) PROVE KeepsCalls(Q, ToWindow) BY <1>0, <1>6, HandlesCalls
<1>7. ASSUME NEW a, NEW b, Writes(a, b) \/ Releases(a, b) PROVE KeepsCalls(Q, ToWindow)
  BY <1>0, <1>7, WrittenCalls
<1>8. ASSUME NEW x, GetsEvt(x) \/ GetsRes(x) PROVE KeepsCalls(Q, ToWindow)
  <2>1. Gets(x) BY <1>8 DEF GetsEvt, GetsRes
  <2>2. /\ Once(Q, ToWindow) => One(conn.asked, conn'.answers, L', Q, ToWindow)
        /\ Never(Q, ToWindow) => None(conn.asked, conn'.answers, L', Q, ToWindow)
    BY <1>0, <2>1, GotCalls
  <2>3. conn'.asked = conn.asked \/ conn'.asked = Append(conn.asked, "reader")
    BY <1>8 DEF GetsEvt, GetsRes
  <2> DEFINE q == "reader"
             an == conn'.answers
             li == L'
  <2>4. q \in Asks /\ q \notin Q BY <1>0
  <2> HIDE DEF q, an, li
  <2>5. /\ One(conn.asked, an, li, Q, ToWindow)
             => One(Append(conn.asked, q), an, li, Q, ToWindow)
        /\ None(conn.asked, an, li, Q, ToWindow)
             => None(Append(conn.asked, q), an, li, Q, ToWindow)
    BY <1>1, <2>4, OneAsks
  <2>6. CASE conn'.asked = conn.asked BY <2>2, <2>6 DEF KeepsCalls, Once, Never, Q
  <2>7. CASE conn'.asked = Append(conn.asked, "reader")
    BY <2>2, <2>5, <2>7 DEF KeepsCalls, Once, Never, Q, q, an, li
  <2> QED BY <2>3, <2>6, <2>7
<1> QED BY <1>2, <1>3, <1>4, <1>5, <1>6, <1>7, <1>8 DEF Flowing, Q

\* Every step but the window's own.
LEMMA FlowingFlows ==
  ASSUME TypeOK, TypeOK', ReaderInv, Flowing \/ Connects
  PROVE  Flows
<1>0. Calls /\ Order /\ Stamped BY DEF ReaderInv
<1>1. CASE Quiet \/ OthersResync \/ Joins BY <1>0, <1>1, FlowsSame
<1>2. ASSUME NEW f, Emits(f) \/ Recovers(f) PROVE Flows BY <1>0, <1>2, FlowsHands
<1>3. ASSUME NEW q, NEW a, Handles(q, a) PROVE Flows BY <1>0, <1>3, FlowsHandles
<1>4. ASSUME NEW a, NEW b, Writes(a, b) \/ Releases(a, b) PROVE Flows BY <1>0, <1>4, FlowsWritten
<1>5. CASE Connects BY <1>0, <1>5, FlowsConnects
<1> QED BY <1>1, <1>2, <1>3, <1>4, <1>5 DEF Flowing

\* What was received leaves the line, and at most a frame of it is buffered.
LEMMA GotOf ==
  ASSUME TypeOK, TypeOK', ReaderInv, NEW x, GetsEvt(x) \/ GetsRes(x) \/ GetsWin(x)
  PROVE  Gets(x) /\ Buffers(x)
<1>1. Got(x) BY EvtGot, ResGot, WinGot
<1> QED BY <1>1 DEF Got

\* The steps the window takes no part in keep its invariant.
LEMMA ViewStill ==
  ASSUME TypeOK, TypeOK', ReaderInv, ViewInv, Still,
         (HandedSame /\ Flowing) \/ Connects \/ \E x : GetsEvt(x) \/ GetsRes(x)
  PROVE  ViewInv'
<1>0. Calls /\ Order /\ Stamped /\ Known' \subseteq Evt /\ view' = view /\ reply' = reply
  <2>1. (TypeOK => Known \subseteq Evt)' BY KnownOK, PTL
  <2> QED BY <2>1 DEF ReaderInv, Still
<1>1. WinFlows
  <2>1. CASE HandedSame /\ Flowing BY <1>0, <2>1, FlowingFlows, SameHands, WinFlowsFlows
  <2>2. CASE Connects BY <1>0, <2>2, FlowingFlows, NotesHand, WinFlowsFlows
  <2>3. ASSUME NEW x, GetsEvt(x) \/ GetsRes(x) PROVE WinFlows
    <3>1. HandsOver BY <2>3, GetsHands
    <3>2. Gets(x) /\ Buffers(x) BY <2>3, GotOf
    <3> QED BY <1>0, <3>1, <3>2, WinFlowsGot
  <2> QED BY <2>1, <2>2, <2>3
<1>2. /\ Past(Known, epoch, seq, rows)' /\ Grows(Known)' /\ Viewed' /\ Paged' /\ Loading'
  BY <1>0, <1>1, ViewFlows DEF ViewInv
<1>3. Waiting'
  <2>1. CASE ~ Connects
    <3>1. KeepsCalls({"window"}, ToWindow) BY <2>1, WindowCalls
    <3> QED BY <1>0, <3>1 DEF KeepsCalls, ViewInv, Waiting
  <2>2. CASE Connects
    <3> DEFINE as == conn'.asked
               an == conn'.answers
               li == L'
               q == "subscribe"
               Q == {"window"}
    <3>1. as = <<q>> /\ q \notin Q /\ an = <<>> BY <2>2 DEF Connects
    <3>2. li = <<>> BY <1>0, <2>2 DEF Calls, Down, Connects, L
    <3> HIDE DEF as, an, li, q, Q
    <3>3. One(as, an, li, Q, ToWindow) /\ None(as, an, li, Q, ToWindow) BY <3>1, <3>2, NoCalls
    <3>4. Once({"window"}, ToWindow)' /\ Never({"window"}, ToWindow)'
      BY <3>3 DEF Once, Never, as, an, li, Q
    <3> QED BY <1>0, <3>4 DEF ViewInv, Waiting
  <2> QED BY <2>1, <2>2
<1> QED BY <1>2, <1>3 DEF ViewInv

\* A connection is lost: the read under way failed.
LEMMA ViewHung ==
  ASSUME TypeOK, TypeOK', ReaderInv, ViewInv, Hung, ReadsFail, view' = view
  PROVE  ViewInv'
<1>0. Calls /\ Order /\ Stamped /\ Known' \subseteq Evt
  <2>1. (TypeOK => Known \subseteq Evt)' BY KnownOK, PTL
  <2> QED BY <2>1 DEF ReaderInv
<1>1. WinFlows BY <1>0, NotesHand, WinFlowsHung
<1>2. /\ Past(Known, epoch, seq, rows)' /\ Grows(Known)' /\ Viewed' /\ Paged'
      /\ reply' = reply /\ Loading => Loading'
  BY <1>0, <1>1, ViewFlows DEF ViewInv
<1>3. Loading'
  <2>1. CASE reply = Asked
    <3>1. reply'.is = "failed" BY <2>1 DEF ReadsFail, Failed
    <3> QED BY <3>1 DEF Loading
  <2>2. CASE reply # Asked
    <3>1. reply' = reply BY <2>2 DEF ReadsFail
    <3> QED BY <1>2, <3>1 DEF ViewInv
  <2> QED BY <2>1, <2>2
<1>4. Waiting'
  <2> DEFINE as == conn'.asked
             an == conn'.answers
             li == L'
             Q == {"window"}
  <2>1. as = <<>> /\ an = <<>> /\ li = <<>> BY CallsHung, ClosedIs DEF Hung
  <2> HIDE DEF as, an, li, Q
  <2>2. One(as, an, li, Q, ToWindow) /\ None(as, an, li, Q, ToWindow) BY <2>1, NoCalls
  <2>3. Once({"window"}, ToWindow)' /\ Never({"window"}, ToWindow)'
    BY <2>2 DEF Once, Never, as, an, li, Q
  <2>4. reply' # NoRead => reply # NoRead BY DEF ReadsFail, Asked, NoRead
  <2> QED BY <2>3, <2>4 DEF ViewInv, Waiting
<1> QED BY <1>2, <1>3, <1>4 DEF ViewInv

\* The answer to the window's read.
LEMMA ViewAnswered ==
  ASSUME TypeOK, TypeOK', ReaderInv, ViewInv, NEW a, Answered(a), view' = view
  PROVE  ViewInv'
<1>0. /\ Calls /\ Order /\ Stamped /\ Known' \subseteq Evt
      /\ GetsWin(a) /\ Gets(a) /\ a \in Res /\ a.to = "window" /\ win' = win
      /\ conn'.asked = conn.asked
  <2>1. (TypeOK => Known \subseteq Evt)' BY KnownOK, PTL
  <2> QED BY <2>1 DEF ReaderInv, Answered, GetsWin
<1>1. WinFlows
  <2>1. HandsOver BY <1>0 DEF HandsOver
  <2>2. Buffers(a) BY <1>0, GotOf
  <2> QED BY <1>0, <2>1, <2>2, WinFlowsGot
<1>2. /\ Past(Known, epoch, seq, rows)' /\ Grows(Known)' /\ Viewed' /\ Paged'
  BY <1>0, <1>1, ViewFlows DEF ViewInv
<1>3. a \in InTransit BY <1>0, TransitGot
<1>4. Loading'
  <2>1. CASE a.says = "page"
    <3>1. reply' = [is |-> "page", epoch |-> epoch, seq |-> a.seq, rows |-> a.rows]
      BY <2>1 DEF Answered
    <3>2. Good(Known, view.board, rows, epoch, a.seq, a.rows) BY <2>1, <1>0, <1>3 DEF ViewInv, Paged
    <3>3. rows' = rows /\ Known' \subseteq Known
      <4>1. HostSame BY <1>0 DEF Gets
      <4>2. Ups' \subseteq Ups BY <1>0, GotOf, OrderGot
      <4> QED BY <4>1, <4>2, <1>0 DEF HostSame, Known, Heard
    <3> QED BY <3>1, <3>2, <3>3 DEF Loading, Good, Timed
  <2>2. CASE a.says # "page"
    <3>1. reply'.is = "failed" BY <2>2 DEF Answered, Failed
    <3> QED BY <3>1 DEF Loading
  <2> QED BY <2>1, <2>2
<1>5. Waiting'
  <2> DEFINE Q == {"window"}
  <2>0. Calling(Q, ToWindow) /\ a \in ToWindow BY <1>0, CallingWindow DEF ToWindow
  <2>1. Once(Q, ToWindow) BY DEF ViewInv, Waiting
  <2> HIDE DEF Q
  <2>2. /\ One(conn.asked, conn'.answers, L', Q, ToWindow)
        /\ None(conn.asked, conn'.answers, L', Q, ToWindow)
        /\ Never(Q, ToWindow) => FALSE
    BY <1>0, <2>0, <2>1, GotCalls
  <2>3. Once(Q, ToWindow)' /\ Never(Q, ToWindow)' BY <1>0, <2>2 DEF Once, Never, Q
  <2>4. reply = Asked BY <2>2 DEF ViewInv, Waiting, Q
  <2>5. view'.phase = "syncing" BY <2>4 DEF ViewInv, Waiting, Asked, NoRead
  <2> QED BY <2>3, <2>5 DEF Waiting, Q
<1> QED BY <1>2, <1>4, <1>5 DEF ViewInv

\* A step of the window leaves it one read at most, while it waits.
LEMMA ReadingCalls ==
  ASSUME TypeOK, TypeOK', Waiting, Quiet, Reading
  PROVE  Waiting'
<1> DEFINE Q == {"window"}
           q == "window"
<1>0. Calling(Q, ToWindow) /\ q \in Asks /\ Once(Q, ToWindow) /\ (reply # Asked => Never(Q, ToWindow))
  BY CallingWindow DEF Asks, Waiting
<1>1. conn.asked \in Seq(Asks) /\ L' = L /\ conn'.answers = conn.answers
  BY LineOK DEF Quiet, LineSame, ConnSame, L
<1> HIDE DEF Q, q
<1>2. CASE reply # Asked /\ WindowReads /\ view'.phase = "syncing"
  <2>1. CASE conn.up
    <3>1. reply' = Asked /\ conn'.asked = Append(conn.asked, q) BY <1>2, <2>1 DEF WindowReads, q
    <3>2. One(conn.asked, conn.answers, L, Q, ToWindow) /\ None(conn.asked, conn.answers, L, Q, ToWindow)
      BY <1>0, <1>2 DEF Once, Never
    <3>3. One(Append(conn.asked, q), conn.answers, L, Q, ToWindow) BY <1>0, <1>1, <3>2, OneAsks
    <3>4. Once(Q, ToWindow)' BY <1>1, <3>1, <3>3 DEF Once, Q
    <3> QED BY <1>2, <3>1, <3>4 DEF Waiting, Q
  <2>2. CASE ~ conn.up
    <3>1. conn'.asked = conn.asked BY <1>2, <2>2 DEF WindowReads
    <3>2. Once(Q, ToWindow)' /\ Never(Q, ToWindow)' BY <1>0, <1>1, <1>2, <3>1 DEF Once, Never, Q
    <3> QED BY <1>2, <3>2 DEF Waiting, Q
  <2> QED BY <2>1, <2>2
<1>3. CASE reply # Asked /\ reply' = NoRead /\ conn'.asked = conn.asked
  <2>1. Once(Q, ToWindow)' /\ Never(Q, ToWindow)' BY <1>0, <1>1, <1>3 DEF Once, Never, Q
  <2> QED BY <1>3, <2>1 DEF Waiting, Q
<1>4. CASE /\ reply' = reply /\ conn'.asked = conn.asked
           /\ reply = NoRead \/ (view'.phase = "syncing" /\ view'.board = view.board)
  <2>1. Once(Q, ToWindow)' /\ (reply # Asked => Never(Q, ToWindow)')
    BY <1>0, <1>1, <1>4 DEF Once, Never, Q
  <2> QED BY <1>4, <2>1 DEF Waiting, Q
<1> QED BY <1>2, <1>3, <1>4 DEF Reading

\* A step of the window keeps its invariant when its board goes on.
LEMMA WindowMoves ==
  ASSUME TypeOK, TypeOK', ReaderInv, ViewInv, Quiet, Range(win'.handed) \subseteq Range(win.handed),
         Advancing, Reading
  PROVE  ViewInv'
<1>0. Order /\ Stamped /\ HostSame BY DEF ReaderInv, Quiet
<1>1. InTransit' = InTransit /\ Ups' = Ups BY <1>0, FlowsSame, OrderSame
<1>2. Known' \subseteq Known BY <1>1 DEF Known, Heard, Advancing
<1>3. rows' = rows /\ epoch' = epoch /\ seq' = seq BY <1>0 DEF HostSame
<1>4. Past(Known, epoch, seq, rows)' BY <1>2, <1>3 DEF ViewInv, Past
<1>5. Grows(Known)' BY <1>2 DEF ViewInv, Grows
<1>6. Viewed' BY <1>2, <1>3 DEF Advancing, Viewed, Timed
<1>7. Waiting' BY ReadingCalls DEF ViewInv
<1>9. Paged'
  <2> SUFFICES ASSUME NEW x \in InTransit, x.says = "page", x.to = "window"
               PROVE  Good(Known', view'.board, rows', epoch', x.seq, x.rows)
    BY <1>1 DEF Paged
  <2>1. x \in Res /\ x \in ToWindow BY TransitIs DEF ToWindow
  <2>2. ~ Never({"window"}, ToWindow) BY <2>1, TransitIs DEF Never
  <2>3. reply = Asked BY <2>2 DEF ViewInv, Waiting
  <2>4. view'.board = view.board BY <2>3 DEF Reading, Asked, NoRead
  <2>5. Good(Known, view.board, rows, epoch, x.seq, x.rows) BY DEF ViewInv, Paged
  <2> QED BY <2>4, <2>5, <1>2, <1>3 DEF Good, Timed
<1>10. Loading'
  <2> SUFFICES ASSUME reply'.is = "page"
               PROVE  Good(Known', view'.board, rows', reply'.epoch, reply'.seq, reply'.rows)
    BY DEF Loading
  <2>1. reply' = reply /\ view'.board = view.board
    BY DEF Reading, WindowReads, Asked, NoRead, Failed
  <2>2. Good(Known, view.board, rows, reply.epoch, reply.seq, reply.rows)
    BY <2>1 DEF ViewInv, Loading
  <2> QED BY <2>1, <2>2, <1>2, <1>3 DEF Good, Timed
<1> QED BY <1>4, <1>5, <1>6, <1>7, <1>9, <1>10 DEF ViewInv

\* A board is as it was, with nothing new in the buffer.
LEMMA BoardStays ==
  ASSUME TypeOK, ViewInv, view'.board = view.board, view'.seq = view.seq, view'.epoch = view.epoch,
         \A f \in Range(view'.buffer) : f \in Known
  PROVE  Advancing
<1>1. Below(view.board, view.board) BY DEF TypeOK, Views, Below, Boards
<1> QED BY <1>1 DEF Advancing, ViewInv, Viewed

\* A window opens.
LEMMA ViewOpens ==
  ASSUME TypeOK, ReaderInv, ViewInv, WindowOpens
  PROVE  ViewInv' /\ Below(view.board, view'.board)
<1>1. /\ TypeOK' /\ Quiet /\ WindowReads /\ win'.handed = win.handed
      /\ view.phase = "idle" /\ view'.phase = "syncing" /\ view'.buffer = view.buffer
      /\ view'.seq = view.seq /\ view'.epoch = view.epoch /\ view'.board = view.board
  BY WindowOpensIs
<1>2. reply # Asked BY <1>1 DEF ViewInv, Waiting, Asked, NoRead
<1>3. Reading BY <1>1, <1>2 DEF Reading
<1>4. Advancing BY <1>1, BoardStays DEF Known, Heard
<1> QED BY <1>1, <1>3, <1>4, WindowMoves DEF Advancing

\* What a frame makes of the follower's board.
LEMMA HearsGood ==
  ASSUME NEW rw \in Boards, NEW K, NEW e, NEW n, Past(K, e, n, rw), Grows(K),
         NEW v \in Views, Below(v.board, rw), Timed(K, v.epoch, v.seq, v.board),
         NEW f \in K, f \in Evt, NEW w, w = Hears(v, f)
  PROVE  /\ Below(v.board, w.board) /\ Below(w.board, rw) /\ Timed(K, w.epoch, w.seq, w.board)
         /\ w \in Views /\ Range(w.buffer) \subseteq Range(v.buffer) \cup {f}
<1>0. /\ v.board \in Boards /\ v.seq \in Nat /\ f.seq \in Nat /\ f.val \in Nat
      /\ w \in Views
  BY HearsIs DEF Views, Evt
<1>1. Applied(v, f, w) BY HearsIs
<1>2. CASE /\ w.seq = v.seq /\ w.epoch = v.epoch /\ w.board = v.board
           /\ Range(w.buffer) \subseteq Range(v.buffer) \cup {f}
  <2>1. Below(v.board, v.board) BY <1>0 DEF Below, Boards
  <2> QED BY <1>0, <1>2, <2>1
<1>3. CASE /\ f.row # Resync /\ f.epoch = v.epoch
           /\ f.seq > v.seq /\ w.seq = f.seq /\ w.epoch = v.epoch /\ w.buffer = v.buffer
           /\ w.board = [v.board EXCEPT ![f.row] = f.val]
  <2>1. f.row \in Rows BY <1>3 DEF Evt
  <2>2. v.board[f.row] <= f.val /\ f.val <= rw[f.row] BY <1>0, <1>3, <2>1 DEF Timed, Past, Boards
  <2>3. \A r \in Rows : w.board[r] = IF r = f.row THEN f.val ELSE v.board[r]
    BY <1>0, <1>3 DEF Boards
  <2>4. Below(v.board, w.board) /\ Below(w.board, rw) BY <1>0, <2>2, <2>3 DEF Below, Boards
  <2>5. Timed(K, v.epoch, f.seq, w.board)
    <3> SUFFICES ASSUME NEW g \in K, g.row \in Rows, g.epoch = v.epoch, g.seq > f.seq
                 PROVE  g.val >= w.board[g.row]
      BY DEF Timed
    <3>0. g.seq \in Nat /\ g.val \in Nat BY DEF Past, Evt
    <3>1. CASE g.row = f.row
      <4>1. f.val < g.val BY <1>0, <1>3, <2>1, <3>0, <3>1 DEF Grows
      <4> QED BY <1>0, <2>3, <3>0, <3>1, <4>1
    <3>2. CASE g.row # f.row
      <4>1. g.seq > v.seq BY <1>0, <1>3, <3>0
      <4> QED BY <2>3, <3>2, <4>1 DEF Timed
    <3> QED BY <3>1, <3>2
  <2> QED BY <1>0, <1>3, <2>4, <2>5
<1> QED BY <1>1, <1>2, <1>3 DEF Applied

\* A board that is older than an older one is older.
LEMMA BelowTrans ==
  ASSUME NEW a \in Boards, NEW b \in Boards, NEW c \in Boards, Below(a, b), Below(b, c)
  PROVE  Below(a, c)
BY DEF Below, Boards

\* What a window heard, or a state of the connection, makes of it.
LEMMA ViewHears ==
  ASSUME TypeOK, ReaderInv, ViewInv, WindowHears
  PROVE  ViewInv' /\ Below(view.board, view'.board)
<1> DEFINE item == Head(win.handed)
<1>1. /\ TypeOK' /\ Quiet /\ win.handed # <<>> /\ win'.handed = Tail(win.handed) /\ item \in Handed
      /\ view' = (IF IsEvt(item) THEN Hears(view, item) ELSE Linked(view, item.type))
      /\ IF view.phase # "syncing" /\ view'.phase = "syncing" THEN WindowReads
         ELSE reply' = reply /\ conn'.asked = conn.asked
  BY WindowHearsIs
<1>2. item \in Range(win.handed) /\ Range(win'.handed) \subseteq Range(win.handed)
  <2> DEFINE h == win.handed
  <2>1. h \in Seq(Handed) /\ h # <<>> BY <1>1 DEF TypeOK, Wins
  <2> HIDE DEF h
  <2>2. Range(h) = {Head(h)} \cup Range(Tail(h)) BY <2>1, RangeHeadTail
  <2> QED BY <1>1, <2>2 DEF h
<1>3. view \in Views /\ view' \in Views /\ rows \in Boards BY <1>1 DEF TypeOK, HostOK
<1> HIDE DEF item
<1>4. /\ Advancing
      /\ view.phase = "syncing" => view'.phase = "syncing" /\ view'.board = view.board
  <2>1. CASE IsEvt(item)
    <3>1. item \in Evt /\ item \in Known BY <2>1, <1>1, <1>2 DEF Handed, Note, IsEvt, Known, Heard
    <3> DEFINE w == view'
    <3>2. w = Hears(view, item) BY <2>1, <1>1
    <3>3. Past(Known, epoch, seq, rows) /\ Grows(Known) /\ Below(view.board, rows)
          /\ Timed(Known, view.epoch, view.seq, view.board)
      BY DEF ViewInv, Viewed
    <3> HIDE DEF w
    <3>4. /\ Below(view.board, w.board) /\ Below(w.board, rows) /\ Timed(Known, w.epoch, w.seq, w.board)
          /\ Range(w.buffer) \subseteq Range(view.buffer) \cup {item}
      BY <1>3, <3>1, <3>2, <3>3, HearsGood
    <3>5. view.phase = "syncing" => w.phase = "syncing" /\ w.board = view.board
      <4>1. view.phase = "syncing" => w.phase = "syncing" BY <1>3, <3>1, <3>2, HearsIs
      <4>2. Applied(view, item, w) BY <1>3, <3>1, <3>2, HearsIs
      <4> QED BY <4>1, <4>2 DEF Applied
    <3> QED BY <3>1, <3>4, <3>5 DEF w, Advancing, Known, Heard
  <2>2. CASE ~ IsEvt(item)
    <3>1. item.type \in {"connected", "reconnecting"} BY <2>2, <1>1 DEF Handed, Note, Evt, IsEvt
    <3>2. /\ view'.seq = view.seq /\ view'.epoch = view.epoch /\ view'.board = view.board
          /\ Range(view'.buffer) \subseteq Range(view.buffer)
          /\ view'.phase \in {view.phase, "syncing"}
      <4> DEFINE w == view'
                 st == item.type
      <4>1. w = Linked(view, st) /\ st \in {"connected", "reconnecting"} BY <1>1, <2>2, <3>1
      <4> HIDE DEF w, st
      <4>2. /\ w.seq = view.seq /\ w.epoch = view.epoch /\ w.board = view.board
            /\ Range(w.buffer) \subseteq Range(view.buffer)
            /\ w.phase \in {view.phase, "syncing"}
        BY <1>3, <4>1, LinkedIs
      <4> QED BY <4>2 DEF w
    <3> QED BY <3>2, BoardStays DEF Known, Heard
  <2> QED BY <2>1, <2>2
<1>5. Reading
  <2>1. reply # NoRead => view.phase = "syncing" BY DEF ViewInv, Waiting
  <2>2. CASE view.phase # "syncing" /\ view'.phase = "syncing"
    BY <1>1, <2>1, <2>2 DEF Reading, Asked, NoRead
  <2>3. CASE ~ (view.phase # "syncing" /\ view'.phase = "syncing")
    BY <1>1, <1>4, <2>1, <2>3 DEF Reading
  <2> QED BY <2>2, <2>3
<1> QED BY <1>1, <1>2, <1>4, <1>5, WindowMoves DEF Advancing

\* The window takes a page, then the frames it held during its read.
LEMMA ReadGood ==
  ASSUME NEW rw \in Boards, NEW K, NEW e, NEW n, Past(K, e, n, rw), Grows(K),
         NEW v \in Views, NEW p \in Page, Good(K, v.board, rw, p.epoch, p.seq, p.rows),
         Range(v.buffer) \subseteq K, NEW w, w = Read(v, p)
  PROVE  /\ Below(v.board, w.board) /\ Below(w.board, rw) /\ Timed(K, w.epoch, w.seq, w.board)
         /\ Range(w.buffer) \subseteq K
<1> DEFINE Ok(x) == /\ Below(v.board, x.board) /\ Below(x.board, rw)
                    /\ Timed(K, x.epoch, x.seq, x.board) /\ Range(x.buffer) \subseteq K
<1>0. PICK q \in Seq(Evt) : \E d \in [0..Len(q) -> Views] : Runs(v, p, q, d) BY ReadIs
<1>e. PICK d \in [0..Len(q) -> Views] : Runs(v, p, q, d) BY <1>0
<1>1. /\ Range(q) = {f \in Range(v.buffer) : f.epoch = p.epoch}
      /\ d[0].seq = p.seq /\ d[0].epoch = p.epoch
      /\ d[0].board = p.rows /\ Range(d[0].buffer) = {}
      /\ \A i \in 1..Len(q) : d[i] = Hears(d[i - 1], q[i])
      /\ Read(v, p) = IF v.again THEN Resyncs(d[0], q) ELSE d[Len(q)]
  BY <1>e DEF Runs
<1> DEFINE m == Len(q)
<1>2. m \in Nat /\ DOMAIN q = 1..m /\ \A i \in 1..m : q[i] \in Evt /\ q[i] \in K
  <2>1. m \in Nat /\ DOMAIN q = 1..m /\ \A i \in 1..m : q[i] \in Evt BY <1>0
  <2>2. \A i \in 1..m : q[i] \in Range(q) BY <2>1 DEF Range
  <2>3. \A f \in Range(q) : f \in K BY <1>1
  <2> QED BY <2>1, <2>2, <2>3
<1>3. Ok(d[0]) BY <1>1 DEF Good
<1>4. CASE v.again
  <2>1. d[0] \in Views BY <1>1, <1>2
  <2>2. w = Resyncs(d[0], q) BY <1>1, <1>4
  <2> DEFINE x == d[0]
  <2>5. x \in Views /\ w = Resyncs(x, q) /\ q \in Seq(Evt) BY <1>0, <2>1, <2>2
  <2> HIDE DEF x
  <2>3. /\ w.seq = x.seq /\ w.epoch = x.epoch /\ w.board = x.board
        /\ SansResyncs(w.buffer, q)
    BY <2>5, ResyncsIs
  <2>4. Ok(x) BY <1>3 DEF x
  <2> QED BY <1>1, <2>3, <2>4 DEF SansResyncs
<1>5. CASE ~ v.again
  <2> DEFINE S == {i \in Nat : i <= m => Ok(d[i])}
  <2>1. 0 \in S BY <1>3
  <2>2. \A i \in Nat : i \in S => i + 1 \in S
    <3> SUFFICES ASSUME NEW i \in Nat, i \in S, i + 1 <= m
                 PROVE  Ok(d[i + 1])
      OBVIOUS
    <3>1. i + 1 \in 1..m /\ (i + 1) - 1 = i /\ i \in 0..m /\ i + 1 \in 0..m /\ i <= m BY <1>2
    <3> DEFINE x == d[i]
               y == d[i + 1]
               f == q[i + 1]
    <3>2. y = Hears(x, f) /\ x \in Views /\ y \in Views
      <4>1. \A j \in 1..m : d[j] = Hears(d[j - 1], q[j]) BY <1>1
      <4> QED BY <1>1, <3>1, <4>1
    <3>3. f \in Evt /\ f \in K BY <1>2, <3>1
    <3>4. Ok(x) BY <3>1
    <3> HIDE DEF x, y, f
    <3>5. /\ Below(x.board, y.board) /\ Below(y.board, rw) /\ Timed(K, y.epoch, y.seq, y.board)
          /\ Range(y.buffer) \subseteq Range(x.buffer) \cup {f}
      BY <3>2, <3>3, <3>4, HearsGood
    <3>6. Below(v.board, y.board)
      <4>1. v.board \in Boards /\ x.board \in Boards /\ y.board \in Boards BY <3>2 DEF Views
      <4> QED BY <4>1, <3>4, <3>5, BelowTrans
    <3>7. Ok(y) BY <3>3, <3>4, <3>5, <3>6
    <3> QED BY <3>7 DEF y
  <2>3. m \in S
    <3> HIDE DEF S
    <3>1. \A i \in Nat : i \in S BY <2>1, <2>2, SetInduction
    <3> QED BY <1>2, <3>1
  <2>4. Ok(d[m]) BY <2>3, <1>2
  <2>5. w = d[m] BY <1>1, <1>5
  <2> QED BY <2>4, <2>5
<1> QED BY <1>4, <1>5

\* The read of the window ended.
LEMMA ViewLoads ==
  ASSUME TypeOK, ReaderInv, ViewInv, WindowLoads
  PROVE  ViewInv' /\ Below(view.board, view'.board)
<1>1. /\ TypeOK' /\ Quiet /\ win' = win /\ reply.is \in {"page", "failed"}
      /\ (reply.is = "page" => reply \in Page)
      /\ view' = (IF reply.is = "page" THEN Read(view, reply) ELSE Unread(view))
      /\ IF view'.phase = "syncing" THEN WindowReads
         ELSE reply' = NoRead /\ conn'.asked = conn.asked
  BY WindowLoadsIs
<1>2. view \in Views /\ rows \in Boards BY DEF TypeOK, HostOK
<1>3. Reading
  <2>1. reply # Asked BY <1>1 DEF Asked
  <2> QED BY <1>1, <2>1 DEF Reading
<1>4. Advancing
  <2>1. CASE reply.is = "page"
    <3> DEFINE w == view'
    <3>1. w = Read(view, reply) /\ reply \in Page BY <1>1, <2>1
    <3>2. /\ Past(Known, epoch, seq, rows) /\ Grows(Known)
          /\ Good(Known, view.board, rows, reply.epoch, reply.seq, reply.rows)
      BY <2>1 DEF ViewInv, Loading
    <3>3. Range(view.buffer) \subseteq Known BY DEF Known, Heard
    <3> HIDE DEF w
    <3>4. /\ Below(view.board, w.board) /\ Below(w.board, rows) /\ Timed(Known, w.epoch, w.seq, w.board)
          /\ Range(w.buffer) \subseteq Known
      BY <1>2, <3>1, <3>2, <3>3, ReadGood
    <3> QED BY <3>4 DEF w, Advancing
  <2>2. CASE reply.is # "page"
    <3> DEFINE w == view'
    <3>1. w = Unread(view) BY <1>1, <2>2
    <3> HIDE DEF w
    <3>2. w.seq = view.seq /\ w.epoch = view.epoch /\ w.board = view.board /\ Range(w.buffer) = {}
      BY <1>2, <3>1, UnreadIs
    <3> QED BY <3>2, BoardStays DEF w
  <2> QED BY <2>1, <2>2
<1> QED BY <1>1, <1>3, <1>4, WindowMoves DEF Advancing

\* The window's invariant, and its board, through every step.
LEMMA ViewStep ==
  ASSUME TypeOK, TypeOK', ReaderInv, ViewInv, Follows
  PROVE  ViewInv' /\ Below(view.board, view'.board)
<1>0. view' = view => Below(view.board, view'.board) BY DEF TypeOK, Views, Below, Boards
<1>1. CASE Still /\ HandedSame /\ Flowing BY <1>0, <1>1, ViewStill DEF Still
<1>2. CASE Still /\ (Connects \/ \E x : GetsEvt(x) \/ GetsRes(x)) BY <1>0, <1>2, ViewStill DEF Still
<1>2a. CASE Still /\ \E x : (GetsEvt(x) /\ snaps' = snaps) \/ (GetsRes(x) /\ Snaps(x))
  BY <1>2, <1>2a
<1>3. CASE view' = view /\ ReadsFail /\ Hung BY <1>0, <1>3, ViewHung
<1>4. CASE view' = view /\ \E a : Answered(a) BY <1>0, <1>4, ViewAnswered
<1>5. CASE WindowOpens BY <1>5, ViewOpens
<1>6. CASE WindowHears BY <1>6, ViewHears
<1>7. CASE WindowLoads BY <1>7, ViewLoads
<1> QED BY <1>1, <1>2, <1>2a, <1>3, <1>4, <1>5, <1>6, <1>7 DEF Follows

\* The first state has the window's invariant.
LEMMA InitView == Init => ViewInv
<1> SUFFICES ASSUME Init PROVE ViewInv OBVIOUS
<1>1. /\ conn = Closed /\ out = Idle /\ ring = <<>>
      /\ win.buffer = <<>> /\ win.handed = <<>> /\ view.buffer = <<>>
      /\ rows = [r \in Rows |-> 1] /\ view.board = [r \in Rows |-> 0] /\ reply = NoRead
  BY DEF Init, FInit
<1>2. /\ conn.asked = <<>> /\ conn.answers = <<>>
      /\ conn.held = <<>> /\ out.sock = <<>> /\ out.queue = <<>>
  BY <1>1, ClosedIs
<1>3. L = <<>> BY <1>2 DEF L, Line
<1>4. Range(conn.answers) = {} /\ Range(L) = {} /\ Range(conn.held) = {} /\ Range(ring) = {}
      /\ Range(win.buffer) = {} /\ Range(win.handed) = {} /\ Range(view.buffer) = {}
  BY <1>1, <1>2, <1>3 DEF Range
<1>5. InTransit = {} /\ Known = {}
  BY <1>4 DEF InTransit, Firsts, Later, Evts, Bag, Ups, Known, Heard
<1>6. Past(Known, epoch, seq, rows) /\ Grows(Known) /\ Viewed /\ Paged
  BY <1>1, <1>5 DEF Past, Grows, Viewed, Timed, Below, Paged
<1>7. Loading BY <1>1 DEF Loading, NoRead
<1>8. Waiting BY <1>1, <1>2, <1>3, NoCalls DEF Waiting, Once, Never
<1> QED BY <1>6, <1>7, <1>8 DEF ViewInv

\* The window's invariant, with the reader's, in every state.
LEMMA ViewKept == Spec => [](TypeOK /\ ReaderInv /\ ViewInv)
<1>1. Init => TypeOK /\ ReaderInv /\ ViewInv BY InitTyped, InitReader, InitView
<1>2. TypeOK /\ ReaderInv /\ ViewInv /\ [Next]_vars => (TypeOK /\ ReaderInv /\ ViewInv)'
  <2> SUFFICES ASSUME TypeOK, ReaderInv, ViewInv, [Next]_vars
               PROVE  TypeOK' /\ ReaderInv' /\ ViewInv'
    OBVIOUS
  <2>1. TypeOK' /\ Moves /\ Follows BY NextIs, FollowsIs
  <2> QED BY <2>1, ReaderStep, ViewStep
<1> QED BY <1>1, <1>2, PTL DEF Spec

\* NeverBackwardsHolds: no step puts a row of the reader's board, or of the window's, back to
\* an older version: not a late frame, not one that was applied before, not a snapshot that was
\* read before it, whatever was folded, dropped or replayed on the way
\* (snapshotReader.ts:153-155, readModel.ts applyEvent).
THEOREM NeverBackwardsHolds == Spec => NeverBackwards
<1>1. TypeOK /\ ReaderInv /\ ViewInv /\ [Next]_vars
      => [\A r \in Rows : win'.board[r] >= win.board[r] /\ view'.board[r] >= view.board[r]]_vars
  <2> SUFFICES ASSUME TypeOK, ReaderInv, ViewInv, [Next]_vars
               PROVE  \A r \in Rows : win'.board[r] >= win.board[r] /\ view'.board[r] >= view.board[r]
    OBVIOUS
  <2>1. TypeOK' /\ Moves /\ Follows BY NextIs, FollowsIs
  <2>2. Below(win.board, win'.board) /\ Below(view.board, view'.board) BY <2>1, ReaderStep, ViewStep
  <2>3. \A r \in Rows : /\ win.board[r] \in Nat /\ win'.board[r] \in Nat
                        /\ view.board[r] \in Nat /\ view'.board[r] \in Nat
    BY <2>1 DEF TypeOK, Wins, Views, Boards
  <2> QED BY <2>2, <2>3 DEF Below
<1> QED BY <1>1, ViewKept, PTL DEF Spec, NeverBackwards

-----------------------------------------------------------------------------
(* What is handed on to the window: states that alternate, frames in order *)

\* Frames change nothing of the states.
LEMMA AlternateGrown ==
  ASSUME NEW h \in Seq(Handed), NEW h2 \in Seq(Handed), Grown(h, h2), NEW link, NEW up,
         Alternate(h, link, up)
  PROVE  Alternate(h2, link, up)
<1>1. /\ Len(h) \in Nat /\ DOMAIN h = 1..Len(h) /\ Len(h2) \in Nat /\ DOMAIN h2 = 1..Len(h2)
      /\ Len(h) <= Len(h2) /\ \A i \in DOMAIN h : i \in DOMAIN h2 /\ h2[i] = h[i]
  BY DEF Grown
<1>2. \A i \in DOMAIN h2 : IsNote(h2[i], "connected") => i \in DOMAIN h /\ IsNote(h[i], "connected")
  BY DEF Grown, IsNote, IsEvt
<1>3. \A i, j, m \in Nat : Between(h, i, j) /\ j <= m => Between(h2, i, m)
  <2> SUFFICES ASSUME NEW i \in Nat, NEW j \in Nat, NEW m \in Nat, Between(h, i, j), j <= m
               PROVE  Between(h2, i, m)
    OBVIOUS
  <2>1. PICK k \in DOMAIN h : i < k /\ k < j /\ IsNote(h[k], "reconnecting") BY DEF Between
  <2>2. k \in DOMAIN h2 /\ h2[k] = h[k] /\ k < m BY <1>1, <2>1
  <2> QED BY <2>1, <2>2 DEF Between
<1>4. \A i, j \in DOMAIN h2 :
       i < j /\ IsNote(h2[i], "connected") /\ IsNote(h2[j], "connected") => Between(h2, i, j)
  BY <1>1, <1>2, <1>3 DEF Alternate
<1>5. \A j \in DOMAIN h2 : link = "connected" /\ IsNote(h2[j], "connected") => Between(h2, 0, j)
  BY <1>1, <1>2, <1>3 DEF Alternate
<1>6. ~ up => \A i \in DOMAIN h2 : IsNote(h2[i], "connected") => Between(h2, i, Len(h2) + 1)
  BY <1>1, <1>2, <1>3 DEF Alternate
<1>7. ~ up /\ link = "connected" => Between(h2, 0, Len(h2) + 1) BY <1>1, <1>3 DEF Alternate
<1> QED BY <1>4, <1>5, <1>6, <1>7 DEF Alternate

\* A sequence with one element more, by its indices.
LEMMA AppendAt ==
  ASSUME NEW T, NEW s \in Seq(T), NEW e \in T, NEW t, t = Append(s, e)
  PROVE  /\ t \in Seq(T) /\ Len(s) \in Nat /\ Len(t) = Len(s) + 1
         /\ DOMAIN s = 1..Len(s) /\ DOMAIN t = 1..(Len(s) + 1)
         /\ \A i \in DOMAIN s : t[i] = s[i]
         /\ t[Len(s) + 1] = e
  OBVIOUS

\* A connection that is new, or one that is lost, is a state more.
LEMMA AlternateNote ==
  ASSUME NEW h \in Seq(Handed), NEW h2, NEW link, NEW up \in BOOLEAN, Alternate(h, link, up),
         NEW state, (state = "connected" /\ ~ up) \/ state = "reconnecting",
         NEW e \in Handed, IsNote(e, state), h2 = Append(h, e)
  PROVE  Alternate(h2, link, state = "connected")
<1> DEFINE n == Len(h)
<1>1. /\ h2 \in Seq(Handed) /\ n \in Nat /\ Len(h2) = n + 1
      /\ DOMAIN h = 1..n /\ DOMAIN h2 = 1..(n + 1)
      /\ \A i \in DOMAIN h : h2[i] = h[i]
      /\ h2[n + 1] = e
  BY AppendAt
<1> HIDE DEF n
<1>n. n = Len(h) BY DEF n
<1>2. \A i \in Nat, j \in 0..(n + 1), m \in Nat : Between(h, i, j) /\ j <= m => Between(h2, i, m)
  <2> SUFFICES ASSUME NEW i \in Nat, NEW j \in 0..(n + 1), NEW m \in Nat, Between(h, i, j), j <= m
               PROVE  Between(h2, i, m)
    OBVIOUS
  <2>1. PICK k \in DOMAIN h : i < k /\ k < j /\ IsNote(h[k], "reconnecting") BY DEF Between
  <2>2. k \in DOMAIN h2 /\ h2[k] = h[k] /\ k < m BY <1>1, <2>1
  <2> QED BY <2>1, <2>2 DEF Between
<1>3. state = "reconnecting" => \A i \in 0..n : Between(h2, i, n + 2) BY <1>1 DEF Between
<1>4. \A i \in DOMAIN h2 : IsNote(h2[i], "connected") =>
        \/ i \in DOMAIN h /\ IsNote(h[i], "connected")
        \/ i = n + 1 /\ state = "connected"
  BY <1>1 DEF IsNote
<1>5. \A i, j \in DOMAIN h2 :
       i < j /\ IsNote(h2[i], "connected") /\ IsNote(h2[j], "connected") => Between(h2, i, j)
  <2> SUFFICES ASSUME NEW i \in DOMAIN h2, NEW j \in DOMAIN h2,
                      i < j, IsNote(h2[i], "connected"), IsNote(h2[j], "connected")
               PROVE  Between(h2, i, j)
    OBVIOUS
  <2>1. i \in DOMAIN h /\ IsNote(h[i], "connected") BY <1>1, <1>4
  <2>2. CASE j \in DOMAIN h /\ IsNote(h[j], "connected") BY <1>1, <1>2, <2>1, <2>2 DEF Alternate
  <2>3. CASE j = n + 1 /\ ~ up BY <1>1, <1>2, <1>n, <2>1, <2>3 DEF Alternate
  <2> QED BY <1>4, <2>2, <2>3
<1>6. \A j \in DOMAIN h2 : link = "connected" /\ IsNote(h2[j], "connected") => Between(h2, 0, j)
  <2> SUFFICES ASSUME NEW j \in DOMAIN h2, link = "connected", IsNote(h2[j], "connected")
               PROVE  Between(h2, 0, j)
    OBVIOUS
  <2>2. CASE j \in DOMAIN h /\ IsNote(h[j], "connected") BY <1>1, <1>2, <2>2 DEF Alternate
  <2>3. CASE j = n + 1 /\ ~ up BY <1>1, <1>2, <1>n, <2>3 DEF Alternate
  <2> QED BY <1>4, <2>2, <2>3
<1>7. state # "connected" =>
        /\ \A i \in DOMAIN h2 : IsNote(h2[i], "connected") => Between(h2, i, Len(h2) + 1)
        /\ Between(h2, 0, Len(h2) + 1)
  BY <1>1, <1>3, <1>4
<1> QED BY <1>5, <1>6, <1>7 DEF Alternate

\* The window hears the first of what was handed on: a frame, or a state that it did not have.
LEMMA AlternateTail ==
  ASSUME NEW h \in Seq(Handed), h # <<>>, NEW link, NEW up, Alternate(h, link, up),
         NEW t, t = Tail(h), NEW link2,
         link2 = IF IsEvt(Head(h)) THEN link ELSE Head(h).type
  PROVE  Alternate(t, link2, up) /\ (IsNote(Head(h), "connected") => link # "connected")
<1>1. /\ Len(h) \in Nat /\ DOMAIN h = 1..Len(h) /\ 1 \in DOMAIN h /\ Head(h) = h[1]
      /\ t \in Seq(Handed) /\ Len(t) = Len(h) - 1 /\ Len(t) \in Nat /\ DOMAIN t = 1..(Len(h) - 1)
      /\ \A i \in DOMAIN t : t[i] = h[i + 1] /\ i + 1 \in DOMAIN h
  OBVIOUS
<1>2. \A i, j \in Nat : /\ Between(h, i + 1, j + 1) => Between(t, i, j)
                        /\ Between(h, 0, j + 1) /\ ~ IsNote(h[1], "reconnecting") => Between(t, 0, j)
  <2> SUFFICES ASSUME NEW i \in Nat, NEW j \in Nat
               PROVE  /\ Between(h, i + 1, j + 1) => Between(t, i, j)
                      /\ Between(h, 0, j + 1) /\ ~ IsNote(h[1], "reconnecting") => Between(t, 0, j)
    OBVIOUS
  <2>1. ASSUME NEW k \in DOMAIN h, 1 < k, k < j + 1, IsNote(h[k], "reconnecting")
        PROVE  k - 1 \in DOMAIN t /\ k - 1 < j /\ 0 < k - 1 /\ IsNote(t[k - 1], "reconnecting")
    <3>1. k - 1 \in DOMAIN t /\ (k - 1) + 1 = k BY <1>1, <2>1
    <3> QED BY <1>1, <2>1, <3>1
  <2>2. ASSUME Between(h, i + 1, j + 1) PROVE Between(t, i, j)
    <3>1. PICK k \in DOMAIN h : i + 1 < k /\ k < j + 1 /\ IsNote(h[k], "reconnecting")
      BY <2>2 DEF Between
    <3>2. k - 1 \in DOMAIN t /\ k - 1 < j /\ IsNote(t[k - 1], "reconnecting") BY <1>1, <2>1, <3>1
    <3>3. i < k - 1 BY <1>1, <3>1
    <3> QED BY <3>2, <3>3 DEF Between
  <2>3. ASSUME Between(h, 0, j + 1), ~ IsNote(h[1], "reconnecting") PROVE Between(t, 0, j)
    <3>1. PICK k \in DOMAIN h : 0 < k /\ k < j + 1 /\ IsNote(h[k], "reconnecting")
      BY <2>3 DEF Between
    <3>2. k # 1 BY <2>3, <3>1
    <3>3. k - 1 \in DOMAIN t /\ k - 1 < j /\ 0 < k - 1 /\ IsNote(t[k - 1], "reconnecting")
      BY <1>1, <2>1, <3>1, <3>2
    <3> QED BY <3>3 DEF Between
  <2> QED BY <2>2, <2>3
<1>3. IsNote(h[1], "connected") => link # "connected"
  <2> SUFFICES ASSUME IsNote(h[1], "connected"), link = "connected" PROVE FALSE OBVIOUS
  <2>1. Between(h, 0, 1) BY <1>1 DEF Alternate
  <2> QED BY <1>1, <2>1 DEF Between
<1>4. link2 = "connected" => \/ IsNote(h[1], "connected")
                             \/ link = "connected" /\ ~ IsNote(h[1], "reconnecting")
  BY <1>1 DEF IsNote, IsEvt
<1>5. \A i, j \in DOMAIN t :
       i < j /\ IsNote(t[i], "connected") /\ IsNote(t[j], "connected") => Between(t, i, j)
  <2> SUFFICES ASSUME NEW i \in DOMAIN t, NEW j \in DOMAIN t,
                      i < j, IsNote(t[i], "connected"), IsNote(t[j], "connected")
               PROVE  Between(t, i, j)
    OBVIOUS
  <2>1. Between(h, i + 1, j + 1) BY <1>1 DEF Alternate
  <2> QED BY <1>1, <1>2, <2>1
<1>6. \A j \in DOMAIN t : link2 = "connected" /\ IsNote(t[j], "connected") => Between(t, 0, j)
  <2> SUFFICES ASSUME NEW j \in DOMAIN t, link2 = "connected", IsNote(t[j], "connected")
               PROVE  Between(t, 0, j)
    OBVIOUS
  <2>1. j \in Nat /\ j + 1 \in DOMAIN h /\ IsNote(h[j + 1], "connected") /\ 1 < j + 1 BY <1>1
  <2>2. CASE IsNote(h[1], "connected")
    <3>1. Between(h, 0 + 1, j + 1) BY <1>1, <2>1, <2>2 DEF Alternate
    <3> QED BY <1>2, <2>1, <3>1
  <2>3. CASE link = "connected" /\ ~ IsNote(h[1], "reconnecting")
    <3>1. Between(h, 0, j + 1) BY <2>1, <2>3 DEF Alternate
    <3> QED BY <1>2, <2>1, <2>3, <3>1
  <2> QED BY <1>4, <2>2, <2>3
<1>7. ~ up => \A i \in DOMAIN t : IsNote(t[i], "connected") => Between(t, i, Len(t) + 1)
  <2> SUFFICES ASSUME ~ up, NEW i \in DOMAIN t, IsNote(t[i], "connected")
               PROVE  Between(t, i, Len(t) + 1)
    OBVIOUS
  <2>1. Between(h, i + 1, Len(h) + 1) BY <1>1 DEF Alternate
  <2>2. Len(h) + 1 = (Len(t) + 1) + 1 /\ i \in Nat /\ Len(t) + 1 \in Nat BY <1>1
  <2> QED BY <1>2, <2>1, <2>2
<1>8. ~ up /\ link2 = "connected" => Between(t, 0, Len(t) + 1)
  <2> SUFFICES ASSUME ~ up, link2 = "connected" PROVE Between(t, 0, Len(t) + 1) OBVIOUS
  <2>1. Len(h) + 1 = (Len(t) + 1) + 1 /\ Len(t) + 1 \in Nat BY <1>1
  <2>2. CASE IsNote(h[1], "connected")
    <3>1. Between(h, 0 + 1, Len(h) + 1) BY <1>1, <2>2 DEF Alternate
    <3> QED BY <1>2, <2>1, <3>1
  <2>3. CASE link = "connected" /\ ~ IsNote(h[1], "reconnecting")
    <3>1. Between(h, 0, Len(h) + 1) BY <2>3 DEF Alternate
    <3> QED BY <1>2, <2>1, <2>3, <3>1
  <2> QED BY <1>4, <2>2, <2>3
<1> QED BY <1>1, <1>3, <1>5, <1>6, <1>7, <1>8 DEF Alternate

\* What is handed on, with one item more.
LEMMA TurnAppend ==
  ASSUME NEW T, NEW s \in Seq(T), NEW e \in T, InTurn(s), NEW t, t = Append(s, e),
         IsEvt(e) => \A g \in Evts(s) : Next2(g, e)
  PROVE  InTurn(t) /\ \A x : x \in Evts(t) <=> x \in Evts(s) \/ (x = e /\ IsEvt(e))
<1>1. /\ t \in Seq(T) /\ Len(s) \in Nat /\ Len(t) = Len(s) + 1
      /\ DOMAIN s = 1..Len(s) /\ DOMAIN t = 1..(Len(s) + 1)
      /\ \A i \in DOMAIN s : t[i] = s[i]
      /\ t[Len(s) + 1] = e
  BY AppendAt
<1>2. \A i \in DOMAIN s : IsEvt(s[i]) => s[i] \in Evts(s) BY DEF Evts, Range
<1>3. \A i, j \in DOMAIN t : i < j /\ IsEvt(t[i]) /\ IsEvt(t[j]) => Next2(t[i], t[j])
  <2> SUFFICES ASSUME NEW i \in DOMAIN t, NEW j \in DOMAIN t, i < j, IsEvt(t[i]), IsEvt(t[j])
               PROVE  Next2(t[i], t[j])
    OBVIOUS
  <2>1. i \in DOMAIN s /\ t[i] = s[i] BY <1>1
  <2>2. CASE j \in DOMAIN s BY <1>1, <2>1, <2>2 DEF InTurn
  <2>3. CASE j = Len(s) + 1 BY <1>1, <1>2, <2>1, <2>3
  <2> QED BY <1>1, <2>2, <2>3
<1>4. Range(t) = Range(s) \cup {e} BY AppendRange
<1> QED BY <1>3, <1>4 DEF InTurn, Evts

\* A sequence is its own beginning.
LEMMA GrownSelf == ASSUME NEW h \in Seq(Handed) PROVE Grown(h, h)
  BY DEF Grown

\* A frame more leaves the beginning.
LEMMA GrownMore ==
  ASSUME NEW g \in Seq(Handed), NEW h \in Seq(Handed), NEW f \in Evt, Grown(g, h)
  PROVE  Grown(g, Append(h, f))
<1> DEFINE t == Append(h, f)
<1>1. f \in Handed /\ IsEvt(f) BY ItemKinds DEF Handed
<1>2. /\ t \in Seq(Handed) /\ Len(h) \in Nat /\ Len(t) = Len(h) + 1
      /\ DOMAIN h = 1..Len(h) /\ DOMAIN t = 1..(Len(h) + 1)
      /\ \A i \in DOMAIN h : t[i] = h[i]
      /\ t[Len(h) + 1] = f
  BY <1>1, AppendAt
<1>3. Len(g) \in Nat /\ DOMAIN g = 1..Len(g) /\ Len(g) <= Len(h) BY DEF Grown
<1> HIDE DEF t
<1>4. \A i \in DOMAIN g : t[i] = g[i] BY <1>2, <1>3 DEF Grown
<1>5. \A i \in DOMAIN t : i \in DOMAIN g \/ IsEvt(t[i]) BY <1>1, <1>2, <1>3 DEF Grown
<1>6. Len(g) <= Len(t) BY <1>2, <1>3
<1>7. Grown(g, t) BY <1>4, <1>5, <1>6 DEF Grown
<1> QED BY <1>7 DEF t

\* The reader takes a frame: it passes it over, or applies it and hands it on.
LEMMA TakesMay ==
  ASSUME NEW w \in Wins, NEW f \in Evt, NEW v, v = Takes(w, f)
  PROVE  v \in Wins /\ v.heard = w.heard /\ (Passes(w, v) \/ Applies(w, f, v))
<1>a. v \in Wins /\ v.heard = w.heard BY TakesIs
<1>b. w.lastSeq \in Int /\ f.seq \in Nat BY DEF Wins, NoSeq, Evt
<1>0. v \in Wins /\ v.heard = w.heard /\ w.lastSeq \in Int /\ f.seq \in Nat BY <1>a, <1>b
<1>1. CASE w.mode # "live"
  <2>1. v.mode = w.mode /\ v.applied = w.applied /\ v.handed = w.handed /\ v.board = w.board
    BY <1>1, TakesIs
  <2> QED BY <1>0, <1>1, <2>1 DEF Passes
<1>2. CASE w.mode = "live" /\ f.seq <= w.lastSeq
  <2>1. v = w BY <1>0, <1>2, TakesIs
  <2> QED BY <1>0, <2>1 DEF Passes
<1>3. CASE w.mode = "live" /\ ~ (f.seq <= w.lastSeq) /\ f.row = Resync
  <2>1. v = [w EXCEPT !.lastSeq = f.seq, !.mode = "reading"] BY <1>3 DEF Takes
  <2>2. v.mode = "reading" /\ v.handed = w.handed /\ v.applied = w.applied /\ v.board = w.board
    BY <2>1 DEF Wins
  <2> QED BY <1>0, <2>2 DEF Passes
<1>4. CASE w.mode = "live" /\ ~ (f.seq <= w.lastSeq) /\ f.row # Resync
  <2>1. /\ v.mode = "live" /\ v.lastSeq = f.seq
        /\ v.board = [w.board EXCEPT ![f.row] = f.val]
        /\ v.applied = [epoch |-> f.epoch, seq |-> f.seq]
        /\ v.handed = (IF w.heard THEN Append(w.handed, f) ELSE w.handed)
    BY <1>0, <1>4, TakesIs
  <2>2. f.row \in Rows /\ f.seq > w.lastSeq BY <1>0, <1>4 DEF Evt
  <2>3. v.applied.epoch = f.epoch /\ v.applied.seq = f.seq BY <2>1
  <2>4. (w.heard => v.handed = Append(w.handed, f)) /\ (~ w.heard => v.handed = w.handed) BY <2>1
  <2> QED BY <1>0, <1>4, <2>1, <2>2, <2>3, <2>4 DEF Applies
<1> QED BY <1>1, <1>2, <1>3, <1>4

\* The reader takes a frame: what it hands on of it follows what it had handed on.
LEMMA TakesTells ==
  ASSUME NEW w \in Wins, NEW B, B \subseteq Evt, NEW e \in Nat, NEW f \in Evt, f.epoch = e,
         Tells(w, B), Going(w, e), NEW v, v = Takes(w, f)
  PROVE  v \in Wins /\ Tells(v, B) /\ Going(v, e) /\ From(w, v, e)
<1>0. /\ w.handed \in Seq(Handed) /\ w.applied \in Stamps /\ w.lastSeq \in Int
      /\ f.seq \in Nat /\ f \in Handed /\ IsEvt(f)
  BY ItemKinds DEF Wins, Evt, Handed, NoSeq
<1>1. v \in Wins /\ v.heard = w.heard /\ (Passes(w, v) \/ Applies(w, f, v)) BY TakesMay
<1>2. CASE Passes(w, v) BY <1>0, <1>1, <1>2, GrownSelf DEF Passes, Tells, Going, From, Stamps
<1>3. CASE Applies(w, f, v)
  <2>1. /\ w.mode = "live" /\ w.lastSeq < f.seq
        /\ v.mode = "live" /\ v.lastSeq = f.seq
        /\ v.applied.epoch = e /\ v.applied.seq = f.seq
    BY <1>0, <1>3 DEF Applies
  <2>2. f.row \in Rows BY <1>3 DEF Applies
  <2>3. w.applied.epoch = e /\ w.applied.seq < f.seq /\ w.applied.seq \in Nat
    BY <1>0, <2>1 DEF Going, Stamps
  <2>4. v.applied.epoch = e /\ v.applied.seq = f.seq BY <2>1
  <2>5. \A x \in Evts(w.handed) \cup B : 
                 x.row \in Rows /\ x.epoch <= e /\ (x.epoch = e => x.seq < f.seq /\ x.seq <= f.seq)
    <3> SUFFICES ASSUME NEW x \in Evts(w.handed) \cup B
                 PROVE  x.row \in Rows /\ x.epoch <= e /\ (x.epoch = e => x.seq < f.seq /\ x.seq <= f.seq)
      OBVIOUS
    <3>1. x \in Evt
      <4>1. Evts(w.handed) \subseteq Evt BY <1>0, RangeIn DEF Evts, Handed, Note, IsEvt
      <4> QED BY <4>1
    <3>2. x.seq \in Nat BY <3>1 DEF Evt
    <3>3. x.row \in Rows /\ x.epoch <= e /\ (x.epoch = e => x.seq <= w.applied.seq)
      BY <2>3 DEF Tells, Told
    <3> QED BY <1>0, <2>3, <3>2, <3>3
  <2>6. Going(v, e) BY <2>1 DEF Going
  <2>7. w.applied.epoch = e => v.applied.epoch = e /\ w.applied.seq <= v.applied.seq
    BY <1>0, <2>3, <2>4
  <2>8. CASE w.heard
    <3> DEFINE t == v.handed
               h == w.handed
    <3>1. t = Append(w.handed, f) BY <1>3, <2>8 DEF Applies
    <3>2. \A g \in Evts(w.handed) : Next2(g, f) BY <2>5 DEF Next2
    <3>a. IsEvt(f) => \A g \in Evts(w.handed) : Next2(g, f) BY <3>2
    <3>b. InTurn(h) /\ h \in Seq(Handed) /\ t = Append(h, f) BY <1>0, <3>1 DEF Tells
    <3>d. f \in Handed /\ (IsEvt(f) => \A g \in Evts(h) : Next2(g, f)) BY <1>0, <3>a
    <3> HIDE DEF t, h
    <3>e. InTurn(t) /\ \A x : x \in Evts(t) <=> x \in Evts(h) \/ (x = f /\ IsEvt(f))
      BY <3>b, <3>d, TurnAppend
    <3>3. InTurn(t) /\ \A x : x \in Evts(t) <=> x \in Evts(w.handed) \/ (x = f /\ IsEvt(f))
      BY <3>e DEF h
    <3>4. \A g \in B, x \in Evts(t) : Next2(g, x) BY <2>5, <3>3 DEF Next2, Tells
    <3>c. f.epoch <= v.applied.epoch /\ f.seq <= v.applied.seq BY <1>0, <2>4
    <3>5. Told(Evts(t) \cup B, v.applied) BY <2>2, <2>4, <2>5, <3>3, <3>c DEF Told
    <3>6. Grown(w.handed, t) BY <1>0, <3>1, GrownMore, GrownSelf
    <3> QED BY <1>1, <2>6, <2>7, <2>8, <3>3, <3>4, <3>5, <3>6 DEF t, Tells, From
  <2>9. CASE ~ w.heard
    <3>1. v.handed = w.handed BY <1>3, <2>9 DEF Applies
    <3>2. Told(Evts(v.handed) \cup B, v.applied) BY <2>4, <2>5, <3>1 DEF Told
    <3> QED BY <1>0, <1>1, <2>6, <2>7, <3>1, <3>2, GrownSelf DEF Tells, From
  <2> QED BY <2>8, <2>9
<1> QED BY <1>1, <1>2, <1>3

\* What the reader had applied it has still applied.
LEMMA SinceFrom ==
  ASSUME NEW w \in Wins, NEW v \in Wins, NEW e, From(w, v, e), NEW s \in Nat, NEW s0,
         Since(w.applied, e, s, s0)
  PROVE  Since(v.applied, e, s, s0)
<1>1. w.applied.seq \in Nat /\ v.applied.seq \in Nat BY DEF Wins, Stamps
<1> QED BY <1>1 DEF From, Since

\* The reader takes a frame: what a board lacked of its own, and what it lacks of it now.
LEMMA TakesTracks ==
  ASSUME NEW w \in Wins, w.heard, NEW B, NEW e \in Nat, NEW f \in Evt, f.epoch = e, Going(w, e),
         NEW s \in Nat, NEW b \in Boards, NEW s0 \in Nat, Holds({f}, s0, b),
         Since(w.applied, e, s, s0), NEW v, v = Takes(w, f),
         Tracked(e, w.board, Evts(w.handed) \cup B, s, b)
  PROVE  Tracked(e, v.board, Evts(v.handed) \cup B, s, b)
<1>0. /\ w.handed \in Seq(Handed) /\ w.applied.seq \in Nat /\ w.lastSeq \in Int
      /\ f.seq \in Nat /\ f.val \in Nat /\ f \in Handed /\ IsEvt(f) /\ w.board \in Boards
  BY ItemKinds DEF Wins, Stamps, Evt, Handed, NoSeq
<1>1. Passes(w, v) \/ Applies(w, f, v) BY TakesMay
<1>2. CASE Passes(w, v) BY <1>2 DEF Passes
<1>3. CASE Applies(w, f, v)
  <2>1. /\ w.mode = "live" /\ w.lastSeq < f.seq /\ f.row \in Rows
        /\ v.board = [w.board EXCEPT ![f.row] = f.val]
    BY <1>0, <1>3 DEF Applies
  <2>2. v.board[f.row] = f.val /\ \A r \in Rows : r # f.row => v.board[r] = w.board[r]
    BY <1>0, <2>1 DEF Boards
  <2>3. Evts(v.handed) = Evts(w.handed) \cup {f}
    <3> DEFINE h == w.handed
               t == v.handed
    <3>1. t = Append(h, f) /\ h \in Seq(Handed) BY <1>0, <1>3 DEF Applies
    <3> HIDE DEF h, t
    <3>2. Range(t) = Range(h) \cup {f} BY <1>0, <3>1, AppendRange
    <3>3. Evts(t) = Evts(h) \cup {f} BY <1>0, <3>2 DEF Evts
    <3> QED BY <3>3 DEF h, t
  <2>4. s < f.seq \/ f.val <= b[f.row]
    <3>1. w.applied.epoch = e /\ w.applied.seq = w.lastSeq BY <2>1 DEF Going
    <3>2. CASE s = s0
      <4>1. f.seq <= s0 => f.val <= b[f.row] BY <2>1 DEF Holds
      <4> QED BY <1>0, <3>2, <4>1
    <3>3. CASE s <= w.applied.seq BY <1>0, <2>1, <3>1, <3>3
    <3> QED BY <3>2, <3>3 DEF Since
  <2> SUFFICES ASSUME NEW r \in Rows
               PROVE  \/ v.board[r] <= b[r]
                      \/ \E g \in Evts(v.handed) \cup B :
                           g.row = r /\ g.epoch = e /\ s < g.seq /\ v.board[r] <= g.val
    BY DEF Tracked
  <2>5. CASE r = f.row BY <1>0, <2>2, <2>3, <2>4, <2>5
  <2>6. CASE r # f.row
    <3>1. \/ w.board[r] <= b[r]
          \/ \E g \in Evts(w.handed) \cup B :
               g.row = r /\ g.epoch = e /\ s < g.seq /\ w.board[r] <= g.val
      BY DEF Tracked
    <3> QED BY <2>2, <2>3, <2>6, <3>1
  <2> QED BY <2>5, <2>6
<1> QED BY <1>1, <1>2, <1>3

\* A reader goes on from one that goes on.
LEMMA FromTrans ==
  ASSUME NEW w \in Wins, NEW x \in Wins, NEW y \in Wins, NEW e, From(w, x, e), From(x, y, e)
  PROVE  From(w, y, e)
<1>1. /\ w.handed \in Seq(Handed) /\ x.handed \in Seq(Handed) /\ y.handed \in Seq(Handed)
      /\ w.applied.seq \in Nat /\ x.applied.seq \in Nat /\ y.applied.seq \in Nat
  BY DEF Wins, Stamps
<1>2. Grown(w.handed, y.handed)
  <2> DEFINE f == w.handed
             g == x.handed
             h == y.handed
  <2>1. /\ DOMAIN f = 1..Len(f) /\ DOMAIN g = 1..Len(g) /\ DOMAIN h = 1..Len(h)
        /\ Len(f) \in Nat /\ Len(g) \in Nat /\ Len(h) \in Nat
    BY <1>1
  <2>2. Grown(f, g) /\ Grown(g, h) BY DEF From
  <2> HIDE DEF f, g, h
  <2>3. Len(f) <= Len(h) /\ \A i \in DOMAIN f : i \in DOMAIN g /\ h[i] = f[i]
    BY <2>1, <2>2 DEF Grown
  <2>4. \A i \in DOMAIN h : i \in DOMAIN f \/ IsEvt(h[i]) BY <2>1, <2>2 DEF Grown
  <2>5. Grown(f, h) BY <2>3, <2>4 DEF Grown
  <2> QED BY <2>5 DEF f, h
<1> QED BY <1>1, <1>2 DEF From

\* A reader that drains what it buffered.
LEMMA DrainSpeaks ==
  ASSUME NEW w \in Wins, NEW B, B \subseteq Evt, NEW e \in Nat,
         \A f \in Range(w.buffer) : f.epoch = e, Tells(w, B),
         w.applied.epoch = e, w.applied.seq = w.lastSeq, NEW v, v = Drained(w),
         NEW s \in Nat, NEW b \in Boards, NEW s0 \in Nat
  PROVE  /\ Speaks(w, v, B, e)
         /\ w.heard /\ Holds(Range(w.buffer), s0, b) /\ Since(w.applied, e, s, s0)
              /\ Tracked(e, w.board, Evts(w.handed) \cup B, s, b)
            => Tracked(e, v.board, Evts(v.handed) \cup B, s, b)
<1> DEFINE buf == w.buffer
           m == Len(buf)
           Can == /\ w.heard /\ Holds(Range(buf), s0, b) /\ Since(w.applied, e, s, s0)
                  /\ Tracked(e, w.board, Evts(w.handed) \cup B, s, b)
           Ok(x) == /\ Speaks(w, x, B, e)
                    /\ Can => Tracked(e, x.board, Evts(x.handed) \cup B, s, b)
<1>0. buf \in Seq(Evt) /\ m \in Nat /\ DOMAIN buf = 1..m BY DEF Wins
<1>1. PICK d \in [0..m -> Wins] :
           /\ d[0].mode = "live" /\ d[0].lastSeq = w.lastSeq
           /\ d[0].board = w.board /\ d[0].applied = w.applied /\ d[0].handed = w.handed
           /\ d[0].heard = w.heard
           /\ \A i \in 1..m : d[i] = Takes(d[i - 1], buf[i])
           /\ Drained(w) = d[m]
  BY DrainedIs
<1> DEFINE S == {i \in Nat : i <= m => Ok(d[i])}
<1>2. 0 \in S
  <2>1. d[0] \in Wins BY <1>0, <1>1
  <2>2. w.applied.seq \in Nat /\ w.handed \in Seq(Handed) BY DEF Wins, Stamps
  <2>3. From(w, d[0], e) BY <1>1, <2>2, GrownSelf DEF From
  <2>4. Tells(d[0], B) BY <1>1 DEF Tells
  <2>5. Going(d[0], e) BY <1>1 DEF Going
  <2>6. Can => Tracked(e, d[0].board, Evts(d[0].handed) \cup B, s, b) BY <1>1
  <2> QED BY <2>1, <2>3, <2>4, <2>5, <2>6 DEF Speaks
<1> HIDE DEF Ok, Can
<1>3. \A i \in Nat : i \in S => i + 1 \in S
  <2> SUFFICES ASSUME NEW i \in Nat, i \in S, i + 1 <= m
               PROVE  Ok(d[i + 1])
    OBVIOUS
  <2>1. i + 1 \in 1..m /\ (i + 1) - 1 = i /\ i \in 0..m /\ i <= m BY <1>0
  <2> DEFINE x == d[i]
             y == d[i + 1]
             f == buf[i + 1]
  <2>2. y = Takes(x, f) /\ x \in Wins
    <3>1. \A j \in 1..m : d[j] = Takes(d[j - 1], buf[j]) BY <1>1
    <3> QED BY <1>1, <2>1, <3>1
  <2>3. f \in Evt /\ f \in Range(buf) /\ f.epoch = e BY <1>0, <2>1 DEF Range
  <2>4. Ok(x) BY <2>1
  <2>9. Can => Holds({f}, s0, b) BY <2>3 DEF Holds, Can
  <2> HIDE DEF x, y, f
  <2>5. Tells(x, B) /\ Going(x, e) /\ From(w, x, e) BY <2>4 DEF Speaks, Ok
  <2>6. y \in Wins /\ Tells(y, B) /\ Going(y, e) /\ From(x, y, e) BY <2>2, <2>3, <2>5, TakesTells
  <2>7. Speaks(w, y, B, e) BY <2>2, <2>5, <2>6, FromTrans DEF Speaks
  <2>8. Can => Tracked(e, y.board, Evts(y.handed) \cup B, s, b)
    <3> SUFFICES ASSUME Can PROVE Tracked(e, y.board, Evts(y.handed) \cup B, s, b) OBVIOUS
    <3>1. x.heard BY <2>5 DEF From, Can
    <3>2. Since(x.applied, e, s, s0) BY <2>2, <2>5, SinceFrom DEF Can
    <3>3. Tracked(e, x.board, Evts(x.handed) \cup B, s, b) BY <2>4 DEF Ok
    <3>4. Holds({f}, s0, b) BY <2>9
    <3> QED BY <2>2, <2>3, <2>5, <3>1, <3>2, <3>3, <3>4, TakesTracks
  <2>10. Ok(y) BY <2>7, <2>8 DEF Ok
  <2> QED BY <2>10 DEF y
<1>4. m \in S
  <2> HIDE DEF S
  <2>1. \A i \in Nat : i \in S BY <1>2, <1>3, SetInduction
  <2> QED BY <1>0, <2>1
<1>5. v = d[m] /\ Ok(v) BY <1>0, <1>1, <1>4
<1> QED BY <1>5 DEF Ok, Can

-----------------------------------------------------------------------------
(* What the window goes on from, through the steps it takes no part in *)

\* Each of the steps the window takes no part in is so.
LEMMA PacedIs ==
  ASSUME Flowing \/ Connects
  PROVE  Paced
BY DEF Flowing, Connects, Quiet, OthersResync, Joins, Emits, Recovers, Handles, Writes, Releases,
       HostSame, Paced

\* Nothing to hear is new, and nothing is gone.
LEMMA HeardSame ==
  ASSUME SameFrames, Range(view'.buffer) = Range(view.buffer)
  PROVE  Heard' = Heard
BY DEF SameFrames, Heard, Evts

\* A board of the past stays one.
LEMMA BasedFlows ==
  ASSUME TypeOK, TypeOK', Timely, Flows, Paced, NEW b \in Boards, NEW s0 \in Nat, Based(b, s0)
  PROVE  Based(b, s0)'
<1>0. seq \in Nat /\ seq' \in Nat /\ rows \in Boards BY DEF TypeOK, HostOK
<1>1. Holds(Ups', s0, b)
  <2> SUFFICES ASSUME NEW g \in Ups', g.row \in Rows, g.seq <= s0 PROVE g.val <= b[g.row]
    BY DEF Holds
  <2>1. CASE g \in Ups BY <2>1 DEF Based, Holds
  <2>2. CASE g.seq = seq + 1 BY <1>0, <2>2 DEF Based
  <2> QED BY <2>1, <2>2 DEF Flows, Fresh
<1>2. \A a \in InTransit' : PageFor(a)' /\ a.seq <= s0 => Below(a.rows, b)
  <2> SUFFICES ASSUME NEW a \in InTransit', PageFor(a)', a.seq <= s0 PROVE Below(a.rows, b) OBVIOUS
  <2>1. a.says = "page" /\ a.to = "reader" BY DEF PageFor
  <2>2. CASE \E y \in InTransit : Twin(a, y) BY <2>1, <2>2 DEF Twin, PageFor, Based
  <2>3. CASE a.seq = seq /\ a.rows = rows BY <1>0, <2>3 DEF Based
  <2> QED BY <2>2, <2>3 DEF Flows
<1>3. s0 <= seq' BY <1>0 DEF Based, Flows
<1>4. s0 = seq' => Below(rows', b) BY <1>0 DEF Based, Paced
<1>5. (\A a \in InTransit : PageFor(a) /\ a.seq <= s0 => Below(a.rows, b))' BY <1>2
<1> QED BY <1>1, <1>3, <1>4, <1>5 DEF Based

\* A page of the Host's board is based on it.
LEMMA BasedNew ==
  ASSUME TypeOK, TypeOK', Stamped, Timely, Flows, rows' = rows,
         NEW b, NEW n, b = rows, n = seq
  PROVE  Based(b, n)'
<1>0. seq \in Nat /\ seq' \in Nat /\ rows \in Boards BY DEF TypeOK, HostOK
<1>e. Below(b, b) BY <1>0 DEF Below, Boards
<1>1. Holds(Ups', n, b)
  <2> SUFFICES ASSUME NEW g \in Ups', g.row \in Rows, g.seq <= n PROVE g.val <= b[g.row]
    BY DEF Holds
  <2>1. CASE g \in Ups BY <2>1 DEF Timely
  <2>2. CASE g.seq = seq + 1 BY <1>0, <2>2
  <2> QED BY <2>1, <2>2 DEF Flows, Fresh
<1>2. \A a \in InTransit' : PageFor(a)' => Below(a.rows, b)
  <2> SUFFICES ASSUME NEW a \in InTransit', PageFor(a)' PROVE Below(a.rows, b) OBVIOUS
  <2>1. a.says = "page" /\ a.to = "reader" BY DEF PageFor
  <2>2. CASE \E y \in InTransit : Twin(a, y) BY <2>1, <2>2 DEF Twin, PageFor, Timely
  <2>3. CASE a.seq = seq /\ a.rows = rows BY <1>e, <2>3
  <2> QED BY <2>2, <2>3 DEF Flows
<1>3. n <= seq' /\ (n = seq' => Below(rows', b)) BY <1>0, <1>e DEF Flows
<1>4. (\A a \in InTransit : PageFor(a) /\ a.seq <= n => Below(a.rows, b))' BY <1>2
<1> QED BY <1>1, <1>3, <1>4 DEF Based

\* What the window goes on from, after a step it takes no part in.
LEMMA OwesFlows ==
  ASSUME Still, snaps' = snaps, Flows, NEW s, NEW b, NEW s0, Owes(s, b, s0)'
  PROVE  \/ Owes(s, b, s0)
         \/ rows' = rows /\ s = seq /\ b = rows /\ s0 = seq
<1>1. CASE (\E a \in InTransit : PageToWindow(a) /\ s = a.seq /\ b = a.rows /\ s0 = a.seq)'
  <2>1. PICK a \in InTransit' : PageToWindow(a)' /\ s = a.seq /\ b = a.rows /\ s0 = a.seq BY <1>1
  <2>2. a.says = "page" /\ a.to = "window" BY <2>1 DEF PageToWindow
  <2>3. CASE \E y \in InTransit : Twin(a, y)
    <3>1. PICK y \in InTransit : Twin(a, y) BY <2>3
    <3>2. PageToWindow(y) /\ s = y.seq /\ b = y.rows /\ s0 = y.seq
      BY <2>1, <2>2, <3>1 DEF PageToWindow, Twin
    <3> QED BY <3>2 DEF Owes
  <2>4. CASE a.seq = seq /\ a.rows = rows /\ rows' = rows BY <2>1, <2>4
  <2> QED BY <2>3, <2>4 DEF Flows
<1>2. CASE ~ (\E a \in InTransit : PageToWindow(a) /\ s = a.seq /\ b = a.rows /\ s0 = a.seq)'
  BY <1>2 DEF Owes, Still, Flows
<1> QED BY <1>1, <1>2

\* It stays abreast of the reader.
LEMMA CurrentFlows ==
  ASSUME TypeOK, TypeOK', Stamped, Timely, Current, Still, snaps' = snaps, Flows, Paced, SameFrames
  PROVE  Current'
<1>0. /\ view' = view /\ reply' = reply /\ epoch' = epoch /\ Heard' = Heard
      /\ win'.board = win.board /\ win'.applied = win.applied
  BY HeardSame DEF Still, Flows
<1>1. (view.epoch <= epoch)' /\ (reply.is = "page" => reply.epoch <= epoch)' BY <1>0 DEF Current
<1>2. (view.phase = "live" => snaps.window.epoch = view.epoch)' BY <1>0 DEF Current
<1>3. ASSUME NEW s \in Nat, NEW b \in Boards, NEW s0 \in Nat, Owes(s, b, s0)'
      PROVE  Abreast(s, b, s0)'
  <2>1. CASE Owes(s, b, s0)
    <3>1. Abreast(s, b, s0) BY <2>1 DEF Current
    <3>2. Based(b, s0)' BY <3>1, BasedFlows DEF Abreast
    <3>3. Tracks(s, b, s0)' BY <1>0, <3>1 DEF Abreast, Tracks, Excused
    <3>4. Since(win.applied, epoch, s, s0)' BY <1>0, <3>1 DEF Abreast
    <3> QED BY <3>2, <3>3, <3>4 DEF Abreast
  <2>2. CASE rows' = rows /\ s = seq /\ b = rows /\ s0 = seq
    <3>1. Based(b, s0)' BY <2>2, BasedNew
    <3>2. \A r \in Rows : win'.board[r] <= b[r] BY <1>0, <2>2 DEF Timely, Below
    <3>3. Tracked(epoch', win'.board, Heard', s, b) BY <3>2 DEF Tracked
    <3>4. Since(win'.applied, epoch', s, s0) BY <2>2 DEF Since
    <3> QED BY <3>1, <3>3, <3>4 DEF Abreast, Tracks
  <2> QED BY <1>3, <2>1, <2>2, OwesFlows
<1> QED BY <1>1, <1>2, <1>3 DEF Current

\* The reader's next snapshot stays no older.
LEMMA LaterFlows ==
  ASSUME TypeOK, TypeOK', Stamped, LaterPages, Flows
  PROVE  LaterPages'
<1> SUFFICES ASSUME NEW a \in InTransit', PageFor(a)', win'.applied.epoch = epoch'
             PROVE  win'.applied.seq <= a.seq
  BY DEF LaterPages
<1>1. a.says = "page" /\ a.to = "reader" /\ win'.applied = win.applied /\ epoch' = epoch
  BY DEF PageFor, Flows
<1>2. CASE \E y \in InTransit : Twin(a, y) BY <1>1, <1>2 DEF Twin, PageFor, LaterPages
<1>3. CASE a.seq = seq BY <1>1, <1>3 DEF Stamped
<1> QED BY <1>2, <1>3 DEF Flows

\* Steps that hand nothing on.
LEMMA CatchFlowing ==
  ASSUME TypeOK, TypeOK', ReaderInv, CatchInv, Still, snaps' = snaps, HandedSame, Flowing
  PROVE  CatchInv'
<1>1. Flows /\ Paced BY FlowingFlows, PacedIs
<1>2. conn'.up = conn.up
  BY DEF Flowing, Quiet, ConnSame, OthersResync, Joins, Emits, Recovers, Hands, Handles, Writes, Releases
<1>3. /\ view' = view /\ reply' = reply /\ epoch' = epoch
      /\ win'.handed = win.handed /\ win'.heard = win.heard /\ win'.applied = win.applied
  BY <1>1 DEF Still, HandedSame, Flows
<1>4. SameFrames BY <1>3 DEF SameFrames
<1>5. Current' /\ LaterPages' BY <1>1, <1>4, CurrentFlows, LaterFlows DEF CatchInv, ReaderInv
<1>6. Opened' /\ Anew' BY <1>2, <1>3 DEF CatchInv, Opened, Anew, Renewed
<1>7. Speaking' BY <1>3 DEF CatchInv, Speaking, Tells
<1>8. Alternating' BY <1>2, <1>3 DEF CatchInv, Alternating
<1> QED BY <1>5, <1>6, <1>7, <1>8 DEF CatchInv

\* A state more leaves the frames, and tells of a connection that is new.
LEMMA NotesKeep ==
  ASSUME TypeOK, Opened, Speaking, Alternating, NEW state, Notes(state)
  PROVE  /\ Opened' /\ Speaking' /\ Alternating' /\ SameFrames
         /\ win.heard /\ state = "connected" => Renewed'
<1>0. /\ win.handed \in Seq(Handed) /\ conn.up \in BOOLEAN /\ win'.heard = win.heard
      /\ win'.applied = win.applied /\ view' = view
  BY DEF TypeOK, Wins, Conns, Notes
<1> DEFINE e == [type |-> state]
           h == win.handed
           t == win'.handed
<1>1. e \in Handed /\ ~ IsEvt(e) /\ IsNote(e, state) BY DEF Notes, Handed, Note, IsEvt, IsNote
<1>2. InTurn(h) /\ Alternate(h, view.link, conn.up) BY DEF Speaking, Tells, Alternating
<1>3. Opened' BY <1>0 DEF Opened
<1>4. CASE win.heard
  <2>1. h \in Seq(Handed) /\ t = Append(h, e) BY <1>0, <1>4 DEF Notes
  <2>s. (state = "connected" /\ ~ conn.up) \/ state = "reconnecting" BY DEF Notes
  <2> HIDE DEF e, h, t
  <2>2. InTurn(t) /\ \A x : x \in Evts(t) <=> x \in Evts(h) \/ (x = e /\ IsEvt(e))
    BY <1>1, <1>2, <2>1, TurnAppend
  <2>3. Evts(t) = Evts(h) BY <1>1, <2>2
  <2>4. Alternate(t, view.link, state = "connected") BY <1>0, <1>1, <1>2, <2>1, <2>s, AlternateNote
  <2>5. Range(t) = Range(h) \cup {e} BY <1>1, <2>1, AppendRange
  <2>6. SameFrames BY <2>3 DEF SameFrames, h, t
  <2>7. Speaking' BY <1>0, <1>4, <2>2, <2>3 DEF Speaking, Tells, h, t
  <2>8. Alternating' BY <1>0, <2>4 DEF Alternating, Notes, t
  <2>9. state = "connected" => Renewed' BY <1>1, <2>5 DEF Renewed, t
  <2> QED BY <1>3, <2>6, <2>7, <2>8, <2>9
<1>5. CASE ~ win.heard
  <2>1. win'.handed = win.handed BY <1>5 DEF Notes
  <2>2. win.handed = <<>> /\ view.link = "none" BY <1>5 DEF Speaking, Tells, Opened
  <2>3. SameFrames /\ Speaking' BY <1>0, <2>1 DEF SameFrames, Speaking, Tells
  <2>4. Alternating' BY <1>0, <2>1, <2>2 DEF Alternating, Alternate
  <2> QED BY <1>3, <1>5, <2>3, <2>4
<1> QED BY <1>4, <1>5

\* A new connection: the window will hear of it.
LEMMA CatchConnects ==
  ASSUME TypeOK, TypeOK', ReaderInv, ViewInv, CatchInv, Still, snaps' = snaps, Connects
  PROVE  CatchInv'
<1>1. Flows /\ Paced BY FlowingFlows, PacedIs
<1>2. Notes("connected") /\ view' = view /\ reply' = reply
  BY <1>1 DEF Notes, Connects, Still, Flows, TypeOK, Conns
<1>3. /\ Opened' /\ Speaking' /\ Alternating' /\ SameFrames
      /\ win.heard => Renewed'
  BY <1>2, NotesKeep DEF CatchInv
<1>4. Current' /\ LaterPages' BY <1>1, <1>3, CurrentFlows, LaterFlows DEF CatchInv, ReaderInv
<1>5. Anew'
  <2>1. view.phase # "idle" => win.heard BY DEF CatchInv, Opened
  <2>2. reply.is = "page" => view.phase = "syncing" BY DEF ViewInv, Waiting, NoRead
  <2> QED BY <1>2, <1>3, <2>1, <2>2 DEF Anew
<1> QED BY <1>3, <1>4, <1>5 DEF CatchInv

\* The connection is lost: nothing is on its way, and a next life is none the window knows.
LEMMA CatchHung ==
  ASSUME TypeOK, TypeOK', ReaderInv, ViewInv, CatchInv, view' = view, snaps' = snaps, ReadsFail,
         Hung
  PROVE  CatchInv'
<1>1. conn.up \in BOOLEAN /\ epoch \in Nat /\ seq \in Nat /\ rows \in Boards /\ view \in Views
      /\ reply \in Replies /\ rows' \in Boards
  BY DEF TypeOK, HostOK, Conns
<1>2. conn'.up = FALSE BY ClosedIs DEF Hung
<1>3. Notes("reconnecting") BY <1>2 DEF Notes, Hung
<1>4. Opened' /\ Speaking' /\ Alternating' /\ SameFrames BY <1>3, NotesKeep DEF CatchInv
<1>5. InTransit' = {} BY CallsHung
<1>6. LaterPages' BY <1>5 DEF LaterPages
<1>7. Anew' BY <1>2 DEF Anew
<1>8. reply'.is = "page" => reply' = reply BY DEF ReadsFail, Failed
<1>9. /\ epoch <= epoch' /\ Heard' = Heard
      /\ win'.board = win.board /\ win'.applied = win.applied
  BY <1>1, <1>4, HeardSame DEF Hung, HostSame
<1>10. Current'
  <2>1. view'.epoch <= epoch' /\ (reply'.is = "page" => reply'.epoch <= epoch')
    <3>1. view.epoch \in Nat /\ (reply.is = "page" => reply.epoch \in Nat)
      BY <1>1 DEF Views, Replies, Page, NoRead, Asked, Failed
    <3>2. view.epoch <= epoch /\ (reply.is = "page" => reply.epoch <= epoch)
      BY DEF CatchInv, Current
    <3> QED BY <1>1, <1>8, <1>9, <3>1, <3>2 DEF Hung, HostSame
  <2>2. (view.phase = "live" => snaps.window.epoch = view.epoch)' BY DEF CatchInv, Current
  <2>3. ASSUME NEW s \in Nat, NEW b \in Boards, NEW s0 \in Nat, Owes(s, b, s0)'
        PROVE  Abreast(s, b, s0)'
    <3>1. epoch' = epoch
      <4>1. view'.epoch = epoch' \/ (reply'.is = "page" /\ reply'.epoch = epoch')
        BY <1>5, <2>3 DEF Owes
      <4>2. view'.epoch <= epoch /\ (reply'.is = "page" => reply'.epoch <= epoch)
        BY <1>8 DEF CatchInv, Current
      <4>3. epoch' = epoch \/ epoch' = epoch + 1 BY DEF Hung, HostSame
      <4> QED BY <1>1, <4>1, <4>2, <4>3
    <3>2. HostSame BY <1>1, <3>1 DEF Hung
    <3>3. Owes(s, b, s0) BY <1>5, <1>8, <2>3, <3>1 DEF Owes
    <3>4. Abreast(s, b, s0) BY <3>3 DEF CatchInv, Current
    <3>5. Ups' \subseteq Ups
      <4>1. Ups' = Range(ring') BY OrderHung DEF ReaderInv
      <4> QED BY <3>2, <4>1 DEF Ups, HostSame
    <3>6. Based(b, s0)' BY <1>5, <3>2, <3>4, <3>5 DEF Abreast, Based, Holds, HostSame
    <3>7. Tracks(s, b, s0)' BY <1>9, <3>1, <3>4 DEF Abreast, Tracks, Excused
    <3>8. Since(win.applied, epoch, s, s0)' BY <1>9, <3>1, <3>4 DEF Abreast
    <3> QED BY <3>6, <3>7, <3>8 DEF Abreast
  <2> QED BY <2>1, <2>2, <2>3 DEF Current
<1> QED BY <1>4, <1>6, <1>7, <1>10 DEF CatchInv

-----------------------------------------------------------------------------
(* What the window goes on from, when something comes out of the line *)

\* A window that does not wait for an answer has none on its way.
LEMMA NoneComes ==
  ASSUME TypeOK, Waiting, reply # Asked
  PROVE  \A a \in InTransit : ~ PageToWindow(a)
<1>1. Never({"window"}, ToWindow) BY DEF Waiting
<1>2. \A a \in InTransit : a \in Res /\ a \notin ToWindow BY <1>1, TransitIs DEF Never
<1> QED BY <1>2 DEF ToWindow, PageToWindow

\* A window to which something is owed is there.
LEMMA OwesHeard ==
  ASSUME TypeOK, Waiting, Opened, NEW s, NEW b, NEW s0, Owes(s, b, s0)
  PROVE  win.heard
<1>1. view.phase = "live" \/ reply.is = "page" \/ reply = Asked BY NoneComes DEF Owes
<1>2. view.phase # "idle" BY <1>1 DEF Waiting, NoRead, Asked
<1> QED BY <1>2 DEF Opened

\* The reader goes on with what it received.
LEMMA CatchGot ==
  ASSUME TypeOK, TypeOK', ReaderInv, CatchInv, Still, NEW x, Gets(x), Buffers(x),
         snaps'.window = snaps.window, Speaks(win, win', Range(view.buffer), epoch), LaterPages',
         \A s \in Nat, b \in Boards, s0 \in Nat :
           Owes(s, b, s0) /\ Abreast(s, b, s0) => Tracks(s, b, s0)'
  PROVE  CatchInv'
<1>1. /\ HostSame /\ conn'.up = conn.up /\ view' = view /\ reply' = reply
      /\ win'.heard = win.heard /\ InTransit' \subseteq InTransit /\ Ups' \subseteq Ups
      /\ epoch' = epoch
  <2>1. InTransit' \subseteq InTransit BY TransitGot
  <2>2. Ups' \subseteq Ups BY OrderGot DEF ReaderInv
  <2> QED BY <2>1, <2>2 DEF Gets, ConnSame, HostSame, Still, Speaks, From
<1>2. win \in Wins /\ win' \in Wins /\ From(win, win', epoch) /\ Tells(win', Range(view.buffer))
  BY DEF TypeOK, Speaks
<1>3. Grown(win.handed, win'.handed) /\ win.handed \in Seq(Handed) /\ win'.handed \in Seq(Handed)
  BY <1>2 DEF From, Wins
<1>4. Opened' BY <1>1 DEF CatchInv, Opened
<1>5. Speaking' BY <1>1, <1>2 DEF CatchInv, Speaking
<1>6. Alternating'
  <2>1. Alternate(win.handed, view.link, conn.up) BY DEF CatchInv, Alternating
  <2> DEFINE h == win.handed
             t == win'.handed
             lk == view.link
             up == conn.up
  <2>2. h \in Seq(Handed) /\ t \in Seq(Handed) /\ Grown(h, t) /\ Alternate(h, lk, up) BY <1>3, <2>1
  <2> HIDE DEF h, t, lk, up
  <2>3. Alternate(t, lk, up) BY <2>2, AlternateGrown
  <2> QED BY <1>1, <2>3 DEF t, lk, up, Alternating
<1>7. Anew'
  <2>1. Renewed => Renewed' BY <1>3 DEF Renewed, Grown, Range
  <2> QED BY <1>1, <2>1 DEF CatchInv, Anew
<1>8. Current'
  <2>1. (view.epoch <= epoch)' /\ (reply.is = "page" => reply.epoch <= epoch)'
    BY <1>1 DEF CatchInv, Current
  <2>2. (view.phase = "live" => snaps.window.epoch = view.epoch)' BY <1>1 DEF CatchInv, Current
  <2>3. ASSUME NEW s \in Nat, NEW b \in Boards, NEW s0 \in Nat, Owes(s, b, s0)'
        PROVE  Abreast(s, b, s0)'
    <3>1. Owes(s, b, s0) BY <1>1, <2>3 DEF Owes, PageToWindow
    <3>2. Abreast(s, b, s0) BY <3>1 DEF CatchInv, Current
    <3>3. Tracks(s, b, s0)' BY <3>1, <3>2
    <3>4. Based(b, s0)' BY <1>1, <3>2 DEF Abreast, Based, Holds, PageFor, HostSame
    <3>5. Since(win.applied, epoch, s, s0) BY <3>2 DEF Abreast
    <3>6. Since(win'.applied, epoch, s, s0) BY <1>2, <3>5, SinceFrom
    <3>7. Since(win.applied, epoch, s, s0)' BY <1>1, <3>6
    <3> QED BY <3>3, <3>4, <3>7 DEF Abreast
  <2> QED BY <2>1, <2>2, <2>3 DEF Current
<1> QED BY <1>4, <1>5, <1>6, <1>7, <1>8 DEF CatchInv

\* The reader takes a frame.
LEMMA CatchEvt ==
  ASSUME TypeOK, TypeOK', ReaderInv, ViewInv, CatchInv, Still, snaps' = snaps, NEW f, GetsEvt(f)
  PROVE  CatchInv'
<1> DEFINE B == Range(view.buffer)
<1>1. Gets(f) /\ f \in Evt /\ win' = Takes(win, f) /\ Buffers(f) BY GotOf DEF GetsEvt
<1>2. f \in Ups /\ f.epoch = epoch
  <2>1. f \in Evts(L) BY <1>1, LineGot, ItemKinds
  <2> QED BY <2>1 DEF Bag, Ups, ReaderInv, Stamped
<1>3. win \in Wins /\ epoch \in Nat /\ Tells(win, B) /\ Going(win, epoch) /\ B \subseteq Evt
  <2>1. win \in Wins /\ epoch \in Nat /\ view.buffer \in Seq(Evt) BY DEF TypeOK, HostOK, Views
  <2>2. B \subseteq Evt BY <2>1, RangeIn
  <2> QED BY <2>1, <2>2 DEF CatchInv, Speaking, Going, ReaderInv, Calls, Down
<1> DEFINE v == win'
<1>4. v = Takes(win, f) BY <1>1
<1> HIDE DEF B, v
<1>5. Speaks(win, v, B, epoch) BY <1>1, <1>2, <1>3, <1>4, TakesTells DEF Speaks
<1>6. LaterPages'
  <2>1. Passes(win, v) \/ Applies(win, f, v) BY <1>1, <1>3, <1>4, TakesMay
  <2>2. InTransit' \subseteq InTransit /\ epoch' = epoch BY <1>1, TransitGot DEF Gets, HostSame
  <2>3. CASE Passes(win, v) BY <2>2, <2>3 DEF Passes, v, CatchInv, LaterPages, PageFor
  <2>4. CASE win.mode = "live"
    <3>1. None(conn.asked, conn.answers, L, Subs, ToReader) BY <2>4 DEF ReaderInv, Calls, Single
    <3>2. \A a \in InTransit : a \in Res /\ a \notin ToReader BY <3>1, TransitIs
    <3> QED BY <2>2, <3>2 DEF ToReader, LaterPages, PageFor
  <2> QED BY <2>1, <2>3, <2>4 DEF Applies
<1>7. ASSUME NEW s \in Nat, NEW b \in Boards, NEW s0 \in Nat, Owes(s, b, s0), Abreast(s, b, s0)
      PROVE  Tracks(s, b, s0)'
  <2>0. epoch' = epoch /\ view' = view /\ snaps' = snaps BY <1>1 DEF Gets, HostSame, Still
  <2>1. CASE Excused(s0) BY <2>0, <2>1 DEF Tracks, Excused
  <2>2. CASE Tracked(epoch, win.board, Heard, s, b)
    <3>1. win.heard BY <1>7, OwesHeard DEF ViewInv, CatchInv
    <3>2. Holds({f}, s0, b) BY <1>2, <1>7 DEF Abreast, Based, Holds
    <3>3. Since(win.applied, epoch, s, s0) BY <1>7 DEF Abreast
    <3>4. Tracked(epoch, win.board, Evts(win.handed) \cup B, s, b) BY <2>2 DEF B, Heard, Evts
    <3>5. Tracked(epoch, v.board, Evts(v.handed) \cup B, s, b)
      BY <1>1, <1>2, <1>3, <1>4, <3>1, <3>2, <3>3, <3>4, TakesTracks
    <3> QED BY <2>0, <3>5 DEF B, v, Heard, Evts, Tracks
  <2> QED BY <1>7, <2>1, <2>2 DEF Abreast, Tracks
<1> QED BY <1>1, <1>5, <1>6, <1>7, CatchGot DEF B, v

\* What the reader's next state tells, when a page becomes its state.
LEMMA WithTells ==
  ASSUME TypeOK, ReaderInv, CatchInv, NEW a, PageFor(a), NEW w, w = With(win, a)
  PROVE  /\ w \in Wins /\ Tells(w, Range(view.buffer)) /\ From(win, w, epoch)
         /\ w.applied.epoch = epoch /\ w.applied.seq = w.lastSeq /\ w.lastSeq = a.seq
         /\ w.buffer = win.buffer /\ w.board = a.rows /\ w.handed = win.handed
         /\ w.heard = win.heard
<1>0. a \in Res /\ win \in Wins /\ a.seq \in Nat BY TransitIs DEF PageFor, TypeOK, Res
<1>1. /\ w \in Wins /\ w.mode = win.mode /\ w.lastSeq = a.seq /\ w.board = a.rows
      /\ w.applied.epoch = epoch /\ w.applied.seq = a.seq
      /\ w.buffer = win.buffer /\ w.handed = win.handed /\ w.heard = win.heard
  BY <1>0, WithIs
<1>2. win.applied.epoch = epoch => win.applied.seq <= a.seq BY DEF CatchInv, LaterPages, PageFor
<1>3. From(win, w, epoch)
  <2>1. win.handed \in Seq(Handed) BY <1>0 DEF Wins
  <2> QED BY <1>1, <1>2, <2>1, GrownSelf DEF From
<1>4. Told(Evts(win.handed) \cup Range(view.buffer), w.applied)
  <2> SUFFICES ASSUME NEW x \in Evts(win.handed) \cup Range(view.buffer)
               PROVE  /\ x.row \in Rows /\ x.epoch <= epoch
                      /\ x.epoch = epoch => x.seq <= a.seq
    BY <1>1 DEF Told
  <2>1. /\ x.row \in Rows /\ x.epoch <= win.applied.epoch
        /\ x.epoch = win.applied.epoch => x.seq <= win.applied.seq
    BY DEF CatchInv, Speaking, Tells, Told
  <2>2. win.applied.epoch <= epoch /\ win.applied.epoch \in Nat /\ epoch \in Nat /\ win.applied.seq \in Nat
    BY <1>0 DEF ReaderInv, Stamped, Wins, Stamps, TypeOK, HostOK
  <2>3. x \in Evt
    <3>1. view.buffer \in Seq(Evt) /\ win.handed \in Seq(Handed) BY DEF TypeOK, Wins, Views
    <3>2. Range(view.buffer) \subseteq Evt /\ Range(win.handed) \subseteq Handed BY <3>1, RangeIn
    <3> QED BY <3>2 DEF Evts, Handed, Note, IsEvt
  <2>4. x.epoch \in Nat /\ x.seq \in Nat BY <2>3 DEF Evt
  <2> QED BY <1>0, <1>2, <2>1, <2>2, <2>4
<1>5. Tells(w, Range(view.buffer)) BY <1>1, <1>4 DEF CatchInv, Speaking, Tells
<1> QED BY <1>1, <1>3, <1>5

\* An answer for the reader comes out of the line.
LEMMA CatchRes ==
  ASSUME TypeOK, TypeOK', ReaderInv, ViewInv, CatchInv, Still, NEW a, GetsRes(a), Snaps(a)
  PROVE  CatchInv'
<1> DEFINE B == Range(view.buffer)
           v == win'
<1>1. /\ Gets(a) /\ a \in Res /\ a.to = "reader" /\ win \in Wins /\ Buffers(a)
      /\ epoch' = epoch /\ view' = view /\ epoch \in Nat
  BY GotOf DEF GetsRes, Gets, HostSame, Still, TypeOK, HostOK
<1>2. a \in ToReader /\ a \in InTransit BY <1>1, TransitGot DEF ToReader
<1>3. LaterPages'
  <2>1. Once(Subs, ToReader) /\ Calling(Subs, ToReader)
    BY DEF ReaderInv, Calls, Single, Once, Calling
  <2>2. NoneLeft BY <1>1, <1>2, <2>1, GotCalls DEF NoneLeft
  <2>3. \A x \in InTransit' : x.to # "reader" BY <1>1, <2>2, NoneGot
  <2> QED BY <2>3 DEF LaterPages, PageFor
<1>4. B \subseteq Evt /\ Tells(win, B) /\ win.buffer \in Seq(Evt)
      /\ Range(win.buffer) \subseteq Ups /\ \A f \in Range(win.buffer) : f.epoch = epoch
  <2>1. view.buffer \in Seq(Evt) BY DEF TypeOK, Views
  <2>2. B \subseteq Evt BY <2>1, RangeIn
  <2>3. Range(win.buffer) \subseteq Ups BY DEF Ups, Bag
  <2> QED BY <1>1, <2>2, <2>3 DEF CatchInv, Speaking, ReaderInv, Stamped, Wins
<1>5. snaps'.window = snaps.window BY DEF Snaps, TypeOK
<1>6. \A s \in Nat, b \in Boards, s0 \in Nat : Owes(s, b, s0) /\ Abreast(s, b, s0) =>
        /\ win.heard /\ Holds(Range(win.buffer), s0, b) /\ Since(win.applied, epoch, s, s0)
        /\ Excused(s0) \/ Tracked(epoch, win.board, Evts(win.handed) \cup B, s, b)
  <2> SUFFICES ASSUME NEW s \in Nat, NEW b \in Boards, NEW s0 \in Nat,
                      Owes(s, b, s0), Abreast(s, b, s0)
               PROVE  /\ win.heard /\ Holds(Range(win.buffer), s0, b)
                      /\ Since(win.applied, epoch, s, s0)
                      /\ Excused(s0) \/ Tracked(epoch, win.board, Evts(win.handed) \cup B, s, b)
    OBVIOUS
  <2>1. win.heard BY OwesHeard DEF ViewInv, CatchInv
  <2>2. Holds(Range(win.buffer), s0, b) BY <1>4 DEF Abreast, Based, Holds
  <2> QED BY <2>1, <2>2 DEF Abreast, Tracks, Heard, Evts
<1>7. CASE a.says = "replaying"
  <2>1. /\ win.applied.epoch = epoch /\ win.applied.seq = win.lastSeq
    BY <1>2, <1>7 DEF ReaderInv, Calls, Resuming
  <2>2. v = Drained(win) BY <1>7 DEF GetsRes
  <2>3. snaps' = snaps BY <1>7 DEF Snaps
  <2>s. 0 \in Nat /\ win.board \in Boards BY <1>1 DEF Wins
  <2> HIDE DEF B, v
  <2>4. Speaks(win, v, B, epoch) BY <1>1, <1>4, <2>1, <2>2, <2>s, DrainSpeaks
  <2>5. ASSUME NEW s \in Nat, NEW b \in Boards, NEW s0 \in Nat, Owes(s, b, s0), Abreast(s, b, s0)
        PROVE  Tracks(s, b, s0)'
    <3>1. CASE Excused(s0) BY <1>1, <2>3, <3>1 DEF Tracks, Excused
    <3>2. CASE Tracked(epoch, win.board, Evts(win.handed) \cup B, s, b)
      <4>1. win.heard /\ Holds(Range(win.buffer), s0, b) /\ Since(win.applied, epoch, s, s0)
        BY <1>6, <2>5
      <4>2. Tracked(epoch, v.board, Evts(v.handed) \cup B, s, b)
        BY <1>1, <1>4, <2>1, <2>2, <3>2, <4>1, DrainSpeaks
      <4> QED BY <1>1, <4>2 DEF B, v, Heard, Evts, Tracks
    <3> QED BY <1>6, <2>5, <3>1, <3>2
  <2> QED BY <1>1, <1>3, <1>5, <2>4, <2>5, CatchGot DEF B, v
<1>8. CASE a.says = "page"
  <2> DEFINE w == With(win, a)
  <2>1. PageFor(a) /\ a.seq \in Nat /\ a.rows \in Boards BY <1>1, <1>2, <1>8 DEF PageFor, Res
  <2>2. v = Drained(w) BY <1>8 DEF GetsRes
  <2>3. snaps'.reader.epoch = epoch /\ snaps'.reader.seq = a.seq BY <1>8 DEF Snaps, TypeOK
  <2>w. w = With(win, a) OBVIOUS
  <2> HIDE DEF w
  <2>4. /\ w \in Wins /\ Tells(w, B) /\ From(win, w, epoch)
        /\ w.applied.epoch = epoch /\ w.applied.seq = w.lastSeq /\ w.lastSeq = a.seq
        /\ w.buffer = win.buffer /\ w.board = a.rows /\ w.handed = win.handed
        /\ w.heard = win.heard
    BY <2>1, <2>w, WithTells
  <2>b. \A f \in Range(w.buffer) : f.epoch = epoch BY <1>4, <2>4
  <2>s. 0 \in Nat /\ win.board \in Boards BY <1>1 DEF Wins
  <2> HIDE DEF B, v
  <2>5. Speaks(win, v, B, epoch)
    <3>1. Speaks(w, v, B, epoch) BY <1>1, <1>4, <2>2, <2>4, <2>b, <2>s, DrainSpeaks
    <3> QED BY <1>1, <2>4, <3>1, FromTrans DEF Speaks
  <2>6. ASSUME NEW s \in Nat, NEW b \in Boards, NEW s0 \in Nat, Owes(s, b, s0), Abreast(s, b, s0)
        PROVE  Tracks(s, b, s0)'
    <3>1. CASE s0 < a.seq BY <1>1, <2>3, <3>1 DEF Tracks, Excused
    <3>2. CASE a.seq <= s0
      <4>1. Below(a.rows, b) BY <1>2, <2>1, <2>6, <3>2 DEF Abreast, Based
      <4>2. Tracked(epoch, w.board, Evts(w.handed) \cup B, s, b) BY <2>4, <4>1 DEF Below, Tracked
      <4>3. w.heard /\ Holds(Range(w.buffer), s0, b) BY <1>6, <2>4, <2>6
      <4>4. Since(w.applied, epoch, s, s0)
        <5>1. Since(win.applied, epoch, s, s0) BY <1>6, <2>6
        <5> QED BY <1>1, <2>4, <5>1, SinceFrom
      <4>5. Tracked(epoch, v.board, Evts(v.handed) \cup B, s, b)
        BY <1>1, <1>4, <2>2, <2>4, <2>b, <4>2, <4>3, <4>4, DrainSpeaks
      <4> QED BY <1>1, <4>5 DEF B, v, Heard, Evts, Tracks
    <3> QED BY <2>1, <3>1, <3>2
  <2> QED BY <1>1, <1>3, <1>5, <2>5, <2>6, CatchGot DEF B, v
<1>9. CASE a.says \notin {"replaying", "page"}
  <2>1. a.says \in {"live", "resync", "expired", "refused"} BY <1>1, <1>9 DEF Res
  <2>2. /\ v.lastSeq = win.lastSeq /\ v.board = win.board
        /\ v.applied = win.applied /\ v.handed = win.handed /\ v.heard = win.heard
        /\ v.mode = win.mode \/ v.mode # "live"
    BY <2>1 DEF GetsRes
  <2>3. snaps' = snaps BY <1>9 DEF Snaps
  <2>4. Speaks(win, v, B, epoch)
    <3>1. v \in Wins BY DEF TypeOK
    <3>2. Going(v, epoch) BY <2>2 DEF Going, ReaderInv, Calls, Down
    <3>3. win.handed \in Seq(Handed) /\ win.applied.seq \in Nat BY <1>1 DEF Wins, Stamps
    <3>4. From(win, v, epoch) BY <2>2, <3>3, GrownSelf DEF From
    <3>5. Tells(v, B) BY <1>4, <2>2 DEF Tells
    <3> QED BY <3>1, <3>2, <3>4, <3>5 DEF Speaks
  <2>5. ASSUME NEW s \in Nat, NEW b \in Boards, NEW s0 \in Nat, Owes(s, b, s0), Abreast(s, b, s0)
        PROVE  Tracks(s, b, s0)'
    BY <1>1, <2>2, <2>3, <2>5 DEF Abreast, Tracks, Excused, Heard, Evts
  <2> QED BY <1>1, <1>3, <1>5, <2>4, <2>5, CatchGot
<1> QED BY <1>7, <1>8, <1>9

\* The answer to the window's read: a page on its way becomes the one it read.
LEMMA CatchAnswered ==
  ASSUME TypeOK, TypeOK', ReaderInv, ViewInv, CatchInv, view' = view, snaps' = snaps,
         NEW a, Answered(a)
  PROVE  CatchInv'
<1>1. /\ Gets(a) /\ a \in Res /\ a.to = "window" /\ win' = win /\ GetsWin(a) /\ Buffers(a)
      /\ HostSame /\ epoch' = epoch /\ conn'.up = conn.up /\ a \in InTransit
      /\ InTransit' \subseteq InTransit
  BY GotOf, TransitGot DEF Answered, GetsWin, Gets, HostSame, ConnSame
<1>2. Ups' \subseteq Ups BY <1>1, OrderGot DEF ReaderInv
<1>3. reply' = IF a.says = "page"
               THEN [is |-> "page", epoch |-> epoch, seq |-> a.seq, rows |-> a.rows]
               ELSE Failed
  BY DEF Answered
<1>4. reply'.is = "page" => /\ a.says = "page" /\ reply'.epoch = epoch
                            /\ reply'.seq = a.seq /\ reply'.rows = a.rows
  BY <1>3 DEF Failed
<1>5. Heard' = Heard BY <1>1 DEF Heard
<1>6. Opened' /\ Speaking' /\ Alternating' BY <1>1 DEF CatchInv, Opened, Speaking, Alternating
<1>7. LaterPages' BY <1>1 DEF CatchInv, LaterPages, PageFor
<1>8. Anew' BY <1>1, <1>4 DEF CatchInv, Anew, Renewed
<1>9. Current'
  <2>0. epoch \in Nat BY DEF TypeOK, HostOK
  <2>1. (view.epoch <= epoch)' /\ (reply.is = "page" => reply.epoch <= epoch)'
    BY <1>1, <1>4, <2>0 DEF CatchInv, Current
  <2>2. (view.phase = "live" => snaps.window.epoch = view.epoch)' BY <1>1 DEF CatchInv, Current
  <2>3. ASSUME NEW s \in Nat, NEW b \in Boards, NEW s0 \in Nat, Owes(s, b, s0)'
        PROVE  Abreast(s, b, s0)'
    <3>1. Owes(s, b, s0)
      <4>1. CASE (view.phase = "live" /\ view.epoch = epoch
                  /\ s = view.seq /\ b = view.board /\ s0 = snaps.window.seq)'
        BY <1>1, <4>1 DEF Owes
      <4>2. CASE (reply.is = "page" /\ reply.epoch = epoch
                  /\ s = reply.seq /\ b = reply.rows /\ s0 = reply.seq)'
        BY <1>1, <1>4, <4>2 DEF Owes, PageToWindow
      <4>3. CASE \E x \in InTransit' : PageToWindow(x)' /\ s = x.seq /\ b = x.rows /\ s0 = x.seq
        BY <1>1, <4>3 DEF Owes, PageToWindow
      <4> QED BY <2>3, <4>1, <4>2, <4>3 DEF Owes
    <3>2. Abreast(s, b, s0) BY <3>1 DEF CatchInv, Current
    <3>3. Based(b, s0)' BY <1>1, <1>2, <3>2 DEF Abreast, Based, Holds, PageFor, HostSame
    <3>4. Tracks(s, b, s0)' BY <1>1, <1>5, <3>2 DEF Abreast, Tracks, Excused
    <3>5. Since(win.applied, epoch, s, s0)' BY <1>1, <3>2 DEF Abreast
    <3> QED BY <3>3, <3>4, <3>5 DEF Abreast
  <2> QED BY <2>1, <2>2, <2>3 DEF Current
<1> QED BY <1>6, <1>7, <1>8, <1>9 DEF CatchInv

-----------------------------------------------------------------------------
(* What the window goes on from, through its own steps *)

\* The steps of the window are so.
LEMMA AsideIs ==
  ASSUME TypeOK, ReaderInv, Quiet, snaps'.reader = snaps.reader
  PROVE  Aside
<1>1. Ups' = Ups BY OrderSame DEF ReaderInv
<1>2. InTransit' = InTransit BY FlowsSame DEF ReaderInv
<1> QED BY <1>1, <1>2 DEF Quiet, ReaderSame, ConnSame, Aside

\* The next snapshot stays no older through them.
LEMMA AsideLater ==
  ASSUME Aside, LaterPages
  PROVE  LaterPages'
BY DEF Aside, LaterPages, PageFor, HostSame

\* The board takes its place among the Host's, and stays there when it takes more.
LEMMA AsideBased ==
  ASSUME TypeOK, Aside, NEW b \in Boards, NEW b2 \in Boards, Below(b, b2), NEW s0, Based(b, s0)
  PROVE  Based(b2, s0)'
<1>0. \A r \in Rows : b[r] \in Nat /\ b2[r] \in Nat /\ b[r] <= b2[r] BY DEF Below, Boards
<1>1. Holds(Ups, s0, b2)
  <2> SUFFICES ASSUME NEW g \in Ups, g.row \in Rows, g.seq <= s0 PROVE g.val <= b2[g.row]
    BY DEF Holds
  <2>1. g.val \in Nat BY UpsOK
  <2>2. g.val <= b[g.row] BY DEF Based, Holds
  <2> QED BY <1>0, <2>1, <2>2
<1>2. \A a \in InTransit : PageFor(a) /\ a.seq <= s0 => Below(a.rows, b2)
  <2> SUFFICES ASSUME NEW a \in InTransit, PageFor(a), a.seq <= s0 PROVE Below(a.rows, b2) OBVIOUS
  <2>1. a.rows \in Boards BY TransitIs DEF Res
  <2>2. Below(a.rows, b) BY DEF Based
  <2> QED BY <2>1, <2>2, BelowTrans
<1>3. s0 = seq => Below(rows, b2)
  <2>1. rows \in Boards BY DEF TypeOK, HostOK
  <2> QED BY <2>1, BelowTrans DEF Based
<1> QED BY <1>1, <1>2, <1>3 DEF Based, Aside, HostSame, PageFor

\* Nothing is owed to a window that has to ask.
LEMMA NoneOwed ==
  ASSUME TypeOK, Waiting, Aside, reply # Asked, reply'.is # "page",
         view'.phase # "live" \/ view'.epoch # epoch
  PROVE  \A s, b, s0 : ~ Owes(s, b, s0)'
<1>1. \A a \in InTransit' : ~ PageToWindow(a)' BY NoneComes DEF Aside, PageToWindow
<1> QED BY <1>1 DEF Owes, Aside, HostSame

\* A window that opens, or reads anew, has nothing to be abreast with.
LEMMA CatchAsks ==
  ASSUME TypeOK, Waiting, Aside, LaterPages, Current, reply # Asked, reply'.is # "page",
         view'.phase # "live", view'.epoch = view.epoch \/ view'.epoch <= epoch,
         Opened', Speaking', Alternating'
  PROVE  CatchInv'
<1>1. Current'
  <2>1. view'.epoch <= epoch' BY DEF Current, Aside, HostSame
  <2>2. \A s, b, s0 : ~ Owes(s, b, s0)' BY NoneOwed
  <2> QED BY <2>1, <2>2 DEF Current
<1>2. Anew' BY DEF Anew
<1> QED BY <1>1, <1>2, AsideLater DEF CatchInv

\* A window opens.
LEMMA CatchOpens ==
  ASSUME TypeOK, TypeOK', ReaderInv, ViewInv, CatchInv, WindowOpens
  PROVE  CatchInv'
<1>1. /\ Quiet /\ WindowReads /\ win'.handed = win.handed
      /\ view.phase = "idle" /\ view' = [view EXCEPT !.phase = "syncing"]
      /\ win' = [win EXCEPT !.heard = TRUE] /\ snaps' = snaps
  BY WindowOpensIs DEF WindowOpens
<1>2. Aside /\ win'.applied = win.applied BY <1>1, AsideIs DEF Quiet, ReaderSame
<1>3. /\ view'.phase = "syncing" /\ view'.epoch = view.epoch /\ view'.buffer = view.buffer
      /\ view'.link = view.link
  BY <1>1 DEF TypeOK, Views
<1>4. win'.heard = TRUE BY <1>1 DEF TypeOK, Wins
<1>5. Opened' BY <1>3, <1>4 DEF Opened
<1>6. Speaking' BY <1>1, <1>2, <1>3, <1>4 DEF CatchInv, Speaking, Tells
<1>7. Alternating' BY <1>1, <1>2, <1>3 DEF CatchInv, Alternating, Aside
<1>8. reply # Asked /\ reply'.is # "page"
  BY <1>1 DEF ViewInv, Waiting, WindowReads, Asked, Failed, NoRead
<1> QED BY <1>2, <1>3, <1>5, <1>6, <1>7, <1>8, CatchAsks DEF CatchInv, ViewInv

\* Fewer frames stay in turn.
LEMMA ThinTurn ==
  ASSUME NEW T, NEW s \in Seq(T), NEW t \in Seq(T), Thin(t, s), InTurn(s)
  PROVE  InTurn(t)
BY DEF Thin, InTurn

\* The first of what was handed on comes before the others.
LEMMA TurnTail ==
  ASSUME NEW h \in Seq(Handed), h # <<>>, InTurn(h), NEW t, t = Tail(h), NEW e, e = Head(h)
  PROVE  /\ t \in Seq(Handed) /\ e \in Handed /\ InTurn(t)
         /\ \A x : x \in Range(h) <=> x = e \/ x \in Range(t)
         /\ \A x : x \in Evts(h) <=> x \in Evts(t) \/ (x = e /\ IsEvt(x))
         /\ IsEvt(e) => \A g \in Evts(t) : Next2(e, g)
<1>1. t \in Seq(Handed) /\ e \in Handed /\ Range(h) = {e} \cup Range(t) BY RangeHeadTail
<1>2. InTurn(t) BY <1>1, ThinTail, ThinTurn
<1>3. ASSUME IsEvt(e), NEW g \in Evts(t)
      PROVE  Next2(e, g)
  <2>1. PICK i \in DOMAIN t : t[i] = g BY <1>3 DEF Evts, Range
  <2>2. i + 1 \in DOMAIN h /\ h[i + 1] = g /\ 1 \in DOMAIN h /\ h[1] = e /\ 1 < i + 1 BY <1>1, <2>1
  <2>3. IsEvt(g) BY DEF Evts
  <2> QED BY <1>3, <2>2, <2>3 DEF InTurn
<1> QED BY <1>1, <1>2, <1>3 DEF Evts

\* A follower that reads anew on a frame holds at most that frame.
LEMMA HearsTurn ==
  ASSUME NEW v \in Views, NEW f \in Evt, NEW w, w = Hears(v, f), w.phase # v.phase
  PROVE  InTurn(w.buffer)
<1>0. v.phase \in {"stale", "live"}
  <2>1. v.phase \in {"idle", "syncing", "stale", "live"} BY DEF Views
  <2>2. v.phase # "idle" /\ v.phase # "syncing" BY HearsIs
  <2> QED BY <2>1, <2>2
<1>1. w = Resyncs(v, <<f>>) BY <1>0 DEF Hears, Views
<1> DEFINE e == <<f>>
<1>2. e \in Seq(Evt) /\ InTurn(e) BY DEF InTurn
<1>3. w = Resyncs(v, e) BY <1>1
<1> HIDE DEF e
<1>4. w \in Views /\ Thin(w.buffer, e) BY <1>2, <1>3, ResyncsIs
<1>5. w.buffer \in Seq(Evt) BY <1>4 DEF Views
<1> QED BY <1>2, <1>4, <1>5, ThinTurn

\* It goes on while the frames are of its epoch, and reads anew on one of another.
LEMMA HearsLive ==
  ASSUME NEW v \in Views, NEW f \in Evt, f.row \in Rows, NEW w, w = Hears(v, f), v.phase = "live"
  PROVE  IF f.epoch = v.epoch
         THEN w.phase = "live" /\ w.epoch = v.epoch /\ w.buffer = v.buffer /\ TakesOn(v, f, w)
         ELSE w.phase = "syncing"
<1>0. f.row # Resync /\ f.seq \in Nat /\ v.seq \in Nat BY FramesAssumption DEF Evt, Views
<1>1. CASE f.epoch # v.epoch
  <2> DEFINE e == <<f>>
  <2>1. w = Resyncs(v, e) /\ e \in Seq(Evt) BY <1>1 DEF Hears
  <2> HIDE DEF e
  <2>2. w.phase = "syncing" BY <2>1, ResyncsIs
  <2> QED BY <1>1, <2>2
<1>2. CASE f.epoch = v.epoch /\ f.seq <= v.seq BY <1>0, <1>2 DEF Hears, TakesOn
<1>3. CASE f.epoch = v.epoch /\ f.seq > v.seq
  <2>1. w = [v EXCEPT !.seq = f.seq, !.board[f.row] = f.val] BY <1>0, <1>3 DEF Hears
  <2>2. /\ w.phase = "live" /\ w.epoch = v.epoch /\ w.buffer = v.buffer /\ w.seq = f.seq
        /\ w.board = [v.board EXCEPT ![f.row] = f.val]
    BY <2>1 DEF Views
  <2> QED BY <1>3, <2>2 DEF TakesOn
<1> QED BY <1>0, <1>1, <1>2, <1>3

\* The window takes a frame: what its board lacked of the reader's is among the others.
LEMMA HearsTracks ==
  ASSUME NEW v \in Views, NEW f \in Evt, f.row \in Rows, NEW w \in Views, TakesOn(v, f, w),
         Below(v.board, w.board), NEW wb \in Boards, NEW T, T \subseteq Evt, NEW T2,
         \A g \in T : g = f \/ (Next2(f, g) /\ g \in T2), f.epoch = v.epoch,
         Tracked(v.epoch, wb, T, v.seq, v.board)
  PROVE  Tracked(v.epoch, wb, T2, w.seq, w.board)
<1>0. /\ v.seq \in Nat /\ w.seq \in Nat /\ f.seq \in Nat /\ f.val \in Nat
      /\ v.board \in Boards /\ w.board \in Boards
  BY DEF Views, Evt
<1> SUFFICES ASSUME NEW r \in Rows
             PROVE  \/ wb[r] <= w.board[r]
                    \/ \E g \in T2 : g.row = r /\ g.epoch = v.epoch /\ w.seq < g.seq /\ wb[r] <= g.val
  BY DEF Tracked
<1>1. wb[r] \in Nat /\ v.board[r] \in Nat /\ w.board[r] \in Nat /\ v.board[r] <= w.board[r]
  BY <1>0 DEF Boards, Below
<1>2. CASE wb[r] <= v.board[r] BY <1>1, <1>2
<1>3. CASE \E g \in T : g.row = r /\ g.epoch = v.epoch /\ v.seq < g.seq /\ wb[r] <= g.val
  <2>1. PICK g \in T : g.row = r /\ g.epoch = v.epoch /\ v.seq < g.seq /\ wb[r] <= g.val BY <1>3
  <2>2. g.seq \in Nat BY DEF Evt
  <2>3. CASE g = f
    <3>1. w.board = [v.board EXCEPT ![f.row] = f.val] BY <1>0, <2>1, <2>3 DEF TakesOn
    <3>2. w.board[r] = f.val BY <1>0, <2>1, <2>3, <3>1 DEF Boards
    <3> QED BY <2>1, <2>3, <3>2
  <2>4. CASE Next2(f, g) /\ g \in T2
    <3>1. f.seq < g.seq BY <2>1, <2>4 DEF Next2
    <3>2. w.seq < g.seq BY <1>0, <2>1, <2>2, <3>1 DEF TakesOn
    <3> QED BY <2>1, <2>4, <3>2
  <2> QED BY <2>3, <2>4
<1> QED BY <1>2, <1>3 DEF Tracked

\* A step that leaves what is to be heard, and the board or its read.
LEMMA AsideCurrent ==
  ASSUME TypeOK, TypeOK', Aside, Current, Heard' = Heard, snaps' = snaps, reply' = reply,
         view'.epoch = view.epoch,
         \/ view'.phase = "syncing"
         \/ view'.phase = view.phase /\ view'.seq = view.seq /\ view'.board = view.board
  PROVE  Current'
<1>1. (view.epoch <= epoch)' /\ (reply.is = "page" => reply.epoch <= epoch)'
      /\ (view.phase = "live" => snaps.window.epoch = view.epoch)'
  BY DEF Current, Aside, HostSame
<1>2. ASSUME NEW s \in Nat, NEW b \in Boards, NEW s0 \in Nat, Owes(s, b, s0)'
      PROVE  Abreast(s, b, s0)'
  <2>1. Owes(s, b, s0) BY <1>2 DEF Owes, Aside, HostSame, PageToWindow
  <2>2. Abreast(s, b, s0) BY <2>1 DEF Current
  <2>3. Below(b, b) BY DEF Below, Boards
  <2>4. Based(b, s0)' BY <2>2, <2>3, AsideBased DEF Abreast
  <2>5. Tracks(s, b, s0)' /\ Since(win.applied, epoch, s, s0)'
    BY <2>2 DEF Abreast, Tracks, Excused, Aside, HostSame
  <2> QED BY <2>4, <2>5 DEF Abreast
<1> QED BY <1>1, <1>2 DEF Current

\* What the reader tells, when the window hears the first of it.
LEMMA TellsTail ==
  ASSUME NEW w \in Wins, NEW x \in Wins, w.handed # <<>>, x.handed = Tail(w.handed),
         x.heard = TRUE, x.applied = w.applied, NEW B, NEW C, Tells(w, B),
         \A f \in C : f \in B \/ (f = Head(w.handed) /\ IsEvt(f))
  PROVE  Tells(x, C)
<1> DEFINE h == w.handed
           t == x.handed
           e == Head(h)
<1>0. h \in Seq(Handed) /\ h # <<>> /\ t = Tail(h) /\ e = Head(h) BY DEF Wins
<1>1. InTurn(h) /\ Told(Evts(h) \cup B, w.applied) /\ \A f \in B, g \in Evts(h) : Next2(f, g)
  BY DEF Tells
<1> HIDE DEF h, t, e
<1>2. /\ InTurn(t) /\ \A y : y \in Evts(h) <=> y \in Evts(t) \/ (y = e /\ IsEvt(e))
      /\ IsEvt(e) => \A g \in Evts(t) : Next2(e, g)
  <2>0. InTurn(h) BY <1>1
  <2>1. InTurn(t) BY <1>0, <2>0, TurnTail
  <2>2. \A y : y \in Evts(h) <=> y \in Evts(t) \/ (y = e /\ IsEvt(e))
    <3>1. \A y : y \in Range(h) <=> y = e \/ y \in Range(t) BY <1>0, <2>0, TurnTail
    <3> QED BY <3>1 DEF Evts
  <2>3. IsEvt(e) => \A g \in Evts(t) : Next2(e, g) BY <1>0, <2>0, TurnTail
  <2> QED BY <2>1, <2>2, <2>3
<1>3. \A f \in C : f \in B \/ (f = e /\ IsEvt(e)) BY DEF e, h
<1>4. Told(Evts(t) \cup C, w.applied) BY <1>1, <1>2, <1>3 DEF Told
<1>5. \A f \in C, g \in Evts(t) : Next2(f, g) BY <1>1, <1>2, <1>3
<1> QED BY <1>2, <1>4, <1>5 DEF Tells, t

\* What the follower makes of an item, whatever it is.
LEMMA HearsItem ==
  ASSUME TypeOK, TypeOK', CatchInv, WindowHears, NEW item, item = Head(win.handed)
  PROVE  /\ item \in Handed /\ view.phase # "idle" /\ win.heard = TRUE
         /\ IsEvt(item) => item \in Evt /\ item \in Evts(win.handed) /\ item.row \in Rows
         /\ ~ IsEvt(item) => item.type \in {"connected", "reconnecting"}
         /\ view' = IF IsEvt(item) THEN Hears(view, item) ELSE Linked(view, item.type)
         /\ view'.link = IF IsEvt(item) THEN view.link ELSE item.type
         /\ view'.phase \in {view.phase, "syncing"}
         /\ view'.epoch = view.epoch
         /\ view'.phase # "syncing" => view'.buffer = view.buffer
         /\ \A f \in Range(view'.buffer) : f \in Range(view.buffer) \/ (f = item /\ IsEvt(f))
         /\ InTurn(view'.buffer)
<1>1. /\ win.handed # <<>> /\ item \in Handed
      /\ view' = IF IsEvt(item) THEN Hears(view, item) ELSE Linked(view, item.type)
  BY WindowHearsIs
<1>2. view \in Views /\ win \in Wins /\ view' \in Views BY DEF TypeOK
<1>3. Tells(win, Range(view.buffer)) /\ InTurn(view.buffer) /\ Opened BY DEF CatchInv, Speaking
<1>4. win.heard = TRUE /\ view.phase # "idle" BY <1>1, <1>2, <1>3 DEF Tells, Opened, Wins
<1>5. item \in Range(win.handed)
  <2> DEFINE h == win.handed
  <2>1. h \in Seq(Handed) /\ h # <<>> BY <1>1, <1>2 DEF Wins
  <2> HIDE DEF h
  <2>2. Range(h) = {Head(h)} \cup Range(Tail(h)) BY <2>1, RangeHeadTail
  <2> QED BY <2>2 DEF h
<1>6. IsEvt(item) => item \in Evt /\ item \in Evts(win.handed) /\ item.row \in Rows
  BY <1>1, <1>3, <1>5 DEF Handed, Note, IsEvt, Evts, Tells, Told
<1>7. ~ IsEvt(item) => item.type \in {"connected", "reconnecting"}
  BY <1>1 DEF Handed, Note, Evt, IsEvt
<1> DEFINE w == view'
<1>8. CASE IsEvt(item)
  <2>1. w = Hears(view, item) /\ item \in Evt /\ item.row \in Rows BY <1>1, <1>6, <1>8
  <2> HIDE DEF w
  <2>2. /\ w.link = view.link /\ w.phase \in {view.phase, "syncing"} /\ Applied(view, item, w)
        /\ view.phase = "syncing" => w.buffer = Append(view.buffer, item)
        /\ view.phase = "stale" => w.phase = "syncing"
    BY <1>2, <2>1, HearsIs
  <2>3. w.epoch = view.epoch BY <2>2 DEF Applied
  <2>4. w.phase # "syncing" => w.buffer = view.buffer
    <3>1. view.phase = "live" /\ w.phase # "syncing" => w.buffer = view.buffer
      BY <1>2, <2>1, HearsLive
    <3>2. w.phase # "syncing" => view.phase = "live" BY <1>2, <1>4, <2>2 DEF Views
    <3> QED BY <3>1, <3>2
  <2>5. \A f \in Range(w.buffer) : f \in Range(view.buffer) \/ (f = item /\ IsEvt(f))
    BY <1>8, <2>2 DEF Applied
  <2>6. InTurn(w.buffer)
    <3>1. CASE view.phase = "syncing"
      <4> DEFINE s == view.buffer
                 t == w.buffer
      <4>1. s \in Seq(Evt) /\ item \in Evt BY <1>2, <2>1 DEF Views
      <4>2. t = Append(s, item) /\ InTurn(s) BY <1>3, <2>2, <3>1
      <4>3. \A g \in Evts(s) : Next2(g, item) BY <1>3, <1>6, <1>8 DEF Tells, Evts
      <4> HIDE DEF s, t
      <4>5. InTurn(t) BY <4>1, <4>2, <4>3, TurnAppend
      <4> QED BY <4>5 DEF t
    <3>2. CASE view.phase # "syncing" /\ w.phase = "syncing" BY <1>2, <2>1, <3>2, HearsTurn
    <3>3. CASE w.phase # "syncing" BY <1>3, <2>4, <3>3
    <3> QED BY <3>1, <3>2, <3>3
  <2> QED BY <1>1, <1>4, <1>6, <1>8, <2>2, <2>3, <2>4, <2>5, <2>6 DEF w
<1>9. CASE ~ IsEvt(item)
  <2> DEFINE st == item.type
  <2>1. w = Linked(view, st) /\ st \in {"connected", "reconnecting"} BY <1>1, <1>7, <1>9
  <2> HIDE DEF w, st
  <2>2. /\ w.epoch = view.epoch /\ Range(w.buffer) \subseteq Range(view.buffer)
        /\ w.phase \in {view.phase, "syncing"}
        /\ view.phase # "idle" => w.link = st
        /\ w.phase = view.phase => w.buffer = view.buffer
        /\ w.phase # view.phase => Range(w.buffer) = {}
    <3>1. /\ w.epoch = view.epoch /\ Range(w.buffer) \subseteq Range(view.buffer)
          /\ w.phase \in {view.phase, "syncing"}
      BY <1>2, <2>1, LinkedIs
    <3>2. view.phase # "idle" => w.link = st BY <1>2, <2>1, LinkedIs
    <3>3. /\ w.phase = view.phase => w.buffer = view.buffer
          /\ w.phase # view.phase => Range(w.buffer) = {}
      BY <1>2, <2>1, LinkedIs
    <3> QED BY <3>1, <3>2, <3>3
  <2>3. InTurn(w.buffer)
    <3>1. CASE w.phase = view.phase BY <1>3, <2>2, <3>1
    <3>2. CASE w.phase # view.phase BY <2>2, <3>2 DEF InTurn, Range
    <3> QED BY <3>1, <3>2
  <2> QED BY <1>1, <1>4, <1>6, <1>7, <1>9, <2>2, <2>3 DEF w, st
<1> QED BY <1>8, <1>9

\* The window hears an item: what it goes on from keeps up with the reader.
LEMMA CatchHears ==
  ASSUME TypeOK, TypeOK', ReaderInv, ViewInv, CatchInv, WindowHears
  PROVE  CatchInv'
<1> DEFINE item == Head(win.handed)
           h == win.handed
           t == win'.handed
<1>1. /\ Quiet /\ h # <<>> /\ t = Tail(h)
      /\ IF view.phase # "syncing" /\ view'.phase = "syncing" THEN WindowReads
         ELSE reply' = reply /\ conn'.asked = conn.asked
  BY WindowHearsIs
<1>2. snaps' = snaps /\ win'.heard = win.heard BY DEF WindowHears, TypeOK, Wins
<1>3. Aside BY <1>1, <1>2, AsideIs
<1>4. /\ view \in Views /\ view' \in Views /\ win \in Wins /\ win' \in Wins
      /\ h \in Seq(Handed) /\ epoch' = epoch /\ win'.applied = win.applied
      /\ win'.board = win.board /\ conn'.up = conn.up
  BY <1>1, <1>3 DEF TypeOK, Wins, Aside, HostSame
<1>5. item = Head(win.handed) /\ item = Head(h) OBVIOUS
<1>c. /\ Opened /\ Speaking /\ Alternating /\ LaterPages /\ Current /\ Anew
      /\ Waiting /\ Viewed /\ Past(Known, epoch, seq, rows) /\ Grows(Known)
  BY DEF CatchInv, ViewInv
<1> HIDE DEF item
<1>6. /\ item \in Handed /\ view.phase # "idle" /\ win.heard = TRUE
      /\ IsEvt(item) => item \in Evt /\ item \in Evts(h) /\ item.row \in Rows
      /\ ~ IsEvt(item) => item.type \in {"connected", "reconnecting"}
  BY <1>5, HearsItem
<1>7. view' = IF IsEvt(item) THEN Hears(view, item) ELSE Linked(view, item.type) BY <1>5, HearsItem
<1>8. /\ view'.link = (IF IsEvt(item) THEN view.link ELSE item.type)
      /\ view'.phase \in {view.phase, "syncing"} /\ view'.epoch = view.epoch
  BY <1>5, HearsItem
<1>9. /\ view'.phase # "syncing" => view'.buffer = view.buffer
      /\ \A f \in Range(view'.buffer) : f \in Range(view.buffer) \/ (f = item /\ IsEvt(f))
      /\ InTurn(view'.buffer)
  BY <1>5, HearsItem
<1>10. Opened' BY <1>2, <1>6, <1>8, <1>9, <1>c DEF Opened
<1>11. Speaking'
  <2>1. Tells(win, Range(view.buffer)) BY <1>c DEF Speaking
  <2>2. \A f \in Range(view'.buffer) : f \in Range(view.buffer) \/ (f = Head(win.handed) /\ IsEvt(f))
    BY <1>5, <1>9
  <2>3. Tells(win', Range(view'.buffer)) BY <1>1, <1>2, <1>4, <1>6, <2>1, <2>2, TellsTail
  <2> QED BY <1>9, <2>3 DEF Speaking
<1>12. Alternating' /\ (IsNote(item, "connected") => view.link # "connected")
  <2> DEFINE link == view.link
             link2 == view'.link
             up == conn.up
  <2>1. Alternate(h, link, up) /\ link2 = (IF IsEvt(Head(h)) THEN link ELSE Head(h).type)
    BY <1>5, <1>8, <1>c DEF Alternating
  <2> HIDE DEF h, t, link, link2, up
  <2>2. Alternate(t, link2, up) /\ (IsNote(Head(h), "connected") => link # "connected")
    BY <1>1, <1>4, <2>1, AlternateTail
  <2> QED BY <1>4, <1>5, <2>2 DEF Alternating, h, t, link, link2, up
<1>13. /\ \A x : x \in Range(h) <=> x = item \/ x \in Range(t)
       /\ \A x : x \in Evts(h) <=> x \in Evts(t) \/ (x = item /\ IsEvt(x))
       /\ IsEvt(item) => \A g \in Evts(t) : Next2(item, g)
  <2>0. InTurn(h) BY <1>c DEF Speaking, Tells
  <2> HIDE DEF h, t
  <2>1. \A x : x \in Range(h) <=> x = item \/ x \in Range(t) BY <1>1, <1>4, <1>5, <2>0, TurnTail
  <2>2. IsEvt(item) => \A g \in Evts(t) : Next2(item, g) BY <1>1, <1>4, <1>5, <2>0, TurnTail
  <2> QED BY <2>1, <2>2 DEF Evts
<1>14. view.phase # "syncing" => reply = NoRead BY <1>c DEF Waiting
<1>15. CASE view.phase # "syncing" /\ view'.phase # "live"
  <2>1. reply # Asked BY <1>14, <1>15 DEF NoRead, Asked
  <2>2. reply'.is # "page" BY <1>1, <1>14, <1>15 DEF NoRead, Asked, Failed, WindowReads
  <2>3. view'.epoch = view.epoch \/ view'.epoch <= epoch BY <1>8
  <2> QED BY <1>3, <1>10, <1>11, <1>12, <1>15, <1>c, <2>1, <2>2, <2>3, CatchAsks
<1>16. CASE view.phase = "syncing"
  <2>1. view'.phase = "syncing" /\ reply' = reply BY <1>1, <1>8, <1>16
  <2>2. Heard' = Heard
    <3>1. CASE IsEvt(item)
      <4> DEFINE s == view.buffer
                 u == view'.buffer
                 w == view'
      <4>1. w = Hears(view, item) /\ item \in Evt /\ s \in Seq(Evt)
        BY <1>4, <1>6, <1>7, <3>1 DEF Views
      <4> HIDE DEF w, s
      <4>2. w.buffer = Append(view.buffer, item) BY <1>4, <1>16, <4>1, HearsIs
      <4>3. u = Append(s, item) BY <4>2 DEF w, s
      <4> HIDE DEF u
      <4>4. Range(u) = Range(s) \cup {item} BY <4>1, <4>3, AppendRange
      <4>5. Evts(h) = Evts(t) \cup {item} BY <1>13, <3>1
      <4> QED BY <4>4, <4>5 DEF Heard, Evts, u, s
    <3>2. CASE ~ IsEvt(item)
      <4> DEFINE w == view'
                 st == item.type
      <4>1. w = Linked(view, st) /\ st \in {"connected", "reconnecting"} BY <1>6, <1>7, <3>2
      <4>2. w.phase = view.phase BY <1>16, <2>1
      <4> HIDE DEF w, st
      <4>3. w.buffer = view.buffer BY <1>4, <4>1, <4>2, LinkedIs
      <4>4. Evts(h) = Evts(t) BY <1>13, <3>2
      <4> QED BY <4>3, <4>4 DEF Heard, Evts, w
    <3> QED BY <3>1, <3>2
  <2>3. Current' BY <1>2, <1>3, <1>8, <1>c, <2>1, <2>2, AsideCurrent
  <2>4. Anew'
    <3> SUFFICES ASSUME reply.is = "page", reply.epoch # epoch, conn.up
                 PROVE  Renewed' \/ view'.again
      BY <1>4, <2>1 DEF Anew
    <3>1. Renewed \/ view.again BY <1>c DEF Anew
    <3>2. IsNote(item, "connected") \/ view.again => view'.again
      <4>1. CASE IsEvt(item)
        <5> DEFINE w == view'
        <5>1. w = Hears(view, item) /\ item \in Evt BY <1>6, <1>7, <4>1
        <5> HIDE DEF w
        <5>2. w.again = view.again BY <1>4, <1>16, <5>1, HearsIs
        <5> QED BY <4>1, <5>2 DEF w, IsEvt, IsNote
      <4>2. CASE ~ IsEvt(item)
        <5> DEFINE w == view'
                   st == item.type
        <5>1. w = Linked(view, st) /\ st \in {"connected", "reconnecting"} BY <1>6, <1>7, <4>2
        <5>2. st = "connected" => view.link # "connected" BY <1>12 DEF IsNote
        <5>3. IsNote(item, "connected") => st = "connected" BY DEF IsNote
        <5> HIDE DEF w, st
        <5>4. view.again \/ (st = "connected" /\ view.link # "connected") => w.again
          BY <1>4, <1>16, <5>1, LinkedIs
        <5> QED BY <5>2, <5>3, <5>4 DEF w
      <4> QED BY <4>1, <4>2
    <3>3. Renewed => Renewed' \/ IsNote(item, "connected") BY <1>13 DEF Renewed
    <3> QED BY <3>1, <3>2, <3>3
  <2>5. LaterPages' BY <1>3, <1>c, AsideLater
  <2> QED BY <1>10, <1>11, <1>12, <2>3, <2>4, <2>5 DEF CatchInv
<1>17. CASE view.phase = "live" /\ view'.phase = "live"
  <2>1. reply' = reply /\ reply.is # "page" /\ reply # Asked BY <1>1, <1>14, <1>17 DEF NoRead, Asked
  <2>2. LaterPages' BY <1>3, <1>c, AsideLater
  <2>3. CASE ~ IsEvt(item)
    <3> DEFINE w == view'
               st == item.type
    <3>1. w = Linked(view, st) /\ st \in {"connected", "reconnecting"} /\ w.phase = view.phase
      BY <1>6, <1>7, <1>17, <2>3
    <3>2. w.phase # "syncing" /\ w.phase # "idle" BY <1>17
    <3>3. st = "connected" => view.link # "connected" BY <1>12 DEF IsNote
    <3>4. IsNote(item, "connected") => st = "connected" BY DEF IsNote
    <3> HIDE DEF w, st
    <3>5. w.seq = view.seq /\ w.board = view.board /\ w.buffer = view.buffer BY <1>4, <3>1, LinkedIs
    <3>6. st = "connected" => view.link = "connected" BY <1>4, <3>1, <3>2, LinkedIs
    <3>7. Heard' = Heard
      <4>1. Evts(h) = Evts(t) BY <1>13, <2>3
      <4> QED BY <3>5, <4>1 DEF Heard, Evts, w
    <3>8. Current'
      <4>1. view'.seq = view.seq /\ view'.board = view.board /\ view'.phase = view.phase
        BY <3>1, <3>5 DEF w
      <4> QED BY <1>2, <1>3, <1>8, <1>c, <2>1, <3>7, <4>1, AsideCurrent
    <3>9. Renewed => Renewed' BY <1>13, <3>3, <3>4, <3>6 DEF Renewed
    <3>10. Anew' BY <1>4, <1>8, <1>17, <1>c, <2>1, <3>9 DEF Anew
    <3> QED BY <1>10, <1>11, <1>12, <2>2, <3>8, <3>10 DEF CatchInv
  <2>4. CASE IsEvt(item)
    <3> DEFINE w == view'
    <3>1. w = Hears(view, item) /\ item \in Evt /\ item.row \in Rows /\ w \in Views
      BY <1>4, <1>6, <1>7, <2>4
    <3>2. w.phase = "live" BY <1>17
    <3>k. item \in Known BY <1>6, <2>4 DEF Known, Heard, Evts
    <3>r. rows \in Boards /\ Below(view.board, rows) /\ Timed(Known, view.epoch, view.seq, view.board)
      BY <1>c DEF TypeOK, HostOK, Viewed
    <3> HIDE DEF w
    <3>3. item.epoch = view.epoch /\ TakesOn(view, item, w)
      <4>1. item.epoch = view.epoch BY <1>4, <1>17, <3>1, <3>2, HearsLive
      <4>2. TakesOn(view, item, w) BY <1>4, <1>17, <3>1, <4>1, HearsLive
      <4> QED BY <4>1, <4>2
    <3>4. Below(view.board, w.board) BY <1>4, <1>c, <3>1, <3>k, <3>r, HearsGood
    <3>5. \A a \in InTransit : ~ PageToWindow(a) BY <1>c, <2>1, NoneComes
    <3>6. ASSUME NEW s \in Nat, NEW b \in Boards, NEW s0 \in Nat, Owes(s, b, s0)'
          PROVE  Abreast(s, b, s0)'
      <4>1. view.epoch = epoch /\ s = w.seq /\ b = w.board /\ s0 = snaps.window.seq
        BY <1>2, <1>3, <1>4, <1>8, <2>1, <3>5, <3>6 DEF Owes, Aside, PageToWindow, w
      <4> DEFINE c == view.board
                 n == view.seq
      <4>2. Owes(n, c, s0) BY <1>17, <4>1 DEF Owes
      <4>3. c \in Boards /\ n \in Nat /\ win.board \in Boards BY <1>4 DEF Views, Wins
      <4>4. Abreast(n, c, s0) BY <1>c, <4>2, <4>3 DEF Current
      <4>5. Based(b, s0)'
        <5>1. Based(c, s0) /\ Below(c, b) BY <3>4, <4>1, <4>4 DEF Abreast
        <5> HIDE DEF c
        <5> QED BY <1>3, <4>3, <5>1, AsideBased
      <4>6. Tracks(s, b, s0)'
        <5>1. Range(view.buffer) = {} /\ Range(view'.buffer) = {} BY <1>10, <1>17, <1>c DEF Opened
        <5>2. Heard = Evts(h) /\ Heard' = Evts(t) BY <5>1 DEF Heard, Evts
        <5>3. CASE Excused(s0) BY <1>2, <1>4, <5>3 DEF Tracks, Excused
        <5>4. CASE Tracked(epoch, win.board, Heard, n, c)
          <6> DEFINE T == Evts(h)
                     T2 == Evts(t)
                     wb == win.board
          <6>1. Tracked(view.epoch, wb, T, view.seq, view.board) BY <4>1, <5>2, <5>4
          <6>2. T \subseteq Evt
            <7>1. \A x \in Range(h) : x \in Handed BY <1>4 DEF Range
            <7> QED BY <7>1 DEF Evts, Handed, Note, IsEvt
          <6>3. \A g \in T : g = item \/ (Next2(item, g) /\ g \in T2) BY <1>13, <2>4
          <6>4. wb \in Boards BY <4>3
          <6> HIDE DEF T, T2, wb
          <6>5. Tracked(view.epoch, wb, T2, w.seq, w.board)
            BY <1>4, <3>1, <3>3, <3>4, <6>1, <6>2, <6>3, <6>4, HearsTracks
          <6> QED BY <1>4, <4>1, <5>2, <6>5 DEF Tracks, wb, T2
        <5> QED BY <4>4, <5>3, <5>4 DEF Abreast, Tracks
      <4>7. Since(win.applied, epoch, s, s0)'
        <5>1. Since(win.applied, epoch, n, s0) BY <4>4 DEF Abreast
        <5>2. Told(Evts(h), win.applied) BY <1>c DEF Speaking, Tells, Told
        <5>3. item \in Evts(h) BY <1>6, <2>4
        <5>4. item.epoch = win.applied.epoch => item.seq <= win.applied.seq BY <5>2, <5>3 DEF Told
        <5>5. item.epoch <= win.applied.epoch BY <5>2, <5>3 DEF Told
        <5>6. win.applied.epoch <= epoch /\ win.applied.epoch \in Nat /\ epoch \in Nat /\ item.epoch = epoch
          BY <1>4, <3>3, <4>1 DEF ReaderInv, Stamped, Wins, Stamps, TypeOK, HostOK
        <5>7. win.applied.epoch = epoch /\ item.seq <= win.applied.seq BY <5>4, <5>5, <5>6
        <5>8. s = n \/ s = item.seq BY <3>3, <4>1 DEF TakesOn
        <5> QED BY <1>4, <5>1, <5>7, <5>8 DEF Since
      <4> QED BY <4>5, <4>6, <4>7 DEF Abreast
    <3>7. Current' BY <1>2, <1>4, <1>8, <1>17, <1>c, <2>1, <3>6 DEF Current
    <3>8. Anew'
      <4>1. ~ IsNote(item, "connected") BY <2>4 DEF IsEvt, IsNote
      <4>2. Renewed => Renewed' BY <1>13, <4>1 DEF Renewed
      <4> QED BY <1>4, <1>8, <1>17, <1>c, <2>1, <4>2 DEF Anew
    <3> QED BY <1>10, <1>11, <1>12, <2>2, <3>7, <3>8 DEF CatchInv
  <2> QED BY <2>3, <2>4
<1>18. view.phase \in {"idle", "syncing", "stale", "live"} BY <1>4 DEF Views
<1> QED BY <1>6, <1>8, <1>15, <1>16, <1>17, <1>18

\* It takes one more of these frames.
LEMMA PageStep ==
  ASSUME NEW rw \in Boards, NEW K, NEW e, NEW n, Past(K, e, n, rw), Grows(K),
         NEW p \in Page, NEW link, NEW x, OnPage(p, K, rw, link, x),
         NEW f \in K, f \in Evt, f.row \in Rows, f.epoch = p.epoch, NEW y, y = Hears(x, f)
  PROVE  OnPage(p, K, rw, link, y) /\ TakesOn(x, f, y) /\ Below(x.board, y.board)
<1>1. x \in Views /\ x.phase = "live" /\ f.epoch = x.epoch /\ Timed(K, x.epoch, x.seq, x.board)
      /\ Below(x.board, rw) /\ Below(p.rows, x.board)
  BY DEF OnPage
<1>2. y \in Views /\ y.link = x.link BY <1>1, HearsIs
<1>3. y.phase = "live" /\ y.epoch = x.epoch /\ y.buffer = x.buffer /\ TakesOn(x, f, y)
  <2>1. y.phase = "live" /\ y.epoch = x.epoch /\ y.buffer = x.buffer BY <1>1, HearsLive
  <2>2. TakesOn(x, f, y) BY <1>1, HearsLive
  <2> QED BY <2>1, <2>2
<1>4. Below(x.board, y.board) /\ Below(y.board, rw) /\ Timed(K, y.epoch, y.seq, y.board)
  BY <1>1, HearsGood
<1>5. Below(p.rows, y.board)
  <2>1. p.rows \in Boards /\ x.board \in Boards /\ y.board \in Boards BY <1>1, <1>2 DEF Page, Views
  <2> QED BY <1>1, <1>4, <2>1, BelowTrans
<1> QED BY <1>2, <1>3, <1>4, <1>5 DEF OnPage

\* The frames that are left after i of those of q, when one more is taken.
LEMMA LeftTurn ==
  ASSUME NEW q \in Seq(Evt), InTurn(q), NEW R, R \subseteq Evt,
         \A f \in Range(q), g \in R : Next2(f, g),
         NEW i \in Nat, i < Len(q), NEW f, f = q[i + 1]
  PROVE  /\ f \in Evt /\ f \in Range(q) /\ Left(q, i, R) \subseteq Evt
         /\ \A g \in Left(q, i, R) : g = f \/ (Next2(f, g) /\ g \in Left(q, i + 1, R))
<1>1. /\ Len(q) \in Nat /\ DOMAIN q = 1..Len(q) /\ i + 1 \in DOMAIN q
      /\ \A k \in DOMAIN q : q[k] \in Evt
  OBVIOUS
<1>2. f \in Evt /\ f \in Range(q) BY <1>1 DEF Range
<1>3. Left(q, i, R) \subseteq Evt BY <1>1 DEF Left
<1>4. \A k \in DOMAIN q : IsEvt(q[k]) BY <1>1 DEF Evt, IsEvt
<1>5. ASSUME NEW g \in Left(q, i, R)
      PROVE  g = f \/ (Next2(f, g) /\ g \in Left(q, i + 1, R))
  <2>1. CASE g \in R BY <1>2, <2>1 DEF Left
  <2>2. CASE \E k \in DOMAIN q : k > i /\ g = q[k]
    <3>1. PICK k \in DOMAIN q : k > i /\ g = q[k] BY <2>2
    <3>2. CASE k = i + 1 BY <3>1, <3>2
    <3>3. CASE k > i + 1
      <4>1. Next2(f, g) BY <1>1, <1>4, <3>1, <3>3 DEF InTurn
      <4>2. g \in Left(q, i + 1, R) BY <3>1, <3>3 DEF Left
      <4> QED BY <4>1, <4>2
    <3> QED BY <1>1, <3>1, <3>2, <3>3
  <2> QED BY <1>5, <2>1, <2>2 DEF Left
<1> QED BY <1>2, <1>3, <1>5

\* The window takes a page, then the frames of its epoch it held during its read: what the page
\* lacked of the reader's is among those it is still to hear.
LEMMA ReadTakes ==
  ASSUME NEW rw \in Boards, NEW K, NEW e, NEW n, Past(K, e, n, rw), Grows(K),
         NEW v \in Views, NEW p \in Page, Good(K, v.board, rw, p.epoch, p.seq, p.rows),
         Range(v.buffer) \subseteq K, ~ v.again, InTurn(v.buffer),
         \A f \in Range(v.buffer) : f.row \in Rows,
         NEW R, R \subseteq Evt, \A f \in Range(v.buffer), g \in R : Next2(f, g),
         NEW wb \in Boards, NEW w, w = Read(v, p)
  PROVE  /\ OnPage(p, K, rw, v.link, w)
         /\ AtPage(p, Range(v.buffer), w.seq)
         /\ Tracked(p.epoch, wb, Range(v.buffer) \cup R, p.seq, p.rows)
              => Tracked(p.epoch, wb, R, w.seq, w.board)
<1> DEFINE ep == p.epoch
           Ok(x, L0) ==
             /\ OnPage(p, K, rw, v.link, x)
             /\ AtPage(p, Range(v.buffer), x.seq)
             /\ Tracked(ep, wb, Range(v.buffer) \cup R, p.seq, p.rows)
                  => Tracked(ep, wb, L0, x.seq, x.board)
<1>0. PICK q \in Seq(Evt) : \E d \in [0..Len(q) -> Views] : Runs(v, p, q, d) BY ReadIs
<1>e. PICK d \in [0..Len(q) -> Views] : Runs(v, p, q, d) BY <1>0
<1>1. /\ Range(q) = {f \in Range(v.buffer) : f.epoch = p.epoch} /\ Thin(q, v.buffer)
      /\ d[0].phase = "live" /\ d[0].seq = p.seq /\ d[0].epoch = p.epoch
      /\ d[0].board = p.rows /\ Range(d[0].buffer) = {} /\ d[0].link = v.link
      /\ \A i \in 1..Len(q) : d[i] = Hears(d[i - 1], q[i])
      /\ Read(v, p) = IF v.again THEN Resyncs(d[0], q) ELSE d[Len(q)]
  BY <1>e DEF Runs
<1> DEFINE m == Len(q)
<1>2. /\ m \in Nat /\ 0 \in 0..m /\ d[0] \in Views /\ p.rows \in Boards /\ p.epoch \in Nat
      /\ v.buffer \in Seq(Evt)
  BY <1>0, <1>1 DEF Page, Views
<1>3. /\ \A f \in Range(q) : f \in Range(v.buffer) /\ f.epoch = ep /\ f \in K /\ f.row \in Rows
      /\ \A f \in Range(v.buffer) : f.epoch = ep => f \in Range(q)
      /\ \A f \in Range(q), g \in R : Next2(f, g)
  BY <1>1
<1>4. InTurn(q) BY <1>0, <1>1, <1>2, ThinTurn
<1>5. Ok(d[0], Left(q, 0, R))
  <2>1. OnPage(p, K, rw, v.link, d[0])
    <3>1. Below(p.rows, p.rows) BY <1>2 DEF Below, Boards
    <3> QED BY <1>1, <1>2, <3>1 DEF OnPage, Good
  <2>2. \A f \in Range(v.buffer) \cup R : f.epoch = ep => f \in Left(q, 0, R)
    <3>1. \A f \in Range(q) : f \in Left(q, 0, R)
      <4>1. DOMAIN q = 1..m BY <1>0
      <4> QED BY <4>1 DEF Range, Left
    <3> QED BY <1>3, <3>1 DEF Left
  <2>3. Tracked(ep, wb, Range(v.buffer) \cup R, p.seq, p.rows)
          => Tracked(ep, wb, Left(q, 0, R), p.seq, p.rows)
    BY <2>2 DEF Tracked
  <2>4. AtPage(p, Range(v.buffer), d[0].seq) BY <1>1 DEF AtPage
  <2> QED BY <1>1, <2>1, <2>3, <2>4
<1> HIDE DEF Ok
<1> DEFINE S == {i \in Nat : i <= m => Ok(d[i], Left(q, i, R))}
<1>6. 0 \in S BY <1>5
<1>7. \A i \in Nat : i \in S => i + 1 \in S
  <2> SUFFICES ASSUME NEW i \in Nat, i \in S, i + 1 <= m
               PROVE  Ok(d[i + 1], Left(q, i + 1, R))
    OBVIOUS
  <2>1. i + 1 \in 1..m /\ (i + 1) - 1 = i /\ i \in 0..m /\ i + 1 \in 0..m /\ i <= m /\ i < m BY <1>2
  <2> DEFINE x == d[i]
             y == d[i + 1]
             f == q[i + 1]
             T == Left(q, i, R)
             T2 == Left(q, i + 1, R)
  <2>2. y = Hears(x, f) /\ x \in Views /\ y \in Views
    <3>1. \A j \in 1..m : d[j] = Hears(d[j - 1], q[j]) BY <1>1
    <3> QED BY <1>1, <2>1, <3>1
  <2>3. /\ f \in Evt /\ f \in Range(q) /\ T \subseteq Evt
        /\ \A g \in T : g = f \/ (Next2(f, g) /\ g \in T2)
    BY <1>0, <1>3, <1>4, <2>1, LeftTurn
  <2>4. Ok(x, T) BY <2>1
  <2>5. f \in K /\ f.row \in Rows /\ f.epoch = ep /\ f \in Range(v.buffer) BY <1>3, <2>3
  <2> HIDE DEF x, y, f, T, T2
  <2>6. OnPage(p, K, rw, v.link, y) /\ TakesOn(x, f, y) /\ Below(x.board, y.board)
    <3>1. OnPage(p, K, rw, v.link, x) BY <2>4 DEF Ok
    <3> DEFINE lk == v.link
    <3>2. OnPage(p, K, rw, lk, x) BY <3>1
    <3> HIDE DEF lk
    <3>3. OnPage(p, K, rw, lk, y) /\ TakesOn(x, f, y) /\ Below(x.board, y.board)
      BY <2>2, <2>3, <2>5, <3>2, PageStep
    <3> QED BY <3>3 DEF lk
  <2>7. AtPage(p, Range(v.buffer), y.seq)
    <3>1. y.seq = x.seq \/ y.seq = f.seq BY <2>6 DEF TakesOn
    <3> QED BY <2>4, <2>5, <3>1 DEF Ok, AtPage
  <2>8. Tracked(ep, wb, T, x.seq, x.board) => Tracked(ep, wb, T2, y.seq, y.board)
    <3>1. x.epoch = ep /\ f.epoch = x.epoch BY <2>4, <2>5 DEF OnPage, Ok
    <3>2. Tracked(x.epoch, wb, T, x.seq, x.board) => Tracked(x.epoch, wb, T2, y.seq, y.board)
      BY <2>2, <2>3, <2>5, <2>6, <3>1, HearsTracks
    <3> QED BY <3>1, <3>2
  <2>9. Ok(y, T2) BY <2>4, <2>6, <2>7, <2>8 DEF Ok
  <2> QED BY <2>9 DEF y, T2
<1>8. m \in S
  <2> HIDE DEF S
  <2>1. \A i \in Nat : i \in S BY <1>6, <1>7, SetInduction
  <2> QED BY <1>2, <2>1
<1>9. Ok(d[m], Left(q, m, R)) BY <1>8, <1>2
<1>10. Left(q, m, R) = R
  <2>1. DOMAIN q = 1..m /\ m \in Nat BY <1>0
  <2> QED BY <2>1 DEF Left
<1>11. w = d[m] BY <1>1
<1> QED BY <1>9, <1>10, <1>11 DEF Ok

\* A read that has to be repeated: the frames held during it stay in turn.
LEMMA ReadAgain ==
  ASSUME NEW v \in Views, NEW p \in Page, v.again, InTurn(v.buffer), NEW w, w = Read(v, p)
  PROVE  /\ w.phase = "syncing" /\ w.epoch = p.epoch /\ w.link = v.link
         /\ InTurn(w.buffer) /\ Range(w.buffer) \subseteq Range(v.buffer)
<1>0. PICK q \in Seq(Evt) : \E d \in [0..Len(q) -> Views] : Runs(v, p, q, d) BY ReadIs
<1>1. PICK d \in [0..Len(q) -> Views] : Runs(v, p, q, d) BY <1>0
<1> DEFINE x == d[0]
           s == v.buffer
<1>2. /\ x \in Views /\ x.epoch = p.epoch /\ x.link = v.link /\ w = Resyncs(x, q)
      /\ Range(q) \subseteq Range(s) /\ Thin(q, s) /\ s \in Seq(Evt) /\ InTurn(s)
  <2>1. 0 \in 0..Len(q) OBVIOUS
  <2> QED BY <1>1, <2>1 DEF Runs, Views
<1> HIDE DEF x, s
<1>3. /\ w \in Views /\ w.phase = "syncing" /\ w.epoch = x.epoch /\ w.link = x.link
      /\ Range(w.buffer) \subseteq Range(q) /\ Thin(w.buffer, q)
  <2>1. w \in Views /\ w.phase = "syncing" /\ w.epoch = x.epoch /\ w.link = x.link
    BY <1>2, ResyncsIs
  <2>2. SansResyncs(w.buffer, q) /\ Thin(w.buffer, q) BY <1>2, ResyncsIs
  <2> QED BY <2>1, <2>2 DEF SansResyncs
<1>4. w.buffer \in Seq(Evt) BY <1>3 DEF Views
<1>5. InTurn(q) BY <1>2, ThinTurn
<1>6. InTurn(w.buffer) BY <1>3, <1>4, <1>5, ThinTurn
<1> QED BY <1>2, <1>3, <1>6 DEF s

\* The read of the window ended: what it goes on from keeps up with the reader.
LEMMA CatchLoads ==
  ASSUME TypeOK, TypeOK', ReaderInv, ViewInv, CatchInv, WindowLoads
  PROVE  CatchInv'
<1>1. /\ Quiet /\ win' = win /\ reply.is \in {"page", "failed"}
      /\ (reply.is = "page" => reply \in Page)
      /\ view' = (IF reply.is = "page" THEN Read(view, reply) ELSE Unread(view))
      /\ IF view'.phase = "syncing" THEN WindowReads
         ELSE reply' = NoRead /\ conn'.asked = conn.asked
  BY WindowLoadsIs
<1>2. snaps' = IF reply.is = "page"
               THEN [snaps EXCEPT !.window = [epoch |-> reply.epoch, seq |-> reply.seq]]
               ELSE snaps
  BY DEF WindowLoads
<1>3. /\ snaps'.reader = snaps.reader
      /\ reply.is = "page" => snaps'.window.epoch = reply.epoch /\ snaps'.window.seq = reply.seq
  BY <1>2 DEF TypeOK
<1>4. Aside BY <1>1, <1>3, AsideIs
<1>c. /\ Opened /\ Speaking /\ Alternating /\ LaterPages /\ Current /\ Anew
      /\ Waiting /\ Past(Known, epoch, seq, rows) /\ Grows(Known)
  BY DEF CatchInv, ViewInv
<1>5. /\ view \in Views /\ view' \in Views /\ win \in Wins /\ rows \in Boards
      /\ epoch' = epoch /\ conn'.up = conn.up
  BY <1>4 DEF TypeOK, HostOK, Aside, HostSame
<1>6. view.phase = "syncing" /\ win.heard = TRUE
  <2>1. view.phase = "syncing" BY <1>1, <1>c DEF Waiting, NoRead
  <2> QED BY <1>5, <1>c, <2>1 DEF Opened, Wins
<1>7. reply # Asked /\ reply'.is # "page" BY <1>1 DEF Asked, NoRead, Failed, WindowReads
<1>8. ASSUME Range(view'.buffer) \subseteq Range(view.buffer), InTurn(view'.buffer)
      PROVE  Speaking'
  BY <1>1, <1>8, <1>c DEF Speaking, Tells, Told
<1>9. ASSUME view'.link = view.link
      PROVE  Alternating'
  BY <1>1, <1>5, <1>9, <1>c DEF Alternating
<1>10. CASE reply.is # "page"
  <2> DEFINE w == view'
  <2>1. w = Unread(view) BY <1>1, <1>10
  <2> HIDE DEF w
  <2>2. /\ w.epoch = view.epoch /\ w.link = view.link /\ Range(w.buffer) = {}
        /\ w.phase \in {"syncing", "stale"}
    BY <1>5, <2>1, UnreadIs
  <2>3. InTurn(w.buffer) BY <2>2 DEF InTurn, Range
  <2>4. Opened' BY <1>1, <1>6, <2>2 DEF Opened, w
  <2>5. Speaking' /\ Alternating' BY <1>8, <1>9, <2>2, <2>3 DEF w
  <2>6. view'.phase # "live" /\ view'.epoch = view.epoch BY <2>2 DEF w
  <2> QED BY <1>4, <1>7, <1>c, <2>4, <2>5, <2>6, CatchAsks
<1>11. CASE reply.is = "page" /\ view.again
  <2> DEFINE w == view'
  <2>1. w = Read(view, reply) /\ reply \in Page /\ InTurn(view.buffer)
    BY <1>1, <1>11, <1>c DEF Speaking
  <2> HIDE DEF w
  <2>2. /\ w.phase = "syncing" /\ w.epoch = reply.epoch /\ w.link = view.link
        /\ InTurn(w.buffer) /\ Range(w.buffer) \subseteq Range(view.buffer)
    BY <1>5, <1>11, <2>1, ReadAgain
  <2>3. Opened' BY <1>1, <1>6, <2>2 DEF Opened, w
  <2>4. Speaking' /\ Alternating' BY <1>8, <1>9, <2>2 DEF w
  <2>5. view'.phase # "live" /\ view'.epoch <= epoch BY <1>11, <1>c, <2>2 DEF w, Current
  <2> QED BY <1>4, <1>7, <1>c, <2>3, <2>4, <2>5, CatchAsks
<1>12. CASE reply.is = "page" /\ ~ view.again
  <2> DEFINE w == view'
             R == Evts(win.handed)
             B == Range(view.buffer)
             wb == win.board
             lk == view.link
  <2>1. w = Read(view, reply) /\ reply \in Page /\ InTurn(view.buffer)
    BY <1>1, <1>12, <1>c DEF Speaking
  <2>2. Good(Known, view.board, rows, reply.epoch, reply.seq, reply.rows) /\ B \subseteq Known
    BY <1>12 DEF ViewInv, Loading, Known, Heard
  <2>3. Tells(win, B) /\ wb \in Boards BY <1>5, <1>c DEF Speaking, Wins
  <2>4. R \subseteq Evt
    <3>1. \A x \in Range(win.handed) : x \in Handed BY <1>5 DEF Range, Wins
    <3> QED BY <3>1 DEF Evts, Handed, Note, IsEvt
  <2>5. (\A f \in B : f.row \in Rows) /\ \A f \in B, g \in R : Next2(f, g) BY <2>3 DEF Tells, Told
  <2>h. Heard = R \cup B BY DEF Heard, Evts
  <2> HIDE DEF w, R, wb
  <2>6. OnPage(reply, Known, rows, view.link, w)
    BY <1>5, <1>12, <1>c, <2>1, <2>2, <2>3, <2>4, <2>5, ReadTakes
  <2>7. AtPage(reply, B, w.seq) BY <1>5, <1>12, <1>c, <2>1, <2>2, <2>3, <2>4, <2>5, ReadTakes
  <2>8. Tracked(reply.epoch, wb, B \cup R, reply.seq, reply.rows)
          => Tracked(reply.epoch, wb, R, w.seq, w.board)
    BY <1>5, <1>12, <1>c, <2>1, <2>2, <2>3, <2>4, <2>5, ReadTakes
  <2>9. /\ w.phase = "live" /\ w.epoch = reply.epoch /\ Range(w.buffer) = {} /\ w.link = view.link
        /\ Below(reply.rows, w.board)
    BY <2>6 DEF OnPage
  <2>10. InTurn(w.buffer) BY <2>9 DEF InTurn, Range
  <2>11. Opened' BY <1>1, <1>6, <2>9 DEF Opened, w
  <2>12. Speaking' /\ Alternating' BY <1>8, <1>9, <2>9, <2>10 DEF w
  <2>13. LaterPages' BY <1>4, <1>c, AsideLater
  <2>14. Anew'
    <3> SUFFICES ASSUME reply.epoch # epoch, conn.up
                 PROVE  Renewed'
      BY <1>5, <1>7, <2>9 DEF Anew, w
    <3>1. Renewed BY <1>12, <1>c DEF Anew
    <3> QED BY <1>1, <3>1 DEF Renewed
  <2>15. Current'
    <3>1. (view.epoch <= epoch)' /\ (view.phase = "live" => snaps.window.epoch = view.epoch)'
      BY <1>3, <1>5, <1>12, <1>c, <2>9 DEF Current, w
    <3>2. \A a \in InTransit : ~ PageToWindow(a) BY <1>7, <1>c, NoneComes
    <3>3. ASSUME NEW s \in Nat, NEW b \in Boards, NEW s0 \in Nat, Owes(s, b, s0)'
          PROVE  Abreast(s, b, s0)'
      <4>1. reply.epoch = epoch /\ s = w.seq /\ b = w.board /\ s0 = reply.seq
        BY <1>3, <1>4, <1>5, <1>7, <1>12, <2>9, <3>2, <3>3 DEF Owes, Aside, PageToWindow, w
      <4> DEFINE c == reply.rows
                 n == reply.seq
      <4>2. c \in Boards /\ n \in Nat BY <2>1 DEF Page
      <4>3. Owes(n, c, s0) BY <1>12, <4>1 DEF Owes
      <4>4. Abreast(n, c, s0) BY <1>c, <4>2, <4>3 DEF Current
      <4>5. Based(b, s0)'
        <5>1. Based(c, s0) /\ Below(c, b) BY <2>9, <4>1, <4>4 DEF Abreast
        <5> HIDE DEF c
        <5> QED BY <1>4, <4>2, <5>1, AsideBased
      <4>6. Tracks(s, b, s0)'
        <5>1. Heard' = R BY <1>1, <2>9 DEF Heard, Evts, w, R
        <5>2. CASE Excused(s0) BY <1>3, <1>5, <5>2 DEF Tracks, Excused
        <5>3. CASE Tracked(epoch, win.board, Heard, n, c)
          <6>1. Heard = B \cup R BY <2>h
          <6>2. Tracked(reply.epoch, wb, B \cup R, reply.seq, reply.rows) BY <4>1, <5>3, <6>1 DEF wb
          <6>3. Tracked(reply.epoch, wb, R, w.seq, w.board) BY <2>8, <6>2
          <6> QED BY <1>1, <1>5, <4>1, <5>1, <6>3 DEF Tracks, wb
        <5> QED BY <4>4, <5>2, <5>3 DEF Abreast, Tracks
      <4>7. Since(win.applied, epoch, s, s0)'
        <5>1. CASE w.seq = reply.seq BY <4>1, <5>1 DEF Since
        <5>2. CASE \E f \in B : f.epoch = reply.epoch /\ w.seq = f.seq
          <6>1. PICK f \in B : f.epoch = reply.epoch /\ w.seq = f.seq BY <5>2
          <6>2. f.epoch <= win.applied.epoch /\ (f.epoch = win.applied.epoch => f.seq <= win.applied.seq)
            BY <2>3 DEF Tells, Told
          <6>3. win.applied.epoch <= epoch /\ win.applied.epoch \in Nat /\ epoch \in Nat
            BY <1>5 DEF ReaderInv, Stamped, Wins, Stamps, TypeOK, HostOK
          <6> QED BY <1>1, <1>5, <4>1, <6>1, <6>2, <6>3 DEF Since
        <5> QED BY <2>7, <5>1, <5>2 DEF AtPage
      <4> QED BY <4>5, <4>6, <4>7 DEF Abreast
    <3> QED BY <1>7, <3>1, <3>3 DEF Current
  <2> QED BY <2>11, <2>12, <2>13, <2>14, <2>15 DEF CatchInv
<1> QED BY <1>10, <1>11, <1>12

\* The invariant, through every step.
LEMMA CatchStep ==
  ASSUME TypeOK, TypeOK', ReaderInv, ViewInv, CatchInv, Follows
  PROVE  CatchInv'
<1>1. CASE Still /\ snaps' = snaps /\ HandedSame /\ Flowing BY <1>1, CatchFlowing
<1>2. CASE Still /\ snaps' = snaps /\ Connects BY <1>2, CatchConnects
<1>3. CASE Still /\ \E x : (GetsEvt(x) /\ snaps' = snaps) \/ (GetsRes(x) /\ Snaps(x))
  BY <1>3, CatchEvt, CatchRes
<1>4. CASE view' = view /\ snaps' = snaps /\ ReadsFail /\ Hung BY <1>4, CatchHung
<1>5. CASE view' = view /\ snaps' = snaps /\ \E a : Answered(a) BY <1>5, CatchAnswered
<1>6. CASE WindowOpens BY <1>6, CatchOpens
<1>7. CASE WindowHears BY <1>7, CatchHears
<1>8. CASE WindowLoads BY <1>8, CatchLoads
<1> QED BY <1>1, <1>2, <1>3, <1>4, <1>5, <1>6, <1>7, <1>8 DEF Follows

\* In the first state the window has heard nothing, and has read nothing.
LEMMA InitCatch == Init => CatchInv
<1> SUFFICES ASSUME Init PROVE CatchInv OBVIOUS
<1>0. TypeOK BY InitTyped
<1>1. /\ conn = Closed /\ out = Idle /\ win.handed = <<>> /\ win.heard = FALSE
      /\ view.buffer = <<>> /\ view.phase = "idle" /\ view.link = "none" /\ view.epoch = 0
      /\ reply = NoRead
  BY DEF Init, FInit
<1>2. conn.answers = <<>> /\ out.sock = <<>> /\ out.queue = <<>> BY <1>1, ClosedIs
<1>3. L = <<>> BY <1>2 DEF L, Line
<1>4. Range(conn.answers) = {} /\ Range(L) = {} /\ Range(win.handed) = {} /\ Range(view.buffer) = {}
  BY <1>1, <1>2, <1>3 DEF Range
<1>5. InTransit = {} BY <1>4 DEF InTransit
<1>6. Opened BY <1>1, <1>4 DEF Opened
<1>7. Speaking BY <1>1, <1>4 DEF Speaking, Tells, Told, InTurn, Evts
<1>8. Alternating BY <1>1 DEF Alternating, Alternate
<1>9. LaterPages BY <1>5 DEF LaterPages, PageFor
<1>10. reply.is # "page" BY <1>1 DEF NoRead
<1>11. Current
  <2>1. view.epoch <= epoch BY <1>0, <1>1 DEF TypeOK, HostOK
  <2>2. \A s, b, s0 : ~ Owes(s, b, s0) BY <1>1, <1>5, <1>10 DEF Owes, PageToWindow
  <2> QED BY <1>1, <1>10, <2>1, <2>2 DEF Current
<1>12. Anew BY <1>1, <1>10 DEF Anew
<1> QED BY <1>6, <1>7, <1>8, <1>9, <1>11, <1>12 DEF CatchInv

\* The invariant, with the others, in every state.
LEMMA CatchKept == Spec => [](TypeOK /\ ReaderInv /\ ViewInv /\ CatchInv)
<1>1. Init => TypeOK /\ ReaderInv /\ ViewInv /\ CatchInv
  BY InitTyped, InitReader, InitView, InitCatch
<1>2. TypeOK /\ ReaderInv /\ ViewInv /\ CatchInv /\ [Next]_vars
      => (TypeOK /\ ReaderInv /\ ViewInv /\ CatchInv)'
  <2> SUFFICES ASSUME TypeOK, ReaderInv, ViewInv, CatchInv, [Next]_vars
               PROVE  TypeOK' /\ ReaderInv' /\ ViewInv' /\ CatchInv'
    OBVIOUS
  <2>1. TypeOK' /\ Moves /\ Follows BY NextIs, FollowsIs
  <2> QED BY <2>1, ReaderStep, ViewStep, CatchStep
<1> QED BY <1>1, <1>2, PTL DEF Spec

\* What the reader has and the window's board lacks is among what the window is to hear.
LEMMA ReaderReaches ==
  ASSUME TypeOK, ReaderInv, ViewInv, CatchInv, win.mode = "live", view.phase = "live",
         ~ Overtaken, NEW r \in Rows, win.board[r] = rows[r]
  PROVE  view.board[r] = rows[r] \/ HeardSoon(r, rows[r])
<1>1. /\ rows \in Boards /\ view \in Views /\ win \in Wins /\ epoch \in Nat
      /\ rows[r] \in Nat /\ view.board[r] \in Nat
  BY DEF TypeOK, HostOK, Views, Boards
<1>2. conn.up BY DEF ReaderInv, Calls, Down
<1>3. Opened /\ Current /\ Anew /\ Below(view.board, rows) /\ Past(Known, epoch, seq, rows)
  BY DEF CatchInv, ViewInv, Viewed
<1>4. CASE view.epoch # epoch
  <2>1. Renewed BY <1>2, <1>3, <1>4 DEF Anew
  <2> QED BY <2>1 DEF Renewed, IsNote, HeardSoon
<1>5. CASE view.epoch = epoch
  <2> DEFINE n == view.seq
             c == view.board
             s0 == snaps.window.seq
  <2>1. Owes(n, c, s0) BY <1>5 DEF Owes
  <2>2. n \in Nat /\ c \in Boards /\ s0 \in Nat BY <1>1 DEF Views, TypeOK, Stamps
  <2>3. Tracks(n, c, s0) BY <1>3, <2>1, <2>2 DEF Current, Abreast
  <2>4. ~ Excused(s0) BY <1>3, <1>5 DEF Excused, Overtaken, Current
  <2>5. Tracked(epoch, win.board, Heard, n, c) BY <2>3, <2>4 DEF Tracks
  <2>6. CASE win.board[r] <= c[r]
    <3>1. c[r] <= rows[r] BY <1>3 DEF Below
    <3> QED BY <1>1, <2>6, <3>1
  <2>7. CASE \E f \in Heard : f.row = r /\ f.epoch = epoch /\ n < f.seq /\ win.board[r] <= f.val
    <3>1. PICK f \in Heard : f.row = r /\ f.epoch = epoch /\ n < f.seq /\ win.board[r] <= f.val
      BY <2>7
    <3>2. f \in Range(win.handed) /\ IsEvt(f) BY <1>3 DEF Opened, Heard
    <3>3. f \in Evt /\ f.val <= rows[r] BY <1>3, <3>1 DEF Past, Known
    <3>4. f.val = rows[r] BY <1>1, <3>1, <3>3 DEF Evt
    <3> QED BY <3>1, <3>2, <3>4 DEF HeardSoon
  <2> QED BY <2>5, <2>6, <2>7 DEF Tracked
<1> QED BY <1>4, <1>5

\* ViewMissesNothingHolds: whatever reaches UI main is on its way to a live window, through
\* reconnections, Hosts that restart, frames held during a read and reads made again, unless the
\* window's last read is older than the reader's snapshot: for every number of rows, every high
\* water and every size of the ring (readModel.ts:182-204, hostRead.ts).
THEOREM ViewMissesNothingHolds == Spec => []ViewMissesNothing
<1>1. TypeOK /\ ReaderInv /\ ViewInv /\ CatchInv => ViewMissesNothing
  <2> SUFFICES ASSUME TypeOK, ReaderInv, ViewInv, CatchInv, win.mode = "live", view.phase = "live",
                      ~ Overtaken, ~ ResyncComing, NEW r \in Rows
               PROVE  Reaches(r)
    BY DEF ViewMissesNothing
  <2>1. win.board[r] = rows[r] \/ Coming(r, rows[r]) BY MissesNothing DEF NothingMissed
  <2>2. CASE Coming(r, rows[r]) BY <2>2 DEF Reaches
  <2>3. CASE win.board[r] = rows[r] BY <2>3, ReaderReaches DEF Reaches
  <2> QED BY <2>1, <2>2, <2>3
<1> QED BY <1>1, CatchKept, PTL

=============================================================================
