------------------------- MODULE NotifierPresenceProofs -------------------------
(***************************************************************************)
(* What NotifierPresence promises for every number of clients, of tray     *)
(* processes and of starts allowed: a wait is pending exactly while the    *)
(* machine waits, nothing is started while a client is attached, a start   *)
(* under way has a result to come, and the starts made in a window stay    *)
(* within the budget.  Only the last rests on durations.                   *)
(***************************************************************************)
EXTENDS NotifierPresence, TLAPS, WellFoundedInduction

PresenceInv == WaitingHasTimer /\ SomeoneIsAttached /\ SpawningHasStart

\* A failed start leaves a machine that waits with its wait, or one that gave up.
LEMMA StartFailedSettles ==
  ASSUME PresenceInv, StartFailed
  PROVE  /\ WaitingHasTimer'
         /\ state' # "spawning"
         /\ state' = "attached" <=> state = "attached"
  BY DEF PresenceInv, WaitingHasTimer, StartFailed, AfterFailure, GiveUp, Wait

\* An attach ends the wait.
LEMMA AttachSettles ==
  ASSUME PresenceInv, NEW c, Attach(c)
  PROVE  PresenceInv'
  BY DEF PresenceInv, WaitingHasTimer, SomeoneIsAttached, SpawningHasStart, Attach,
         TimerAfterAttach

\* Every step keeps the three together.
LEMMA PresenceStep == PresenceInv /\ [Next]_vars => PresenceInv'
<1> SUFFICES ASSUME PresenceInv, [Next]_vars PROVE PresenceInv'
  OBVIOUS
<1>0. WaitingHasTimer /\ SomeoneIsAttached /\ SpawningHasStart
  BY DEF PresenceInv
<1>1. ASSUME NEW c \in Apps, AppAttaches(c) PROVE PresenceInv'
  BY <1>1, AttachSettles DEF AppAttaches
<1>2. ASSUME NEW p \in Trays, TrayAttaches(p) PROVE PresenceInv'
  BY <1>2, AttachSettles DEF TrayAttaches
<1>3. ASSUME NEW c \in Clients, NEW stays \in BOOLEAN, Detaches(c, stays) PROVE PresenceInv'
  <2>1. CASE IsLast(c) /\ state = "attached"
    BY <1>3, <2>1
    DEF Detaches, IsLast, Wait, PresenceInv, WaitingHasTimer, SomeoneIsAttached,
        SpawningHasStart
  <2>2. CASE ~(IsLast(c) /\ state = "attached")
    <3>1. UNCHANGED <<state, timer, listening>> /\ attached' \subseteq attached
      BY <1>3, <2>2 DEF Detaches
    <3> QED
      BY <1>0, <3>1 DEF PresenceInv, WaitingHasTimer, SomeoneIsAttached, SpawningHasStart
  <2> QED
    BY <2>1, <2>2
<1>4. ASSUME NEW p \in Trays, RespawnDue(p) PROVE PresenceInv'
  <2>1. attached' = {} /\ timer' = FALSE
    BY <1>0, <1>4 DEF RespawnDue, SomeoneIsAttached
  <2>2. state' = "gave-up" \/ (state' = "spawning" /\ p \in listening')
    BY <1>4 DEF RespawnDue, GiveUp
  <2> QED
    BY <2>1, <2>2 DEF PresenceInv, WaitingHasTimer, SomeoneIsAttached, SpawningHasStart
<1>5. ASSUME StartFailed, attached' = attached PROVE PresenceInv'
  BY <1>0, <1>5, StartFailedSettles
  DEF PresenceInv, SomeoneIsAttached, SpawningHasStart
<1>6. ASSUME NEW p \in Trays, Exits(p) PROVE PresenceInv'
  <2>1. CASE p \in listening
    BY <1>5, <1>6, <2>1 DEF Exits
  <2>2. CASE p \notin listening
    <3>1. UNCHANGED <<state, timer, attached>> /\ listening' = listening
      BY <1>6, <2>2 DEF Exits
    <3> QED
      BY <1>0, <3>1 DEF PresenceInv, WaitingHasTimer, SomeoneIsAttached, SpawningHasStart
  <2> QED
    BY <2>1, <2>2
<1>7. ASSUME NEW p \in Trays, BoundPasses(p) PROVE PresenceInv'
  BY <1>5, <1>7 DEF BoundPasses
<1>8. ASSUME UNCHANGED <<state, timer, attached, listening>> PROVE PresenceInv'
  BY <1>0, <1>8 DEF PresenceInv, WaitingHasTimer, SomeoneIsAttached, SpawningHasStart
<1>9. CASE Tick
  BY <1>8, <1>9 DEF Tick
<1>10. CASE UNCHANGED vars
  BY <1>8, <1>10 DEF vars
<1> QED
  BY <1>1, <1>2, <1>3, <1>4, <1>6, <1>7, <1>9, <1>10 DEF Next

\* The three hold in every reachable state.
LEMMA PresenceHolds == Spec => []PresenceInv
<1>1. Init => PresenceInv
  BY DEF Init, PresenceInv, WaitingHasTimer, SomeoneIsAttached, SpawningHasStart
<1> QED
  BY <1>1, PresenceStep, PTL DEF Spec

\* S12.C01, S12.C08: the supervisor never waits without its timer, and no timer is left
\* behind by an attach or a give-up.
THEOREM WaitHasItsTimer == Spec => []WaitingHasTimer
<1>1. PresenceInv => WaitingHasTimer
  BY DEF PresenceInv
<1> QED
  BY <1>1, PresenceHolds, PTL

\* Late results included, nothing waits, starts or gives up while a client is attached.
THEOREM NothingStartsWhileAttached == Spec => []SomeoneIsAttached
<1>1. PresenceInv => SomeoneIsAttached
  BY DEF PresenceInv
<1> QED
  BY <1>1, PresenceHolds, PTL

\* The machine is never left in `spawning` with no result to come, even when the result of
\* an older start ended an older wait.
THEOREM StartUnderWayIsAwaited == Spec => []SpawningHasStart
<1>1. PresenceInv => SpawningHasStart
  BY DEF PresenceInv
<1> QED
  BY <1>1, PresenceHolds, PTL
-----------------------------------------------------------------------------
(* The starts in the window *)

\* Induction, in the first-order form the provers take: a set of naturals with 0 and with
\* every successor of its elements holds them all.
LEMMA SetInduction ==
  ASSUME NEW S, 0 \in S, \A n \in Nat : n \in S => n + 1 \in S
  PROVE  \A n \in Nat : n \in S
<1>1. SUFFICES ASSUME Nat \ S # {} PROVE FALSE
  OBVIOUS
<1>2. IsWellFoundedOn(OpToRel(<, Nat), Nat)
  BY NatLessThanWellFounded
<1>3. PICK n \in Nat \ S : \A m \in Nat \ S : ~ (<<m, n>> \in OpToRel(<, Nat))
  BY <1>1, <1>2, WFMin, Zenon
<1>4. \A m \in Nat \ S : ~ (m < n)
  BY <1>3 DEF OpToRel
<1>5. n # 0 /\ n - 1 \in Nat
  OBVIOUS
<1>6. n - 1 \in S
  BY <1>4, <1>5
<1>7. (n - 1) + 1 \in S
  BY <1>5, <1>6
<1> QED BY <1>7

Ages == 0..Window

\* The same for the sequences of ages, built one start at a time.
LEMMA StartsInduction ==
  ASSUME NEW S, <<>> \in S,
         \A s \in Seq(Ages), age \in Ages : s \in S => Append(s, age) \in S
  PROVE  \A s \in Seq(Ages) : s \in S
<1> DEFINE Good == {n \in Nat : \A s \in Seq(Ages) : Len(s) = n => s \in S}
<1>1. 0 \in Good
  <2>1. \A s \in Seq(Ages) : Len(s) = 0 => s = <<>>
    OBVIOUS
  <2> QED BY <2>1
<1>2. ASSUME NEW n \in Nat, n \in Good PROVE n + 1 \in Good
  <2> SUFFICES ASSUME NEW s \in Seq(Ages), Len(s) = n + 1 PROVE s \in S
    OBVIOUS
  <2> DEFINE t == SubSeq(s, 1, n)
  <2>1. t \in Seq(Ages) /\ Len(t) = n /\ s[n + 1] \in Ages
    OBVIOUS
  <2>2. s = Append(t, s[n + 1])
    OBVIOUS
  <2>3. t \in S
    BY <1>2, <2>1
  <2> QED BY <2>1, <2>2, <2>3
<1> HIDE DEF Good
<1>3. \A n \in Nat : n \in Good
  BY <1>1, <1>2, SetInduction
<1>4. \A s \in Seq(Ages) : Len(s) \in Good
  BY <1>3
<1> QED BY <1>4 DEF Good

\* The function that InWindow defines for a sequence of starts.
IsFilter(f, s) ==
  f = [i \in 0..Len(s) |-> IF i = 0 THEN <<>> ELSE Kept(f[i - 1], s[i])]

\* It exists.
LEMMA FilterExists == ASSUME NEW s \in Seq(Ages) PROVE \E f : IsFilter(f, s)
<1> DEFINE Upto(f, n) == f = [i \in 0..n |-> IF i = 0 THEN <<>> ELSE Kept(f[i - 1], s[i])]
           Good == {n \in Nat : \E f : Upto(f, n)}
<1>1. 0 \in Good
  <2>1. Upto([i \in 0..0 |-> <<>>], 0)
    OBVIOUS
  <2> QED BY <2>1
<1>2. ASSUME NEW n \in Nat, n \in Good PROVE n + 1 \in Good
  <2>1. PICK f : Upto(f, n)
    BY <1>2
  <2> DEFINE g == [i \in 0..(n + 1) |-> IF i = n + 1 THEN Kept(f[n], s[n + 1]) ELSE f[i]]
  <2>2. \A i \in 0..n : f[i] = IF i = 0 THEN <<>> ELSE Kept(f[i - 1], s[i])
    BY <2>1
  <2>3. \A i \in 0..n : g[i] = f[i]
    OBVIOUS
  <2>4. \A i \in 0..(n + 1) : g[i] = IF i = 0 THEN <<>> ELSE Kept(g[i - 1], s[i])
    <3>1. ASSUME NEW i \in 0..n PROVE g[i] = IF i = 0 THEN <<>> ELSE Kept(g[i - 1], s[i])
      <4>1. i # 0 => g[i - 1] = f[i - 1]
        BY <2>3
      <4>2. g[i] = f[i]
        BY <2>3
      <4> HIDE DEF g
      <4> QED BY <2>2, <4>1, <4>2
    <3>2. g[n + 1] = Kept(g[n], s[n + 1])
      OBVIOUS
    <3>3. ASSUME NEW i \in 0..(n + 1)
          PROVE  i \in 0..n \/ (i = n + 1 /\ i # 0 /\ i - 1 = n)
      OBVIOUS
    <3> HIDE DEF g
    <3> QED BY <3>1, <3>2, <3>3
  <2>5. Upto(g, n + 1)
    BY <2>4
  <2>6. \E h : Upto(h, n + 1)
    <3> HIDE DEF g, Upto
    <3> QED BY <2>5
  <2> QED BY <2>6
<1> HIDE DEF Good
<1>3. Len(s) \in Good
  BY <1>1, <1>2, SetInduction
<1> QED BY <1>3 DEF Good, IsFilter

\* InWindow is its value at the last start.
LEMMA FilterIsInWindow ==
  ASSUME NEW s \in Seq(Ages)
  PROVE  \E f : IsFilter(f, s) /\ InWindow(s) = f[Len(s)]
<1> DEFINE f == CHOOSE f : IsFilter(f, s)
<1>1. IsFilter(f, s)
  BY FilterExists
<1>2. InWindow(s) = f[Len(s)]
  BY DEF InWindow, IsFilter
<1> QED BY <1>1, <1>2

\* What InWindow returns, one start at a time.
LEMMA InWindowEmpty == InWindow(<<>>) = <<>>
<1>1. <<>> \in Seq(Ages) /\ Len(<<>>) = 0
  OBVIOUS
<1>2. PICK f : IsFilter(f, <<>>) /\ InWindow(<<>>) = f[0]
  BY <1>1, FilterIsInWindow
<1> QED BY <1>1, <1>2 DEF IsFilter

LEMMA InWindowAppend ==
  ASSUME NEW s \in Seq(Ages), NEW age \in Ages
  PROVE  InWindow(Append(s, age)) = Kept(InWindow(s), age)
<1> DEFINE t == Append(s, age)
           n == Len(s)
<1>1. /\ t \in Seq(Ages) /\ Len(t) = n + 1 /\ n \in Nat /\ t[n + 1] = age
      /\ \A i \in 1..n : t[i] = s[i]
  OBVIOUS
<1>2. PICK f : IsFilter(f, s) /\ InWindow(s) = f[n]
  BY FilterIsInWindow
<1>3. PICK g : IsFilter(g, t) /\ InWindow(t) = g[n + 1]
  BY <1>1, FilterIsInWindow
<1> HIDE DEF t, n
<1>4. /\ \A i \in 0..n : f[i] = IF i = 0 THEN <<>> ELSE Kept(f[i - 1], s[i])
      /\ \A i \in 0..(n + 1) : g[i] = IF i = 0 THEN <<>> ELSE Kept(g[i - 1], t[i])
  BY <1>1, <1>2, <1>3 DEF IsFilter, n
<1> DEFINE Good == {i \in Nat : i <= n => f[i] = g[i]}
<1>5. 0 \in Good
  BY <1>1, <1>4
<1>6. ASSUME NEW i \in Nat, i \in Good PROVE i + 1 \in Good
  <2> SUFFICES ASSUME i + 1 <= n PROVE f[i + 1] = g[i + 1]
    OBVIOUS
  <2>1. i + 1 \in 0..n /\ i + 1 \in 0..(n + 1) /\ i + 1 # 0 /\ (i + 1) - 1 = i /\ t[i + 1] = s[i + 1]
        /\ f[i] = g[i]
    BY <1>1, <1>6
  <2> QED BY <1>4, <2>1
<1> HIDE DEF Good
<1>7. n \in Good
  BY <1>1, <1>5, <1>6, SetInduction
<1>8. f[n] = g[n]
  BY <1>1, <1>7 DEF Good
<1>9. n + 1 \in 0..(n + 1) /\ n + 1 # 0 /\ (n + 1) - 1 = n
  BY <1>1
<1>10. g[n + 1] = Kept(g[n], age)
  BY <1>1, <1>4, <1>9
<1> QED BY <1>2, <1>3, <1>8, <1>10 DEF t

\* Some of the starts, in their order; all are in the window.
LEMMA InWindowType ==
  \A s \in Seq(Ages) : InWindow(s) \in Seq(Ages) /\ Len(InWindow(s)) <= Len(s)
<1> DEFINE Good == {s \in Seq(Ages) : InWindow(s) \in Seq(Ages) /\ Len(InWindow(s)) <= Len(s)}
<1>1. <<>> \in Good
  <2>1. PICK e \in Seq(Ages) : e = <<>>
    <3>1. <<>> \in Seq(Ages)
      OBVIOUS
    <3> QED BY <3>1, Zenon
  <2>2. InWindow(e) = e
    BY <2>1, InWindowEmpty
  <2>3. e \in Good
    BY <2>2
  <2> HIDE DEF Good
  <2> QED BY <2>1, <2>3
<1>2. ASSUME NEW s \in Seq(Ages), NEW age \in Ages, s \in Good
      PROVE  Append(s, age) \in Good
  <2>1. /\ InWindow(s) \in Seq(Ages) /\ Len(InWindow(s)) <= Len(s)
        /\ InWindow(Append(s, age)) = Kept(InWindow(s), age)
    BY <1>2, InWindowAppend
  <2>2. /\ Append(s, age) \in Seq(Ages) /\ Len(Append(s, age)) = Len(s) + 1
        /\ Append(InWindow(s), age) \in Seq(Ages)
        /\ Len(Append(InWindow(s), age)) = Len(InWindow(s)) + 1
        /\ Len(s) \in Nat /\ Len(InWindow(s)) \in Nat
    BY <2>1
  <2> QED BY <2>1, <2>2 DEF Kept
<1> HIDE DEF Good
<1>3. \A s \in Seq(Ages) : s \in Good
  BY <1>1, <1>2, StartsInduction
<1> QED BY <1>3 DEF Good

LEMMA InWindowTwice == \A s \in Seq(Ages) : InWindow(InWindow(s)) = InWindow(s)
<1> DEFINE Good == {s \in Seq(Ages) : InWindow(InWindow(s)) = InWindow(s)}
<1>1. <<>> \in Good
  BY InWindowEmpty
<1>2. ASSUME NEW s \in Seq(Ages), NEW age \in Ages, s \in Good
      PROVE  Append(s, age) \in Good
  <2>0. Append(s, age) \in Seq(Ages)
    OBVIOUS
  <2>1. InWindow(s) \in Seq(Ages)
    BY InWindowType
  <2>2. InWindow(Append(s, age)) = Kept(InWindow(s), age)
    BY InWindowAppend
  <2>3. CASE age < Window
    <3>1. Kept(InWindow(s), age) = Append(InWindow(s), age)
      BY <2>3 DEF Kept
    <3>2. InWindow(Append(InWindow(s), age)) = Kept(InWindow(InWindow(s)), age)
      BY <2>1, InWindowAppend
    <3> QED BY <1>2, <2>0, <2>2, <3>1, <3>2
  <2>4. CASE ~(age < Window)
    BY <1>2, <2>0, <2>2, <2>4 DEF Kept
  <2> QED BY <2>0, <2>3, <2>4
<1> HIDE DEF Good
<1>3. \A s \in Seq(Ages) : s \in Good
  BY <1>1, <1>2, StartsInduction
<1> QED BY <1>3 DEF Good

\* The age of a start after the tick.
Older(age) == IF age < Window THEN age + 1 ELSE Window

LEMMA AgedAppend ==
  ASSUME NEW s \in Seq(Ages), NEW age \in Ages
  PROVE  /\ Aged(s) \in Seq(Ages) /\ Len(Aged(s)) = Len(s)
         /\ Older(age) \in Ages
         /\ Aged(Append(s, age)) = Append(Aged(s), Older(age))
<1>1. Window \in Nat
  BY NotifierConstants
<1>2. Aged(s) \in Seq(Ages) /\ Len(Aged(s)) = Len(s)
  BY <1>1 DEF Aged, Ages
<1>3. Older(age) \in Ages
  BY <1>1 DEF Older, Ages
<1>4. Aged(Append(s, age)) = Append(Aged(s), Older(age))
  <2> DEFINE t == Append(s, age)
             u == Append(Aged(s), Older(age))
  <2>1. /\ t \in Seq(Ages) /\ Len(t) = Len(s) + 1
        /\ \A i \in 1..Len(s) : t[i] = s[i]
        /\ t[Len(s) + 1] = age
    OBVIOUS
  <2>2. Aged(t) \in Seq(Ages) /\ Len(Aged(t)) = Len(t)
        /\ \A i \in 1..Len(t) : Aged(t)[i] = Older(t[i])
    BY <1>1, <2>1 DEF Aged, Older, Ages
  <2>3. /\ u \in Seq(Ages) /\ Len(u) = Len(s) + 1
        /\ \A i \in 1..Len(s) : u[i] = Aged(s)[i]
        /\ u[Len(s) + 1] = Older(age)
    BY <1>2, <1>3
  <2>4. \A i \in 1..Len(s) : Aged(s)[i] = Older(s[i])
    BY DEF Aged, Older
  <2> HIDE DEF t, u
  <2>5. \A i \in 1..Len(t) : Aged(t)[i] = u[i]
    BY <2>1, <2>2, <2>3, <2>4
  <2>6. Aged(t) = u
    BY <2>1, <2>2, <2>3, <2>5
  <2> QED BY <2>6 DEF t, u
<1> QED BY <1>2, <1>3, <1>4

\* A start that left the window does not come back to it by ageing.
LEMMA InWindowAged == \A s \in Seq(Ages) : InWindow(Aged(InWindow(s))) = InWindow(Aged(s))
<1> DEFINE Good == {s \in Seq(Ages) : InWindow(Aged(InWindow(s))) = InWindow(Aged(s))}
<1>1. <<>> \in Good
  BY InWindowEmpty
<1>2. ASSUME NEW s \in Seq(Ages), NEW age \in Ages, s \in Good
      PROVE  Append(s, age) \in Good
  <2>0. Append(s, age) \in Seq(Ages)
    OBVIOUS
  <2>1. InWindow(s) \in Seq(Ages)
    BY InWindowType
  <2>2. InWindow(Append(s, age)) = Kept(InWindow(s), age)
    BY InWindowAppend
  <2>3. InWindow(Aged(Append(s, age))) = Kept(InWindow(Aged(s)), Older(age))
    BY AgedAppend, InWindowAppend
  <2>4. CASE age < Window
    <3>1. InWindow(Aged(Append(InWindow(s), age))) = Kept(InWindow(Aged(InWindow(s))), Older(age))
      BY <2>1, AgedAppend, InWindowAppend
    <3> QED BY <1>2, <2>0, <2>2, <2>3, <2>4, <3>1 DEF Kept
  <2>5. CASE ~(age < Window)
    <3>1. Older(age) = Window /\ ~(Window < Window)
      BY <2>5, NotifierConstants DEF Older
    <3> QED BY <1>2, <2>0, <2>2, <2>3, <2>5, <3>1 DEF Kept
  <2> QED BY <2>0, <2>4, <2>5
<1> HIDE DEF Good
<1>3. \A s \in Seq(Ages) : s \in Good
  BY <1>1, <1>2, StartsInduction
<1> QED BY <1>3 DEF Good

-----------------------------------------------------------------------------
(* The budget *)

\* The starts the history tells and those the machine counts agree in the window: both are
\* forgotten by the same attaches.
BudgetInv ==
  /\ attempts \in Seq(Ages)
  /\ Len(attempts) <= Limit
  /\ recent = InWindow(attempts)

LEMMA BudgetStep == ASSUME BudgetInv, [Next]_vars PROVE BudgetInv'
<1> USE DEF BudgetInv
<1>0. /\ Limit \in Nat /\ 0 < Limit /\ 0 \in Ages /\ 0 < Window
      /\ InWindow(attempts) \in Seq(Ages) /\ Len(InWindow(attempts)) <= Len(attempts)
      /\ InWindow(InWindow(attempts)) = InWindow(attempts)
  BY InWindowType, InWindowTwice, NotifierConstants DEF Ages
<1>1. ASSUME recent' = recent, attempts' \in {attempts, InWindow(attempts)} PROVE BudgetInv'
  BY <1>0, <1>1
<1>2. ASSUME NEW c, Attach(c) PROVE BudgetInv'
  <2>1. (recent' = recent /\ attempts' = attempts) \/ (recent' = <<>> /\ attempts' = <<>>)
    BY <1>2 DEF Attach, Counter
  <2>2. PICK e \in Seq(Ages) : e = <<>>
    <3>1. <<>> \in Seq(Ages)
      OBVIOUS
    <3> QED BY <3>1, Zenon
  <2>3. InWindow(e) = e /\ Len(e) = 0
    BY <2>2, InWindowEmpty
  <2>4. (recent' = recent /\ attempts' = attempts) \/ (recent' = e /\ attempts' = e)
    BY <2>1, <2>2
  <2>5. CASE recent' = recent /\ attempts' = attempts
    BY <1>1, <2>5
  <2>6. CASE recent' = e /\ attempts' = e
    BY <1>0, <2>3, <2>6
  <2> QED BY <2>4, <2>5, <2>6
<1>3. ASSUME NEW c \in Clients, NEW stays \in BOOLEAN, Detaches(c, stays) PROVE BudgetInv'
  BY <1>1, <1>3 DEF Detaches, Wait
<1>4. ASSUME NEW p \in Trays, RespawnDue(p) PROVE BudgetInv'
  <2>1. CASE Spent(InWindow(attempts))
    BY <1>1, <1>4, <2>1 DEF RespawnDue, GiveUp
  <2>2. CASE ~Spent(InWindow(attempts))
    <3>1. attempts' = Append(InWindow(attempts), 0) /\ Len(InWindow(attempts)) < Limit
      BY <1>0, <1>4, <2>2 DEF RespawnDue, Spent
    <3>2. recent' = Append(recent, 0)
      BY <1>0, <1>4, <2>2, <3>1 DEF RespawnDue
    <3>3. InWindow(attempts') = Append(InWindow(attempts), 0)
      BY <1>0, <3>1, InWindowAppend DEF Kept
    <3> QED BY <1>0, <3>1, <3>2, <3>3
  <2> QED BY <2>1, <2>2
<1>5. ASSUME StartFailed, recent' = recent PROVE BudgetInv'
  BY <1>1, <1>5 DEF StartFailed, AfterFailure, GiveUp, Wait
<1>6. ASSUME NEW p \in Trays, Exits(p) PROVE BudgetInv'
  BY <1>1, <1>5, <1>6 DEF Exits
<1>7. ASSUME NEW p \in Trays, BoundPasses(p) PROVE BudgetInv'
  BY <1>5, <1>7 DEF BoundPasses
<1>8. ASSUME Tick PROVE BudgetInv'
  <2>1. Aged(attempts) \in Seq(Ages) /\ Len(Aged(attempts)) = Len(attempts)
    BY <1>0, AgedAppend
  <2>2. attempts' = Aged(attempts) /\ recent' = InWindow(Aged(recent))
    BY <1>8 DEF Tick
  <2>3. InWindow(Aged(recent)) = InWindow(Aged(attempts))
    BY InWindowAged
  <2>4. recent' = InWindow(attempts')
    BY <2>2, <2>3
  <2>5. attempts' \in Seq(Ages) /\ Len(attempts') <= Limit
    BY <2>1, <2>2
  <2> QED BY <2>4, <2>5
<1>9. CASE UNCHANGED vars
  BY <1>1, <1>9 DEF vars
<1> QED
  BY <1>2, <1>3, <1>4, <1>6, <1>7, <1>8, <1>9 DEF Next, AppAttaches, TrayAttaches

LEMMA BudgetHolds == Spec => []BudgetInv
<1>1. Init => BudgetInv
  <2>1. <<>> \in Seq(Ages) /\ Len(<<>>) = 0
    OBVIOUS
  <2> QED BY <2>1, InWindowEmpty, NotifierConstants DEF Init, BudgetInv
<1> QED BY <1>1, BudgetStep, PTL DEF Spec

\* RESPAWN_ATTEMPT_LIMIT: between two attaches taken for a launch no more than Limit starts
\* are made in any Window, for every limit, window and number of processes.
THEOREM StartsHeldToBudget == Spec => []HeldToBudget
<1>1. BudgetInv => HeldToBudget
  <2> SUFFICES ASSUME BudgetInv PROVE HeldToBudget
    OBVIOUS
  <2>1. Len(recent) <= Len(attempts) /\ Len(recent) \in Nat /\ Len(attempts) \in Nat
    BY InWindowType DEF BudgetInv
  <2> QED BY <2>1, NotifierConstants DEF BudgetInv, HeldToBudget
<1> QED BY <1>1, BudgetHolds, PTL

\* Every variable keeps its type in every reachable state: a start that is listened to is
\* of a process that runs.
THEOREM PresenceTyped == Spec => []TypeOK
<1> USE DEF TypeOK
<1>0. Apps \cap Trays = {} /\ Window \in Nat /\ Limit \in Nat
  BY NotifierConstants
<1>1. Init => TypeOK
  <2>1. <<>> \in Seq(0..Window) /\ Len(<<>>) = 0
    OBVIOUS
  <2> SUFFICES ASSUME Init PROVE TypeOK
    OBVIOUS
  <2>2. attempts = <<>> /\ recent = <<>> /\ 0 <= Limit
    BY <1>0 DEF Init
  <2>3. attempts \in Seq(0..Window) /\ Len(attempts) <= Limit /\ recent \in Seq(0..Window)
    BY <2>1, <2>2
  <2> QED BY <2>3 DEF Init, States, Clients
<1>2. TypeOK /\ BudgetInv /\ BudgetInv' /\ [Next]_vars => TypeOK'
  <2> SUFFICES ASSUME TypeOK, BudgetInv, BudgetInv', [Next]_vars PROVE TypeOK'
    OBVIOUS
  <2>0. attempts' \in Seq(0..Window) /\ Len(attempts') <= Limit /\ recent' \in Seq(0..Window)
    <3>1. attempts' \in Seq(Ages) /\ Len(attempts') <= Limit /\ recent' = InWindow(attempts')
      BY DEF BudgetInv
    <3> QED BY <3>1, InWindowType DEF Ages
  <2>1. ASSUME NEW c \in Apps, AppAttaches(c) PROVE TypeOK'
    BY <2>0, <2>1 DEF AppAttaches, Attach, States, TimerAfterAttach, Clients
  <2>2. ASSUME NEW p \in Trays, TrayAttaches(p) PROVE TypeOK'
    <3>1. Role(p) = "notifier"
      BY <1>0 DEF Role
    <3> QED BY <2>0, <2>2, <3>1 DEF TrayAttaches, Attach, States, TimerAfterAttach, Clients
  <2>3. ASSUME NEW c \in Clients, NEW stays \in BOOLEAN, Detaches(c, stays) PROVE TypeOK'
    <3>1. state' \in States /\ timer' \in BOOLEAN
      BY <2>3 DEF Detaches, Wait, States
    <3> QED BY <2>0, <2>3, <3>1 DEF Detaches
  <2>4. ASSUME NEW p \in Trays, RespawnDue(p) PROVE TypeOK'
    BY <2>0, <2>4 DEF RespawnDue, GiveUp, States
  <2>5. StartFailed => state' \in States /\ timer' \in BOOLEAN
    BY DEF StartFailed, AfterFailure, GiveUp, Wait, States
  <2>6. ASSUME NEW p \in Trays, Exits(p) PROVE TypeOK'
    BY <2>0, <2>5, <2>6 DEF Exits
  <2>7. ASSUME NEW p \in Trays, BoundPasses(p) PROVE TypeOK'
    BY <2>0, <2>5, <2>7 DEF BoundPasses
  <2>8. ASSUME Tick \/ UNCHANGED vars PROVE TypeOK'
    BY <2>0, <2>8 DEF Tick, vars
  <2> QED
    BY <2>1, <2>2, <2>3, <2>4, <2>6, <2>7, <2>8 DEF Next
<1> QED BY <1>1, <1>2, BudgetHolds, PTL DEF Spec
=============================================================================
