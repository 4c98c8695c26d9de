------------------------- MODULE WorkflowRunProofs -------------------------
(***************************************************************************)
(* Theorems about WorkflowRun and the rate limiter it shares, for any      *)
(* calls, tools, definitions, configurations and limits, and any depth.    *)
(*                                                                         *)
(* Two parts.  What a call is doing fits its stack, and the rows it owes   *)
(* are counted by the two of them.  What the limiter counts are the calls  *)
(* it let through: for every age there are as many as young, so that a     *)
(* call leaves the count and the history of its window at the same tick.   *)
(***************************************************************************)
EXTENDS WorkflowRun, FiniteSetTheorems, SequenceTheorems, WellFoundedInduction, TLAPS

Frame == [tool : Names, steps : Seq(Step), at : Nat \ {0}]

\* The call that is in hand above its frames; one that is over without a row.
InHand(l) == IF l \in {"entering", "asking"} THEN 1 ELSE 0
Missing(u) == IF u THEN 1 ELSE 0

\* A call at location l, with a name, a stack of frames, rows owed; broken or not; one of its
\* tree unlogged or not.
CallOK(l, n, frames, rows, b, u) ==
    /\ l \in Locations
    /\ n \in Names \cup {NoTool}
    /\ frames \in Seq(Frame)
    /\ rows \in Int
    /\ b \in BOOLEAN
    /\ u \in BOOLEAN
    /\ n # NoTool <=> l \in {"entering", "asking"}
    /\ l \in {"idle", "ended"} => frames = <<>>
    /\ l \in {"executing", "stepping", "failing"} => frames # <<>>
    /\ l \in {"entering", "asking"} => Len(frames) < MaxDepth
    /\ Len(frames) <= MaxDepth
    /\ rows = Len(frames) + InHand(l) + Missing(u)
    /\ b => l \in {"failing", "ended"}
    /\ u => b

\* Every call.
CallsInv ==
    /\ config \in Configs
    /\ pc \in [Calls -> Locations]
    /\ name \in [Calls -> Names \cup {NoTool}]
    /\ stack \in [Calls -> Seq(Frame)]
    /\ owed \in [Calls -> Int]
    /\ broken \in [Calls -> BOOLEAN]
    /\ unlogged \in [Calls -> BOOLEAN]
    /\ \A c \in Calls : CallOK(pc[c], name[c], stack[c], owed[c], broken[c], unlogged[c])

\* A sequence of ages, oldest first.
Falling(s) == \A i, j \in DOMAIN s : i <= j => s[j] <= s[i]

\* Calls that are no older than an age.
Young(s, age) == {i \in DOMAIN s : s[i] <= age}

Entry == [key : Keys, limits : SUBSET Limits, age : Nat]
Entries == Seq(Entry)

AgesOf(entries) == [i \in DOMAIN entries |-> entries[i].age]

\* What the limiter counts for one limit of one key.
Counts(s, k, l) ==
    /\ s \in Seq(Nat)
    /\ Len(s) <= l.amount
    /\ Falling(s)
    /\ \A i \in DOMAIN s : s[i] <= l.window
    /\ \A age \in 0..l.window : Cardinality(Young(s, age)) = Cardinality(Through(k, l, age))

\* Every limit.
RatesInv ==
    /\ hits \in [Keys \X Limits -> Seq(Nat)]
    /\ passed \in Entries
    /\ Falling(AgesOf(passed))
    /\ \A k \in Keys, l \in Limits : Counts(hits[<<k, l>>], k, l)

-----------------------------------------------------------------------------
(* Calls leave a window, the oldest first *)

\* Those out of a window are the first so many.
LEMMA GoneAreFirst ==
    ASSUME NEW s \in Seq(Nat), NEW window \in Nat, Falling(s)
    PROVE  /\ Gone(s, window) \in 0..Len(s)
           /\ \A i \in DOMAIN s : s[i] >= window <=> i <= Gone(s, window)
<1> DEFINE within == {i \in DOMAIN s : ~(s[i] >= window)}
           R == {p \in Nat \X Nat : p[1] < p[2]}
<1>1. SUFFICES \E n \in 0..Len(s) : \A i \in DOMAIN s : s[i] >= window <=> i <= n
  BY DEF Gone
<1>2. Len(s) \in Nat /\ DOMAIN s = 1..Len(s) /\ \A i \in DOMAIN s : s[i] \in Nat
  BY LenProperties
<1>3. CASE within = {}
  <2> WITNESS Len(s) \in 0..Len(s)
  <2> QED  BY <1>2, <1>3
<1>4. CASE within # {}
  <2>1. IsWellFoundedOn(R, Nat)
    BY NatLessThanWellFounded DEF OpToRel
  <2>2. \A x, y \in Nat : <<y, x>> \in R <=> y < x
    OBVIOUS
  <2>3. within \subseteq Nat
    BY <1>2
  <2> HIDE DEF R
  <2>4. PICK first \in within : \A y \in within : ~(<<y, first>> \in R)
    BY <1>4, <2>1, <2>3, WFMin
  <2>5. \A y \in within : first <= y
    <3> HIDE DEF within
    <3>1. \A y \in within : ~(y < first) /\ y \in Nat /\ first \in Nat
      BY <2>2, <2>3, <2>4
    <3> QED  BY <3>1
  <2>6. \A i \in DOMAIN s : first <= i => ~(s[i] >= window)
    BY <1>2 DEF Falling
  <2>7. first - 1 \in 0..Len(s)
    BY <1>2
  <2> WITNESS first - 1 \in 0..Len(s)
  <2> QED  BY <1>2, <2>5, <2>6
<1> QED
  BY <1>3, <1>4

\* As many indices after those before them are gone.
LEMMA Shifted ==
    ASSUME NEW n \in Nat, NEW A \in SUBSET Nat, IsFiniteSet(A), NEW B \in SUBSET Nat,
           \A i \in A : i > n,
           \A i \in Nat : i \in B <=> i + n \in A
    PROVE  IsFiniteSet(B) /\ Cardinality(B) = Cardinality(A)
<1> DEFINE f == [i \in A |-> i - n]
<1>1. \A i \in A : i \in Nat /\ i - n \in Nat /\ (i - n) + n = i
  OBVIOUS
<1>2. f \in [A -> B]
  BY <1>1
<1>3. \A x, y \in A : f[x] = f[y] => x = y
  BY <1>1
<1>4. \A y \in B : \E x \in A : f[x] = y
  <2> SUFFICES ASSUME NEW y \in B PROVE \E x \in A : f[x] = y
    OBVIOUS
  <2>1. y \in Nat /\ y + n \in A
    OBVIOUS
  <2>2. f[y + n] = y
    BY <2>1
  <2> QED  BY <2>1, <2>2
<1>5. f \in Bijection(A, B)
  <2> HIDE DEF f
  <2> QED  BY <1>2, <1>3, <1>4 DEF Bijection, Injection, Surjection, IsInjective
<1>6. ExistsBijection(A, B)
  BY <1>5 DEF ExistsBijection
<1> QED
  BY <1>6, FS_Bijection

\* What is left of the ages a tick later.
LEMMA AgedAges ==
    ASSUME NEW s \in Seq(Nat), NEW window \in Nat, Falling(s)
    PROVE  /\ Aged(s, window) \in Seq(Nat)
           /\ Len(Aged(s, window)) = Len(s) - Gone(s, window)
           /\ \A i \in 1..(Len(s) - Gone(s, window)) :
                  Aged(s, window)[i] = s[i + Gone(s, window)] + 1
<1> DEFINE gone == Gone(s, window)
<1>1. gone \in 0..Len(s)
  BY GoneAreFirst
<1>2. Len(s) \in Nat /\ DOMAIN s = 1..Len(s) /\ \A i \in DOMAIN s : s[i] \in Nat
  BY LenProperties
<1>3. Aged(s, window) = [i \in 1..(Len(s) - gone) |-> s[i + gone] + 1]
  BY DEF Aged
<1> HIDE DEF gone
<1>4. Len(s) - gone \in Nat
  BY <1>1, <1>2
<1>5. \A i \in 1..(Len(s) - gone) : s[i + gone] + 1 \in Nat
  BY <1>1, <1>2
<1>6. [i \in 1..(Len(s) - gone) |-> s[i + gone] + 1] \in Seq(Nat)
  BY <1>4, <1>5, IsASeq
<1>7. Len(Aged(s, window)) = Len(s) - gone
  BY <1>3, <1>4, <1>6, LenProperties
<1> QED
  BY <1>3, <1>6, <1>7 DEF gone

\* Indices of a sequence are finitely many.
LEMMA YoungFinite ==
    ASSUME NEW s \in Seq(Nat), NEW age
    PROVE  IsFiniteSet(Young(s, age)) /\ Young(s, age) \in SUBSET Nat
<1>1. Len(s) \in Nat /\ DOMAIN s = 1..Len(s)
  BY LenProperties
<1>2. IsFiniteSet(1..Len(s))
  BY <1>1, FS_Interval
<1>3. Young(s, age) \in SUBSET (1..Len(s))
  BY <1>1 DEF Young
<1> QED
  BY <1>1, <1>2, <1>3, FS_Subset

\* The same of the history.
LEMMA ThroughFinite ==
    ASSUME passed \in Entries, NEW k, NEW l, NEW age
    PROVE  IsFiniteSet(Through(k, l, age)) /\ Through(k, l, age) \in SUBSET Nat
<1>1. Len(passed) \in Nat /\ DOMAIN passed = 1..Len(passed)
  BY LenProperties DEF Entries
<1>2. IsFiniteSet(1..Len(passed))
  BY <1>1, FS_Interval
<1>3. Through(k, l, age) \in SUBSET (1..Len(passed))
  BY <1>1 DEF Through
<1> QED
  BY <1>1, <1>2, <1>3, FS_Subset

\* A tick later as many calls are of an age as were a tick younger.
LEMMA YoungAged ==
    ASSUME NEW s \in Seq(Nat), NEW window \in Nat, Falling(s), NEW age \in 0..window
    PROVE  Cardinality(Young(Aged(s, window), age)) =
               IF age = 0 THEN 0 ELSE Cardinality(Young(s, age - 1))
<1> DEFINE gone == Gone(s, window)
           new == Aged(s, window)
<1>1. Len(s) \in Nat /\ DOMAIN s = 1..Len(s) /\ \A i \in DOMAIN s : s[i] \in Nat
  BY LenProperties
<1>2. gone \in 0..Len(s) /\ \A i \in DOMAIN s : s[i] >= window <=> i <= gone
  BY GoneAreFirst
<1>3. new \in Seq(Nat) /\ Len(new) = Len(s) - gone
      /\ \A i \in 1..(Len(s) - gone) : new[i] = s[i + gone] + 1
  BY AgedAges
<1> HIDE DEF gone, new
<1>4. DOMAIN new = 1..(Len(s) - gone)
  BY <1>3, LenProperties
<1>5. CASE age = 0
  <2>1. ASSUME NEW i \in DOMAIN new PROVE ~(new[i] <= age)
    <3>1. i + gone \in DOMAIN s
      BY <1>1, <1>2, <1>4, <2>1
    <3>2. s[i + gone] \in Nat /\ new[i] = s[i + gone] + 1
      BY <1>1, <1>3, <1>4, <3>1
    <3> QED  BY <1>5, <3>2
  <2>2. Young(new, age) = {}
    BY <2>1 DEF Young
  <2> QED  BY <1>5, <2>2, FS_EmptySet DEF new
<1>6. CASE age # 0
  <2> DEFINE A == Young(s, age - 1)
             B == Young(new, age)
  <2>1. IsFiniteSet(A) /\ A \in SUBSET Nat /\ B \in SUBSET Nat
    BY <1>3, YoungFinite
  <2>2. \A i \in A : i > gone
    BY <1>1, <1>2 DEF Young
  <2>3. ASSUME NEW i \in Nat PROVE i \in B <=> i + gone \in A
    <3>1. CASE i \in 1..(Len(s) - gone)
      <4>1. i + gone \in DOMAIN s
        BY <1>1, <1>2, <3>1
      <4>2. s[i + gone] \in Nat /\ new[i] = s[i + gone] + 1
        BY <1>1, <1>3, <3>1, <4>1
      <4> QED  BY <1>4, <3>1, <4>1, <4>2 DEF Young
    <3>2. CASE i \notin 1..(Len(s) - gone)
      <4>1. i \notin B
        BY <1>4, <3>2 DEF Young
      <4>2. i + gone \notin A
        BY <1>1, <1>2, <2>2, <2>3, <3>2 DEF Young
      <4> QED  BY <4>1, <4>2
    <3> QED  BY <3>1, <3>2
  <2>4. gone \in Nat
    BY <1>2
  <2> HIDE DEF A, B
  <2>5. Cardinality(B) = Cardinality(A)
    BY <2>1, <2>2, <2>3, <2>4, Shifted
  <2> QED  BY <1>6, <2>5 DEF A, B, new
<1> QED
  BY <1>5, <1>6

\* The history a tick later.
LEMMA HistoryAged ==
    ASSUME passed \in Entries, Falling(AgesOf(passed)), Tick
    PROVE  LET gone == Gone(AgesOf(passed), Horizon)
           IN  /\ gone \in 0..Len(passed)
               /\ \A i \in DOMAIN passed : passed[i].age >= Horizon <=> i <= gone
               /\ passed' \in Entries
               /\ Len(passed') = Len(passed) - gone
               /\ \A i \in 1..(Len(passed) - gone) :
                      passed'[i] = [passed[i + gone] EXCEPT !.age = @ + 1]
<1> DEFINE ages == AgesOf(passed)
           gone == Gone(ages, Horizon)
<1>1. Len(passed) \in Nat /\ DOMAIN passed = 1..Len(passed) /\ \A i \in DOMAIN passed : passed[i] \in Entry
  BY LenProperties DEF Entries
<1>2. ages \in Seq(Nat) /\ Len(ages) = Len(passed) /\ DOMAIN ages = DOMAIN passed
  <2>1. \A i \in 1..Len(passed) : passed[i].age \in Nat
    BY <1>1 DEF Entry
  <2>2. ages = [i \in 1..Len(passed) |-> passed[i].age]
    BY <1>1 DEF AgesOf
  <2>3. [i \in 1..Len(passed) |-> passed[i].age] \in Seq(Nat)
    BY <1>1, <2>1, IsASeq
  <2> HIDE DEF ages
  <2>4. ages \in Seq(Nat) /\ DOMAIN ages = 1..Len(passed)
    BY <2>2, <2>3
  <2>5. DOMAIN ages = 1..Len(ages) /\ Len(ages) \in Nat
    BY <2>4, LenProperties
  <2> QED  BY <1>1, <2>4, <2>5
<1>3. gone \in 0..Len(passed) /\ \A i \in DOMAIN passed : ages[i] >= Horizon <=> i <= gone
  <2> HIDE DEF ages
  <2>1. Falling(ages) /\ Horizon \in Nat
    BY RunAssumption DEF ages
  <2> QED  BY <1>2, <2>1, GoneAreFirst
<1>4. \A i \in DOMAIN passed : ages[i] = passed[i].age
  BY DEF AgesOf
<1>5. passed' = [i \in 1..(Len(passed) - gone) |-> [passed[i + gone] EXCEPT !.age = @ + 1]]
  BY DEF Tick, AgesOf
<1> HIDE DEF ages, gone
<1>6. \A i \in 1..(Len(passed) - gone) : [passed[i + gone] EXCEPT !.age = @ + 1] \in Entry
  <2> SUFFICES ASSUME NEW i \in 1..(Len(passed) - gone)
               PROVE  [passed[i + gone] EXCEPT !.age = @ + 1] \in Entry
    OBVIOUS
  <2>1. passed[i + gone] \in Entry
    BY <1>1, <1>3
  <2> QED  BY <2>1 DEF Entry
<1>7. Len(passed) - gone \in Nat
  BY <1>1, <1>3
<1>8. passed' \in Seq(Entry) /\ Len(passed') = Len(passed) - gone
  <2>1. passed' \in Seq(Entry)
    BY <1>5, <1>6, <1>7, IsASeq
  <2> QED  BY <1>5, <1>7, <2>1, LenProperties
<1> QED
  BY <1>3, <1>4, <1>5, <1>8 DEF Entries, ages, gone

\* In the history, too, as many calls are of an age as were a tick younger.
LEMMA ThroughAged ==
    ASSUME passed \in Entries, Falling(AgesOf(passed)), Tick,
           NEW k \in Keys, NEW l \in Limits, NEW age \in 0..l.window
    PROVE  Cardinality(Through(k, l, age)') =
               IF age = 0 THEN 0 ELSE Cardinality(Through(k, l, age - 1))
<1> DEFINE gone == Gone(AgesOf(passed), Horizon)
<1>1. Len(passed) \in Nat /\ DOMAIN passed = 1..Len(passed) /\ \A i \in DOMAIN passed : passed[i] \in Entry
  BY LenProperties DEF Entries
<1>2. /\ gone \in 0..Len(passed)
      /\ \A i \in DOMAIN passed : passed[i].age >= Horizon <=> i <= gone
      /\ passed' \in Entries
      /\ Len(passed') = Len(passed) - gone
      /\ \A i \in 1..(Len(passed) - gone) : passed'[i] = [passed[i + gone] EXCEPT !.age = @ + 1]
  BY HistoryAged
<1> HIDE DEF gone
<1>3. DOMAIN passed' = 1..(Len(passed) - gone)
  BY <1>2, LenProperties DEF Entries
<1>4. ASSUME NEW i \in 1..(Len(passed) - gone)
      PROVE  /\ i + gone \in DOMAIN passed
             /\ passed[i + gone].age \in Nat
             /\ passed'[i].key = passed[i + gone].key
             /\ passed'[i].limits = passed[i + gone].limits
             /\ passed'[i].age = passed[i + gone].age + 1
  <2>1. i + gone \in DOMAIN passed
    BY <1>1, <1>2
  <2>2. passed[i + gone] \in Entry
    BY <1>1, <2>1
  <2> QED  BY <1>2, <2>1, <2>2 DEF Entry
<1>5. CASE age = 0
  <2>1. Through(k, l, age)' = {}
    BY <1>3, <1>4, <1>5 DEF Through
  <2> QED  BY <1>5, <2>1, FS_EmptySet
<1>6. CASE age # 0
  <2> DEFINE A == Through(k, l, age - 1)
             B == Through(k, l, age)'
  <2>1. IsFiniteSet(A) /\ A \in SUBSET Nat
    BY ThroughFinite
  <2>2. B \in SUBSET Nat
    BY <1>1, <1>2, <1>3 DEF Through
  <2>3. \A i \in A : i > gone
    <3> SUFFICES ASSUME NEW i \in A PROVE i > gone
      OBVIOUS
    <3>1. i \in DOMAIN passed /\ passed[i].age <= age - 1
      BY DEF Through
    <3>2. l.window \in Nat /\ l.window <= Horizon /\ Horizon \in Nat
      BY LimiterAssumption, RunAssumption
    <3>3. passed[i].age \in Nat
      BY <1>1, <3>1 DEF Entry
    <3>4. ~(passed[i].age >= Horizon)
      BY <1>6, <3>1, <3>2, <3>3
    <3> QED  BY <1>1, <1>2, <3>1, <3>4
  <2>4. ASSUME NEW i \in Nat PROVE i \in B <=> i + gone \in A
    <3>1. CASE i \in 1..(Len(passed) - gone)
      BY <1>3, <1>4, <3>1 DEF Through
    <3>2. CASE i \notin 1..(Len(passed) - gone)
      <4>1. i \notin B
        BY <1>3, <3>2 DEF Through
      <4>2. i + gone \notin A
        BY <1>1, <1>2, <2>3, <2>4, <3>2 DEF Through
      <4> QED  BY <4>1, <4>2
    <3> QED  BY <3>1, <3>2
  <2>5. gone \in Nat
    BY <1>2
  <2> HIDE DEF A, B
  <2>6. Cardinality(B) = Cardinality(A)
    BY <2>1, <2>2, <2>3, <2>4, <2>5, Shifted
  <2> QED  BY <1>6, <2>6 DEF A, B
<1> QED
  BY <1>5, <1>6

\* A tick keeps the order and the matching of both.
LEMMA TickKeepsRates ==
    ASSUME RatesInv, Tick
    PROVE  RatesInv'
<1>1. passed \in Entries /\ Falling(AgesOf(passed))
  BY DEF RatesInv
<1>2. Falling(AgesOf(passed'))
  <2> DEFINE gone == Gone(AgesOf(passed), Horizon)
  <2>1. Len(passed) \in Nat /\ DOMAIN passed = 1..Len(passed)
        /\ \A i \in DOMAIN passed : passed[i].age \in Nat /\ passed[i] \in Entry
    <3>1. Len(passed) \in Nat /\ DOMAIN passed = 1..Len(passed) /\ \A i \in DOMAIN passed : passed[i] \in Entry
      BY <1>1, LenProperties DEF Entries
    <3> QED  BY <3>1 DEF Entry
  <2>2. /\ gone \in 0..Len(passed)
        /\ passed' \in Entries
        /\ Len(passed') = Len(passed) - gone
        /\ \A i \in 1..(Len(passed) - gone) : passed'[i] = [passed[i + gone] EXCEPT !.age = @ + 1]
    BY <1>1, HistoryAged
  <2> HIDE DEF gone
  <2>3. DOMAIN passed' = 1..(Len(passed) - gone)
    BY <2>2, LenProperties DEF Entries
  <2>4. ASSUME NEW i \in DOMAIN passed'
        PROVE  i + gone \in DOMAIN passed /\ passed'[i].age = passed[i + gone].age + 1
    <3>1. i + gone \in DOMAIN passed
      BY <2>1, <2>2, <2>3
    <3> QED  BY <2>1, <2>2, <2>3, <3>1 DEF Entry
  <2>5. ASSUME NEW i \in DOMAIN passed', NEW j \in DOMAIN passed', i <= j
        PROVE  passed'[j].age <= passed'[i].age
    <3>1. i + gone \in DOMAIN passed /\ j + gone \in DOMAIN passed /\ i + gone <= j + gone
      BY <2>1, <2>2, <2>3, <2>4, <2>5
    <3>2. passed[j + gone].age <= passed[i + gone].age
      BY <1>1, <3>1 DEF Falling, AgesOf
    <3> QED  BY <2>1, <2>4, <3>1, <3>2
  <2> QED  BY <2>5 DEF Falling, AgesOf
<1>3. passed' \in Entries
  BY <1>1, HistoryAged
<1>4. ASSUME NEW k \in Keys, NEW l \in Limits
      PROVE  Counts(hits[<<k, l>>], k, l)'
  <2> DEFINE s == hits[<<k, l>>]
             new == Aged(s, l.window)
             gone == Gone(s, l.window)
  <2>1. l.window \in Nat /\ l.amount \in Nat
    BY LimiterAssumption
  <2>2. hits'[<<k, l>>] = new
    BY DEF Tick, LimiterTick
  <2>3. Counts(s, k, l)
    BY DEF RatesInv
  <2> HIDE DEF s
  <2>4. s \in Seq(Nat) /\ Falling(s) /\ Len(s) <= l.amount
        /\ \A age \in 0..l.window : Cardinality(Young(s, age)) = Cardinality(Through(k, l, age))
    BY <2>3 DEF Counts
  <2>5. gone \in 0..Len(s) /\ \A i \in DOMAIN s : s[i] >= l.window <=> i <= gone
    BY <2>1, <2>4, GoneAreFirst
  <2>6. new \in Seq(Nat) /\ Len(new) = Len(s) - gone
        /\ \A i \in 1..(Len(s) - gone) : new[i] = s[i + gone] + 1
    BY <2>1, <2>4, AgedAges
  <2>7. Len(s) \in Nat /\ DOMAIN s = 1..Len(s) /\ \A i \in DOMAIN s : s[i] \in Nat
    BY <2>4, LenProperties
  <2>8. ASSUME NEW age \in 0..l.window
        PROVE  Cardinality(Young(new, age)) = Cardinality(Through(k, l, age)')
    <3>1. Cardinality(Young(new, age)) = IF age = 0 THEN 0 ELSE Cardinality(Young(s, age - 1))
      BY <2>1, <2>4, YoungAged
    <3>2. Cardinality(Through(k, l, age)') = IF age = 0 THEN 0 ELSE Cardinality(Through(k, l, age - 1))
      BY <1>1, ThroughAged
    <3>3. age # 0 => age - 1 \in 0..l.window
      BY <2>1
    <3> HIDE DEF new
    <3> QED  BY <2>4, <3>1, <3>2, <3>3
  <2> HIDE DEF new, gone
  <2>9. DOMAIN new = 1..(Len(s) - gone)
    BY <2>6, LenProperties
  <2>10. ASSUME NEW i \in DOMAIN new PROVE i + gone \in DOMAIN s /\ new[i] = s[i + gone] + 1
    BY <2>5, <2>6, <2>7, <2>9
  <2>11. \A i \in DOMAIN new : new[i] <= l.window
    <3> SUFFICES ASSUME NEW i \in DOMAIN new PROVE new[i] <= l.window
      OBVIOUS
    <3>1. i + gone \in DOMAIN s /\ ~(i + gone <= gone)
      BY <2>5, <2>7, <2>9, <2>10
    <3>2. ~(s[i + gone] >= l.window) /\ s[i + gone] \in Nat
      BY <2>5, <2>7, <3>1
    <3> QED  BY <2>1, <2>10, <3>2
  <2>12. Falling(new)
    <3> SUFFICES ASSUME NEW i \in DOMAIN new, NEW j \in DOMAIN new, i <= j PROVE new[j] <= new[i]
      BY DEF Falling
    <3>1. i + gone \in DOMAIN s /\ j + gone \in DOMAIN s /\ i + gone <= j + gone
      BY <2>5, <2>7, <2>9, <2>10
    <3>2. s[j + gone] <= s[i + gone]
      BY <2>4, <3>1 DEF Falling
    <3> QED  BY <2>7, <2>10, <3>1, <3>2
  <2>13. Len(new) <= l.amount
    BY <2>1, <2>4, <2>5, <2>6, <2>7
  <2> QED  BY <2>2, <2>6, <2>8, <2>11, <2>12, <2>13 DEF Counts
<1>5. hits' \in [Keys \X Limits -> Seq(Nat)]
  <2>1. ASSUME NEW k \in Keys \X Limits PROVE Aged(hits[k], k[2].window) \in Seq(Nat)
    <3>1. k[1] \in Keys /\ k[2] \in Limits /\ k = <<k[1], k[2]>>
      OBVIOUS
    <3>2. Counts(hits[k], k[1], k[2])
      BY <3>1 DEF RatesInv
    <3>3. k[2].window \in Nat
      BY <3>1, LimiterAssumption
    <3> QED  BY <3>2, <3>3, AgedAges DEF Counts
  <2> QED  BY <2>1 DEF Tick, LimiterTick
<1> QED
  BY <1>2, <1>3, <1>4, <1>5 DEF RatesInv

\* A call that is let through is counted by every limit it is subject to, and remembered once.
LEMMA HitKeepsRates ==
    ASSUME RatesInv, NEW key \in Keys, NEW limits \in SUBSET Limits, Allow(key, limits),
           passed' = IF limits = {} THEN passed
                     ELSE Append(passed, [key |-> key, limits |-> limits, age |-> 0])
    PROVE  RatesInv'
<1> DEFINE entry == [key |-> key, limits |-> limits, age |-> 0]
           n == Len(passed)
<1>1. /\ passed \in Seq(Entry) /\ Falling(AgesOf(passed))
      /\ n \in Nat /\ DOMAIN passed = 1..n
      /\ \A i \in DOMAIN passed : passed[i] \in Entry
  BY LenProperties DEF RatesInv, Entries
<1>2. entry \in Entry
  BY DEF Entry
<1>3. /\ limits = {} => passed' = passed
      /\ limits # {} => passed' = Append(passed, entry)
  OBVIOUS
<1> HIDE DEF entry
<1>4. limits # {} => /\ passed' \in Seq(Entry) /\ Len(passed') = n + 1 /\ DOMAIN passed' = 1..(n + 1)
                     /\ \A i \in 1..n : passed'[i] = passed[i]
                     /\ passed'[n + 1] = entry
  <2> SUFFICES ASSUME limits # {}
               PROVE  /\ passed' \in Seq(Entry) /\ Len(passed') = n + 1 /\ DOMAIN passed' = 1..(n + 1)
                      /\ \A i \in 1..n : passed'[i] = passed[i]
                      /\ passed'[n + 1] = entry
    OBVIOUS
  <2>1. /\ passed' \in Seq(Entry) /\ Len(passed') = n + 1
        /\ \A i \in 1..n : passed'[i] = passed[i]
        /\ passed'[n + 1] = entry
    <3>1. passed' = Append(passed, entry)
      BY <1>3
    <3>2. /\ Append(passed, entry) \in Seq(Entry) /\ Len(Append(passed, entry)) = n + 1
          /\ \A i \in 1..n : Append(passed, entry)[i] = passed[i]
          /\ Append(passed, entry)[n + 1] = entry
      BY <1>1, <1>2, AppendProperties
    <3> QED  BY <3>1, <3>2
  <2> QED  BY <2>1, LenProperties
<1>5. passed' \in Entries
  BY <1>1, <1>3, <1>4 DEF Entries
<1>6. Falling(AgesOf(passed'))
  <2>1. CASE limits = {}
    BY <1>1, <1>3, <2>1
  <2>2. CASE limits # {}
    <3>1. ASSUME NEW i \in DOMAIN passed', NEW j \in DOMAIN passed', i <= j
          PROVE  passed'[j].age <= passed'[i].age
      <4>1. passed'[i] \in Entry /\ passed'[j] \in Entry
        BY <1>1, <1>2, <1>4, <2>2
      <4>2. CASE j = n + 1
        <5>1. passed'[j].age = 0 /\ passed'[i].age \in Nat
          BY <1>4, <2>2, <4>1, <4>2 DEF entry, Entry
        <5> QED  BY <5>1
      <4>3. CASE j # n + 1
        <5>1. i \in 1..n /\ j \in 1..n
          BY <1>1, <1>4, <2>2, <3>1, <4>3
        <5>2. passed[j].age <= passed[i].age
          BY <1>1, <3>1, <5>1 DEF Falling, AgesOf
        <5> QED  BY <1>4, <2>2, <5>1, <5>2
      <4> QED  BY <4>2, <4>3
    <3> QED  BY <3>1 DEF Falling, AgesOf
  <2> QED  BY <2>1, <2>2
<1>7. hits' \in [Keys \X Limits -> Seq(Nat)]
  <2>1. \A k \in Keys \X Limits : hits[k] \in Seq(Nat) /\ Append(hits[k], 0) \in Seq(Nat)
    BY DEF RatesInv
  <2> QED  BY <2>1 DEF Allow, Hit
<1>8. ASSUME NEW k \in Keys, NEW l \in Limits
      PROVE  Counts(hits[<<k, l>>], k, l)'
  <2> DEFINE s == hits[<<k, l>>]
             new == hits'[<<k, l>>]
  <2>1. Counts(s, k, l)
    BY DEF RatesInv
  <2>2. new = IF k = key /\ l \in limits THEN Append(s, 0) ELSE s
    BY DEF Allow, Hit
  <2>3. k = key /\ l \in limits => Len(s) < l.amount
    BY DEF Allow, Within
  <2>4. l.amount \in Nat /\ l.window \in Nat
    BY LimiterAssumption
  <2> HIDE DEF s, new
  <2>5. /\ s \in Seq(Nat) /\ Len(s) \in Nat /\ DOMAIN s = 1..Len(s)
        /\ \A i \in DOMAIN s : s[i] \in Nat
    BY <2>1, LenProperties DEF Counts
  <2>6. CASE ~(k = key /\ l \in limits)
    <3>1. ASSUME NEW age PROVE Through(k, l, age)' = Through(k, l, age)
      <4>1. CASE limits = {}
        BY <1>3, <4>1 DEF Through
      <4>2. CASE limits # {}
        <5>1. ~(entry.key = k /\ l \in entry.limits)
          BY <2>6 DEF entry
        <5> QED  BY <1>1, <1>4, <4>2, <5>1 DEF Through
      <4> QED  BY <4>1, <4>2
    <3> QED  BY <2>1, <2>2, <2>6, <3>1 DEF Counts, new
  <2>7. CASE k = key /\ l \in limits
    <3>1. /\ new \in Seq(Nat) /\ Len(new) = Len(s) + 1 /\ DOMAIN new = 1..(Len(s) + 1)
          /\ \A i \in 1..Len(s) : new[i] = s[i]
          /\ new[Len(s) + 1] = 0
      <4>1. new = Append(s, 0)
        BY <2>2, <2>7
      <4>2. /\ new \in Seq(Nat) /\ Len(new) = Len(s) + 1
            /\ \A i \in 1..Len(s) : new[i] = s[i]
            /\ new[Len(s) + 1] = 0
        BY <2>5, <4>1, AppendProperties
      <4> QED  BY <4>2, LenProperties
    <3>2. Len(new) <= l.amount
      BY <2>3, <2>4, <2>5, <2>7, <3>1
    <3>3. Falling(new)
      BY <2>1, <2>5, <3>1 DEF Falling, Counts
    <3>4. \A i \in DOMAIN new : new[i] <= l.window
      BY <2>1, <2>4, <2>5, <3>1 DEF Counts
    <3>5. ASSUME NEW age \in 0..l.window
          PROVE  Cardinality(Young(new, age)) = Cardinality(Through(k, l, age)')
      <4>1. Young(new, age) = Young(s, age) \cup {Len(s) + 1}
        BY <2>4, <2>5, <3>1 DEF Young
      <4>2. Len(s) + 1 \notin Young(s, age)
        BY <2>5 DEF Young
      <4>3. Cardinality(Young(new, age)) = Cardinality(Young(s, age)) + 1
        BY <2>5, <4>1, <4>2, YoungFinite, FS_AddElement
      <4>4. limits # {} /\ entry.key = k /\ l \in entry.limits /\ entry.age = 0
        BY <2>7 DEF entry
      <4>5. Through(k, l, age)' = Through(k, l, age) \cup {n + 1}
        BY <1>1, <1>4, <2>4, <4>4 DEF Through
      <4>6. n + 1 \notin Through(k, l, age)
        BY <1>1 DEF Through
      <4>7. Cardinality(Through(k, l, age)') = Cardinality(Through(k, l, age)) + 1
        <5>1. IsFiniteSet(Through(k, l, age))
          BY ThroughFinite DEF RatesInv
        <5> QED  BY <4>5, <4>6, <5>1, FS_AddElement
      <4> QED  BY <2>1, <4>3, <4>7 DEF Counts
    <3> QED  BY <3>1, <3>2, <3>3, <3>4, <3>5 DEF Counts, new
  <2> QED  BY <2>6, <2>7
<1> QED
  BY <1>5, <1>6, <1>7, <1>8 DEF RatesInv

-----------------------------------------------------------------------------
(* One call takes a step *)

\* What a call becomes, when the others stay as they are.
LEMMA OneCallKeeps ==
    ASSUME CallsInv, config' = config, NEW c \in Calls,
           NEW l, NEW n, NEW frames, NEW rows, NEW b, NEW u,
           CallOK(l, n, frames, rows, b, u),
           pc' = [pc EXCEPT ![c] = l], name' = [name EXCEPT ![c] = n],
           stack' = [stack EXCEPT ![c] = frames], owed' = [owed EXCEPT ![c] = rows],
           broken' = [broken EXCEPT ![c] = b], unlogged' = [unlogged EXCEPT ![c] = u]
    PROVE  CallsInv'
<1>1. /\ config' \in Configs
      /\ pc' \in [Calls -> Locations] /\ name' \in [Calls -> Names \cup {NoTool}]
      /\ stack' \in [Calls -> Seq(Frame)] /\ owed' \in [Calls -> Int]
      /\ broken' \in [Calls -> BOOLEAN] /\ unlogged' \in [Calls -> BOOLEAN]
  BY DEF CallsInv, CallOK
<1>2. ASSUME NEW d \in Calls PROVE CallOK(pc'[d], name'[d], stack'[d], owed'[d], broken'[d], unlogged'[d])
  <2>1. CASE d = c
    <3>1. pc'[d] = l /\ name'[d] = n /\ stack'[d] = frames /\ owed'[d] = rows /\ broken'[d] = b
          /\ unlogged'[d] = u
      BY <2>1 DEF CallsInv
    <3> QED  BY <3>1
  <2>2. CASE d # c
    <3>1. pc'[d] = pc[d] /\ name'[d] = name[d] /\ stack'[d] = stack[d] /\ owed'[d] = owed[d]
          /\ broken'[d] = broken[d] /\ unlogged'[d] = unlogged[d]
      BY <2>2 DEF CallsInv
    <3>2. CallOK(pc[d], name[d], stack[d], owed[d], broken[d], unlogged[d])
      BY DEF CallsInv
    <3> QED  BY <3>1, <3>2
  <2> QED  BY <2>1, <2>2
<1> QED
  BY <1>1, <1>2 DEF CallsInv

\* The frames below the top one.
LEMMA BelowFrames ==
    ASSUME CallsInv, NEW c \in Calls, stack[c] # <<>>
    PROVE  /\ Len(stack[c]) \in Nat \ {0}
           /\ Top(c) \in Frame
           /\ Below(c) \in Seq(Frame)
           /\ Len(Below(c)) = Len(stack[c]) - 1
           /\ Len(stack[c]) = 1 => Below(c) = <<>>
           /\ \A i \in 1..Len(Below(c)) : Below(c)[i] = stack[c][i]
<1>1. /\ stack[c] \in Seq(Frame) /\ Len(stack[c]) \in Nat \ {0}
      /\ \A i \in 1..Len(stack[c]) : stack[c][i] \in Frame
  BY EmptySeq, ElementOfSeq DEF CallsInv
<1>2. /\ Below(c) \in Seq(Frame)
      /\ Len(Below(c)) = IF 1 <= Len(stack[c]) - 1 THEN (Len(stack[c]) - 1) - 1 + 1 ELSE 0
      /\ \A i \in 1..((Len(stack[c]) - 1) - 1 + 1) : Below(c)[i] = stack[c][1 + i - 1]
  <2>1. \A i \in 1..(Len(stack[c]) - 1) : stack[c][i] \in Frame
    BY <1>1
  <2> QED  BY <1>1, <2>1, SubSeqProperties DEF Below
<1>3. Len(Below(c)) = Len(stack[c]) - 1
  BY <1>1, <1>2
<1>4. Len(stack[c]) = 1 => Below(c) = <<>>
  BY <1>2, <1>3, EmptySeq
<1>5. \A i \in 1..Len(Below(c)) : Below(c)[i] = stack[c][i]
  BY <1>1, <1>2, <1>3
<1> QED
  BY <1>1, <1>2, <1>3, <1>4, <1>5 DEF Top

\* Where a call goes when an exception is raised.
LEMMA RaiseOK ==
    ASSUME NEW frames \in Seq(Frame), Len(frames) <= MaxDepth, NEW u \in BOOLEAN
    PROVE  CallOK(IF frames = <<>> THEN "ended" ELSE "failing", NoTool, frames,
                  Len(frames) + Missing(u), TRUE, u)
BY LenProperties DEF CallOK, Locations, InHand, Missing

\* One more frame.
LEMMA PushedOK ==
    ASSUME NEW frames \in Seq(Frame), Len(frames) < MaxDepth,
           NEW frame \in Frame, NEW l \in {"executing", "stepping"}
    PROVE  CallOK(l, NoTool, Append(frames, frame), Len(frames) + 1, FALSE, FALSE)
<1>1. /\ Append(frames, frame) \in Seq(Frame) /\ Append(frames, frame) # <<>>
      /\ Len(Append(frames, frame)) = Len(frames) + 1 /\ Len(frames) \in Nat
  BY AppendProperties, LenProperties
<1> QED
  BY <1>1, RunAssumption DEF CallOK, Locations, InHand, Missing

\* A step is done.
LEMMA AfterIsFrame ==
    ASSUME NEW frame \in Frame
    PROVE  After(frame) \in Frame
<1>1. Len(frame.steps) + 1 \in Nat \ {0} /\ frame.at + 1 \in Nat \ {0}
  BY LenProperties DEF Frame
<1> QED
  BY <1>1 DEF After, Frame

\* What the invariant says of one call.
LEMMA CallFacts ==
    ASSUME CallsInv, NEW c \in Calls
    PROVE  /\ CallOK(pc[c], name[c], stack[c], owed[c], broken[c], unlogged[c])
           /\ Len(stack[c]) \in Nat
           /\ pc = [pc EXCEPT ![c] = pc[c]] /\ name = [name EXCEPT ![c] = name[c]]
           /\ stack = [stack EXCEPT ![c] = stack[c]] /\ owed = [owed EXCEPT ![c] = owed[c]]
           /\ broken = [broken EXCEPT ![c] = broken[c]]
           /\ unlogged = [unlogged EXCEPT ![c] = unlogged[c]]
BY LenProperties DEF CallsInv

\* The rows a call owes, and that nothing has failed unless it is failing.
LEMMA Owing ==
    ASSUME CallsInv, NEW c \in Calls
    PROVE  /\ owed[c] \in Int /\ Len(stack[c]) \in Nat
           /\ pc[c] \in {"entering", "asking"} => /\ owed[c] = Len(stack[c]) + 1
                                                /\ owed[c] + (-1) = Len(stack[c])
           /\ pc[c] \in {"idle", "executing", "stepping"} => owed[c] = Len(stack[c])
           /\ pc[c] \in {"failing", "ended"} => owed[c] = Len(stack[c]) + Missing(unlogged[c])
           /\ pc[c] \notin {"failing", "ended"} => broken[c] = FALSE /\ unlogged[c] = FALSE
           /\ Missing(unlogged[c]) \in Nat
<1>1. CallOK(pc[c], name[c], stack[c], owed[c], broken[c], unlogged[c]) /\ Len(stack[c]) \in Nat
  BY CallFacts
<1>2. owed[c] \in Int /\ owed[c] = Len(stack[c]) + InHand(pc[c]) + Missing(unlogged[c])
  BY <1>1, Zenon DEF CallOK
<1>3. pc[c] \notin {"failing", "ended"} => broken[c] = FALSE /\ unlogged[c] = FALSE
  BY <1>1, Zenon DEF CallOK
<1>4. Missing(unlogged[c]) \in Nat /\ Missing(FALSE) = 0
  BY DEF Missing
<1>5. pc[c] \notin {"failing", "ended"} => Missing(unlogged[c]) = 0
  BY <1>3, <1>4, Zenon
<1> DEFINE missing == Missing(unlogged[c])
<1>6. missing \in Nat /\ (pc[c] \notin {"failing", "ended"} => missing = 0)
  BY <1>4, <1>5
<1>7. owed[c] = Len(stack[c]) + InHand(pc[c]) + missing
  BY <1>2
<1>8. Len(stack[c]) \in Nat /\ owed[c] \in Int
  BY <1>1, <1>2
<1> HIDE DEF missing
<1>9. CASE pc[c] \in {"entering", "asking"}
  <2>1. InHand(pc[c]) = 1 /\ missing = 0
    BY <1>6, <1>9 DEF InHand
  <2>2. owed[c] = Len(stack[c]) + 1 /\ owed[c] + (-1) = Len(stack[c])
    BY <1>7, <1>8, <2>1
  <2>3. pc[c] \notin {"idle", "executing", "stepping", "failing", "ended"}
    BY <1>9
  <2> QED  BY <1>3, <1>4, <1>8, <2>2, <2>3, Zenon
<1>10. CASE pc[c] \notin {"entering", "asking"}
  <2>1. InHand(pc[c]) = 0
    BY <1>10 DEF InHand
  <2>2. owed[c] = Len(stack[c]) + missing
    BY <1>6, <1>7, <1>8, <2>1
  <2>3. pc[c] \notin {"failing", "ended"} => owed[c] = Len(stack[c])
    BY <1>6, <1>8, <2>2
  <2>4. pc[c] \in {"idle", "executing", "stepping"} => pc[c] \notin {"failing", "ended"}
    OBVIOUS
  <2> QED  BY <1>3, <1>4, <1>8, <1>10, <2>2, <2>3, <2>4, Zenon DEF missing
<1> QED
  BY <1>9, <1>10

\* Owing more, or less.
LEMMA Owes ==
    ASSUME NEW c \in Calls, NEW d, Owe(c, d)
    PROVE  owed' = [owed EXCEPT ![c] = owed[c] + d]
  BY DEF Owe

\* Nothing is missing in a tree that has not failed.
LEMMA NoneMissing ==
    ASSUME CallsInv, NEW c \in Calls, pc[c] \notin {"failing", "ended"}
    PROVE  /\ broken = [broken EXCEPT ![c] = FALSE]
           /\ unlogged = [unlogged EXCEPT ![c] = FALSE]
<1>1. /\ broken = [broken EXCEPT ![c] = broken[c]]
      /\ unlogged = [unlogged EXCEPT ![c] = unlogged[c]]
  BY CallFacts
<1>2. broken[c] = FALSE /\ unlogged[c] = FALSE
  BY Owing
<1> QED
  BY <1>1, <1>2, Zenon

\* An exception gives up the call that is entered or asked about, and no frame yet.
LEMMA RaiseKeeps ==
    ASSUME CallsInv, config' = config, NEW c \in Calls, Raise(c), stack' = stack,
           NEW u \in BOOLEAN, unlogged' = [unlogged EXCEPT ![c] = u],
           owed' = [owed EXCEPT ![c] = Len(stack[c]) + Missing(u)]
    PROVE  CallsInv'
<1>1. /\ CallOK(pc[c], name[c], stack[c], owed[c], broken[c], unlogged[c])
      /\ stack = [stack EXCEPT ![c] = stack[c]]
  BY CallFacts
<1>2. CallOK(IF stack[c] = <<>> THEN "ended" ELSE "failing", NoTool, stack[c],
             Len(stack[c]) + Missing(u), TRUE, u)
  <2>1. stack[c] \in Seq(Frame) /\ Len(stack[c]) <= MaxDepth
    BY <1>1, Zenon DEF CallOK
  <2> QED  BY <2>1, RaiseOK
<1> QED
  BY <1>1, <1>2, OneCallKeeps DEF Raise, Goto

\* An exception of a tree that owes a row for each of its frames, and no other.
LEMMA RaiseLogged ==
    ASSUME CallsInv, config' = config, NEW c \in Calls, pc[c] \notin {"failing", "ended"},
           Raise(c), stack' = stack, unlogged' = unlogged,
           owed' = [owed EXCEPT ![c] = Len(stack[c])]
    PROVE  CallsInv'
<1>1. unlogged' = [unlogged EXCEPT ![c] = FALSE]
  BY NoneMissing
<1>2. Len(stack[c]) = Len(stack[c]) + Missing(FALSE)
  <2>1. Len(stack[c]) \in Nat
    BY Owing
  <2> QED  BY <2>1 DEF Missing
<1>3. owed' = [owed EXCEPT ![c] = Len(stack[c]) + Missing(FALSE)]
  BY <1>2, Zenon
<1> QED
  BY <1>1, <1>3, RaiseKeeps

\* An exception that leaves its call without a row.
LEMMA UnloggedKeeps ==
    ASSUME CallsInv, config' = config, NEW c \in Calls, RaiseUnlogged(c), stack' = stack,
           owed' = [owed EXCEPT ![c] = Len(stack[c]) + 1]
    PROVE  CallsInv'
<1>1. Missing(TRUE) = 1
  BY DEF Missing
<1>2. owed' = [owed EXCEPT ![c] = Len(stack[c]) + Missing(TRUE)]
  BY <1>1, Zenon
<1>3. Raise(c) /\ unlogged' = [unlogged EXCEPT ![c] = TRUE]
  BY DEF RaiseUnlogged
<1> QED
  BY <1>2, <1>3, RaiseKeeps

\* A refusal writes the row of the call that is refused.
LEMMA DenyKeeps ==
    ASSUME CallsInv, config' = config, NEW c \in Calls, pc[c] \in {"entering", "asking"}, Deny(c)
    PROVE  CallsInv'
<1>1. Owe(c, -1) /\ Raise(c) /\ stack' = stack /\ unlogged' = unlogged
  BY DEF Deny
<1>2. owed' = [owed EXCEPT ![c] = Len(stack[c])]
  <2>1. owed[c] + (-1) = Len(stack[c])
    BY Owing
  <2>2. owed' = [owed EXCEPT ![c] = owed[c] + (-1)]
    BY <1>1, Owes
  <2> QED  BY <2>1, <2>2, Zenon
<1> QED
  BY <1>1, <1>2, RaiseLogged

\* A call that runs is a new frame on the stack, and its row is still owed.
LEMMA RunKeeps ==
    ASSUME CallsInv, config' = config, NEW c \in Calls, pc[c] \in {"entering", "asking"},
           Run(c)
    PROVE  CallsInv'
<1> DEFINE there == config.tools \cup Remote \cup DOMAIN Inner
<1>1. /\ name[c] \in Names /\ stack[c] \in Seq(Frame) /\ Len(stack[c]) < MaxDepth
      /\ owed = [owed EXCEPT ![c] = owed[c]]
  <2>1. /\ CallOK(pc[c], name[c], stack[c], owed[c], broken[c], unlogged[c])
        /\ owed = [owed EXCEPT ![c] = owed[c]]
    BY CallFacts
  <2>2. stack[c] \in Seq(Frame) /\ name[c] \in Names /\ Len(stack[c]) < MaxDepth
    BY <2>1, Zenon DEF CallOK
  <2> QED  BY <2>1, <2>2, Zenon
<1>2. owed = [owed EXCEPT ![c] = Len(stack[c]) + 1]
  <2>1. owed[c] = Len(stack[c]) + 1
    BY Owing
  <2> QED  BY <1>1, <2>1, Zenon
<1>3. CASE name[c] \notin there
  <2>1. Deny(c)
    BY <1>3, Zenon DEF Run
  <2> QED  BY <2>1, DenyKeeps
<1>4. CASE name[c] \in there
  <2>1. PICK steps \in Seq(Step), l \in {"executing", "stepping"} : Push(c, name[c], steps, l)
    <3>1. \/ name[c] \in Workflows /\ Push(c, name[c], config.defs[name[c]], "stepping")
          \/ name[c] \in DOMAIN Inner /\ Push(c, name[c], <<JustCall(Inner[name[c]])>>, "stepping")
          \/ Push(c, name[c], <<>>, "executing")
      BY <1>4, Zenon DEF Run
    <3>2. name[c] \in Workflows => config.defs[name[c]] \in Seq(Step)
      BY RunAssumption DEF CallsInv
    <3>3. name[c] \in DOMAIN Inner => <<JustCall(Inner[name[c]])>> \in Seq(Step)
      BY RunAssumption DEF Step, JustCall
    <3>4. <<>> \in Seq(Step)
      BY EmptySeq
    <3> QED  BY <3>1, <3>2, <3>3, <3>4, Zenon
  <2> DEFINE frame == [tool |-> name[c], steps |-> steps, at |-> 1]
  <2>2. frame \in Frame
    BY <1>1 DEF Frame
  <2>3. /\ stack' = [stack EXCEPT ![c] = Append(stack[c], frame)]
        /\ pc' = [pc EXCEPT ![c] = l] /\ name' = [name EXCEPT ![c] = NoTool]
    BY <2>1 DEF Push, Goto
  <2>4. owed' = owed /\ broken' = broken /\ unlogged' = unlogged
    BY <1>4, Zenon DEF Run
  <2>5. /\ owed' = [owed EXCEPT ![c] = Len(stack[c]) + 1]
        /\ broken' = [broken EXCEPT ![c] = FALSE] /\ unlogged' = [unlogged EXCEPT ![c] = FALSE]
    BY <1>2, <2>4, NoneMissing, Zenon
  <2> HIDE DEF frame
  <2>6. CallOK(l, NoTool, Append(stack[c], frame), Len(stack[c]) + 1, FALSE, FALSE)
    BY <1>1, <2>2, PushedOK
  <2> QED  BY <2>3, <2>5, <2>6, OneCallKeeps
<1> QED
  BY <1>3, <1>4

\* A result pops the frame it is of, whose row is written.
LEMMA ReturnKeeps ==
    ASSUME CallsInv, NEW c \in Calls, pc[c] \in {"executing", "stepping"},
           Return(c), Owe(c, -1), UNCHANGED <<config, name, broken, unlogged>>
    PROVE  CallsInv'
<1>1. /\ CallOK(pc[c], name[c], stack[c], owed[c], broken[c], unlogged[c])
      /\ name = [name EXCEPT ![c] = name[c]]
  BY CallFacts
<1>2. stack[c] # <<>> /\ stack[c] \in Seq(Frame) /\ Len(stack[c]) <= MaxDepth
  BY <1>1, Zenon DEF CallOK
<1>3. name' = [name EXCEPT ![c] = NoTool]
  <2>1. name[c] = NoTool
    BY <1>1 DEF CallOK
  <2> QED  BY <1>1, <2>1, Zenon
<1>4. broken' = [broken EXCEPT ![c] = FALSE] /\ unlogged' = [unlogged EXCEPT ![c] = FALSE]
  BY NoneMissing
<1>5. Below(c) \in Seq(Frame)
  BY <1>2, BelowFrames
<1> DEFINE m == Len(Below(c))
<1>6. Len(stack[c]) \in Nat \ {0} /\ m \in Nat /\ m = Len(stack[c]) - 1
  BY <1>2, BelowFrames
<1> HIDE DEF m
<1>7. owed' = [owed EXCEPT ![c] = m]
  <2>1. owed[c] + (-1) = m
    BY <1>6, Owing
  <2>2. owed' = [owed EXCEPT ![c] = owed[c] + (-1)]
    BY Owes
  <2> QED  BY <2>1, <2>2, Zenon
<1>8. CASE Len(stack[c]) = 1
  <2>1. pc' = [pc EXCEPT ![c] = "ended"] /\ stack' = [stack EXCEPT ![c] = <<>>]
    BY <1>8 DEF Return, Goto
  <2>2. m = 0
    BY <1>6, <1>8
  <2>3. CallOK("ended", NoTool, <<>>, m, FALSE, FALSE)
    BY <2>2, EmptySeq, RunAssumption DEF CallOK, Locations, InHand, Missing
  <2> QED  BY <1>3, <1>4, <1>7, <2>1, <2>3, OneCallKeeps
<1>9. CASE Len(stack[c]) # 1
  <2> DEFINE frame == After(Below(c)[m])
             frames == [Below(c) EXCEPT ![m] = frame]
  <2>1. m \in 1..m
    <3>1. m # 0 /\ m \in Nat
      BY <1>6, <1>9
    <3> HIDE DEF frame, frames
    <3> QED  BY <3>1
  <2>2. frame \in Frame
    <3>1. Below(c)[m] \in Frame
      BY <1>5, <2>1, ElementOfSeq DEF m
    <3> QED  BY <3>1, AfterIsFrame
  <2>5. pc' = [pc EXCEPT ![c] = "stepping"] /\ stack' = [stack EXCEPT ![c] = frames]
    BY <1>9 DEF Return, Goto, m
  <2> HIDE DEF frame
  <2>3. frames \in Seq(Frame) /\ Len(frames) = m
    BY <1>5, <2>1, <2>2, ExceptSeq DEF m
  <2> HIDE DEF frames
  <2>4. frames # <<>>
    BY <2>1, <2>3, EmptySeq
  <2>6. CallOK("stepping", NoTool, frames, m, FALSE, FALSE)
    BY <1>2, <1>6, <2>3, <2>4, RunAssumption DEF CallOK, Locations, InHand, Missing
  <2> QED  BY <1>3, <1>4, <1>7, <2>5, <2>6, OneCallKeeps
<1> QED
  BY <1>8, <1>9

-----------------------------------------------------------------------------
(* The actions keep the calls well *)

\* A call begins: for a client, a step or call_tool.
LEMMA BeginKeeps ==
    ASSUME CallsInv, config' = config, stack' = stack, NEW c \in Calls,
           pc[c] \in {"idle", "stepping"}, NEW n \in Names, Begin(c, n)
    PROVE  CallsInv'
<1>1. /\ CallOK(pc[c], name[c], stack[c], owed[c], broken[c], unlogged[c])
      /\ stack = [stack EXCEPT ![c] = stack[c]] /\ owed = [owed EXCEPT ![c] = owed[c]]
  BY CallFacts
<1>2. owed[c] = Len(stack[c]) /\ Len(stack[c]) \in Nat
  BY Owing
<1>3. stack[c] \in Seq(Frame)
  BY <1>1, Zenon DEF CallOK
<1>4. CASE Len(stack[c]) >= MaxDepth /\ Raise(c) /\ UNCHANGED <<owed, unlogged>>
  <2>1. owed' = [owed EXCEPT ![c] = Len(stack[c])]
    BY <1>1, <1>2, <1>4
  <2> QED  BY <1>4, <2>1, RaiseLogged
<1>5. CASE Owe(c, 1) /\ RaiseUnlogged(c)
  <2>1. owed' = [owed EXCEPT ![c] = Len(stack[c]) + 1]
    BY <1>2, <1>5, Owes
  <2> QED  BY <1>5, <2>1, UnloggedKeeps
<1>6. CASE /\ Len(stack[c]) < MaxDepth /\ Owe(c, 1)
           /\ Goto(c, "entering") /\ name' = [name EXCEPT ![c] = n]
           /\ UNCHANGED <<broken, unlogged>>
  <2>1. owed' = [owed EXCEPT ![c] = Len(stack[c]) + 1]
    BY <1>2, <1>6, Owes
  <2>2. broken' = [broken EXCEPT ![c] = FALSE] /\ unlogged' = [unlogged EXCEPT ![c] = FALSE]
    BY <1>6, NoneMissing, Zenon
  <2>3. CallOK("entering", n, stack[c], Len(stack[c]) + 1, FALSE, FALSE)
    BY <1>2, <1>3, <1>6, RunAssumption DEF CallOK, Locations, InHand, Missing
  <2>4. pc' = [pc EXCEPT ![c] = "entering"] /\ stack' = [stack EXCEPT ![c] = stack[c]]
    BY <1>1, <1>6 DEF Goto
  <2> QED  BY <1>6, <2>1, <2>2, <2>3, <2>4, OneCallKeeps
<1> QED
  BY <1>4, <1>5, <1>6, Zenon DEF Begin

LEMMA StartKeeps ==
    ASSUME CallsInv, NEW c \in Calls, NEW n \in Called[c], Start(c, n)
    PROVE  CallsInv'
<1>1. n \in Names
  BY RunAssumption
<1> QED
  BY <1>1, BeginKeeps DEF Start

\* A call of a client, a step or call_tool is checked, whichever way that ends.
LEMMA ChecksKeep ==
    ASSUME CallsInv, NEW c \in Calls, Checks(c)
    PROVE  CallsInv'
<1>1. pc[c] = "entering" /\ config' = config
  BY DEF Checks, RefuseByScan, RefuseByRules, RefuseByRate, Enter, Entering
<1>2. CASE Deny(c)
  BY <1>1, <1>2, DenyKeeps
<1>3. CASE Enter(c)
  <2>1. Checked(c)
    BY <1>3 DEF Enter
  <2>2. CASE Run(c)
    BY <1>1, <2>2, RunKeeps
  <2>3. CASE Goto(c, "asking") /\ UNCHANGED <<name, stack, owed, broken, unlogged>>
    <3>1. /\ name = [name EXCEPT ![c] = name[c]] /\ stack = [stack EXCEPT ![c] = stack[c]]
          /\ owed = [owed EXCEPT ![c] = owed[c]]
          /\ CallOK(pc[c], name[c], stack[c], owed[c], broken[c], unlogged[c])
      BY CallFacts
    <3>2. /\ pc' = [pc EXCEPT ![c] = "asking"] /\ name' = [name EXCEPT ![c] = name[c]]
          /\ stack' = [stack EXCEPT ![c] = stack[c]] /\ owed' = [owed EXCEPT ![c] = owed[c]]
      BY <2>3, <3>1, Zenon DEF Goto
    <3>3. broken' = [broken EXCEPT ![c] = FALSE] /\ unlogged' = [unlogged EXCEPT ![c] = FALSE]
      BY <1>1, <2>3, NoneMissing
    <3>4. broken[c] = FALSE /\ unlogged[c] = FALSE
      BY <1>1, Owing
    <3>5. CallOK("asking", name[c], stack[c], owed[c], FALSE, FALSE)
      <4>1. InHand("asking") = InHand("entering") /\ "asking" \in Locations
        BY DEF InHand, Locations
      <4>2. CallOK("entering", name[c], stack[c], owed[c], FALSE, FALSE)
        BY <1>1, <3>1, <3>4, Zenon
      <4> QED  BY <4>1, <4>2 DEF CallOK
    <3> QED  BY <1>1, <3>2, <3>3, <3>5, OneCallKeeps
  <2> QED  BY <1>2, <2>1, <2>2, <2>3, Zenon DEF Checked
<1> QED
  BY <1>2, <1>3, Zenon DEF Checks, RefuseByScan, RefuseByRules, RefuseByRate

\* A frame is given up, and its row is written.
LEMMA UnwindKeeps ==
    ASSUME CallsInv, NEW c \in Calls, Unwind(c)
    PROVE  CallsInv'
<1>1. /\ CallOK(pc[c], name[c], stack[c], owed[c], broken[c], unlogged[c])
      /\ name = [name EXCEPT ![c] = name[c]] /\ broken = [broken EXCEPT ![c] = broken[c]]
      /\ unlogged = [unlogged EXCEPT ![c] = unlogged[c]]
  BY CallFacts
<1>2. pc[c] = "failing"
  BY DEF Unwind
<1>3. /\ stack[c] # <<>> /\ name[c] = NoTool /\ Len(stack[c]) <= MaxDepth /\ broken[c] \in BOOLEAN
      /\ unlogged[c] \in BOOLEAN /\ (unlogged[c] => broken[c])
  <2>1. /\ stack[c] # <<>> /\ Len(stack[c]) <= MaxDepth /\ broken[c] \in BOOLEAN
        /\ unlogged[c] \in BOOLEAN /\ (unlogged[c] => broken[c])
    BY <1>1, <1>2, Zenon DEF CallOK
  <2>2. name[c] = NoTool
    BY <1>1, <1>2 DEF CallOK
  <2> QED  BY <2>1, <2>2, Zenon
<1> DEFINE m == Len(Below(c))
           l == IF Len(stack[c]) = 1 THEN "ended" ELSE "failing"
<1>4. Below(c) \in Seq(Frame) /\ Len(stack[c]) \in Nat \ {0} /\ m = Len(stack[c]) - 1
  BY <1>3, BelowFrames
<1>5. Len(stack[c]) = 1 => Below(c) = <<>>
  BY <1>3, BelowFrames
<1> HIDE DEF m
<1>6. owed' = [owed EXCEPT ![c] = m + Missing(unlogged[c])]
  <2>1. owed[c] + (-1) = m + Missing(unlogged[c])
    <3>1. owed[c] = Len(stack[c]) + Missing(unlogged[c]) /\ Missing(unlogged[c]) \in Nat
      BY <1>2, Owing
    <3> QED  BY <1>4, <3>1
  <2>2. owed' = [owed EXCEPT ![c] = owed[c] + (-1)]
    BY Owes DEF Unwind
  <2> QED  BY <2>1, <2>2, Zenon
<1>7. config' = config /\ stack' = [stack EXCEPT ![c] = Below(c)] /\ pc' = [pc EXCEPT ![c] = l]
      /\ name' = name /\ broken' = broken /\ unlogged' = unlogged
  BY Zenon DEF Unwind, Goto
<1>8. /\ name' = [name EXCEPT ![c] = NoTool] /\ broken' = [broken EXCEPT ![c] = broken[c]]
      /\ unlogged' = [unlogged EXCEPT ![c] = unlogged[c]]
  BY <1>1, <1>3, <1>7, Zenon
<1>9. m \in Nat /\ m <= MaxDepth
  BY <1>3, <1>4, RunAssumption
<1>10. CallOK(l, NoTool, Below(c), m + Missing(unlogged[c]), broken[c], unlogged[c])
  <2>1. l \in {"ended", "failing"} /\ l \in Locations
    BY DEF Locations
  <2>2. l = "ended" => Below(c) = <<>>
    BY <1>5
  <2>3. l = "failing" => Below(c) # <<>>
    <3>1. SUFFICES ASSUME Len(stack[c]) # 1 PROVE Below(c) # <<>>
      OBVIOUS
    <3>2. Len(Below(c)) # 0
      BY <1>4, <3>1 DEF m
    <3> QED  BY <3>2, EmptySeq
  <2>4. m + Missing(unlogged[c]) = Len(Below(c)) + InHand(l) + Missing(unlogged[c])
    <3>1. InHand(l) = 0 /\ Len(Below(c)) = m
      BY <2>1 DEF m, InHand
    <3>2. m + 0 = m
      BY <1>9
    <3> QED  BY <3>1, <3>2, Zenon
  <2>5. Len(Below(c)) <= MaxDepth
    BY <1>9 DEF m
  <2> HIDE DEF l
  <2>6. l \notin {"idle", "entering", "asking", "executing", "stepping"}
    BY <2>1
  <2>7. m + Missing(unlogged[c]) \in Int
    BY <1>9 DEF Missing
  <2>8. /\ NoTool \in Names \cup {NoTool}
        /\ l \in {"idle", "ended"} => Below(c) = <<>>
        /\ l \in {"executing", "stepping", "failing"} => Below(c) # <<>>
    BY <2>1, <2>2, <2>3, <2>6
  <2>9. ~(NoTool # NoTool) /\ l \notin {"entering", "asking"}
    BY <2>6
  <2> QED  BY <1>3, <1>4, <2>1, <2>4, <2>5, <2>7, <2>8, <2>9, Zenon DEF CallOK
<1> DEFINE b == broken[c]
           u == unlogged[c]
           rows == m + Missing(u)
<1>11. /\ CallOK(l, NoTool, Below(c), rows, b, u)
       /\ owed' = [owed EXCEPT ![c] = rows]
       /\ broken' = [broken EXCEPT ![c] = b] /\ unlogged' = [unlogged EXCEPT ![c] = u]
  BY <1>6, <1>8, <1>10
<1>12. /\ config' = config /\ pc' = [pc EXCEPT ![c] = l] /\ name' = [name EXCEPT ![c] = NoTool]
       /\ stack' = [stack EXCEPT ![c] = Below(c)]
  BY <1>7, <1>8
<1> HIDE DEF l, b, u, rows
<1> QED
  BY <1>11, <1>12, OneCallKeeps

\* What an approval or a target answers.
LEMMA TargetKeeps ==
    ASSUME CallsInv, NEW c \in Calls, Target(c)
    PROVE  CallsInv'
<1>1. CallOK(pc[c], name[c], stack[c], owed[c], broken[c], unlogged[c]) /\ owed = [owed EXCEPT ![c] = owed[c]]
  BY CallFacts
<1>2. CASE Granted(c)
  <2>1. pc[c] = "asking" /\ config' = config /\ Run(c)
    BY <1>2 DEF Granted
  <2> QED  BY <2>1, RunKeeps
<1>3. CASE Denied(c)
  <2>1. pc[c] = "asking" /\ config' = config /\ Deny(c)
    BY <1>3 DEF Denied
  <2> QED  BY <2>1, DenyKeeps
<1>4. CASE Answer(c)
  BY <1>4, ReturnKeeps DEF Answer
<1>5. CASE Fail(c)
  <2>1. /\ pc[c] \in {"executing", "stepping"} /\ config' = config /\ Raise(c)
        /\ stack' = stack /\ owed' = owed /\ unlogged' = unlogged
    BY <1>5 DEF Fail
  <2>2. owed' = [owed EXCEPT ![c] = Len(stack[c])]
    BY <1>1, <2>1, Owing
  <2> QED  BY <2>1, <2>2, RaiseLogged
<1>6. CASE Unwind(c)
  BY <1>6, UnwindKeeps
<1> QED
  BY <1>2, <1>3, <1>4, <1>5, <1>6, Zenon DEF Target

\* Nothing but the top frame changes.
OnlyAdvance(c, frame) == Advance(c, frame) /\ UNCHANGED <<config, pc, name, owed, broken, unlogged>>

\* The top frame goes on.
LEMMA AdvanceKeeps ==
    ASSUME CallsInv, NEW c \in Calls, pc[c] = "stepping", NEW frame \in Frame,
           OnlyAdvance(c, frame)
    PROVE  CallsInv'
<1>1. /\ CallOK(pc[c], name[c], stack[c], owed[c], broken[c], unlogged[c])
      /\ pc = [pc EXCEPT ![c] = pc[c]] /\ name = [name EXCEPT ![c] = name[c]]
      /\ owed = [owed EXCEPT ![c] = owed[c]]
  BY CallFacts
<1>2. stack[c] # <<>> /\ stack[c] \in Seq(Frame) /\ Len(stack[c]) <= MaxDepth
  BY <1>1, Zenon DEF CallOK
<1>3. Len(stack[c]) \in Nat \ {0} /\ owed[c] = Len(stack[c])
  BY <1>2, BelowFrames, Owing
<1>4. name[c] = NoTool
  BY <1>1 DEF CallOK
<1>5. /\ pc' = [pc EXCEPT ![c] = "stepping"] /\ name' = [name EXCEPT ![c] = NoTool]
      /\ owed' = [owed EXCEPT ![c] = Len(stack[c])] /\ broken' = [broken EXCEPT ![c] = FALSE]
      /\ unlogged' = [unlogged EXCEPT ![c] = FALSE] /\ config' = config
  <2>1. broken = [broken EXCEPT ![c] = FALSE] /\ unlogged = [unlogged EXCEPT ![c] = FALSE]
    BY NoneMissing
  <2> QED  BY <1>1, <1>3, <1>4, <2>1, Zenon DEF OnlyAdvance
<1> DEFINE frames == [stack[c] EXCEPT ![Len(stack[c])] = frame]
<1>6. stack' = [stack EXCEPT ![c] = frames]
  BY DEF OnlyAdvance, Advance
<1>7. frames \in Seq(Frame) /\ Len(frames) = Len(stack[c])
  <2>1. Len(stack[c]) \in 1..Len(stack[c])
    BY <1>3
  <2> QED  BY <1>2, <2>1, ExceptSeq
<1> HIDE DEF frames
<1>8. frames # <<>>
  BY <1>3, <1>7, EmptySeq
<1>9. CallOK("stepping", NoTool, frames, Len(stack[c]), FALSE, FALSE)
  BY <1>2, <1>3, <1>7, <1>8, RunAssumption DEF CallOK, Locations, InHand, Missing
<1> QED
  BY <1>5, <1>6, <1>9, OneCallKeeps

\* A workflow takes a step.
LEMMA StepsKeep ==
    ASSUME CallsInv, NEW c \in Calls, Steps(c)
    PROVE  CallsInv'
<1>1. pc[c] = "stepping" /\ config' = config
  BY DEF Steps, SkipStep, CallStep, PlainStep, FinishSteps, AtStep
<1>2. CallOK(pc[c], name[c], stack[c], owed[c], broken[c], unlogged[c])
  BY CallFacts
<1>3. stack[c] # <<>> /\ stack[c] \in Seq(Frame)
  BY <1>1, <1>2, Zenon DEF CallOK
<1>4. Top(c) \in Frame
  BY <1>3, BelowFrames
<1>5. CASE SkipStep(c)
  <2>1. [Top(c) EXCEPT !.at = @ + 1] \in Frame
    BY <1>4 DEF Frame
  <2> QED  BY <1>1, <1>5, <2>1, AdvanceKeeps DEF SkipStep, OnlyAdvance
<1>6. CASE PlainStep(c)
  <2>1. After(Top(c)) \in Frame
    BY <1>4, AfterIsFrame
  <2> QED  BY <1>1, <1>6, <2>1, AdvanceKeeps DEF PlainStep, OnlyAdvance
<1>7. CASE CallStep(c)
  <2> DEFINE n == TheStep(c).tool
  <2>1. n \in Names
    <3>1. Top(c).at \in 1..Len(Top(c).steps) /\ Top(c).steps \in Seq(Step) /\ n # NoTool
      BY <1>4, <1>7 DEF CallStep, AtStep, Frame
    <3>2. TheStep(c) \in Step
      BY <3>1, ElementOfSeq DEF TheStep
    <3> QED  BY <3>1, <3>2 DEF Step
  <2>2. Begin(c, n) /\ stack' = stack
    BY <1>7 DEF CallStep
  <2> HIDE DEF n
  <2> QED  BY <1>1, <2>1, <2>2, BeginKeeps
<1>8. CASE FinishSteps(c)
  BY <1>1, <1>8, ReturnKeeps DEF FinishSteps
<1> QED
  BY <1>5, <1>6, <1>7, <1>8, Zenon DEF Steps

\* A client gives its call up.
LEMMA CancelKeeps ==
    ASSUME CallsInv, NEW c \in Calls, Cancel(c)
    PROVE  CallsInv'
<1>1. config' = config /\ stack' = stack
  BY DEF Cancel
<1>2. /\ owed = [owed EXCEPT ![c] = owed[c]] /\ owed[c] \in Int /\ Len(stack[c]) \in Nat
  BY CallFacts, Owing
<1>3. CASE pc[c] = "entering" /\ RaiseUnlogged(c) /\ UNCHANGED owed
  <2>1. owed' = [owed EXCEPT ![c] = Len(stack[c]) + 1]
    BY <1>2, <1>3, Owing
  <2> QED  BY <1>1, <1>3, <2>1, UnloggedKeeps
<1>4. CASE /\ pc[c] \in {"asking", "executing", "stepping"} /\ Raise(c) /\ UNCHANGED unlogged
           /\ Owe(c, IF pc[c] = "asking" THEN -1 ELSE 0)
  <2>1. owed[c] + (IF pc[c] = "asking" THEN -1 ELSE 0) = Len(stack[c])
    <3>1. CASE pc[c] = "asking"
      <4>1. owed[c] + (-1) = Len(stack[c])
        BY <3>1, Owing
      <4> QED  BY <3>1, <4>1
    <3>2. CASE pc[c] # "asking"
      <4>1. owed[c] = Len(stack[c])
        BY <1>4, <3>2, Owing
      <4> QED  BY <1>2, <3>2, <4>1
    <3> QED  BY <3>1, <3>2
  <2>2. owed' = [owed EXCEPT ![c] = Len(stack[c])]
    <3>1. owed' = [owed EXCEPT ![c] = owed[c] + (IF pc[c] = "asking" THEN -1 ELSE 0)]
      BY <1>4, Owes
    <3> QED  BY <2>1, <3>1, Zenon
  <2> QED  BY <1>1, <1>4, <2>2, RaiseLogged
<1> QED
  BY <1>3, <1>4, Zenon DEF Cancel

-----------------------------------------------------------------------------
(* The invariant *)

IInv == CallsInv /\ RatesInv

LEMMA InitHolds ==
    ASSUME Init
    PROVE  IInv
<1>1. CallsInv
  <2>1. <<>> \in Seq(Frame) /\ Len(<<>>) = 0 /\ MaxDepth \in Nat
    BY EmptySeq, RunAssumption
  <2>2. CallOK("idle", NoTool, <<>>, 0, FALSE, FALSE)
    BY <2>1 DEF CallOK, Locations, InHand, Missing
  <2>3. ASSUME NEW c \in Calls PROVE CallOK(pc[c], name[c], stack[c], owed[c], broken[c], unlogged[c])
    <3>1. pc[c] = "idle" /\ name[c] = NoTool /\ stack[c] = <<>> /\ owed[c] = 0 /\ broken[c] = FALSE
          /\ unlogged[c] = FALSE
      BY DEF Init
    <3> QED  BY <2>2, <3>1
  <2>4. /\ config \in Configs /\ pc \in [Calls -> Locations] /\ name \in [Calls -> Names \cup {NoTool}]
        /\ stack \in [Calls -> Seq(Frame)] /\ owed \in [Calls -> Int]
        /\ broken \in [Calls -> BOOLEAN] /\ unlogged \in [Calls -> BOOLEAN]
    BY <2>1 DEF Init, Locations
  <2> QED  BY <2>3, <2>4 DEF CallsInv
<1>2. RatesInv
  <2>1. hits = [k \in Keys \X Limits |-> <<>>] /\ passed = <<>>
    BY DEF Init, LimiterInit
  <2>2. <<>> \in Seq(Nat) /\ <<>> \in Entries /\ Len(<<>>) = 0 /\ DOMAIN <<>> = {}
    BY EmptySeq DEF Entries
  <2>3. AgesOf(passed) = <<>>
    BY <2>1 DEF AgesOf
  <2>4. ASSUME NEW k \in Keys, NEW l \in Limits PROVE Counts(hits[<<k, l>>], k, l)
    <3>1. hits[<<k, l>>] = <<>>
      BY <2>1
    <3>2. \A age : Young(<<>>, age) = {} /\ Through(k, l, age) = {}
      BY <2>1, <2>2 DEF Young, Through
    <3>3. Counts(<<>>, k, l)
      <4>1. l.amount \in Nat
        BY LimiterAssumption
      <4>2. Falling(<<>>) /\ \A i \in DOMAIN <<>> : <<>>[i] <= l.window
        BY DEF Falling
      <4>3. Len(<<>>) <= l.amount
        BY <2>2, <4>1
      <4>4. \A age : Cardinality(Young(<<>>, age)) = Cardinality(Through(k, l, age))
        BY <3>2, Zenon
      <4> QED  BY <2>2, <4>2, <4>3, <4>4, Zenon DEF Counts
    <3> QED  BY <3>1, <3>3
  <2>5. hits \in [Keys \X Limits -> Seq(Nat)]
    BY <2>1, <2>2
  <2> QED  BY <2>1, <2>2, <2>3, <2>4, <2>5 DEF RatesInv, Falling
<1> QED
  BY <1>1, <1>2 DEF IInv

\* The calls, whoever acts.
LEMMA NextKeepsCalls ==
    ASSUME CallsInv, [Next]_vars
    PROVE  CallsInv'
<1>1. ASSUME NEW c \in Calls, Own(c) PROVE CallsInv'
  BY <1>1, ChecksKeep, TargetKeeps, StepsKeep, Zenon DEF Own
<1>2. ASSUME NEW c \in Calls, Cancel(c) PROVE CallsInv'
  BY <1>2, CancelKeeps
<1>3. ASSUME NEW c \in Calls, NEW n \in Called[c], Start(c, n) PROVE CallsInv'
  BY <1>3, StartKeeps
<1>4. CASE Reload
  BY <1>4 DEF Reload, CallsInv
<1>5. CASE Tick
  BY <1>5 DEF Tick, CallsInv
<1>6. CASE UNCHANGED vars
  BY <1>6 DEF vars, CallsInv
<1> QED
  BY <1>1, <1>2, <1>3, <1>4, <1>5, <1>6, Zenon DEF Next

\* The rates: only a call that is let through and a tick change them.
LEMMA NextKeepsRates ==
    ASSUME IInv, [Next]_vars
    PROVE  RatesInv'
<1>1. ASSUME UNCHANGED <<hits, passed>> PROVE RatesInv'
  <2>1. hits' = hits /\ passed' = passed
    BY <1>1
  <2>2. \A k, l, age : Through(k, l, age)' = Through(k, l, age)
    BY <2>1 DEF Through
  <2> QED  BY <2>1, <2>2 DEF IInv, RatesInv, Counts
<1>2. ASSUME NEW c \in Calls, Enter(c) PROVE RatesInv'
  <2>1. Allow(KeyOf[name[c]], Rules(c).limits) /\ Remember(c) /\ pc[c] = "entering"
    BY <1>2 DEF Enter, Entering
  <2>2. name[c] \in Names
    <3>1. CallOK(pc[c], name[c], stack[c], owed[c], broken[c], unlogged[c])
      BY CallFacts DEF IInv
    <3> QED  BY <2>1, <3>1, Zenon DEF CallOK
  <2>3. KeyOf[name[c]] \in Keys /\ Rules(c).limits \in SUBSET Limits
    BY <2>2, RunAssumption DEF IInv, CallsInv, Rules, Rule
  <2> QED  BY <2>1, <2>3, HitKeepsRates DEF IInv, Remember
<1>3. ASSUME NEW c \in Calls, Own(c) \/ Cancel(c) \/ \E n \in Called[c] : Start(c, n), ~Enter(c)
      PROVE  UNCHANGED <<hits, passed>>
  BY <1>3 DEF Own, Checks, Target, Steps, RefuseByScan, RefuseByRules, RefuseByRate, Disallow, Granted, Denied,
              Answer, Fail, Unwind, SkipStep, CallStep, PlainStep, FinishSteps, Cancel, Start
<1>4. CASE Tick
  BY <1>4, TickKeepsRates DEF IInv
<1>5. CASE Reload \/ UNCHANGED vars
  BY <1>1, <1>5 DEF Reload, vars
<1> QED
  BY <1>1, <1>2, <1>3, <1>4, <1>5, Zenon DEF Next

\* The invariant, and with it the proofs below.
THEOREM Invariant == Spec => []IInv
<1>1. Init => IInv
  BY InitHolds
<1>2. IInv /\ [Next]_vars => IInv'
  BY NextKeepsCalls, NextKeepsRates DEF IInv
<1> QED
  BY <1>1, <1>2, PTL DEF Spec

\* Every variable keeps its type, and a name is held exactly while its call is entered or
\* asked about.
THEOREM TypeCorrect == Spec => []TypeOK
<1>1. IInv => TypeOK
  <2> SUFFICES ASSUME IInv PROVE TypeOK
    OBVIOUS
  <2>1. \A c \in Calls : name[c] # NoTool <=> pc[c] \in {"entering", "asking"}
    <3> SUFFICES ASSUME NEW c \in Calls PROVE name[c] # NoTool <=> pc[c] \in {"entering", "asking"}
      OBVIOUS
    <3>1. CallOK(pc[c], name[c], stack[c], owed[c], broken[c], unlogged[c])
      BY CallFacts DEF IInv
    <3> QED  BY <3>1, Zenon DEF CallOK
  <2> QED  BY <2>1 DEF IInv, CallsInv, RatesInv, TypeOK, LimiterTypeOK, Entries, Entry, Frame
<1> QED
  BY <1>1, Invariant, PTL

\* Everything the limiter counts for a limit is within its window.
LEMMA CountedIsThrough ==
    ASSUME IInv, NEW k \in Keys, NEW l \in Limits
    PROVE  /\ Len(hits[<<k, l>>]) = Cardinality(Through(k, l, l.window))
           /\ Len(hits[<<k, l>>]) <= l.amount
<1> DEFINE s == hits[<<k, l>>]
<1>1. Counts(s, k, l)
  BY DEF IInv, RatesInv
<1> HIDE DEF s
<1>2. Len(s) \in Nat /\ DOMAIN s = 1..Len(s) /\ \A i \in DOMAIN s : s[i] \in Nat
  BY <1>1, LenProperties DEF Counts
<1>3. Young(s, l.window) = 1..Len(s)
  BY <1>1, <1>2 DEF Young, Counts
<1>4. Cardinality(Young(s, l.window)) = Len(s)
  <2>1. Cardinality(1..Len(s)) = IF 1 > Len(s) THEN 0 ELSE Len(s) - 1 + 1
    BY <1>2, FS_Interval
  <2> QED  BY <1>2, <1>3, <2>1
<1>5. l.window \in 0..l.window
  BY LimiterAssumption
<1> QED
  BY <1>1, <1>4, <1>5 DEF Counts, s

\* However calls come about, and whatever is reloaded in between, no limit lets more of them
\* through within its window than its amount.
THEOREM LimitsHold == Spec => []RateHolds
<1>1. IInv => RateHolds
  BY CountedIsThrough DEF RateHolds
<1> QED
  BY <1>1, Invariant, PTL

\* A refused call uses up nothing: the limiter counts exactly the calls it let through.
THEOREM RefusalIsFree == Spec => []RefusedCostNothing
<1>1. IInv => RefusedCostNothing
  BY CountedIsThrough DEF RefusedCostNothing
<1> QED
  BY <1>1, Invariant, PTL

\* Every call past the depth check leaves one row, but for those still under way, and for one
\* in a tree: the innermost, given up while the outbound scan asked, or without an agent.
THEOREM OneRowEach == Spec => []EveryCallOneRow
<1>1. IInv => EveryCallOneRow
  <2> SUFFICES ASSUME IInv, NEW c \in Calls
               PROVE  owed[c] = Len(stack[c]) + InHand(pc[c]) + Missing(unlogged[c])
    BY DEF EveryCallOneRow, InHand, Missing
  <2>1. CallOK(pc[c], name[c], stack[c], owed[c], broken[c], unlogged[c])
    BY CallFacts DEF IInv
  <2> QED  BY <2>1, Zenon DEF CallOK
<1> QED
  BY <1>1, Invariant, PTL

\* However definitions call each other, no more than _MAX_CALL_DEPTH calls are nested, with the
\* one that is being entered or asked about.
THEOREM DepthIsBounded == Spec => [](\A c \in Calls : Len(stack[c]) + InHand(pc[c]) <= MaxDepth)
<1>1. IInv => \A c \in Calls : Len(stack[c]) + InHand(pc[c]) <= MaxDepth
  <2> SUFFICES ASSUME IInv, NEW c \in Calls PROVE Len(stack[c]) + InHand(pc[c]) <= MaxDepth
    OBVIOUS
  <2>1. /\ CallOK(pc[c], name[c], stack[c], owed[c], broken[c], unlogged[c])
        /\ Len(stack[c]) \in Nat
    BY CallFacts DEF IInv
  <2>2. /\ Len(stack[c]) <= MaxDepth
        /\ pc[c] \in {"entering", "asking"} => Len(stack[c]) < MaxDepth
    BY <2>1, Zenon DEF CallOK
  <2>3. MaxDepth \in Nat
    BY RunAssumption
  <2>4. Len(stack[c]) \in Nat
    BY <2>1
  <2>5. CASE pc[c] \in {"entering", "asking"}
    <3>1. InHand(pc[c]) = 1
      BY <2>5 DEF InHand
    <3> QED  BY <2>2, <2>3, <2>4, <2>5, <3>1
  <2>6. CASE pc[c] \notin {"entering", "asking"}
    <3>1. InHand(pc[c]) = 0
      BY <2>6 DEF InHand
    <3> QED  BY <2>2, <2>3, <2>4, <3>1
  <2> QED  BY <2>5, <2>6
<1> QED
  BY <1>1, Invariant, PTL

-----------------------------------------------------------------------------
(* Failure is final *)

GivesUp(c) == /\ Len(stack'[c]) <= Len(stack[c])
              /\ stack'[c] = SubSeq(stack[c], 1, Len(stack'[c]))

\* A call that does nothing gives nothing up.
LEMMA StackStays ==
    ASSUME CallsInv, NEW c \in Calls, stack'[c] = stack[c]
    PROVE  GivesUp(c)
<1>1. stack[c] \in Seq(Frame)
  BY DEF CallsInv
<1>2. SubSeq(stack[c], 1, Len(stack[c])) = stack[c] /\ Len(stack[c]) \in Nat
  BY <1>1, SubSeqFull, LenProperties
<1> QED
  BY <1>2 DEF GivesUp

\* Another call's step leaves a stack alone.
LEMMA OthersStackStays ==
    ASSUME CallsInv, NEW c \in Calls, NEW d \in Calls, d # c,
           Own(d) \/ Cancel(d) \/ \E n \in Called[d] : Start(d, n)
    PROVE  stack'[c] = stack[c]
<1>1. ASSUME NEW frames, stack' = [stack EXCEPT ![d] = frames] PROVE stack'[c] = stack[c]
  BY <1>1 DEF CallsInv
<1>2. ASSUME Run(d) PROVE stack'[c] = stack[c]
  BY <1>1, <1>2 DEF Run, Push, Deny
<1>3. CASE Checks(d)
  BY <1>2, <1>3 DEF Checks, RefuseByScan, RefuseByRules, RefuseByRate, Enter, Checked, Deny
<1>4. CASE Target(d)
  BY <1>1, <1>2, <1>4 DEF Target, Granted, Denied, Deny, Answer, Return, Fail, Unwind
<1>5. CASE Steps(d)
  BY <1>1, <1>5 DEF Steps, SkipStep, Advance, CallStep, PlainStep, FinishSteps, Return
<1>6. CASE Cancel(d) \/ \E n \in Called[d] : Start(d, n)
  BY <1>6 DEF Cancel, Start
<1> QED
  BY <1>3, <1>4, <1>5, <1>6, Zenon DEF Own

\* A call in which something failed can only give up its frames.
LEMMA BrokenOnlyUnwinds ==
    ASSUME CallsInv, NEW c \in Calls, broken[c],
           Own(c) \/ Cancel(c) \/ \E n \in Called[c] : Start(c, n)
    PROVE  GivesUp(c)
<1>1. CallOK(pc[c], name[c], stack[c], owed[c], broken[c], unlogged[c])
  BY CallFacts
<1>2. pc[c] \in {"failing", "ended"}
  BY <1>1, Zenon DEF CallOK
<1>3. Unwind(c)
  BY <1>2 DEF Own, Checks, Target, Steps, RefuseByScan, RefuseByRules, RefuseByRate, Enter, Entering, Granted,
              Denied, Answer, Fail, SkipStep, CallStep, PlainStep, FinishSteps, AtStep, Cancel, Start
<1>4. stack[c] # <<>>
  <2>1. pc[c] = "failing"
    BY <1>3 DEF Unwind
  <2> QED  BY <1>1, <2>1, Zenon DEF CallOK
<1>5. Len(stack[c]) \in Nat \ {0} /\ Len(Below(c)) = Len(stack[c]) - 1
  BY <1>4, BelowFrames
<1>6. stack'[c] = Below(c)
  BY <1>3 DEF Unwind, CallsInv
<1> QED
  BY <1>5, <1>6 DEF GivesUp, Below

\* Once anything in a tree was refused, failed or was cancelled, nothing more is run in it:
\* what is under way above and below it is only given up.
THEOREM FailureEnds == Spec => FailureIsFinal
<1>1. ASSUME IInv, [Next]_vars, NEW c \in Calls, broken[c]
      PROVE  GivesUp(c)
  <2>1. ASSUME NEW d \in Calls, Own(d) \/ Cancel(d) \/ \E n \in Called[d] : Start(d, n)
        PROVE  GivesUp(c)
    <3>1. CASE d = c
      BY <1>1, <2>1, <3>1, BrokenOnlyUnwinds DEF IInv
    <3>2. CASE d # c
      <4>1. stack'[c] = stack[c]
        BY <1>1, <2>1, <3>2, OthersStackStays DEF IInv
      <4> QED  BY <1>1, <4>1, StackStays DEF IInv
    <3> QED  BY <3>1, <3>2
  <2>2. CASE Reload \/ Tick \/ UNCHANGED vars
    <3>1. stack' = stack
      BY <2>2 DEF Reload, Tick, vars
    <3> QED  BY <1>1, <3>1, StackStays DEF IInv
  <2> QED  BY <1>1, <2>1, <2>2, Zenon DEF Next
<1>2. IInv /\ [Next]_vars =>
          [\A c \in Calls : broken[c] => /\ Len(stack'[c]) <= Len(stack[c])
                                         /\ stack'[c] = SubSeq(stack[c], 1, Len(stack'[c]))]_vars
  BY <1>1, Zenon DEF GivesUp
<1> QED
  BY <1>2, Invariant, PTL DEF Spec, FailureIsFinal

=============================================================================
