------------------------ MODULE ModuleSupervisorProofs ------------------------
(***************************************************************************)
(* The restart budget of ModuleSupervisor, for any modules, policies and   *)
(* environment.                                                            *)
(*                                                                         *)
(* onUnexpectedExit judges by m_deaths alone, from which every earlier     *)
(* judgement has already erased what its own window left out. The invariant *)
(* says that nothing is lost by that: m_deaths is the end of the whole     *)
(* history, and what comes before it is older than the window of the last  *)
(* death, hence than that of every later one.                              *)
(***************************************************************************)
EXTENDS ModuleSupervisor, FiniteSetTheorems, WellFoundedInduction, TLAPS

\* m_deaths is the end of the history.
Recorded(n) ==
    /\ Len(deaths[n]) <= Len(history[n])
    /\ \A j \in 1..Len(deaths[n]) :
          deaths[n][j] = history[n][Len(history[n]) - Len(deaths[n]) + j].at

\* The clock does not run backwards.
Ordered(n) ==
    /\ \A i, j \in 1..Len(history[n]) : i <= j => history[n][i].at <= history[n][j].at
    /\ \A i \in 1..Len(history[n]) : history[n][i].at <= now

\* What was erased had left the window by the last death; with supervision off
\* nothing is recorded.
Erased(n) ==
    history[n] # <<>> =>
        /\ policy.max > 0
        /\ \A i \in 1..(Len(history[n]) - Len(deaths[n])) :
              history[n][i].at < history[n][Len(history[n])].at - policy.window

Remembered == \A n \in Names : Recorded(n) /\ Ordered(n) /\ Erased(n)

IInv == TypeOK /\ Remembered /\ WindowBudget /\ ExhaustionEarned

-----------------------------------------------------------------------------
(* Positions.                                                              *)

\* A set of naturals has a least member.
LEMMA LeastMember ==
    ASSUME NEW T \in SUBSET Nat, T # {}
    PROVE  \E x \in T : \A y \in T : x <= y
<1> DEFINE R == OpToRel(<, Nat)
<1>1. IsWellFoundedOn(R, Nat) /\ \A x, y \in Nat : y < x => <<y, x>> \in R
  BY NatLessThanWellFounded DEF OpToRel
<1> HIDE DEF R
<1>2. PICK x \in T : \A y \in T : ~(<<y, x>> \in R)
  BY <1>1, WFMin
<1>3. \A y \in T : ~(y < x)
  BY <1>1, <1>2
<1> QED
  BY <1>3

\* Positions that are closed upwards are those from some k on.
LEMMA UpwardClosed ==
    ASSUME NEW L \in Nat, NEW K \in SUBSET (1..L),
           \A i \in K : \A j \in 1..L : i <= j => j \in K
    PROVE  \E k \in 1..(L + 1) : K = k..L
<1>1. CASE K = {}
  <2>1. L + 1 \in 1..(L + 1) /\ K = (L + 1)..L
    BY <1>1
  <2> QED
    BY <2>1
<1>2. CASE K # {}
  <2>1. PICK k \in K : \A y \in K : k <= y
    BY <1>2, LeastMember
  <2>2. k \in 1..L /\ \A j : j \in K <=> j \in 1..L /\ k <= j
    BY <2>1
  <2>3. k \in 1..(L + 1) /\ \A j : j \in k..L <=> j \in 1..L /\ k <= j
    BY <2>2
  <2>4. K = k..L
    BY <2>2, <2>3
  <2> QED
    BY <2>3, <2>4
<1> QED
  BY <1>1, <1>2

\* The members of a sequence.
LEMMA Members ==
    ASSUME NEW S, NEW s \in Seq(S) PROVE \A i \in 1..Len(s) : s[i] \in S
  OBVIOUS

\* What Append adds.
LEMMA AppendEnds ==
    ASSUME NEW S, NEW s \in Seq(S), NEW x \in S
    PROVE  /\ Append(s, x) \in Seq(S) /\ Len(Append(s, x)) = Len(s) + 1
           /\ Append(s, x)[Len(s) + 1] = x /\ \A i \in 1..Len(s) : Append(s, x)[i] = s[i]
  OBVIOUS

\* What is kept of a sequence's end is that end.
LEMMA KeepEnd ==
    ASSUME NEW S, NEW s \in Seq(S), NEW k \in 1..(Len(s) + 1)
    PROVE  LET t == Keep(s, k..Len(s))
           IN  /\ t \in Seq(S) /\ Len(t) = Len(s) - k + 1
               /\ \A j \in 1..Len(t) : t[j] = s[k - 1 + j]
<1> DEFINE L == Len(s)
           I == k..L
           t == Keep(s, I)
<1>1. L \in Nat /\ k \in Nat /\ Cardinality(I) = L - k + 1
  <2>1. L \in Nat /\ k \in Int /\ L \in Int /\ k <= L + 1
    OBVIOUS
  <2> HIDE DEF L
  <2>2. Cardinality(k..L) = IF k > L THEN 0 ELSE L - k + 1
    BY <2>1, FS_Interval
  <2> QED
    BY <2>1, <2>2
<1>2. ASSUME NEW i \in I PROVE Rank(I, i) = i - k + 1
  <2>1. {x \in I : x <= i} = k..i
    BY <1>1
  <2>2. Cardinality(k..i) = i - k + 1
    BY <1>1, FS_Interval
  <2> QED
    BY <2>1, <2>2 DEF Rank
<1>3. ASSUME NEW j \in 1..(L - k + 1)
      PROVE  (CHOOSE i \in I : Rank(I, i) = j) = k - 1 + j
  <2>1. k - 1 + j \in I /\ \A i \in I : Rank(I, i) = j <=> i = k - 1 + j
    BY <1>1, <1>2
  <2> HIDE DEF I
  <2> QED
    BY <2>1
<1>4. t = [j \in 1..(L - k + 1) |-> s[CHOOSE i \in I : Rank(I, i) = j]]
  BY <1>1 DEF Keep
<1>5. \A j \in 1..(L - k + 1) : t[j] = s[k - 1 + j] /\ s[k - 1 + j] \in S
  <2> HIDE DEF t
  <2> SUFFICES ASSUME NEW j \in 1..(L - k + 1)
               PROVE  t[j] = s[k - 1 + j] /\ s[k - 1 + j] \in S
    OBVIOUS
  <2>1. t[j] = s[CHOOSE i \in I : Rank(I, i) = j]
    BY <1>4
  <2>2. t[j] = s[k - 1 + j]
    BY <2>1, <1>3
  <2>3. k - 1 + j \in 1..Len(s)
    BY <1>1
  <2>4. s[k - 1 + j] \in S
    BY <2>3
  <2> QED
    BY <2>2, <2>4
<1>6. t \in [1..(L - k + 1) -> S] /\ L - k + 1 \in Nat
  <2>1. \A j \in 1..(L - k + 1) : s[CHOOSE i \in I : Rank(I, i) = j] \in S
    BY <1>3, <1>5
  <2>2. t \in [1..(L - k + 1) -> S]
    <3> HIDE DEF L, I, t
    <3> QED
      BY <1>4, <2>1, Zenon
  <2> QED
    BY <1>1, <2>2
<1>7. t \in Seq(S) /\ Len(t) = L - k + 1
  <2> HIDE DEF t, L
  <2> QED
    BY <1>6
<1> QED
  BY <1>5, <1>7

-----------------------------------------------------------------------------
(* Types.                                                                  *)

\* policyFromEnvironment yields a policy.
LEMMA EnvironmentTyped ==
    ASSUME NEW f \in Envs
    PROVE  PolicyFromEnvironment(f) \in [max : Int, window : Nat, backoff : Nat]
<1>1. f \in Seq(Int) /\ IntMax \in Nat \ {0}
  BY SupervisorAssumption
<1>2. CASE f = <<>> \/ Len(f) > 3 \/ \E i \in DOMAIN f : f[i] < 0
  BY <1>2 DEF PolicyFromEnvironment, Off, DefaultWindow, DefaultBackoff
<1>3. CASE ~(f = <<>> \/ Len(f) > 3 \/ \E i \in DOMAIN f : f[i] < 0)
  <2>1. Len(f) \in Nat /\ Len(f) > 0 /\ \A i \in 1..Len(f) : f[i] \in Nat
    BY <1>1, <1>3
  <2>2. ToInt(f[1]) \in Int
    <3>1. f[1] \in Int /\ 2 * IntMax + 2 \in Nat /\ 2 * IntMax + 2 > 0
      BY <1>1, <2>1
    <3>2. (f[1] + IntMax + 1) % (2 * IntMax + 2) \in Int
      BY <1>1, <3>1
    <3> QED
      BY <1>1, <3>2 DEF ToInt
  <2>3. /\ Len(f) > 1 => f[2] \in Nat
        /\ Len(f) > 2 => f[3] \in Nat
    BY <2>1
  <2> QED
    BY <1>3, <2>2, <2>3 DEF PolicyFromEnvironment, DefaultWindow, DefaultBackoff
<1> QED
  BY <1>2, <1>3

\* A death in the window's terms: what is kept of m_deaths is its end.
LEMMA WindowIsEnd ==
    ASSUME TypeOK, NEW n \in Names, Recorded(n), Ordered(n)
    PROVE  \E k \in 1..(Len(deaths[n]) + 1) :
              /\ \A i \in 1..Len(deaths[n]) : i >= k <=> deaths[n][i] >= now - policy.window
              /\ InWindow(n) \in Seq(Nat) /\ Len(InWindow(n)) = Len(deaths[n]) - k + 1
              /\ \A j \in 1..Len(InWindow(n)) : InWindow(n)[j] = deaths[n][k - 1 + j]
<1> DEFINE d == deaths[n]
           L == Len(d)
           K == {i \in DOMAIN d : d[i] >= now - policy.window}
<1>1. d \in Seq(Nat) /\ L \in Nat /\ DOMAIN d = 1..L
  BY DEF TypeOK
<1>2. \A i \in 1..L : \A j \in 1..L : i <= j => d[i] <= d[j]
  <2> DEFINE H == Len(history[n])
  <2>1. H \in Nat /\ L <= H
    BY DEF TypeOK, Recorded
  <2>2. \A j \in 1..L : d[j] = history[n][H - L + j].at
    BY DEF Recorded
  <2>3. \A i, j \in 1..H : i <= j => history[n][i].at <= history[n][j].at
    BY DEF Ordered
  <2> HIDE DEF H, L, d
  <2>4. \A i \in 1..L : H - L + i \in 1..H
    BY <1>1, <2>1
  <2>5. ASSUME NEW i \in 1..L, NEW j \in 1..L, i <= j PROVE d[i] <= d[j]
    <3>1. H - L + i \in 1..H /\ H - L + j \in 1..H /\ H - L + i <= H - L + j
      BY <1>1, <2>1, <2>4, <2>5
    <3> QED
      BY <3>1, <2>2, <2>3
  <2> QED
    BY <2>5
<1>3. now - policy.window \in Int
  BY SupervisorAssumption DEF TypeOK
<1>4. K \subseteq 1..L /\ \A i \in K : \A j \in 1..L : i <= j => j \in K
  <2>1. \A i \in 1..L : d[i] \in Nat
    BY <1>1
  <2> HIDE DEF d
  <2> QED
    BY <1>1, <1>2, <1>3, <2>1
<1>5. PICK k \in 1..(L + 1) : K = k..L
  BY <1>1, <1>4, UpwardClosed
<1>6. \A i \in 1..L : i >= k <=> d[i] >= now - policy.window
  <2>1. \A i \in 1..L : i \in K <=> d[i] >= now - policy.window
    BY <1>1
  <2>2. \A i \in 1..L : i \in k..L <=> i >= k
    BY <1>1
  <2> QED
    BY <1>5, <2>1, <2>2
<1>7. InWindow(n) = Keep(d, k..L)
  BY <1>5 DEF InWindow
<1>8. /\ Keep(d, k..L) \in Seq(Nat) /\ Len(Keep(d, k..L)) = L - k + 1
      /\ \A j \in 1..Len(Keep(d, k..L)) : Keep(d, k..L)[j] = d[k - 1 + j]
  <2> HIDE DEF d
  <2> QED
    BY <1>1, KeepEnd
<1> QED
  BY <1>6, <1>7, <1>8

-----------------------------------------------------------------------------
(* What a step does to one module's record.                                *)

Budgeted(n) == \A i \in DOMAIN history[n] :
    Cardinality({j \in Covered(n, i) : history[n][j].granted}) <= policy.max
Earned(n) == \A i \in DOMAIN history[n] :
    ~history[n][i].granted => Cardinality(Covered(n, i)) > policy.max
Good(n) == Recorded(n) /\ Ordered(n) /\ Erased(n) /\ Budgeted(n) /\ Earned(n)

\* The invariant is that every module's record is good.
LEMMA GoodRecords == IInv <=> TypeOK /\ \A n \in Names : Good(n)
  BY DEF IInv, Remembered, WindowBudget, ExhaustionEarned, Good, Budgeted, Earned

\* A step that leaves the record and the policy alone keeps it good.
LEMMA GoodKept ==
    ASSUME TypeOK, TypeOK', NEW n \in Names, Good(n), now <= now', policy' = policy,
           deaths'[n] = deaths[n], history'[n] = history[n]
    PROVE  Good(n)'
<1>1. now \in Nat /\ now' \in Nat /\ \A i \in 1..Len(history[n]) : history[n][i].at \in Nat
  <2>1. history[n] \in Seq([at : Nat, granted : BOOLEAN])
    BY DEF TypeOK
  <2>2. \A i \in 1..Len(history[n]) : history[n][i] \in [at : Nat, granted : BOOLEAN]
    BY <2>1, Members
  <2>3. now \in Nat /\ now' \in Nat
    BY SupervisorAssumption DEF TypeOK
  <2> QED
    BY <2>2, <2>3
<1>2. Recorded(n)' /\ Erased(n)'
  BY DEF Good, Recorded, Erased
<1>3. Ordered(n)'
  BY <1>1 DEF Good, Ordered
<1>4. \A i : Covered(n, i)' = Covered(n, i)
  BY DEF Covered
<1>5. Budgeted(n)' /\ Earned(n)'
  BY <1>4 DEF Good, Budgeted, Earned
<1> QED
  BY <1>2, <1>3, <1>5 DEF Good

\* A record started over is good.
LEMMA GoodFresh ==
    ASSUME NEW n \in Names, deaths'[n] = <<>>, history'[n] = <<>>
    PROVE  Good(n)'
  BY DEF Good, Recorded, Ordered, Erased, Budgeted, Earned

\* onUnexpectedExit with supervision on: what it records, and that the deaths it
\* counts are all those of the whole history that its window covers.
LEMMA Judged ==
    ASSUME TypeOK, NEW n \in Names, Good(n), UnexpectedExit(n), policy.max > 0,
           NEW last, last = Len(history[n]) + 1
    PROVE  LET h == history[n]
               r == Len(InWindow(n)) + 1
               g == [at |-> now, granted |-> WithinBudget(r)]
           IN  /\ deaths'[n] = Append(InWindow(n), now)
               /\ history'[n] = Append(h, g)
               /\ r \in 1..(Len(h) + 1)
               /\ Covered(n, last)' = (last + 1 - r)..last
               /\ \A j \in 1..r : deaths'[n][j] = history'[n][Len(h) + 1 - r + j].at
               /\ \A i \in 1..(Len(h) + 1 - r) : h[i].at < now - policy.window
<1> DEFINE h == history[n]
           H == Len(h)
           d == deaths[n]
           L == Len(d)
           w == InWindow(n)
           r == Len(w) + 1
           g == [at |-> now, granted |-> WithinBudget(r)]
           c == now - policy.window
<1>1. PICK k \in 1..(L + 1) :
         /\ \A i \in 1..L : i >= k <=> d[i] >= c
         /\ w \in Seq(Nat) /\ Len(w) = L - k + 1
         /\ \A j \in 1..Len(w) : w[j] = d[k - 1 + j]
  BY WindowIsEnd DEF Good
<1>2. /\ L \in Nat /\ H \in Nat /\ L <= H /\ r = L - k + 2 /\ c \in Int /\ now \in Nat
      /\ policy.window \in Nat /\ c <= now
  BY <1>1, SupervisorAssumption DEF TypeOK, Good, Recorded
<1>2a. h \in Seq([at : Nat, granted : BOOLEAN])
  BY DEF TypeOK
<1>3. /\ deaths' = [deaths EXCEPT ![n] = Append(w, now)]
      /\ history' = [history EXCEPT ![n] = Append(@, [at |-> now,
                        granted |-> WithinBudget(Len(Append(w, now)))])]
      /\ policy' = policy
  BY SMTT(30) DEF UnexpectedExit, TypeOK
<1>4. Len(Append(w, now)) = r /\ deaths'[n] = Append(w, now) /\ history'[n] = Append(h, g)
  <2>1. Len(Append(w, now)) = r
    <3> HIDE DEF w
    <3> QED
      BY <1>1, <1>2, AppendEnds DEF r
  <2> QED
    BY <1>3, <2>1 DEF TypeOK
<1>5. /\ \A j \in 1..L : d[j] = h[H - L + j].at
      /\ \A i, j \in 1..H : i <= j => h[i].at <= h[j].at
      /\ \A i \in 1..H : h[i].at <= now /\ h[i].at \in Nat
      /\ \A i \in 1..(H - L) : h[i].at < h[H].at - policy.window
  <2>1. h # <<>> => \A i \in 1..(H - L) : h[i].at < h[H].at - policy.window
    BY DEF Good, Erased
  <2>2. h = <<>> => H = 0 /\ L = 0
    BY <1>2a, <1>2
  <2>3. \A i \in 1..(H - L) : h[i].at < h[H].at - policy.window
    <3> HIDE DEF h, H, L
    <3> QED
      BY <1>2, <2>1, <2>2
  <2>4. \A i \in 1..H : h[i] \in [at : Nat, granted : BOOLEAN]
    BY <1>2a, Members
  <2>5. \A i \in 1..H : h[i].at \in Nat
    BY <2>4
  <2>6. /\ \A j \in 1..L : d[j] = h[H - L + j].at
        /\ \A i, j \in 1..H : i <= j => h[i].at <= h[j].at
        /\ \A i \in 1..H : h[i].at <= now
    BY DEF Good, Recorded, Ordered
  <2> QED
    BY <2>3, <2>5, <2>6
<1> DEFINE h2 == Append(h, g)
<1>6. h2 \in Seq([at : Nat, granted : BOOLEAN]) /\ Len(h2) = H + 1 /\ h2[H + 1].at = now
      /\ \A i \in 1..H : h2[i] = h[i]
  <2>1. g \in [at : Nat, granted : BOOLEAN]
    BY <1>2 DEF WithinBudget
  <2> HIDE DEF g, H
  <2>2. /\ h2 \in Seq([at : Nat, granted : BOOLEAN]) /\ Len(h2) = Len(h) + 1
        /\ h2[Len(h) + 1] = g /\ \A i \in 1..Len(h) : h2[i] = h[i]
    BY <1>2a, <2>1, AppendEnds
  <2> QED
    BY <2>2 DEF g, H
<1>7. \A i \in 1..H : i >= H + 2 - r <=> h[i].at >= c
  <2> HIDE DEF h, H, d, L, w, r
  <2> SUFFICES ASSUME NEW i \in 1..H PROVE i >= H + 2 - r <=> h[i].at >= c
    OBVIOUS
  <2>1. CASE i > H - L
    <3>1. i - (H - L) \in 1..L /\ d[i - (H - L)] = h[i].at
      BY <1>2, <1>5, <2>1
    <3>2. i - (H - L) >= k <=> h[i].at >= c
      BY <1>1, <3>1
    <3> QED
      BY <1>2, <3>2
  <2>2. CASE i <= H - L
    <3>1. i \in 1..(H - L) /\ H \in 1..H
      BY <1>2, <2>2
    <3>2. h[i].at < h[H].at - policy.window /\ h[H].at <= now /\ h[H].at \in Nat
      BY <1>5, <3>1
    <3>3. h[i].at \in Nat
      BY <1>5
    <3>4. h[i].at < c
      BY <1>2, <3>2, <3>3, SMTT(30)
    <3> HIDE DEF c
    <3> QED
      BY <1>2, <2>2, <3>3, <3>4
  <2> QED
    BY <1>2, <2>1, <2>2
<1>8. r \in 1..(H + 1)
  <2> HIDE DEF H, L, w, r
  <2> QED
    BY <1>2
<1>9. Covered(n, last)' = (H + 2 - r)..(H + 1)
  <2>1. Covered(n, last)' = {j \in 1..(H + 1) : h2[j].at >= h2[H + 1].at - policy.window}
    <3>1. history'[n] = h2 /\ policy' = policy
      BY <1>3, <1>4
    <3>2. Covered(n, last)' =
             {j \in 1..last : history'[n][j].at >= history'[n][last].at - policy'.window}
      BY DEF Covered
    <3>3. last = H + 1
      OBVIOUS
    <3> HIDE DEF h2, H
    <3> QED
      BY <3>1, <3>2, <3>3
  <2> HIDE DEF h, H, d, L, w, r, g, h2, c
  <2>2. \A j \in 1..(H + 1) : h2[j].at >= c <=> j >= H + 2 - r
    <3>0. H \in Nat /\ r \in 1..(H + 1) /\ c \in Int /\ now \in Nat /\ c <= now
      BY <1>2, <1>8
    <3>1. h2[H + 1].at >= c /\ H + 1 >= H + 2 - r
      BY <3>0, <1>6
    <3>2. \A j \in 1..H : h2[j].at = h[j].at
      BY <1>6
    <3>3. \A j \in 1..(H + 1) : j = H + 1 \/ j \in 1..H
      BY <1>2
    <3> QED
      BY <1>7, <3>1, <3>2, <3>3
  <2>3. Covered(n, last)' = {j \in 1..(H + 1) : j >= H + 2 - r}
    BY <1>6, <2>1, <2>2 DEF c
  <2>4. \A j : j \in (H + 2 - r)..(H + 1) <=> j \in 1..(H + 1) /\ j >= H + 2 - r
    <3>1. H \in Nat /\ r \in 1..(H + 1)
      BY <1>2, <1>8
    <3> QED
      BY <3>1
  <2> QED
    BY <2>3, <2>4
<1>10. \A j \in 1..r : deaths'[n][j] = history'[n][H + 1 - r + j].at
  <2>1. /\ Append(w, now)[r] = now
        /\ \A j \in 1..(r - 1) : Append(w, now)[j] = w[j]
    <3> HIDE DEF w
    <3>1. Len(w) \in Nat /\ r - 1 = Len(w)
      BY <1>1
    <3> QED
      BY <1>1, <1>2, <3>1, AppendEnds, SMTT(30)
  <2> SUFFICES ASSUME NEW j \in 1..r PROVE Append(w, now)[j] = h2[H + 1 - r + j].at
    BY <1>4
  <2> HIDE DEF h, H, d, L, w, r, h2
  <2>2. CASE j = r
    <3>1. H + 1 - r + j = H + 1
      BY <1>2, <1>8, <2>2
    <3> QED
      BY <1>6, <2>1, <2>2, <3>1
  <2>3. CASE j # r
    <3>1. j \in 1..(r - 1) /\ j \in 1..Len(w)
      BY <1>2, <1>8, <2>3 DEF r
    <3>2. Append(w, now)[j] = d[k - 1 + j] /\ k - 1 + j \in 1..L
      BY <1>1, <1>2, <2>1, <3>1
    <3>3. d[k - 1 + j] = h[H - L + (k - 1 + j)].at
      BY <1>5, <3>2
    <3>4. H - L + (k - 1 + j) = H + 1 - r + j /\ H + 1 - r + j \in 1..H
      <4>1. /\ H \in Nat /\ L \in Nat /\ L <= H /\ r = L - k + 2 /\ k \in Nat
            /\ j \in Nat /\ j >= 1 /\ k - 1 + j <= L /\ k - 1 + j >= 1
        BY <1>2, <3>1, <3>2
      <4> QED
        BY <4>1
    <3> QED
      BY <1>6, <3>2, <3>3, <3>4
  <2> QED
    BY <2>2, <2>3
<1>11. \A i \in 1..(H + 1 - r) : h[i].at < c
  <2> HIDE DEF h, H, d, L, w, r, g, c, h2
  <2>1. H \in Nat /\ r \in 1..(H + 1) /\ c \in Int
    BY <1>2, <1>8
  <2>1a. \A i \in 1..(H + 1 - r) : i \in 1..H /\ ~(i >= H + 2 - r)
    BY <2>1
  <2>2. \A i \in 1..(H + 1 - r) : ~(h[i].at >= c) /\ h[i].at \in Nat
    BY <1>5, <1>7, <2>1a
  <2> QED
    BY <2>1, <2>2
<1>12. (H + 2 - r)..(H + 1) = (last + 1 - r)..last
  <2>1. last = H + 1 /\ H \in Nat /\ r \in 1..(H + 1)
    BY <1>2, <1>8
  <2> HIDE DEF H, r
  <2> QED
    BY <2>1
<1> QED
  BY <1>4, <1>8, <1>9, <1>10, <1>11, <1>12

\* The judgement keeps the record good: what is refused was earned, what is
\* granted fits the budget, and of the granted ones a refused death's window
\* covers no more than the window of the last of them did.
LEMMA GoodJudged ==
    ASSUME TypeOK, TypeOK', NEW n \in Names, Good(n), UnexpectedExit(n), policy.max > 0
    PROVE  Good(n)'
<1> DEFINE h == history[n]
           H == Len(h)
           r == Len(InWindow(n)) + 1
           g == [at |-> now, granted |-> WithinBudget(r)]
           h2 == history'[n]
<1>1. PICK last : last = H + 1
  OBVIOUS
<1>2. /\ deaths'[n] = Append(InWindow(n), now)
      /\ h2 = Append(h, g)
      /\ r \in 1..(H + 1)
      /\ Covered(n, last)' = (last + 1 - r)..last
      /\ \A j \in 1..r : deaths'[n][j] = h2[H + 1 - r + j].at
      /\ \A i \in 1..(H + 1 - r) : h[i].at < now - policy.window
  BY <1>1, Judged
<1>3. /\ H \in Nat /\ last \in Nat /\ now \in Nat /\ policy.window \in Nat /\ policy.max \in Int
      /\ policy' = policy /\ now' = now
  BY <1>1, SupervisorAssumption, SMTT(30) DEF TypeOK, UnexpectedExit
<1>3a. r \in Nat /\ 1 <= r /\ r <= last /\ last = H + 1
  <2>1. r \in 1..(H + 1) /\ last = H + 1
    BY <1>1, <1>2
  <2> HIDE DEF H, r
  <2> QED
    BY <1>3, <2>1
<1>4. h \in Seq([at : Nat, granted : BOOLEAN]) /\ h2 \in Seq([at : Nat, granted : BOOLEAN])
  BY DEF TypeOK
<1>5. Len(h2) = last /\ h2[last] = g /\ \A i \in 1..H : h2[i] = h[i]
  <2>1. g \in [at : Nat, granted : BOOLEAN]
    BY <1>3 DEF WithinBudget
  <2> HIDE DEF g, h2
  <2>2. /\ Len(h2) = Len(h) + 1 /\ h2[Len(h) + 1] = g
        /\ \A i \in 1..Len(h) : h2[i] = h[i]
    BY <1>2, <1>4, <2>1, AppendEnds
  <2> QED
    BY <1>1, <2>2
<1>6. Len(deaths'[n]) = r
  <2>1. InWindow(n) \in Seq(Nat)
    BY WindowIsEnd DEF Good
  <2> HIDE DEF h, h2
  <2> QED
    BY <1>2, <1>3, <2>1, AppendEnds
<1>7. /\ \A i \in 1..H : h2[i].at \in Nat /\ h2[i].at <= now
      /\ \A i, j \in 1..H : i <= j => h2[i].at <= h2[j].at
  <2>1. \A i \in 1..H : h[i].at \in Nat
    <3>1. \A i \in 1..H : h[i] \in [at : Nat, granted : BOOLEAN]
      BY <1>4, Members
    <3> QED
      BY <3>1
  <2>2. /\ \A i, j \in 1..H : i <= j => h[i].at <= h[j].at
        /\ \A i \in 1..H : h[i].at <= now
    BY DEF Good, Ordered
  <2> HIDE DEF h, h2, H
  <2> QED
    BY <1>5, <2>1, <2>2
<1>8. \A i \in 1..last : i \in 1..H \/ i = last
  BY <1>1, <1>3
<1>9. Recorded(n)'
  <2>1. H + 1 - r = Len(h2) - Len(deaths'[n]) /\ Len(deaths'[n]) <= Len(h2)
    <3> HIDE DEF h, H, r, h2
    <3> QED
      BY <1>3, <1>3a, <1>5, <1>6
  <2> HIDE DEF h, H, r, h2
  <2>2. \A j \in 1..Len(deaths'[n]) : deaths'[n][j] = h2[Len(h2) - Len(deaths'[n]) + j].at
    BY <1>2, <1>6, <2>1
  <2> QED
    BY <2>1, <2>2 DEF Recorded, h2
<1>10. Ordered(n)'
  <2>1. h2[last].at = now
    BY <1>5
  <2>2. \A i \in 1..last : h2[i].at <= now /\ h2[i].at \in Nat
    <3> HIDE DEF h2
    <3> QED
      BY <1>3, <1>7, <1>8, <2>1
  <2>3. ASSUME NEW i \in 1..last, NEW j \in 1..last, i <= j PROVE h2[i].at <= h2[j].at
    <3> HIDE DEF h2, H
    <3>1. CASE j = last
      BY <2>1, <2>2, <3>1
    <3>2. CASE j # last
      <4>1. j \in 1..H /\ i \in 1..H
        BY <1>1, <1>3, <1>8, <2>3, <3>2
      <4> QED
        BY <1>7, <2>3, <4>1
    <3> QED
      BY <3>1, <3>2
  <2> QED
    BY <1>3, <1>5, <2>2, <2>3 DEF Ordered
<1>11. Erased(n)'
  <2>1. h2[last].at = now
    BY <1>5
  <2>2. ASSUME NEW i \in 1..(last - r) PROVE h2[i].at < now - policy.window
    <3> HIDE DEF h, h2, H, r
    <3>1. i \in 1..(H + 1 - r) /\ i \in 1..H
      BY <1>3, <1>3a
    <3> QED
      BY <1>2, <1>5, <3>1
  <2> HIDE DEF r
  <2> QED
    BY <1>3, <1>5, <1>6, <2>1, <2>2 DEF Erased
<1>12. ASSUME NEW i \in 1..H
       PROVE  /\ Covered(n, i)' = Covered(n, i)
              /\ {j \in Covered(n, i)' : h2[j].granted} = {j \in Covered(n, i) : h[j].granted}
  <2>1. \A j \in 1..i : j \in 1..H /\ h2[j] = h[j]
    BY <1>3, <1>5
  <2>2. Covered(n, i)' = {j \in 1..i : h2[j].at >= h2[i].at - policy'.window}
    BY DEF Covered
  <2>3. Covered(n, i) = {j \in 1..i : h[j].at >= h[i].at - policy.window}
    BY DEF Covered
  <2>4. i \in 1..i
    BY <1>3
  <2> HIDE DEF h, h2, H
  <2>5. Covered(n, i)' = Covered(n, i)
    BY <1>3, <2>1, <2>2, <2>3, <2>4
  <2>6. \A j \in Covered(n, i) : h2[j] = h[j]
    BY <2>1, <2>3
  <2> QED
    BY <2>5, <2>6
<1>13. Cardinality(Covered(n, last)') = r
  <2>1. last + 1 - r \in Int /\ last \in Int /\ last + 1 - r <= last /\ last - (last + 1 - r) + 1 = r
    <3> HIDE DEF H, r
    <3> QED
      BY <1>3, <1>3a
  <2> HIDE DEF r
  <2>2. Cardinality((last + 1 - r)..last) = last - (last + 1 - r) + 1
    BY <2>1, FS_Interval
  <2> QED
    BY <1>2, <2>1, <2>2
<1>14. Earned(n)'
  <2>1. ASSUME ~h2[last].granted PROVE Cardinality(Covered(n, last)') > policy.max
    <3>1. h2[last].granted = (r <= policy.max)
      BY <1>5 DEF WithinBudget
    <3> HIDE DEF r, h2
    <3>2. ~(r <= policy.max)
      BY <2>1, <3>1, Zenon
    <3> QED
      BY <1>3, <1>3a, <1>13, <3>2
  <2>2. ASSUME NEW i \in 1..H, ~h2[i].granted PROVE Cardinality(Covered(n, i)') > policy.max
    <3>1. ~h[i].granted /\ i \in DOMAIN h
      BY <1>4, <1>5, <2>2
    <3> QED
      BY <1>12, <3>1 DEF Good, Earned
  <2>3. DOMAIN h2 = 1..last
    BY <1>4, <1>5
  <2> HIDE DEF h2, H
  <2>4. \A i \in DOMAIN h2 : ~h2[i].granted => Cardinality(Covered(n, i)') > policy'.max
    BY <1>3, <1>8, <2>1, <2>2, <2>3
  <2> QED
    BY <2>4 DEF Earned, h2
<1>15. Budgeted(n)'
  <2> DEFINE G(i) == {j \in Covered(n, i)' : h2[j].granted}
             F(i) == {j \in Covered(n, i) : h[j].granted}
  <2>1. \A i \in 1..H : Cardinality(G(i)) <= policy.max
    <3>1. \A i \in 1..H : Cardinality(F(i)) <= policy.max
      <4>1. \A i \in DOMAIN h : Cardinality(F(i)) <= policy.max
        BY DEF Good, Budgeted
      <4>2. DOMAIN h = 1..H
        BY <1>4
      <4> HIDE DEF F
      <4> QED
        BY <4>1, <4>2
    <3>2. \A i \in 1..H : G(i) = F(i)
      BY <1>12
    <3> HIDE DEF G, F
    <3> QED
      BY <3>1, <3>2
  <2>2. G(last) \subseteq 1..last /\ Covered(n, last)' \subseteq 1..last
    BY DEF Covered
  <2>3. Cardinality(G(last)) <= policy.max
    <3>1. CASE h2[last].granted
      <4>1. r <= policy.max
        <5>1. h2[last].granted = (r <= policy.max)
          BY <1>5 DEF WithinBudget
        <5> HIDE DEF r, h2
        <5> QED
          BY <3>1, <5>1
      <4>2. /\ IsFiniteSet(Covered(n, last)') /\ G(last) \subseteq Covered(n, last)'
        <5>1. IsFiniteSet(1..last)
          BY <1>3, FS_Interval
        <5> QED
          BY <5>1, <2>2, FS_Subset
      <4>3. Cardinality(G(last)) <= r /\ Cardinality(G(last)) \in Nat
        BY <1>13, <4>2, FS_Subset, FS_CardinalityType
      <4> HIDE DEF G, r
      <4> QED
        BY <1>2, <1>3, <4>1, <4>3
    <3>2. CASE ~h2[last].granted
      <4>1. CASE G(last) = {}
        <5>1. Cardinality(G(last)) = 0
          BY <4>1, FS_EmptySet, Zenon
        <5> HIDE DEF G
        <5> QED
          BY <1>3, <5>1
      <4>2. CASE G(last) # {}
        <5>1. PICK m \in G(last) : \A j \in G(last) : j <= m
          <6> DEFINE D == {last - j : j \in G(last)}
          <6>1. D \subseteq Nat /\ D # {}
            BY <1>3, <2>2, <4>2
          <6>2. PICK x \in D : \A y \in D : x <= y
            BY <6>1, LeastMember
          <6>3. PICK m \in G(last) : x = last - m
            BY <6>2
          <6>4. \A j \in G(last) : last - m <= last - j /\ j \in Nat /\ m \in Nat
            BY <2>2, <6>2, <6>3
          <6> HIDE DEF G
          <6>5. \A j \in G(last) : j <= m
            BY <1>3, <6>4
          <6> QED
            BY <6>5
        <5>2. m \in 1..H
          <6>1. m \in 1..last /\ m # last
            BY <2>2, <3>2
          <6> QED
            BY <1>8, <6>1
        <5>3. G(last) \subseteq G(m)
          <6>1. Covered(n, m)' = {j \in 1..m : h2[j].at >= h2[m].at - policy'.window}
            BY DEF Covered
          <6>2. Covered(n, last)' = {j \in 1..last : h2[j].at >= h2[last].at - policy'.window}
            BY DEF Covered
          <6>3. h2[last].at = now /\ h2[m].at <= now /\ h2[m].at \in Nat
            BY <1>5, <1>7, <5>2
          <6>4. ASSUME NEW j \in G(last) PROVE j \in Covered(n, m)' /\ h2[j].granted
            <7>1. j \in 1..last /\ j <= m /\ h2[j].at >= now - policy.window /\ h2[j].granted
              BY <1>3, <2>2, <5>1, <6>2, <6>3
            <7>2. j \in 1..m /\ j \in 1..H
              BY <1>3, <5>2, <7>1
            <7>3. h2[j].at >= h2[m].at - policy'.window
              BY <1>3, <1>7, <6>3, <7>1, <7>2
            <7> QED
              BY <6>1, <7>1, <7>2, <7>3
          <6> QED
            BY <6>4
        <5>4. IsFiniteSet(G(m))
          <6>1. G(m) \subseteq 1..m /\ IsFiniteSet(1..m)
            BY <5>2, FS_Interval DEF Covered
          <6> QED
            BY <6>1, FS_Subset
        <5>5. /\ Cardinality(G(last)) <= Cardinality(G(m)) /\ Cardinality(G(m)) \in Nat
              /\ Cardinality(G(last)) \in Nat
          BY <5>3, <5>4, FS_Subset, FS_CardinalityType
        <5> HIDE DEF G
        <5> QED
          BY <1>3, <2>1, <5>2, <5>5
      <4> QED
        BY <4>1, <4>2
    <3> QED
      BY <3>1, <3>2
  <2>4. DOMAIN h2 = 1..last
    BY <1>4, <1>5
  <2>5. \A i \in DOMAIN h2 : Cardinality(G(i)) <= policy'.max
    <3> HIDE DEF G, h2, H
    <3> QED
      BY <1>3, <1>8, <2>1, <2>3, <2>4
  <2> QED
    BY <2>5 DEF Budgeted
<1> QED
  BY <1>9, <1>10, <1>11, <1>14, <1>15 DEF Good

-----------------------------------------------------------------------------
(* Every step.                                                             *)

\* A module dies: its own record is judged or, with supervision off, left.
LEMMA ExitTyped ==
    ASSUME IInv, NEW n \in Names, UnexpectedExit(n) PROVE TypeOK'
<1>1. CASE policy.max <= 0
  BY <1>1 DEF IInv, TypeOK, UnexpectedExit
<1>2. CASE ~(policy.max <= 0)
  <2> DEFINE record == Append(InWindow(n), now)
             entry == [at |-> now, granted |-> WithinBudget(Len(record))]
  <2>1. InWindow(n) \in Seq(Nat) /\ now \in Nat /\ now + policy.backoff \in Nat
    BY WindowIsEnd, SupervisorAssumption DEF IInv, Remembered, TypeOK
  <2>2. record \in Seq(Nat)
    BY <2>1, AppendEnds
  <2>3. Append(timers[n], now + policy.backoff) \in Seq(Nat)
    <3>1. timers[n] \in Seq(Nat)
      BY DEF IInv, TypeOK
    <3> QED
      BY <2>1, <3>1, AppendEnds
  <2>4. Append(history[n], entry) \in Seq([at : Nat, granted : BOOLEAN])
    <3>1. history[n] \in Seq([at : Nat, granted : BOOLEAN])
      BY DEF IInv, TypeOK
    <3>2. entry \in [at : Nat, granted : BOOLEAN]
      BY <2>1 DEF WithinBudget
    <3> HIDE DEF entry
    <3> QED
      BY <3>1, <3>2, AppendEnds
  <2> HIDE DEF record
  <2>5. /\ deaths' = [deaths EXCEPT ![n] = record]
        /\ timers' = timers \/ timers' = [timers EXCEPT ![n] = Append(timers[n], now + policy.backoff)]
        /\ history' = [history EXCEPT ![n] = Append(history[n], entry)]
    BY <1>2 DEF UnexpectedExit, record
  <2>6. /\ deaths' \in [Names -> Seq(Nat)] /\ timers' \in [Names -> Seq(Nat)]
        /\ history' \in [Names -> Seq([at : Nat, granted : BOOLEAN])]
    <3> HIDE DEF entry
    <3> QED
      BY <2>2, <2>3, <2>4, <2>5 DEF IInv, TypeOK
  <2> QED
    BY <2>6 DEF IInv, TypeOK, UnexpectedExit
<1> QED
  BY <1>1, <1>2

\* A timer that fired leaves a sequence of due times.
LEMMA FiredTyped ==
    ASSUME TypeOK, NEW n \in Names, RestartFires(n) PROVE TypeOK'
<1>1. PICK i \in DOMAIN timers[n] : timers' = [timers EXCEPT ![n] = RemoveAt(timers[n], i)]
  BY DEF RestartFires
<1>2. timers[n] \in Seq(Nat) /\ i \in 1..Len(timers[n])
  BY DEF TypeOK
<1>3. RemoveAt(timers[n], i) \in Seq(Nat)
  <2> DEFINE s == timers[n]
  <2> HIDE DEF s
  <2>1. s \in Seq(Nat) /\ i \in 1..Len(s)
    BY <1>2 DEF s
  <2>2. SubSeq(s, 1, i - 1) \in Seq(Nat) /\ SubSeq(s, i + 1, Len(s)) \in Seq(Nat)
    BY <2>1
  <2>3. RemoveAt(s, i) \in Seq(Nat)
    BY <2>2 DEF RemoveAt
  <2> QED
    BY <2>3 DEF s
<1>4. timers' \in [Names -> Seq(Nat)]
  BY <1>1, <1>3 DEF TypeOK
<1> QED
  BY <1>4 DEF TypeOK, RestartFires

\* The invariant is inductive: a step judges a death, starts records over, or
\* leaves them.
LEMMA IInvStep == IInv /\ [Next]_vars => IInv'
<1> SUFFICES ASSUME IInv, [Next]_vars PROVE IInv'
  OBVIOUS
<1>a. TypeOK /\ \A n \in Names : Good(n)
  BY GoodRecords
<1>b. (IInv <=> TypeOK /\ \A n \in Names : Good(n))'
  BY GoodRecords, PTL
<1>c. ASSUME TypeOK', now <= now', policy' = policy,
             \A n \in Names : \/ deaths'[n] = deaths[n] /\ history'[n] = history[n]
                              \/ deaths'[n] = <<>> /\ history'[n] = <<>>
      PROVE  IInv'
  <2>1. \A n \in Names : Good(n)'
    BY <1>a, <1>c, GoodKept, GoodFresh
  <2> QED
    BY <1>c, <1>b, <2>1
<1>d. ASSUME TypeOK', \A n \in Names : deaths'[n] = <<>> /\ history'[n] = <<>> PROVE IInv'
  <2>1. \A n \in Names : Good(n)'
    BY <1>d, GoodFresh
  <2> QED
    BY <1>d, <1>b, <2>1
<1>e. now \in Nat /\ now <= now
  BY <1>a, SupervisorAssumption DEF TypeOK
<1>1. ASSUME Start PROVE IInv'
  <2> DEFINE p == PolicyFromEnvironment(env)
  <2>1. p \in [max : Int, window : Nat, backoff : Nat]
    BY <1>a, EnvironmentTyped DEF TypeOK
  <2> HIDE DEF p
  <2>2. CASE policy.max <= 0 /\ p.max > 0
    <3>1. Install(p) /\ UNCHANGED <<timers, up, known, now, env, calls, entering>> /\ started' = TRUE
      BY <1>1, <2>2 DEF Start, p
    <3>2. TypeOK'
      BY <1>a, <2>1, <3>1 DEF TypeOK, Install
    <3> QED
      BY <1>d, <3>1, <3>2 DEF Install
  <2>3. CASE ~(policy.max <= 0 /\ p.max > 0)
    <3>1. UNCHANGED <<policy, deaths, history, timers, up, known, now, env, calls, entering>>
          /\ started' = TRUE
      BY <1>1, <2>3 DEF Start, p
    <3>2. TypeOK'
      BY <1>a, <3>1 DEF TypeOK
    <3> QED
      BY <1>c, <1>e, <3>1, <3>2
  <2> QED
    BY <2>2, <2>3
<1>2. ASSUME NEW p \in Policies, SetPolicy(p) PROVE IInv'
  <2>1. TypeOK'
    BY <1>a, <1>2, SupervisorAssumption DEF TypeOK, SetPolicy, Install
  <2> QED
    BY <1>2, <1>d, <2>1 DEF SetPolicy, Install
<1>3. ASSUME NEW n \in Names, UnexpectedExit(n) PROVE IInv'
  <2>1. TypeOK'
    BY <1>3, ExitTyped
  <2>2. CASE policy.max <= 0
    BY <1>3, <1>c, <1>e, <2>1, <2>2 DEF UnexpectedExit
  <2>3. CASE ~(policy.max <= 0)
    <3>1. Good(n)'
      <4>1. policy.max > 0
        BY <1>a, <2>3 DEF TypeOK
      <4> QED
        BY <1>3, <1>a, <2>1, <4>1, GoodJudged
    <3>2. ASSUME NEW m \in Names, m # n PROVE Good(m)'
      <4>1. deaths'[m] = deaths[m] /\ history'[m] = history[m] /\ policy' = policy /\ now' = now
        BY <1>3, <1>a, <2>3, <3>2 DEF UnexpectedExit, TypeOK
      <4> QED
        BY <1>a, <1>e, <2>1, <4>1, GoodKept
    <3> QED
      BY <1>b, <2>1, <3>1, <3>2
  <2> QED
    BY <2>2, <2>3
<1>4. ASSUME NEW n \in Names, RestartFires(n) PROVE IInv'
  <2>1. TypeOK'
    BY <1>4, <1>a, FiredTyped
  <2> QED
    BY <1>4, <1>c, <1>e, <2>1 DEF RestartFires
<1>5. ASSUME NEW n \in Names, OperatorLoads(n) PROVE IInv'
  <2>1. TypeOK'
    BY <1>5, <1>a, SupervisorAssumption DEF OperatorLoads, Forget, TypeOK
  <2> QED
    BY <1>5, <1>a, <1>c, <1>e, <2>1 DEF OperatorLoads, Forget, TypeOK
<1>12. ASSUME NEW n \in Names, Loads(n) PROVE IInv'
  <2>1. up' \subseteq Names
    BY <1>12, <1>a DEF Loads, TypeOK
  <2>2. entering' \in [Names -> Nat]
    BY <1>12, <1>a DEF Loads, TypeOK
  <2>3. UNCHANGED <<policy, deaths, timers, known, now, started, env, calls, history>>
    BY <1>12 DEF Loads
  <2>4. TypeOK'
    BY <1>a, <2>1, <2>2, <2>3 DEF TypeOK
  <2> QED
    BY <1>c, <1>e, <2>3, <2>4
<1>6. ASSUME NEW n \in Names, OperatorUnloads(n) PROVE IInv'
  <2>1. TypeOK'
    BY <1>6, <1>a, SupervisorAssumption DEF OperatorUnloads, Forget, TypeOK
  <2> QED
    BY <1>6, <1>a, <1>c, <1>e, <2>1 DEF OperatorUnloads, Forget, TypeOK
<1>7. ASSUME TerminateAll PROVE IInv'
  <2>1. TypeOK'
    BY <1>7, <1>a, SupervisorAssumption DEF TerminateAll, TypeOK
  <2> QED
    BY <1>7, <1>c, <1>e, <2>1 DEF TerminateAll
<1>8. ASSUME Clear PROVE IInv'
  <2>1. TypeOK'
    BY <1>8, <1>a, SupervisorAssumption DEF Clear, TypeOK
  <2> QED
    BY <1>8, <1>d, <2>1 DEF Clear
<1>9. ASSUME Discover PROVE IInv'
  <2>1. TypeOK'
    BY <1>9, <1>a DEF Discover, TypeOK
  <2> QED
    BY <1>9, <1>c, <1>e, <2>1 DEF Discover
<1>10. ASSUME Tick PROVE IInv'
  <2>1. TypeOK'
    BY <1>10, <1>a, SupervisorAssumption DEF Tick, tables, TypeOK
  <2> QED
    BY <1>10, <1>c, <1>e, <2>1 DEF Tick, tables
<1>11. ASSUME Finished \/ UNCHANGED vars PROVE IInv'
  <2>1. TypeOK'
    BY <1>11, <1>a DEF Finished, vars, tables, TypeOK
  <2> QED
    BY <1>11, <1>c, <1>e, <2>1 DEF Finished, vars, tables
<1> QED
  BY <1>1, <1>2, <1>3, <1>4, <1>5, <1>6, <1>7, <1>8, <1>9, <1>10, <1>11, <1>12 DEF Next

-----------------------------------------------------------------------------
(* The theorems.                                                           *)

\* m_deaths keeps of the deaths since the last intervention all that any later
\* judgement will count (module_supervisor.cpp, onUnexpectedExit).
THEOREM InductiveInvariant == Spec => []IInv
<1>1. Init => IInv
  <2> SUFFICES ASSUME Init PROVE IInv
    OBVIOUS
  <2>1. TypeOK
    <3>1. policy \in [max : Int, window : Nat, backoff : Nat]
      BY DEF Init, Off, DefaultWindow, DefaultBackoff
    <3>2. /\ deaths \in [Names -> Seq(Nat)] /\ timers \in [Names -> Seq(Nat)]
          /\ history \in [Names -> Seq([at : Nat, granted : BOOLEAN])]
      BY DEF Init
    <3>3. now \in 0..MaxTime /\ calls \in 0..MaxCalls
      BY SupervisorAssumption DEF Init
    <3>4. up \subseteq Names /\ known \subseteq Names /\ started \in BOOLEAN /\ env \in Envs
          /\ entering \in [Names -> Nat]
      BY DEF Init
    <3> QED
      BY <3>1, <3>2, <3>3, <3>4 DEF TypeOK
  <2>2. \A n \in Names : deaths[n] = <<>> /\ history[n] = <<>>
    BY DEF Init
  <2>3. ASSUME NEW n \in Names PROVE Good(n)
    <3>1. deaths[n] = <<>> /\ history[n] = <<>>
      BY <2>2
    <3> QED
      BY <3>1 DEF Good, Recorded, Ordered, Erased, Budgeted, Earned
  <2> QED
    BY <2>1, <2>3, GoodRecords
<1> QED
  BY <1>1, IInvStep, PTL DEF Spec

\* The supervisor's variables have their types.
THEOREM TypeCorrect == Spec => []TypeOK
  BY InductiveInvariant, PTL DEF IInv

\* No window ending at any death holds more than maxRestarts granted restarts,
\* although each judgement looks at its own window alone.
THEOREM BudgetHolds == Spec => []WindowBudget
  BY InductiveInvariant, PTL DEF IInv

\* A module is given up only after more than maxRestarts deaths inside one window,
\* all of its own and all since the last intervention.
THEOREM RefusalIsEarned == Spec => []ExhaustionEarned
  BY InductiveInvariant, PTL DEF IInv
=============================================================================
