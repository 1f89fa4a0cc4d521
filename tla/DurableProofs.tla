---------------------------- MODULE DurableProofs ----------------------------
(***************************************************************************)
(* Recovery.  Three results about Durable, for every set of identities and *)
(* every bound:                                                            *)
(*                                                                         *)
(*   EpochsOnlyGrow      no open() returns an epoch a second time;         *)
(*   DurableTyped        the bounds of the model are bounds of its states; *)
(*   CrashKeepsAPrefix   a crash at any instant recovers the acknowledged  *)
(*                       operations and a prefix of the one in progress.   *)
(*                                                                         *)
(* Recovery replays a journal of any length, so the facts about ReplayAll  *)
(* and AppliedUpTo are inductions over the number of records; SetInduction *)
(* states induction without a predicate as parameter.  Everything after    *)
(* them uses one fact, ReplayAllFacts: replay either leaves an object as   *)
(* it was or replaces it by a value that does not depend on the image, and *)
(* takes the maximum of the epochs.                                        *)
(***************************************************************************)
EXTENDS Durable, FiniteSetTheorems, TLAPS

\* A leaf that names no backend is tried with Zenon, then with arithmetic.
USE ZenonT(5), SMTT(15)

\* Sequences are functions; concatenating and cutting them stays within Seq.
LEMMA SequenceRules ==
    /\ \A S : \A s \in Seq(S) : Len(s) \in Nat /\ \A i \in 1..Len(s) : s[i] \in S
    /\ \A S, T : \A s \in Seq(S) : S \subseteq T => s \in Seq(T)
    /\ \A S : \A n \in Nat : \A s \in [1..n -> S] : s \in Seq(S)
    /\ \A S : \A s, t \in Seq(S) : s \o t \in Seq(S)
    /\ \A S : \A s \in Seq(S) : SubSeq(s, 1, 0) = <<>>
<1>1. \A S : \A s \in Seq(S) : Len(s) \in Nat /\ \A i \in 1..Len(s) : s[i] \in S
  OBVIOUS
<1>2. \A S, T : \A s \in Seq(S) : S \subseteq T => s \in Seq(T)
  OBVIOUS
<1>3. \A S : \A n \in Nat : \A s \in [1..n -> S] : s \in Seq(S)
  OBVIOUS
<1>4. \A S : \A s, t \in Seq(S) : s \o t \in Seq(S)
  OBVIOUS
<1>5. \A S : \A s \in Seq(S) : SubSeq(s, 1, 0) = <<>>
  OBVIOUS
<1> QED  BY <1>1, <1>2, <1>3, <1>4, <1>5

\* A non-empty set of numbers has a least element.
LEMMA LeastNumber ==
    ASSUME NEW T, T \subseteq Nat, T # {}
    PROVE  \E x \in T : \A y \in T : x <= y
<1> DEFINE R == OpToRel(<, Nat)
<1>1. IsWellFoundedOn(R, Nat)
  BY NatLessThanWellFounded
<1>2. \A x, y \in Nat : x < y => <<x, y>> \in R
  BY DEF OpToRel
<1> HIDE DEF R
<1>3. PICK x \in T : \A y \in T : ~(<<y, x>> \in R)
  BY <1>1, WFMin
<1>4. \A y \in T : ~(y < x)
  BY <1>2, <1>3
<1>5. x \in Nat /\ \A y \in T : y \in Nat
  OBVIOUS
<1>6. \A y \in T : x <= y
  BY <1>4, <1>5
<1> QED  BY <1>6

\* Induction: a set that has 0 and, with a number, its successor has every
\* number.
LEMMA SetInduction ==
    ASSUME NEW S, 0 \in S, \A n \in Nat : n \in S => n + 1 \in S
    PROVE  Nat \subseteq S
<1> SUFFICES ASSUME Nat \ S # {} PROVE FALSE
  OBVIOUS
<1> DEFINE T == Nat \ S
<1>1. PICK x \in T : \A y \in T : x <= y
  <2>1. T \subseteq Nat /\ T # {}
    OBVIOUS
  <2> HIDE DEF T
  <2> QED  BY <2>1, LeastNumber
<1>2. x \in Nat /\ x # 0
  OBVIOUS
<1>3. x - 1 \in Nat /\ ~(x <= x - 1) /\ (x - 1) + 1 = x
  BY <1>2
<1>4. x - 1 \notin T
  BY <1>1, <1>3
<1> QED  BY <1>2, <1>3, <1>4

\* The images after the first n records of j, that ReplayAll is made of.
ReplayFcn(img, j) ==
  CHOOSE f : f = [n \in 0..Len(j) |-> IF n = 0 THEN img ELSE Replay(f[n - 1], j[n])]

\* Recovery ends with the image after the last intact record.
LEMMA ReplayByFcn ==
    ASSUME NEW img, NEW j
    PROVE  ReplayAll(img, j) = ReplayFcn(img, j)[Intact(j)]
BY DEF ReplayAll, ReplayFcn

\* The recursive definition has a solution, for a journal of any length.
LEMMA ReplayExists ==
    ASSUME NEW img, NEW j
    PROVE  \A N \in Nat : \E f :
             f = [n \in 0..N |-> IF n = 0 THEN img ELSE Replay(f[n - 1], j[n])]
<1> DEFINE S == {N \in Nat : \E f :
             f = [n \in 0..N |-> IF n = 0 THEN img ELSE Replay(f[n - 1], j[n])]}
<1>1. 0 \in S
  <2> DEFINE f == [n \in 0..0 |-> img]
  <2>1. \A n \in 0..0 : n = 0
    OBVIOUS
  <2>2. f = [n \in 0..0 |-> IF n = 0 THEN img ELSE Replay(f[n - 1], j[n])]
    BY <2>1, Zenon
  <2> QED  BY <2>2
<1>2. ASSUME NEW N \in Nat, N \in S
      PROVE  N + 1 \in S
  <2>1. PICK f : f = [n \in 0..N |-> IF n = 0 THEN img ELSE Replay(f[n - 1], j[n])]
    BY <1>2
  <2> DEFINE g == [n \in 0..(N + 1) |-> IF n = N + 1 THEN Replay(f[N], j[n]) ELSE f[n]]
  <2>2. ASSUME NEW n \in 0..(N + 1)
        PROVE  g[n] = IF n = 0 THEN img ELSE Replay(g[n - 1], j[n])
    <3>1. CASE n = N + 1
      <4>1. n # 0 /\ n - 1 = N /\ N \in 0..(N + 1) /\ N # N + 1
        BY <3>1
      <4>2. g[N] = f[N]
        BY <4>1, Zenon
      <4>3. g[n] = Replay(f[N], j[n])
        BY <3>1, Zenon
      <4> QED  BY <4>1, <4>2, <4>3, Zenon
    <3>2. CASE n # N + 1
      <4>1. n \in 0..N
        BY <3>2
      <4>2. g[n] = f[n]
        BY <3>2, Zenon
      <4>3. f[n] = IF n = 0 THEN img ELSE Replay(f[n - 1], j[n])
        BY <2>1, <4>1, Zenon
      <4>4. ASSUME n # 0
            PROVE  g[n - 1] = f[n - 1]
        <5>1. n - 1 \in 0..(N + 1) /\ n - 1 # N + 1
          BY <4>1, <4>4
        <5> QED  BY <5>1, Zenon
      <4> QED  BY <4>2, <4>3, <4>4, Zenon
    <3> QED  BY <3>1, <3>2
  <2>3. g = [n \in 0..(N + 1) |-> g[n]]
    BY Zenon
  <2> HIDE DEF g
  <2>4. g = [n \in 0..(N + 1) |-> IF n = 0 THEN img ELSE Replay(g[n - 1], j[n])]
    BY <2>2, <2>3, Zenon
  <2> QED  BY <2>4
<1>3. Nat \subseteq S
  <2> HIDE DEF S
  <2> QED  BY <1>1, <1>2, SetInduction
<1> QED  BY <1>3

\* Replay is one record at a time.
LEMMA ReplaySteps ==
    ASSUME NEW img, NEW j, Len(j) \in Nat
    PROVE  /\ ReplayFcn(img, j)[0] = img
           /\ \A n \in 1..Len(j) : ReplayFcn(img, j)[n] = Replay(ReplayFcn(img, j)[n - 1], j[n])
<1> DEFINE f == ReplayFcn(img, j)
<1>1. f = [n \in 0..Len(j) |-> IF n = 0 THEN img ELSE Replay(f[n - 1], j[n])]
  BY ReplayExists DEF ReplayFcn
<1>2. 0 \in 0..Len(j) /\ \A n \in 1..Len(j) : n \in 0..Len(j) /\ n # 0
  OBVIOUS
<1> HIDE DEF f
<1>3. f[0] = img /\ \A n \in 1..Len(j) : f[n] = Replay(f[n - 1], j[n])
  BY <1>1, <1>2, Zenon
<1> QED  BY <1>3 DEF f

\* The image after N records depends on those records only.
LEMMA ReplayAgrees ==
    ASSUME NEW img, NEW i, NEW j, Len(i) \in Nat, Len(j) \in Nat,
           NEW N \in Nat, N <= Len(i), N <= Len(j), \A k \in 1..N : i[k] = j[k]
    PROVE  ReplayFcn(img, i)[N] = ReplayFcn(img, j)[N]
<1> DEFINE f == ReplayFcn(img, i)
           g == ReplayFcn(img, j)
           S == {n \in Nat : n <= N => f[n] = g[n]}
<1>1. f[0] = g[0]
  BY ReplaySteps
<1>2. ASSUME NEW n \in Nat, n \in S
      PROVE  n + 1 \in S
  <2> SUFFICES ASSUME n + 1 <= N PROVE f[n + 1] = g[n + 1]
    OBVIOUS
  <2>1. n <= N /\ n + 1 \in 1..N /\ n + 1 \in 1..Len(i) /\ n + 1 \in 1..Len(j) /\ (n + 1) - 1 = n
    OBVIOUS
  <2>2. f[n] = g[n] /\ i[n + 1] = j[n + 1]
    BY <1>2, <2>1
  <2>3. f[n + 1] = Replay(f[n], i[n + 1]) /\ g[n + 1] = Replay(g[n], j[n + 1])
    BY <2>1, ReplaySteps
  <2> QED  BY <2>2, <2>3
<1>3. Nat \subseteq S
  <2>1. 0 \in S
    BY <1>1
  <2> HIDE DEF S
  <2> QED  BY <1>2, <2>1, SetInduction
<1> QED  BY <1>3

\* What Intact chooses: the records before the first torn frame.
LEMMA IntactIs ==
    ASSUME NEW j, Len(j) \in Nat
    PROVE  /\ Intact(j) \in 0..Len(j)
           /\ \A i \in 1..Intact(j) : j[i] # Torn
           /\ Intact(j) < Len(j) => j[Intact(j) + 1] = Torn
<1> DEFINE Good(n) == /\ \A i \in 1..n : j[i] # Torn
                      /\ n < Len(j) => j[n + 1] = Torn
<1>1. \E n \in 0..Len(j) : Good(n)
  <2>1. CASE \A i \in 1..Len(j) : j[i] # Torn
    <3>1. Len(j) \in 0..Len(j) /\ ~(Len(j) < Len(j))
      OBVIOUS
    <3> QED  BY <2>1, <3>1
  <2>2. CASE \E i \in 1..Len(j) : j[i] = Torn
    <3> DEFINE T == {i \in 1..Len(j) : j[i] = Torn}
    <3>1. PICK t \in T : \A y \in T : t <= y
      <4>1. T \subseteq Nat /\ T # {}
        BY <2>2
      <4> HIDE DEF T
      <4> QED  BY <4>1, LeastNumber
    <3>2. t - 1 \in 0..Len(j) /\ (t - 1) + 1 = t /\ t \in 1..Len(j)
      OBVIOUS
    <3>3. \A i \in 1..(t - 1) : i \in 1..Len(j) /\ ~(t <= i)
      BY <3>2
    <3>4. Good(t - 1)
      BY <3>1, <3>2, <3>3
    <3> QED  BY <3>2, <3>4
  <2> QED  BY <2>1, <2>2
<1>2. Intact(j) = CHOOSE n \in 0..Len(j) : Good(n)
  BY DEF Intact
<1> HIDE DEF Good
<1>3. Intact(j) \in 0..Len(j) /\ Good(Intact(j))
  BY <1>1, <1>2, Zenon
<1> QED  BY <1>3 DEF Good

\* There is one such number.
LEMMA IntactUnique ==
    ASSUME NEW j, Len(j) \in Nat, NEW n \in 0..Len(j),
           \A i \in 1..n : j[i] # Torn,
           n < Len(j) => j[n + 1] = Torn
    PROVE  Intact(j) = n
<1>1. ~(Intact(j) < n)
  <2> SUFFICES ASSUME Intact(j) < n PROVE FALSE
    OBVIOUS
  <2>1. Intact(j) < Len(j) /\ Intact(j) + 1 \in 1..n
    BY IntactIs
  <2> QED  BY <2>1, IntactIs
<1>2. ~(n < Intact(j))
  <2> SUFFICES ASSUME n < Intact(j) PROVE FALSE
    OBVIOUS
  <2>1. n < Len(j) /\ n + 1 \in 1..Intact(j)
    BY IntactIs
  <2> QED  BY <2>1, IntactIs
<1>3. Intact(j) \in Nat /\ n \in Nat
  BY IntactIs
<1> QED  BY <1>1, <1>2, <1>3

\* An empty journal changes nothing.
LEMMA ReplayNothing ==
    ASSUME NEW img
    PROVE  ReplayAll(img, <<>>) = img
<1>1. Len(<<>>) = 0
  OBVIOUS
<1>2. Intact(<<>>) = 0
  BY <1>1, IntactIs
<1> QED  BY <1>1, <1>2, ReplayByFcn, ReplaySteps

\* Cutting the torn tail of the journal, as open() does, changes nothing of
\* what the next recovery finds.
LEMMA ReplayPrefix ==
    ASSUME NEW F, NEW img, NEW j \in Seq(F)
    PROVE  ReplayAll(img, truncate_to(j, Intact(j))) = ReplayAll(img, j)
<1> DEFINE n == Intact(j)
           k == SubSeq(j, 1, n)
<1>1. Len(j) \in Nat /\ n \in 0..Len(j) /\ \A i \in 1..n : j[i] # Torn
  BY IntactIs
<1> HIDE DEF n
<1>2. Len(k) = n /\ \A i \in 1..n : k[i] = j[i]
  BY <1>1
<1> HIDE DEF k
<1>3. Len(k) \in Nat /\ n \in Nat /\ n \in 0..Len(k) /\ ~(n < Len(k)) /\ n <= Len(k) /\ n <= Len(j)
  BY <1>1, <1>2
<1>4. Intact(k) = n
  BY <1>1, <1>2, <1>3, IntactUnique
<1>5. ReplayFcn(img, k)[n] = ReplayFcn(img, j)[n]
  BY <1>1, <1>2, <1>3, ReplayAgrees
<1>6. ReplayAll(img, k) = ReplayAll(img, j)
  BY <1>4, <1>5, ReplayByFcn DEF n
<1> QED  BY <1>6 DEF k, n, truncate_to

\* A whole frame behind a whole journal is replayed last; a torn frame, and
\* whatever is behind one, is not replayed.
LEMMA ReplayAppend ==
    ASSUME NEW F, NEW img, NEW j \in Seq(F), NEW r \in F
    PROVE  /\ (\A i \in 1..Len(j) : j[i] # Torn) /\ r # Torn
                => ReplayAll(img, Append(j, r)) = Replay(ReplayAll(img, j), r)
           /\ (\E i \in 1..Len(j) : j[i] = Torn) \/ r = Torn
                => ReplayAll(img, Append(j, r)) = ReplayAll(img, j)
<1> DEFINE k == Append(j, r)
<1>1. Len(j) \in Nat /\ Len(k) = Len(j) + 1 /\ k[Len(j) + 1] = r
       /\ \A i \in 1..Len(j) : k[i] = j[i]
  OBVIOUS
<1> HIDE DEF k
<1>2. Len(k) \in Nat /\ Len(j) <= Len(k) /\ Len(j) + 1 \in 1..Len(k) /\ (Len(j) + 1) - 1 = Len(j)
  BY <1>1
<1>3. ASSUME \A i \in 1..Len(j) : j[i] # Torn, r # Torn
      PROVE  ReplayAll(img, k) = Replay(ReplayAll(img, j), r)
  <2>1. Intact(j) = Len(j)
    <3>1. Len(j) \in 0..Len(j) /\ ~(Len(j) < Len(j))
      BY <1>1
    <3> QED  BY <1>1, <1>3, <3>1, IntactUnique
  <2>2. Intact(k) = Len(k)
    <3>1. Len(k) \in 0..Len(k) /\ ~(Len(k) < Len(k))
      BY <1>2
    <3>2. \A i \in 1..Len(k) : i \in 1..Len(j) \/ i = Len(j) + 1
      BY <1>1
    <3>3. \A i \in 1..Len(k) : k[i] # Torn
      BY <1>1, <1>3, <3>2
    <3> QED  BY <1>2, <3>1, <3>3, IntactUnique
  <2>3. ReplayFcn(img, k)[Len(j)] = ReplayFcn(img, j)[Len(j)]
    BY <1>1, <1>2, ReplayAgrees
  <2>4. ReplayFcn(img, k)[Len(j) + 1] = Replay(ReplayFcn(img, k)[Len(j)], r)
    BY <1>1, <1>2, ReplaySteps
  <2> QED  BY <1>1, <2>1, <2>2, <2>3, <2>4, ReplayByFcn
<1>4. ASSUME (\E i \in 1..Len(j) : j[i] = Torn) \/ r = Torn
      PROVE  ReplayAll(img, k) = ReplayAll(img, j)
  <2> DEFINE n == Intact(j)
  <2>1. n \in 0..Len(j) /\ (\A i \in 1..n : j[i] # Torn) /\ (n < Len(j) => j[n + 1] = Torn)
    BY <1>1, IntactIs
  <2> HIDE DEF n
  <2>2. n \in Nat /\ n \in 0..Len(k) /\ n <= Len(j) /\ n <= Len(k) /\ \A i \in 1..n : i \in 1..Len(j)
    BY <1>1, <2>1
  <2>3. \A i \in 1..n : k[i] # Torn /\ k[i] = j[i]
    BY <1>1, <2>1, <2>2
  <2>4. k[n + 1] = Torn
    <3>1. CASE n < Len(j)
      <4>1. n + 1 \in 1..Len(j)
        BY <1>1, <2>1, <3>1
      <4> QED  BY <1>1, <2>1, <3>1, <4>1
    <3>2. CASE ~(n < Len(j))
      <4>1. n = Len(j)
        BY <1>1, <2>1, <3>2
      <4> QED  BY <1>1, <1>4, <2>1, <4>1
    <3> QED  BY <3>1, <3>2
  <2>5. Intact(k) = n
    BY <1>2, <2>2, <2>3, <2>4, IntactUnique
  <2>6. ReplayFcn(img, k)[n] = ReplayFcn(img, j)[n]
    BY <1>1, <1>2, <2>2, <2>3, ReplayAgrees
  <2> QED  BY <2>5, <2>6, ReplayByFcn DEF n
<1> QED  BY <1>3, <1>4 DEF k

\* The images after the first n steps, that AppliedUpTo is made of.
AppliedFcn(img, steps) ==
  CHOOSE f : f = [n \in 0..Len(steps) |-> IF n = 0 THEN img ELSE Applied(f[n - 1], steps[n])]

\* The recursive definition has a solution, for a plan of any length.
LEMMA AppliedExists ==
    ASSUME NEW img, NEW steps
    PROVE  \A N \in Nat : \E f :
             f = [n \in 0..N |-> IF n = 0 THEN img ELSE Applied(f[n - 1], steps[n])]
<1> DEFINE S == {N \in Nat : \E f :
             f = [n \in 0..N |-> IF n = 0 THEN img ELSE Applied(f[n - 1], steps[n])]}
<1>1. 0 \in S
  <2> DEFINE f == [n \in 0..0 |-> img]
  <2>1. \A n \in 0..0 : n = 0
    OBVIOUS
  <2>2. f = [n \in 0..0 |-> IF n = 0 THEN img ELSE Applied(f[n - 1], steps[n])]
    BY <2>1, Zenon
  <2> QED  BY <2>2
<1>2. ASSUME NEW N \in Nat, N \in S
      PROVE  N + 1 \in S
  <2>1. PICK f : f = [n \in 0..N |-> IF n = 0 THEN img ELSE Applied(f[n - 1], steps[n])]
    BY <1>2
  <2> DEFINE g == [n \in 0..(N + 1) |-> IF n = N + 1 THEN Applied(f[N], steps[n]) ELSE f[n]]
  <2>2. ASSUME NEW n \in 0..(N + 1)
        PROVE  g[n] = IF n = 0 THEN img ELSE Applied(g[n - 1], steps[n])
    <3>1. CASE n = N + 1
      <4>1. n # 0 /\ n - 1 = N /\ N \in 0..(N + 1) /\ N # N + 1
        BY <3>1
      <4>2. g[N] = f[N]
        BY <4>1, Zenon
      <4>3. g[n] = Applied(f[N], steps[n])
        BY <3>1, Zenon
      <4> QED  BY <4>1, <4>2, <4>3, Zenon
    <3>2. CASE n # N + 1
      <4>1. n \in 0..N
        BY <3>2
      <4>2. g[n] = f[n]
        BY <3>2, Zenon
      <4>3. f[n] = IF n = 0 THEN img ELSE Applied(f[n - 1], steps[n])
        BY <2>1, <4>1, Zenon
      <4>4. ASSUME n # 0
            PROVE  g[n - 1] = f[n - 1]
        <5>1. n - 1 \in 0..(N + 1) /\ n - 1 # N + 1
          BY <4>1, <4>4
        <5> QED  BY <5>1, Zenon
      <4> QED  BY <4>2, <4>3, <4>4, Zenon
    <3> QED  BY <3>1, <3>2
  <2>3. g = [n \in 0..(N + 1) |-> g[n]]
    BY Zenon
  <2> HIDE DEF g
  <2>4. g = [n \in 0..(N + 1) |-> IF n = 0 THEN img ELSE Applied(g[n - 1], steps[n])]
    BY <2>2, <2>3, Zenon
  <2> QED  BY <2>4
<1>3. Nat \subseteq S
  <2> HIDE DEF S
  <2> QED  BY <1>1, <1>2, SetInduction
<1> QED  BY <1>3

\* Steps are applied one at a time.
LEMMA AppliedFcnSteps ==
    ASSUME NEW img, NEW steps, Len(steps) \in Nat
    PROVE  /\ AppliedFcn(img, steps)[0] = img
           /\ \A n \in 1..Len(steps) : AppliedFcn(img, steps)[n] = Applied(AppliedFcn(img, steps)[n - 1], steps[n])
<1> DEFINE f == AppliedFcn(img, steps)
<1>1. f = [n \in 0..Len(steps) |-> IF n = 0 THEN img ELSE Applied(f[n - 1], steps[n])]
  BY AppliedExists DEF AppliedFcn
<1>2. 0 \in 0..Len(steps) /\ \A n \in 1..Len(steps) : n \in 0..Len(steps) /\ n # 0
  OBVIOUS
<1> HIDE DEF f
<1>3. f[0] = img /\ \A n \in 1..Len(steps) : f[n] = Applied(f[n - 1], steps[n])
  BY <1>1, <1>2, Zenon
<1> QED  BY <1>3 DEF f


\* The same of AppliedUpTo.
LEMMA AppliedSteps ==
    ASSUME NEW img, NEW steps, Len(steps) \in Nat
    PROVE  /\ AppliedUpTo(img, steps, 0) = img
           /\ \A n \in 1..Len(steps) :
                AppliedUpTo(img, steps, n) = Applied(AppliedUpTo(img, steps, n - 1), steps[n])
<1>1. \A n : AppliedUpTo(img, steps, n) = AppliedFcn(img, steps)[n]
  BY DEF AppliedUpTo, AppliedFcn
<1> QED  BY <1>1, AppliedFcnSteps

\* The tables of an image, and the identities of each.
Tables == {"pools", "config", "queues", "allocations"}

Keys(t) == CASE t = "pools" -> Pools
             [] t = "config" -> Configs
             [] t = "queues" -> Queues
             [] t = "allocations" -> AllocationIds

\* Images and records without the bounds on epochs and allocation identities,
\* which only hold of reachable states.
WideImage ==
  [epoch              : Nat,
   next_allocation_id : Nat \ {0},
   attempts           : SUBSET Attempts,
   pools              : [Pools -> 0..MaxGeneration],
   config             : [Configs -> 0..MaxPublished],
   queues             : [Queues -> QueueDescriptor \cup {Absent}],
   allocations        : [AllocationIds -> AllocationRecord \cup {Absent}]]

WideRecord ==
       [table : {"pools"}, key : Pools, value : 0..MaxGeneration]
  \cup [table : {"config"}, key : Configs, value : 1..MaxPublished]
  \cup [table : {"queues"}, key : Queues, value : QueueDescriptor]
  \cup [table : {"allocations"}, key : AllocationIds, value : AllocationRecord]
  \cup [table : {"epoch"}, key : {0}, value : Nat \ {0}]

Frames == WideRecord \cup {Torn}

\* No record is the value that stands for a torn frame.
LEMMA RecordIsNotTorn ==
    ASSUME NEW r \in WideRecord
    PROVE  r # Torn
BY DEF WideRecord, Torn

\* One record replaces the one object it names, or raises the epoch.
LEMMA ReplayStep ==
    ASSUME NEW x \in WideImage, NEW r \in WideRecord
    PROVE  /\ Replay(x, r) \in WideImage
           /\ Replay(x, r).epoch = IF r.table = "epoch" /\ r.value > x.epoch THEN r.value ELSE x.epoch
           /\ Replay(x, r).next_allocation_id = x.next_allocation_id
           /\ Replay(x, r).attempts = x.attempts
           /\ \A t \in Tables : \A k \in Keys(t) :
                Replay(x, r)[t][k] = IF r.table = t /\ r.key = k THEN r.value ELSE x[t][k]
<1>1. CASE r \in [table : {"pools"}, key : Pools, value : 0..MaxGeneration]
  BY <1>1 DEF Replay, WideImage, Tables, Keys
<1>2. CASE r \in [table : {"config"}, key : Configs, value : 1..MaxPublished]
  <2>1. 1..MaxPublished \subseteq 0..MaxPublished
    BY DurableAssumption
  <2> QED  BY <1>2, <2>1 DEF Replay, WideImage, Tables, Keys
<1>3. CASE r \in [table : {"queues"}, key : Queues, value : QueueDescriptor]
  BY <1>3 DEF Replay, WideImage, Tables, Keys
<1>4. CASE r \in [table : {"allocations"}, key : AllocationIds, value : AllocationRecord]
  BY <1>4 DEF Replay, WideImage, Tables, Keys
<1>5. CASE r \in [table : {"epoch"}, key : {0}, value : Nat \ {0}]
  BY <1>5 DEF Replay, WideImage, Tables, Keys
<1> QED  BY <1>1, <1>2, <1>3, <1>4, <1>5 DEF WideRecord

\* What recovery replays are records of the journal.
LEMMA IntactRecords ==
    ASSUME NEW j \in Seq(Frames)
    PROVE  /\ Len(j) \in Nat
           /\ Intact(j) \in Nat
           /\ Intact(j) <= Len(j)
           /\ \A n \in 1..Intact(j) : n \in 1..Len(j) /\ j[n] \in WideRecord
<1>1. Len(j) \in Nat /\ \A n \in 1..Len(j) : j[n] \in Frames
  OBVIOUS
<1>2. Intact(j) \in Nat /\ Intact(j) <= Len(j)
  BY <1>1, IntactIs
<1>3. \A n \in 1..Intact(j) : n \in 1..Len(j)
  BY <1>1, <1>2
<1> QED  BY <1>1, <1>2, <1>3, IntactIs DEF Frames

\* Replay yields images, and touches neither identity counter nor attempts.
LEMMA ReplayTyped ==
    ASSUME NEW j \in Seq(Frames), NEW x \in WideImage, NEW N \in 0..Intact(j)
    PROVE  /\ ReplayFcn(x, j)[N] \in WideImage
           /\ ReplayFcn(x, j)[N].next_allocation_id = x.next_allocation_id
           /\ ReplayFcn(x, j)[N].attempts = x.attempts
<1> DEFINE f == ReplayFcn(x, j)
           P(n) == /\ f[n] \in WideImage
                   /\ f[n].next_allocation_id = x.next_allocation_id
                   /\ f[n].attempts = x.attempts
           S == {n \in Nat : n <= Intact(j) => P(n)}
<1>1. 0 \in S
  BY IntactRecords, ReplaySteps
<1>2. ASSUME NEW n \in Nat, n \in S
      PROVE  n + 1 \in S
  <2> SUFFICES ASSUME n + 1 <= Intact(j) PROVE P(n + 1)
    OBVIOUS
  <2>1. n <= Intact(j) /\ n + 1 \in 1..Intact(j) /\ (n + 1) - 1 = n
    BY IntactRecords
  <2>2. P(n)
    BY <1>2, <2>1
  <2>3. f[n + 1] = Replay(f[n], j[n + 1]) /\ j[n + 1] \in WideRecord
    BY <2>1, IntactRecords, ReplaySteps
  <2> HIDE DEF f
  <2> QED  BY <2>2, <2>3, ReplayStep
<1>3. Nat \subseteq S
  <2> HIDE DEF S
  <2> QED  BY <1>1, <1>2, SetInduction
<1>4. N \in Nat /\ N <= Intact(j)
  BY IntactRecords
<1> QED  BY <1>3, <1>4

\* Replay raises the epoch to the largest in the journal, if it was lower.
LEMMA ReplayEpoch ==
    ASSUME NEW j \in Seq(Frames), NEW N \in 0..Intact(j)
    PROVE  \E e \in Nat :
             /\ \A x \in WideImage :
                  ReplayFcn(x, j)[N].epoch = IF x.epoch < e THEN e ELSE x.epoch
             /\ e = 0 \/ \E i \in 1..Len(j) : j[i] # Torn /\ j[i].table = "epoch" /\ j[i].value = e
<1> DEFINE Written(e) ==
             e = 0 \/ \E i \in 1..Len(j) : j[i] # Torn /\ j[i].table = "epoch" /\ j[i].value = e
           P(n, e) == \A x \in WideImage :
                        ReplayFcn(x, j)[n].epoch = IF x.epoch < e THEN e ELSE x.epoch
           Q(n) == \E e \in Nat : P(n, e) /\ Written(e)
           S == {n \in Nat : n <= Intact(j) => Q(n)}
<1>1. 0 \in S
  <2>1. \A x \in WideImage : x.epoch \in Nat /\ ReplayFcn(x, j)[0] = x
    BY IntactRecords, ReplaySteps DEF WideImage
  <2>2. P(0, 0)
    BY <2>1
  <2> QED  BY <2>2
<1>2. ASSUME NEW n \in Nat, n \in S
      PROVE  n + 1 \in S
  <2> HIDE DEF Q
  <2> SUFFICES ASSUME n + 1 <= Intact(j) PROVE Q(n + 1)
    OBVIOUS
  <2> USE DEF Q
  <2>1. n <= Intact(j) /\ n + 1 \in 1..Intact(j) /\ (n + 1) - 1 = n /\ n \in 0..Intact(j)
    BY IntactRecords
  <2>2. PICK e \in Nat : P(n, e) /\ Written(e)
    BY <1>2, <2>1
  <2> DEFINE r == j[n + 1]
  <2>3. r \in WideRecord /\ n + 1 \in 1..Len(j)
    BY <2>1, IntactRecords
  <2>4. \A x \in WideImage :
          /\ ReplayFcn(x, j)[n + 1] = Replay(ReplayFcn(x, j)[n], r)
          /\ ReplayFcn(x, j)[n] \in WideImage
    BY <2>1, IntactRecords, ReplaySteps, ReplayTyped
  <2>8. \A x \in WideImage : x.epoch \in Nat
    BY DEF WideImage
  <2> HIDE DEF r
  <2>5. \A x \in WideImage :
          ReplayFcn(x, j)[n + 1].epoch =
            IF r.table = "epoch" /\ r.value > ReplayFcn(x, j)[n].epoch
            THEN r.value ELSE ReplayFcn(x, j)[n].epoch
    BY <2>3, <2>4, ReplayStep
  <2>6. CASE r.table = "epoch"
    <3>1. r.value \in Nat
      BY <2>3, <2>6 DEF WideRecord
    <3>2. CASE r.value > e
      <4>1. P(n + 1, r.value)
        BY <2>2, <2>5, <2>6, <2>8, <3>1, <3>2
      <4>2. Written(r.value)
        BY <2>3, <2>6, RecordIsNotTorn DEF r
      <4> QED  BY <3>1, <4>1, <4>2
    <3>3. CASE ~(r.value > e)
      <4>1. P(n + 1, e)
        BY <2>2, <2>5, <2>6, <2>8, <3>1, <3>3
      <4> QED  BY <2>2, <4>1
    <3> QED  BY <3>2, <3>3
  <2>7. CASE r.table # "epoch"
    <3>1. P(n + 1, e)
      BY <2>2, <2>5, <2>7
    <3> QED  BY <2>2, <3>1
  <2> QED  BY <2>6, <2>7
<1>3. Nat \subseteq S
  <2> HIDE DEF S
  <2> QED  BY <1>1, <1>2, SetInduction
<1>4. N \in Nat /\ N <= Intact(j)
  BY IntactRecords
<1> QED  BY <1>3, <1>4

\* Whatever the image, replay either leaves an object as it was or replaces it
\* by the same value.
LEMMA ReplayKeys ==
    ASSUME NEW j \in Seq(Frames), NEW N \in 0..Intact(j), NEW t \in Tables, NEW k \in Keys(t)
    PROVE  \/ \A x \in WideImage : ReplayFcn(x, j)[N][t][k] = x[t][k]
           \/ \E v : \A x \in WideImage : ReplayFcn(x, j)[N][t][k] = v
<1> DEFINE P(n) == \/ \A x \in WideImage : ReplayFcn(x, j)[n][t][k] = x[t][k]
                   \/ \E v : \A x \in WideImage : ReplayFcn(x, j)[n][t][k] = v
           S == {n \in Nat : n <= Intact(j) => P(n)}
<1>1. 0 \in S
  <2>1. \A x \in WideImage : ReplayFcn(x, j)[0] = x
    BY IntactRecords, ReplaySteps
  <2> QED  BY <2>1
<1>2. ASSUME NEW n \in Nat, n \in S
      PROVE  n + 1 \in S
  <2> SUFFICES ASSUME n + 1 <= Intact(j) PROVE P(n + 1)
    OBVIOUS
  <2>1. n <= Intact(j) /\ n + 1 \in 1..Intact(j) /\ (n + 1) - 1 = n /\ n \in 0..Intact(j)
    BY IntactRecords
  <2>2. P(n)
    BY <1>2, <2>1
  <2> DEFINE r == j[n + 1]
  <2>3. \A x \in WideImage :
          /\ ReplayFcn(x, j)[n + 1] = Replay(ReplayFcn(x, j)[n], r)
          /\ ReplayFcn(x, j)[n] \in WideImage
          /\ r \in WideRecord
    BY <2>1, IntactRecords, ReplaySteps, ReplayTyped
  <2> HIDE DEF r
  <2>4. \A x \in WideImage :
          ReplayFcn(x, j)[n + 1][t][k] =
            IF r.table = t /\ r.key = k THEN r.value ELSE ReplayFcn(x, j)[n][t][k]
    BY <2>3, ReplayStep
  <2>5. CASE r.table = t /\ r.key = k
    <3>1. \A x \in WideImage : ReplayFcn(x, j)[n + 1][t][k] = r.value
      BY <2>4, <2>5, Zenon
    <3> QED  BY <3>1, Zenon
  <2>6. CASE ~(r.table = t /\ r.key = k)
    <3>1. \A x \in WideImage : ReplayFcn(x, j)[n + 1][t][k] = ReplayFcn(x, j)[n][t][k]
      BY <2>4, <2>6, Zenon
    <3> QED  BY <2>2, <3>1, Zenon
  <2> QED  BY <2>5, <2>6
<1>3. Nat \subseteq S
  <2> HIDE DEF S
  <2> QED  BY <1>1, <1>2, SetInduction
<1>4. N \in Nat /\ N <= Intact(j)
  BY IntactRecords
<1> QED  BY <1>3, <1>4

\* The three facts above, of the whole journal.
LEMMA ReplayAllFacts ==
    ASSUME NEW j \in Seq(Frames)
    PROVE  /\ \A x \in WideImage :
                /\ ReplayAll(x, j) \in WideImage
                /\ ReplayAll(x, j).next_allocation_id = x.next_allocation_id
                /\ ReplayAll(x, j).attempts = x.attempts
           /\ \E e \in Nat :
                /\ \A x \in WideImage :
                     ReplayAll(x, j).epoch = IF x.epoch < e THEN e ELSE x.epoch
                /\ e = 0 \/ \E i \in 1..Len(j) :
                              j[i] # Torn /\ j[i].table = "epoch" /\ j[i].value = e
           /\ \A t \in Tables : \A k \in Keys(t) :
                \/ \A x \in WideImage : ReplayAll(x, j)[t][k] = x[t][k]
                \/ \E v : \A x \in WideImage : ReplayAll(x, j)[t][k] = v
<1>1. \A x : ReplayAll(x, j) = ReplayFcn(x, j)[Intact(j)]
  BY ReplayByFcn
<1>2. Intact(j) \in 0..Intact(j)
  BY IntactRecords
<1>3. \A x \in WideImage :
                /\ ReplayAll(x, j) \in WideImage
                /\ ReplayAll(x, j).next_allocation_id = x.next_allocation_id
                /\ ReplayAll(x, j).attempts = x.attempts
  BY <1>1, <1>2, ReplayTyped
<1>4. \E e \in Nat :
                /\ \A x \in WideImage :
                     ReplayAll(x, j).epoch = IF x.epoch < e THEN e ELSE x.epoch
                /\ e = 0 \/ \E i \in 1..Len(j) :
                              j[i] # Torn /\ j[i].table = "epoch" /\ j[i].value = e
  <2>1. PICK e \in Nat :
             /\ \A x \in WideImage :
                  ReplayFcn(x, j)[Intact(j)].epoch = IF x.epoch < e THEN e ELSE x.epoch
             /\ e = 0 \/ \E i \in 1..Len(j) : j[i] # Torn /\ j[i].table = "epoch" /\ j[i].value = e
    BY <1>2, ReplayEpoch
  <2> QED  BY <1>1, <2>1, ZenonT(30)
<1>5. ASSUME NEW t \in Tables, NEW k \in Keys(t)
      PROVE  \/ \A x \in WideImage : ReplayAll(x, j)[t][k] = x[t][k]
             \/ \E v : \A x \in WideImage : ReplayAll(x, j)[t][k] = v
  <2>1. \/ \A x \in WideImage : ReplayFcn(x, j)[Intact(j)][t][k] = x[t][k]
        \/ \E v : \A x \in WideImage : ReplayFcn(x, j)[Intact(j)][t][k] = v
    BY <1>2, ReplayKeys
  <2> QED  BY <1>1, <2>1, ZenonT(30)
<1> QED  BY <1>3, <1>4, <1>5

\* A fabric without files is an image.
LEMMA EmptyTyped ==
    /\ EmptyImage \in WideImage
    /\ EmptyImage.epoch = 0
    /\ EmptyImage.next_allocation_id = 1
BY DurableAssumption DEF EmptyImage, WideImage

\* What a table holds for an identity it does not know.
Nothing(t) == IF t \in {"pools", "config"} THEN 0 ELSE Absent

\* apply_snapshot_payload takes each object from the snapshot, if it has it.
LEMMA OverlayTyped ==
    ASSUME NEW x \in WideImage, NEW s \in WideImage
    PROVE  /\ Overlay(x, s) \in WideImage
           /\ Overlay(x, s).epoch = IF s.epoch = 0 THEN x.epoch ELSE s.epoch
           /\ Overlay(x, s).next_allocation_id =
                IF s.epoch = 0 THEN x.next_allocation_id ELSE s.next_allocation_id
           /\ \A t \in Tables : \A k \in Keys(t) :
                Overlay(x, s)[t][k] =
                  IF s.epoch = 0 \/ s[t][k] = Nothing(t) THEN x[t][k] ELSE s[t][k]
<1>1. CASE s.epoch = 0
  BY <1>1 DEF Overlay
<1>2. CASE s.epoch # 0
  BY <1>2 DEF Overlay, WideImage, Tables, Keys, Nothing
<1> QED  BY <1>1, <1>2

\* Expiring leases changes allocation states only.
LEMMA ExpireTyped ==
    ASSUME NEW x \in WideImage
    PROVE  LET y == [x EXCEPT !.allocations = ExpireLeases(@)]
           IN /\ y \in WideImage
              /\ y.epoch = x.epoch
              /\ y.next_allocation_id = x.next_allocation_id
              /\ y.pools = x.pools /\ y.config = x.config /\ y.queues = x.queues
              /\ y.allocations = ExpireLeases(x.allocations)
<1>1. x.allocations \in [AllocationIds -> AllocationRecord \cup {Absent}]
  BY DEF WideImage
<1>2. ExpireLeases(x.allocations) \in [AllocationIds -> AllocationRecord \cup {Absent}]
  <2>1. ASSUME NEW v \in AllocationRecord
        PROVE  [v EXCEPT !.state = "Terminal"] \in AllocationRecord
    BY DEF AllocationRecord, AllocationState
  <2> QED  BY <1>1, <2>1 DEF ExpireLeases
<1> QED  BY <1>2 DEF WideImage

\* Steps of plans; only the record of an allocation is a grant.
WideStep ==
  {s \in [first : {"memory", "journal"}, grant : BOOLEAN, record : WideRecord] :
     s.grant => s.record.table = "allocations"}

\* Removing a pool from memory removes its queues and leaves the rest.
LEMMA ForgetTyped ==
    ASSUME NEW y \in WideImage, NEW p
    PROVE  /\ ForgetQueues(y, p) \in WideImage
           /\ ForgetQueues(y, p).epoch = y.epoch
           /\ ForgetQueues(y, p).next_allocation_id = y.next_allocation_id
           /\ ForgetQueues(y, p).pools = y.pools
           /\ ForgetQueues(y, p).config = y.config
           /\ ForgetQueues(y, p).allocations = y.allocations
<1> DEFINE f == [q \in Queues |->
                   IF y.queues[q] # Absent /\ y.queues[q].pool = p THEN Absent
                   ELSE y.queues[q]]
<1>1. f \in [Queues -> QueueDescriptor \cup {Absent}]
  <2>1. y.queues \in [Queues -> QueueDescriptor \cup {Absent}]
    BY Zenon DEF WideImage
  <2> QED  BY <2>1
<1>2. ForgetQueues(y, p) = [y EXCEPT !.queues = f]
  BY DEF ForgetQueues
<1> HIDE DEF f
<1> QED  BY <1>1, <1>2, ZenonT(30) DEF WideImage

\* A step changes memory as its record does, except for the identity counter,
\* the attempts, and the queues of a pool that is removed.
LEMMA AppliedTyped ==
    ASSUME NEW x \in WideImage, NEW s \in WideStep
    PROVE  /\ Applied(x, s) \in WideImage
           /\ Applied(x, s).epoch = Replay(x, s.record).epoch
           /\ Applied(x, s).next_allocation_id =
                IF s.grant THEN x.next_allocation_id + 1 ELSE x.next_allocation_id
           /\ Applied(x, s).pools = Replay(x, s.record).pools
           /\ Applied(x, s).config = Replay(x, s.record).config
           /\ Applied(x, s).allocations = Replay(x, s.record).allocations
           /\ ~(s.record.table = "pools" /\ s.record.value = 0)
                => Applied(x, s).queues = Replay(x, s.record).queues
<1> DEFINE y == Replay(x, s.record)
<1>1. s.record \in WideRecord /\ s.grant \in BOOLEAN /\ (s.grant => s.record.table = "allocations")
  BY DEF WideStep
<1>2. y \in WideImage /\ y.next_allocation_id = x.next_allocation_id
  BY <1>1, ReplayStep
<1> HIDE DEF y
<1>3. CASE s.record.table = "pools" /\ s.record.value = 0
  <2>2. ~ s.grant
    BY <1>1, <1>3
  <2>1. Applied(x, s) = ForgetQueues(y, s.record.key)
    BY <1>3, <2>2 DEF Applied, y
  <2>3. /\ Applied(x, s) \in WideImage
        /\ Applied(x, s).epoch = y.epoch
        /\ Applied(x, s).next_allocation_id = y.next_allocation_id
        /\ Applied(x, s).pools = y.pools
        /\ Applied(x, s).config = y.config
        /\ Applied(x, s).allocations = y.allocations
    <3> DEFINE z == ForgetQueues(y, s.record.key)
    <3>1. /\ z \in WideImage
          /\ z.epoch = y.epoch
          /\ z.next_allocation_id = y.next_allocation_id
          /\ z.pools = y.pools
          /\ z.config = y.config
          /\ z.allocations = y.allocations
      BY <1>2, ForgetTyped, Zenon
    <3>2. Applied(x, s) = z
      BY <2>1, Zenon
    <3> HIDE DEF z
    <3> QED  BY <3>1, <3>2, Zenon
  <2> QED  BY <1>2, <1>3, <2>2, <2>3, Zenon DEF y
<1>4. CASE s.grant
  <2>1. s.record.table = "allocations" /\ s.record.table # "pools"
    BY <1>1, <1>4
  <2>2. Applied(x, s) = RememberGrant(y, s.record.value.attempt)
    BY <1>4, <2>1 DEF Applied, y
  <2>3. s.record.value.attempt \in Attempts
    BY <1>1, <2>1 DEF WideRecord, AllocationRecord
  <2>4. RememberGrant(y, s.record.value.attempt) \in WideImage
    <3>1. y.next_allocation_id + 1 \in Nat \ {0} /\ y.attempts \cup {s.record.value.attempt} \in SUBSET Attempts
      BY <1>2, <2>3 DEF WideImage
    <3>2. ASSUME NEW n \in Nat \ {0}, NEW A \in SUBSET Attempts
          PROVE  [y EXCEPT !.next_allocation_id = n, !.attempts = A] \in WideImage
      BY <1>2 DEF WideImage
    <3> QED  BY <3>1, <3>2 DEF RememberGrant
  <2> QED  BY <1>2, <1>4, <2>1, <2>2, <2>4 DEF WideImage, RememberGrant, y
<1>5. CASE ~ s.grant /\ ~(s.record.table = "pools" /\ s.record.value = 0)
  <2>1. Applied(x, s) = y
    BY <1>5 DEF Applied, y
  <2> QED  BY <1>2, <1>5, <2>1 DEF y
<1> QED  BY <1>1, <1>3, <1>4, <1>5

\* Where an operation stands: the first inductive invariant.  A record is being
\* written only by an object that is open or opening.
Shape ==
  /\ status \in {"down", "closed", "opening", "open"}
  /\ phase \in {"idle", "start", "renamed", "append"}
  /\ mem \in WideImage /\ snapshot \in WideImage /\ before \in WideImage
  /\ journal \in Seq(Frames) /\ plan \in Seq(WideStep)
  /\ at \in 1..(Len(plan) + 1)
  /\ phase \in {"start", "append"} => at \in 1..Len(plan)
  /\ phase = "renamed" => plan = <<>> \/ at \in 1..Len(plan)
  /\ phase # "idle" => status \in {"opening", "open"}
  /\ Idle => plan = <<>> /\ at = 1
  /\ crashes \in Nat /\ failures \in 0..MaxFailures
  /\ answered \subseteq Attempts /\ seen \subseteq Nat

\* What a recovery of the two files by a new process finds, but for leases.
DiskOf(snap, j) == ReplayAll(Overlay(EmptyImage, snap), j)
Disk == DiskOf(snapshot, journal)

\* Why epochs grow.  The record that open() writes is above every epoch that was
\* returned; those that were returned are in the files; a renamed snapshot is
\* the image in memory.
EpochInv ==
  /\ status = "opening" =>
       /\ Len(plan) = 1 /\ at = 1 /\ phase # "idle"
       /\ plan[1].first = "memory" /\ plan[1].record.table = "epoch"
       /\ plan[1].record.value = IF phase = "start" THEN mem.epoch + 1 ELSE mem.epoch
       /\ \A e \in seen : e < plan[1].record.value
       /\ \A i \in 1..Len(journal) : journal[i] # Torn
  /\ status = "open" =>
       /\ mem.epoch # 0 /\ mem.epoch \in seen /\ \A e \in seen : e <= mem.epoch
       /\ \A i \in 1..Len(plan) : plan[i].record.table # "epoch"
  /\ phase = "renamed" => snapshot = mem
  /\ \A e \in seen : e <= Disk.epoch

\* A bound on every epoch in memory and in the files.
EpochsBelow(b) ==
  /\ mem.epoch <= b /\ snapshot.epoch <= b /\ before.epoch <= b
  /\ \A i \in 1..Len(journal) :
       journal[i] # Torn /\ journal[i].table = "epoch" => journal[i].value <= b
  /\ \A i \in 1..Len(plan) : plan[i].record.table = "epoch" => plan[i].record.value <= b

\* Each epoch was returned by an open(), or the open() that wrote it crashed or
\* failed: the two sides of the bound MaxEpoch.
Low == Cardinality(seen) + crashes + failures + (IF status = "opening" THEN 1 ELSE 0)
High == MaxOpens + crashes + failures - (IF status \in {"down", "closed"} THEN 1 ELSE 0)

\* Why epochs stay within MaxEpoch.
BoundInv ==
  /\ IsFiniteSet(seen) /\ 0 \notin seen
  /\ \E b \in Nat : EpochsBelow(b) /\ b <= Low /\ b <= High
  /\ crashes <= MaxCrashes

\* Why identities stay within MaxAllocations + 1: a grant is a plan of its own,
\* which began when there was room.
GrantInv ==
  /\ mem.next_allocation_id <= MaxAllocations + 1
  /\ snapshot.next_allocation_id <= MaxAllocations + 1
  /\ before.next_allocation_id <= MaxAllocations + 1
  /\ \A i \in 1..Len(plan) : plan[i].grant =>
       /\ Len(plan) = 1 /\ plan[i].first = "journal"
       /\ status # "down" /\ phase # "idle" => mem.next_allocation_id <= MaxAllocations

\* What a restart keeps of a queue and of an allocation.
QueueView(v) == IF v # Absent /\ ~ v.retired THEN v ELSE Absent
LeaseView(v) == IF v # Absent /\ v.state = "Reserved" THEN [v EXCEPT !.state = "Terminal"] ELSE v

\* What a restart keeps of an object of table t.
KeyView(t, v) == CASE t = "queues" -> QueueView(v)
                   [] t = "allocations" -> LeaseView(v)
                   [] OTHER -> v

\* Two images that no restart tells apart.
Same(x, y) ==
  /\ x.epoch = y.epoch
  /\ \A t \in Tables : \A k \in Keys(t) : KeyView(t, x[t][k]) = KeyView(t, y[t][k])

\* Memory after n steps of the operation in progress, and how many of them
\* memory has.
After(n) == AppliedUpTo(before, plan, n)

Reached == IF phase \in {"append", "renamed"} /\ plan # <<>> /\ plan[at].first = "memory"
           THEN at ELSE at - 1

\* Why a crash keeps a prefix.  Memory is the image after the steps taken.  The
\* files hold that image, or, while a record is being written, the one before
\* that record; a snapshot that was renamed over a journal not yet emptied is
\* one of the two.  Only a crash leaves a torn frame, at the end.  A pool is
\* removed by a plan of its own, when no live queue is in it.
CrashInv ==
  /\ status = "down" => mem = EmptyImage
  /\ \A i \in 1..Len(journal) : journal[i] = Torn => status = "down" /\ i = Len(journal)
  /\ \A i \in 1..Len(plan) :
       plan[i].record.table = "pools" /\ plan[i].record.value = 0 =>
         /\ Len(plan) = 1 /\ plan[i].first = "journal"
         /\ \A q \in Queues : Live(before, q) => before.queues[q].pool # plan[i].record.key
  /\ status = "down" => \E n \in 0..Len(plan) : Same(Disk, After(n))
  /\ status = "closed" => plan = <<>> /\ at = 1
  /\ status # "down" =>
       /\ mem = After(Reached)
       /\ \/ Same(Disk, mem)
          \/ phase \in {"append", "renamed"} /\ plan # <<>> /\ Same(Disk, After(at - 1))

-----------------------------------------------------------------------------

\* The operations that begin a plan.
Operation ==
  \/ \E p \in Pools : RegisterPool(p) \/ ResizePool(p) \/ RemovePool(p)
  \/ \E c \in Configs : Publish(c)
  \/ \E q \in Queues, p \in Pools : RegisterQueue(q, p) \/ RetargetQueue(q, p)
  \/ \E q \in Queues : RetireQueue(q)
  \/ \E q \in Queues, t \in Attempts, s \in {"Reserved", "Committed"} : Allocate(q, t, s)
  \/ \E a \in AllocationIds : Commit(a) \/ Release(a)
  \/ \E victims \in Victims : Revoke(victims)

\* What their plans have in common.
Sound(steps) ==
  /\ steps \in Seq(WideStep)
  /\ \A i \in 1..Len(steps) :
       /\ steps[i].record.table # "epoch"
       /\ steps[i].grant =>
            Len(steps) = 1 /\ steps[i].first = "journal" /\ mem.next_allocation_id <= MaxAllocations
       /\ steps[i].record.table = "pools" /\ steps[i].record.value = 0 =>
            /\ Len(steps) = 1 /\ steps[i].first = "journal"
            /\ \A q \in Queues : Live(mem, q) => mem.queues[q].pool # steps[i].record.key

\* A step that is no grant and removes no pool.
Plain == {s \in WideStep : /\ s.record.table # "epoch" /\ ~ s.grant
                           /\ s.record.table = "pools" => s.record.value # 0}

\* A plan of plain steps is sound.
LEMMA PlainSound ==
    ASSUME NEW steps \in Seq(Plain)
    PROVE  Sound(steps)
<1>1. steps \in Seq(WideStep)
  <2>1. Plain \subseteq WideStep
    BY DEF Plain
  <2> QED  BY <2>1, SequenceRules
<1>2. \A i \in 1..Len(steps) : steps[i] \in Plain
  BY SequenceRules
<1> QED  BY <1>1, <1>2 DEF Sound, Plain

\* Victims are allocations that hold units.
LEMMA VictimsTyped ==
    ASSUME mem \in WideImage
    PROVE  /\ \A v \in Victims : v \in Seq(Holding(mem))
           /\ \A q : \A v \in InIdOrder(HeldBy(q)) : v \in Seq(Holding(mem))
<1>1. \A S : S \subseteq Holding(mem) => Cardinality(S) \in Nat
  <2>1. IsFiniteSet(AllocationIds)
    BY DurableAssumption, FS_Interval DEF AllocationIds
  <2> QED  BY <2>1, FS_Subset, FS_CardinalityType DEF Holding
<1>2. \A v : \A n \in Nat : v \in [1..n -> Holding(mem)] => v \in Seq(Holding(mem))
  BY SequenceRules
<1>3. ASSUME NEW v \in Victims
      PROVE  v \in Seq(Holding(mem))
  <2>1. Cardinality(Holding(mem)) \in Nat
    BY <1>1
  <2>2. \E m \in 0..Cardinality(Holding(mem)) : v \in [1..m -> Holding(mem)]
    BY DEF Victims, Injection
  <2> QED  BY <1>2, <2>1, <2>2
<1>4. ASSUME NEW q, NEW v \in InIdOrder(HeldBy(q))
      PROVE  v \in Seq(Holding(mem))
  <2>1. HeldBy(q) \subseteq Holding(mem)
    BY DEF HeldBy
  <2>2. Cardinality(HeldBy(q)) \in Nat
    BY <1>1, <2>1
  <2>3. v \in [1..Cardinality(HeldBy(q)) -> HeldBy(q)]
    BY DEF InIdOrder
  <2>4. v \in [1..Cardinality(HeldBy(q)) -> Holding(mem)]
    BY <2>1, <2>3
  <2> QED  BY <1>2, <2>2, <2>4
<1> QED  BY <1>3, <1>4

\* A new state of an allocation is a plain step.
LEMMA UpdateTyped ==
    ASSUME mem \in WideImage, NEW a \in AllocationIds, mem.allocations[a] # Absent,
           NEW state \in AllocationState, NEW first \in {"memory", "journal"}
    PROVE  Step(first, "allocations", a, [mem.allocations[a] EXCEPT !.state = state]) \in Plain
<1>1. mem.allocations[a] \in AllocationRecord
  BY DEF WideImage
<1>2. [mem.allocations[a] EXCEPT !.state = state] \in AllocationRecord
  BY <1>1 DEF AllocationRecord
<1> QED  BY <1>2 DEF Step, Plain, WideStep, WideRecord

\* Fencing is a plan of plain steps.
LEMMA FencesTyped ==
    ASSUME mem \in WideImage, NEW v \in Seq(Holding(mem))
    PROVE  Fences(v) \in Seq(Plain)
<1>1. Len(v) \in Nat /\ \A i \in 1..Len(v) : v[i] \in Holding(mem)
  BY SequenceRules
<1>2. \A i \in 1..Len(v) :
        Step("memory", "allocations", v[i], [mem.allocations[v[i]] EXCEPT !.state = "Terminal"])
          \in Plain
  <2>1. "Terminal" \in AllocationState
    BY DEF AllocationState
  <2> QED  BY <1>1, <2>1, UpdateTyped DEF Holding
<1>3. Fences(v) \in [1..Len(v) -> Plain]
  BY <1>2, Zenon DEF Fences
<1> QED  BY <1>1, <1>3, SequenceRules

\* Every operation begins a sound plan.
LEMMA OperationBegins ==
    ASSUME mem \in WideImage, Operation
    PROVE  \E steps : Sound(steps) /\ Begin(steps)
<1>1. ASSUME NEW s \in Plain, NEW v \in Seq(Holding(mem))
      PROVE  <<s>> \in Seq(Plain) /\ <<s>> \o Fences(v) \in Seq(Plain) /\ Fences(v) \o <<s>> \in Seq(Plain)
  <2>1. <<s>> \in Seq(Plain)
    OBVIOUS
  <2> QED  BY <2>1, FencesTyped, SequenceRules
<1>2. MaxGeneration \in Nat /\ MaxGeneration >= 1 /\ MaxPublished \in Nat /\ MaxAllocations \in Nat
  BY DurableAssumption
<1>3. ASSUME NEW p \in Pools, RegisterPool(p)
      PROVE  \E steps : Sound(steps) /\ Begin(steps)
  <2>1. Step("journal", "pools", p, 1) \in Plain
    BY <1>2 DEF Step, Plain, WideStep, WideRecord
  <2>2. <<Step("journal", "pools", p, 1)>> \in Seq(Plain)
    BY <2>1
  <2> QED  BY <1>3, <2>2, PlainSound DEF RegisterPool
<1>4. ASSUME NEW p \in Pools, ResizePool(p)
      PROVE  \E steps : Sound(steps) /\ Begin(steps)
  <2>1. PICK v \in Victims :
          Begin(<<Step("memory", "pools", p, mem.pools[p] + 1)>> \o Fences(v))
    BY <1>4 DEF ResizePool
  <2>2. mem.pools[p] + 1 \in 0..MaxGeneration /\ mem.pools[p] + 1 # 0
    BY <1>2, <1>4 DEF ResizePool
  <2>3. Step("memory", "pools", p, mem.pools[p] + 1) \in Plain
    BY <2>2 DEF Step, Plain, WideStep, WideRecord
  <2>4. v \in Seq(Holding(mem))
    BY VictimsTyped
  <2> QED  BY <1>1, <2>1, <2>3, <2>4, PlainSound
<1>5. ASSUME NEW p \in Pools, RemovePool(p)
      PROVE  \E steps : Sound(steps) /\ Begin(steps)
  <2> DEFINE s == Step("journal", "pools", p, 0)
  <2>1. s \in WideStep /\ ~ s.grant /\ s.record.table = "pools" /\ s.record.key = p
         /\ s.first = "journal"
    BY <1>2 DEF Step, WideStep, WideRecord
  <2>2. Begin(<<s>>) /\ \A q \in Queues : Live(mem, q) => mem.queues[q].pool # p
    BY <1>5 DEF RemovePool
  <2> HIDE DEF s
  <2>3. <<s>> \in Seq(WideStep) /\ Len(<<s>>) = 1 /\ \A i \in 1..1 : <<s>>[i] = s
    BY <2>1
  <2>4. Sound(<<s>>)
    BY <2>1, <2>2, <2>3 DEF Sound
  <2> QED  BY <2>2, <2>4
<1>6. ASSUME NEW c \in Configs, Publish(c)
      PROVE  \E steps : Sound(steps) /\ Begin(steps)
  <2>1. PICK v \in IF c = "policy" THEN Victims ELSE {<<>>} :
          Begin(<<Step("journal", "config", c, mem.config[c] + 1)>> \o Fences(v))
    BY <1>6 DEF Publish
  <2>2. mem.config[c] \in 0..MaxPublished
    BY DEF WideImage
  <2>3. mem.config[c] + 1 \in 1..MaxPublished
    BY <1>2, <1>6, <2>2 DEF Publish
  <2>4. Step("journal", "config", c, mem.config[c] + 1) \in Plain
    BY <2>3 DEF Step, Plain, WideStep, WideRecord
  <2>5. v \in Seq(Holding(mem))
    <3>1. v \in Victims \/ v = <<>>
      OBVIOUS
    <3>2. <<>> \in Seq(Holding(mem))
      OBVIOUS
    <3> QED  BY <3>1, <3>2, VictimsTyped
  <2> QED  BY <1>1, <2>1, <2>4, <2>5, PlainSound
<1>7. ASSUME NEW q \in Queues, NEW p \in Pools, RegisterQueue(q, p)
      PROVE  \E steps : Sound(steps) /\ Begin(steps)
  <2> DEFINE d == [pool |-> p, generation |-> 1, retired |-> FALSE]
  <2>1. d \in QueueDescriptor
    BY <1>2 DEF QueueDescriptor
  <2>2. Begin(<<Step("journal", "queues", q, d)>>)
    BY <1>7 DEF RegisterQueue
  <2> HIDE DEF d
  <2>3. Step("journal", "queues", q, d) \in Plain
    BY <2>1 DEF Step, Plain, WideStep, WideRecord
  <2>4. <<Step("journal", "queues", q, d)>> \in Seq(Plain)
    BY <2>3
  <2> QED  BY <2>2, <2>4, PlainSound
<1>8. ASSUME NEW q \in Queues, NEW p \in Pools, RetargetQueue(q, p)
      PROVE  \E steps : Sound(steps) /\ Begin(steps)
  <2> DEFINE d == [mem.queues[q] EXCEPT !.pool = p, !.generation = @ + 1]
  <2>1. PICK v \in InIdOrder(HeldBy(q)) :
          Begin(Fences(v) \o <<Step("memory", "queues", q, d)>>)
    BY <1>8 DEF RetargetQueue
  <2>2. mem.queues[q] \in QueueDescriptor /\ mem.queues[q].generation < MaxGeneration
    BY <1>8 DEF RetargetQueue, Live, WideImage
  <2>3. d \in QueueDescriptor
    <3>1. mem.queues[q].generation + 1 \in 1..MaxGeneration
      BY <1>2, <2>2 DEF QueueDescriptor
    <3> QED  BY <2>2, <3>1 DEF QueueDescriptor
  <2> HIDE DEF d
  <2>4. Step("memory", "queues", q, d) \in Plain
    BY <2>3 DEF Step, Plain, WideStep, WideRecord
  <2>5. v \in Seq(Holding(mem))
    BY VictimsTyped
  <2> QED  BY <1>1, <2>1, <2>4, <2>5, PlainSound
<1>9. ASSUME NEW q \in Queues, RetireQueue(q)
      PROVE  \E steps : Sound(steps) /\ Begin(steps)
  <2> DEFINE d == [mem.queues[q] EXCEPT !.retired = TRUE, !.generation = @ + 1]
  <2>1. PICK v \in InIdOrder(HeldBy(q)) :
          Begin(<<Step("memory", "queues", q, d)>> \o Fences(v))
    BY <1>9 DEF RetireQueue
  <2>2. mem.queues[q] \in QueueDescriptor /\ mem.queues[q].generation < MaxGeneration
    BY <1>9 DEF RetireQueue, Live, WideImage
  <2>3. d \in QueueDescriptor
    <3>1. mem.queues[q].generation + 1 \in 1..MaxGeneration
      BY <1>2, <2>2 DEF QueueDescriptor
    <3> QED  BY <2>2, <3>1 DEF QueueDescriptor
  <2> HIDE DEF d
  <2>4. Step("memory", "queues", q, d) \in Plain
    BY <2>3 DEF Step, Plain, WideStep, WideRecord
  <2>5. v \in Seq(Holding(mem))
    BY VictimsTyped
  <2> QED  BY <1>1, <2>1, <2>4, <2>5, PlainSound
<1>10. ASSUME NEW q \in Queues, NEW t \in Attempts, NEW state \in {"Reserved", "Committed"},
              Allocate(q, t, state)
       PROVE  \E steps : Sound(steps) /\ Begin(steps)
  <2> DEFINE a == mem.next_allocation_id
             r == [state |-> state, queue |-> q, pool |-> mem.queues[q].pool, attempt |-> t]
             s == [Step("journal", "allocations", a, r) EXCEPT !.grant = TRUE]
  <2>1. a \in AllocationIds /\ a <= MaxAllocations
    BY <1>2, <1>10 DEF Allocate, HasRoom, AllocationIds, WideImage
  <2>2. r \in AllocationRecord
    <3>1. mem.queues[q] \in QueueDescriptor
      BY <1>10 DEF Allocate, Live, WideImage
    <3>2. mem.queues[q].pool \in Pools
      BY <3>1 DEF QueueDescriptor
    <3> QED  BY <3>2 DEF AllocationRecord, AllocationState
  <2>3. Begin(<<s>>)
    BY <1>10 DEF Allocate
  <2> HIDE DEF a, r
  <2>4. s \in WideStep /\ s.first = "journal" /\ s.record.table = "allocations"
    BY <2>1, <2>2 DEF Step, WideStep, WideRecord
  <2> HIDE DEF s
  <2>5. <<s>> \in Seq(WideStep) /\ Len(<<s>>) = 1 /\ \A i \in 1..1 : <<s>>[i] = s
    BY <2>4
  <2>6. Sound(<<s>>)
    BY <2>1, <2>4, <2>5 DEF Sound, a
  <2> QED  BY <2>3, <2>6
<1>11. ASSUME NEW a \in AllocationIds, Commit(a) \/ Release(a)
       PROVE  \E steps : Sound(steps) /\ Begin(steps)
  <2>1. PICK state \in AllocationState :
          /\ mem.allocations[a] # Absent
          /\ Begin(<<Step("journal", "allocations", a, [mem.allocations[a] EXCEPT !.state = state])>>)
    BY <1>11 DEF Commit, Release, Update, AllocationState
  <2>2. Step("journal", "allocations", a, [mem.allocations[a] EXCEPT !.state = state]) \in Plain
    BY <2>1, UpdateTyped
  <2>3. <<Step("journal", "allocations", a, [mem.allocations[a] EXCEPT !.state = state])>> \in Seq(Plain)
    BY <2>2
  <2> QED  BY <2>1, <2>3, PlainSound
<1>12. ASSUME NEW v \in Victims, Revoke(v)
       PROVE  \E steps : Sound(steps) /\ Begin(steps)
  <2>1. Fences(v) \in Seq(Plain)
    BY VictimsTyped, FencesTyped
  <2> QED  BY <1>12, <2>1, PlainSound DEF Revoke
<1> QED  BY <1>3, <1>4, <1>5, <1>6, <1>7, <1>8, <1>9, <1>10, <1>11, <1>12 DEF Operation

-----------------------------------------------------------------------------

\* The steps of the specification, with operations reduced to their plans.
Split ==
  \/ StartRecord \/ TruncateJournal \/ AppendRecord \/ FailOperation \/ Checkpoint
  \/ Crash \/ Close \/ Open \/ OpenRefused
  \/ \E steps : Sound(steps) /\ Begin(steps)

\* There are no other steps.
LEMMA NextSplit ==
    ASSUME mem \in WideImage, Next
    PROVE  Split
<1>1. Next => Progress \/ FailOperation \/ Checkpoint \/ Crash \/ Close \/ Open
                \/ OpenRefused \/ Operation
  BY DEF Next, Operation
<1> QED  BY <1>1, OperationBegins DEF Split, Progress

\* An interrupted append leaves a journal.
LEMMA InterruptedTyped ==
    ASSUME NEW j \in Seq(Frames), NEW r \in WideRecord, NEW k \in Interrupted(j, r)
    PROVE  k \in Seq(Frames)
<1>1. r \in Frames /\ Torn \in Frames
  BY DEF Frames
<1> QED  BY <1>1 DEF Interrupted

\* load_from_store yields an image, whose identity counter comes from memory or
\* from the snapshot.
LEMMA RecoveredTyped ==
    ASSUME NEW x \in WideImage, snapshot \in WideImage, journal \in Seq(Frames)
    PROVE  /\ Overlay(x, snapshot) \in WideImage
           /\ ReplayAll(Overlay(x, snapshot), journal) \in WideImage
           /\ Recovered(x) \in WideImage
           /\ Recovered(x).epoch = ReplayAll(Overlay(x, snapshot), journal).epoch
           /\ Recovered(x).next_allocation_id \in {x.next_allocation_id, snapshot.next_allocation_id}
<1>1. Overlay(x, snapshot) \in WideImage
       /\ Overlay(x, snapshot).next_allocation_id \in {x.next_allocation_id, snapshot.next_allocation_id}
  BY OverlayTyped
<1>2. ReplayAll(Overlay(x, snapshot), journal) \in WideImage
       /\ ReplayAll(Overlay(x, snapshot), journal).next_allocation_id
            = Overlay(x, snapshot).next_allocation_id
  BY <1>1, ReplayAllFacts
<1> QED  BY <1>1, <1>2, ExpireTyped DEF Recovered

\* Shape holds at first, is kept by every step, and so always holds.
LEMMA InitShape ==
    ASSUME Init
    PROVE  Shape
<1>1. <<>> \in Seq(Frames) /\ <<>> \in Seq(WideStep) /\ Len(<<>>) = 0 /\ 1 \in 1..(0 + 1)
  OBVIOUS
<1>2. 0 \in 0..MaxFailures
  BY DurableAssumption
<1> QED  BY <1>1, <1>2, EmptyTyped DEF Init, Shape, Idle

LEMMA NextShape ==
    ASSUME Shape, Next
    PROVE  Shape'
<1> USE DEF Shape
<1>1. Split
  BY NextSplit
<1>2. Len(plan) \in Nat /\ at \in Nat /\ at >= 1
  OBVIOUS
<1>3. at \in 1..Len(plan) =>
        /\ plan[at] \in WideStep
        /\ plan[at].record \in WideRecord
        /\ Applied(mem, plan[at]) \in WideImage
  <2> SUFFICES ASSUME at \in 1..Len(plan)
               PROVE  /\ plan[at] \in WideStep
                      /\ plan[at].record \in WideRecord
                      /\ Applied(mem, plan[at]) \in WideImage
    OBVIOUS
  <2>1. plan[at] \in WideStep
    BY SequenceRules
  <2> QED  BY <2>1, AppliedTyped DEF WideStep
<1>4. CASE StartRecord
  <2>1. at \in 1..Len(plan)
    BY <1>4 DEF StartRecord
  <2>2. mem' \in WideImage
    BY <1>3, <1>4, <2>1 DEF StartRecord
  <2>3. snapshot' \in WideImage
    BY <1>4, <2>2 DEF StartRecord, InstallSnapshot
  <2> QED  BY <1>4, <2>1, <2>2, <2>3 DEF StartRecord, Idle
<1>5. CASE TruncateJournal
  <2>1. journal' = <<>>
    BY <1>5, SequenceRules DEF TruncateJournal, truncate_to
  <2>2. journal' \in Seq(Frames)
    BY <2>1
  <2>3. plan = <<>> => at = 1
    BY <1>2
  <2> QED  BY <1>5, <2>2, <2>3 DEF TruncateJournal, Idle
<1>6. CASE AppendRecord
  <2>1. at \in 1..Len(plan)
    BY <1>6 DEF AppendRecord
  <2>2. mem' \in WideImage
    BY <1>3, <1>6, <2>1 DEF AppendRecord
  <2>3. journal' \in Seq(Frames)
    <3>1. plan[at].record \in Frames
      BY <1>3, <2>1 DEF Frames
    <3> QED  BY <1>6, <3>1 DEF AppendRecord
  <2>4. CASE at < Len(plan)
    <3>1. at + 1 \in 1..Len(plan) /\ at + 1 \in 1..(Len(plan) + 1)
      BY <1>2, <2>4
    <3>2. at' = at + 1 /\ phase' = "start"
           /\ UNCHANGED <<status, plan, before, answered, seen, snapshot, crashes, failures>>
      BY <1>6, <2>4 DEF AppendRecord
    <3> QED  BY <1>6, <2>2, <2>3, <3>1, <3>2 DEF AppendRecord, Idle
  <2>5. CASE ~(at < Len(plan))
    <3>1. /\ at' = 1 /\ phase' = "idle" /\ plan' = <<>> /\ status' = "open" /\ before' = mem'
          /\ answered' = answered \cup
               (IF plan[at].grant THEN {plan[at].record.value.attempt} ELSE {})
          /\ seen' = seen \cup {mem'.epoch}
          /\ UNCHANGED <<snapshot, crashes, failures>>
      BY <1>6, <2>5 DEF AppendRecord
    <3>2. answered' \subseteq Attempts
      <4>1. plan[at].grant => plan[at].record.value.attempt \in Attempts
        BY <1>3, <2>1 DEF WideStep, WideRecord, AllocationRecord
      <4> QED  BY <3>1, <4>1
    <3>3. seen' \subseteq Nat
      BY <2>2, <3>1 DEF WideImage
    <3>4. <<>> \in Seq(WideStep) /\ Len(<<>>) = 0 /\ 1 \in 1..(0 + 1)
      OBVIOUS
    <3> QED  BY <2>2, <2>3, <3>1, <3>2, <3>3, <3>4 DEF Idle
  <2> QED  BY <2>4, <2>5
<1>7. CASE FailOperation
  <2>1. plan[at].record \in WideRecord \/ phase # "append"
    BY <1>3
  <2>2. journal' \in Seq(Frames)
    <3>1. journal' \in {journal, <<>>} \/ (phase = "append" /\ journal' \in Interrupted(journal, plan[at].record))
      BY <1>7 DEF FailOperation
    <3>2. <<>> \in Seq(Frames)
      OBVIOUS
    <3> QED  BY <2>1, <3>1, <3>2, InterruptedTyped
  <2>3. mem' \in WideImage
    BY <1>3, <1>7 DEF FailOperation
  <2>4. failures' \in 0..MaxFailures
    BY <1>7, DurableAssumption DEF FailOperation
  <2>5. /\ status' = IF status = "opening" THEN "closed" ELSE status
        /\ plan' = <<>> /\ at' = 1 /\ phase' = "idle" /\ before' = mem'
        /\ UNCHANGED <<snapshot, crashes, answered, seen>>
    BY <1>7 DEF FailOperation
  <2>6. <<>> \in Seq(WideStep) /\ Len(<<>>) = 0 /\ 1 \in 1..(0 + 1)
    OBVIOUS
  <2> QED  BY <2>2, <2>3, <2>4, <2>5, <2>6 DEF Idle
<1>8. CASE Checkpoint
  BY <1>8 DEF Checkpoint, InstallSnapshot, Idle
<1>9. CASE Crash
  <2>1. journal' \in Seq(Frames)
    BY <1>3, <1>9, InterruptedTyped DEF Crash
  <2>2. crashes' \in Nat
    BY <1>9 DEF Crash
  <2>3. /\ status' = "down" /\ phase' = "idle" /\ mem' = EmptyImage
        /\ UNCHANGED <<snapshot, failures, plan, at, before, answered, seen>>
    BY <1>9 DEF Crash
  <2> QED  BY <2>1, <2>2, <2>3, EmptyTyped DEF Idle
<1>10. CASE Close
  BY <1>10 DEF Close, Idle
<1>11. CASE Open
  <2>1. mem' \in WideImage
    BY <1>11, RecoveredTyped DEF Open
  <2>2. journal' \in Seq(Frames)
    <3>1. \A i \in 1..Intact(journal) : journal[i] \in Frames
      BY IntactRecords DEF Frames
    <3>2. Intact(journal) \in Int /\ 1 \in Int
      BY IntactRecords
    <3> QED  BY <1>11, <3>1, <3>2 DEF Open, truncate_to
  <2> DEFINE s == Step("memory", "epoch", 0, mem'.epoch + 1)
  <2>3. s \in WideStep
    <3>1. mem'.epoch + 1 \in Nat \ {0}
      BY <2>1 DEF WideImage
    <3> QED  BY <3>1 DEF Step, WideStep, WideRecord
  <2>4. plan' = <<s>> /\ at' = 1 /\ phase' = "start" /\ status' = "opening" /\ before' = mem'
         /\ UNCHANGED <<snapshot, crashes, failures, answered, seen>>
    BY <1>11 DEF Open
  <2> HIDE DEF s
  <2>5. <<s>> \in Seq(WideStep) /\ Len(<<s>>) = 1 /\ 1 \in 1..1 /\ 1 \in 1..(1 + 1)
    BY <2>3
  <2> QED  BY <2>1, <2>2, <2>4, <2>5 DEF Idle
<1>12. CASE OpenRefused
  <2>1. mem' \in WideImage
    BY <1>12, RecoveredTyped DEF OpenRefused
  <2> QED  BY <1>12, <2>1 DEF OpenRefused, Idle
<1>13. ASSUME NEW steps, Sound(steps), Begin(steps)
       PROVE  Shape'
  <2>1. steps \in Seq(WideStep) /\ Len(steps) \in Nat /\ Len(steps) # 0
    BY <1>13 DEF Sound, Begin
  <2>2. 1 \in 1..Len(steps) /\ 1 \in 1..(Len(steps) + 1)
    BY <2>1
  <2> QED  BY <1>13, <2>1, <2>2 DEF Begin, Idle
<1> QED  BY <1>1, <1>4, <1>5, <1>6, <1>7, <1>8, <1>9, <1>10, <1>11, <1>12, <1>13 DEF Split

LEMMA AlwaysShape == Spec => []Shape
<1>1. Init => Shape
  BY InitShape
<1>2. Shape /\ [Next]_vars => Shape'
  <2> SUFFICES ASSUME Shape, [Next]_vars PROVE Shape'
    OBVIOUS
  <2>1. CASE Next
    BY <2>1, NextShape
  <2>2. CASE UNCHANGED vars
    BY <2>2 DEF vars, Shape, Idle
  <2> QED  BY <2>1, <2>2
<1> QED  BY <1>1, <1>2, PTL DEF Spec

\* The step in progress.
LEMMA StepAt ==
    ASSUME Shape, at \in 1..Len(plan)
    PROVE  /\ plan[at] \in WideStep
           /\ plan[at].record \in WideRecord
           /\ Applied(mem, plan[at]) \in WideImage
           /\ Applied(mem, plan[at]).epoch \in Nat
           /\ mem.epoch \in Nat
           /\ Applied(mem, plan[at]).epoch =
                IF plan[at].record.table = "epoch" /\ plan[at].record.value > mem.epoch
                THEN plan[at].record.value ELSE mem.epoch
           /\ plan[at].record.table = "epoch" => plan[at].record.value \in Nat \ {0}
<1>1. plan[at] \in WideStep
  BY SequenceRules DEF Shape
<1>2. plan[at].record \in WideRecord /\ mem \in WideImage
  BY <1>1 DEF WideStep, Shape
<1>3. Applied(mem, plan[at]) \in WideImage
       /\ Applied(mem, plan[at]).epoch = Replay(mem, plan[at].record).epoch
  BY <1>1, <1>2, AppliedTyped
<1>4. Applied(mem, plan[at]).epoch \in Nat /\ mem.epoch \in Nat
  BY <1>2, <1>3 DEF WideImage
<1>5. plan[at].record.table = "epoch" => plan[at].record.value \in Nat \ {0}
  BY <1>2 DEF WideRecord
<1> QED  BY <1>1, <1>2, <1>3, <1>4, <1>5, ReplayStep

\* The epoch in the files: a snapshot sets it, cutting the tail keeps it and
\* appending never lowers it.
LEMMA DiskFacts ==
    ASSUME NEW s \in WideImage, NEW j \in Seq(Frames)
    PROVE  /\ Overlay(EmptyImage, s) \in WideImage
           /\ DiskOf(s, j) \in WideImage
           /\ s.epoch \in Nat /\ DiskOf(s, j).epoch \in Nat
           /\ DiskOf(s, j).epoch >= s.epoch
           /\ DiskOf(s, <<>>).epoch = s.epoch
           /\ DiskOf(s, truncate_to(j, Intact(j))) = DiskOf(s, j)
           /\ \A r \in Frames :
                /\ DiskOf(s, Append(j, r)).epoch \in Nat
                /\ DiskOf(s, Append(j, r)).epoch >= DiskOf(s, j).epoch
                /\ (\A i \in 1..Len(j) : j[i] # Torn) /\ r # Torn /\ r.table = "epoch"
                     => DiskOf(s, Append(j, r)).epoch >= r.value
<1> DEFINE o == Overlay(EmptyImage, s)
<1>1. o \in WideImage /\ o.epoch = s.epoch
  BY EmptyTyped, OverlayTyped
<1> HIDE DEF o
<1>2. \A x \in WideImage : x.epoch \in Nat
  BY DEF WideImage
<1>3. ReplayAll(o, j) \in WideImage
  BY <1>1, ReplayAllFacts
<1>4. ReplayAll(o, j).epoch >= o.epoch
  <2>1. PICK e \in Nat : ReplayAll(o, j).epoch = IF o.epoch < e THEN e ELSE o.epoch
    BY <1>1, ReplayAllFacts
  <2> QED  BY <1>1, <1>2, <2>1
<1>5. ReplayAll(o, <<>>) = o /\ ReplayAll(o, truncate_to(j, Intact(j))) = ReplayAll(o, j)
  BY ReplayNothing, ReplayPrefix
<1>6. ASSUME NEW r \in Frames
      PROVE  /\ ReplayAll(o, Append(j, r)).epoch \in Nat
             /\ ReplayAll(o, Append(j, r)).epoch >= ReplayAll(o, j).epoch
             /\ (\A i \in 1..Len(j) : j[i] # Torn) /\ r # Torn /\ r.table = "epoch"
                  => ReplayAll(o, Append(j, r)).epoch >= r.value
  <2>1. CASE (\A i \in 1..Len(j) : j[i] # Torn) /\ r # Torn
    <3>1. ReplayAll(o, Append(j, r)) = Replay(ReplayAll(o, j), r)
      BY <2>1, ReplayAppend
    <3>2. r \in WideRecord
      BY <2>1 DEF Frames
    <3>3. r.table = "epoch" => r.value \in Nat
      BY <3>2 DEF WideRecord
    <3>4. ReplayAll(o, Append(j, r)).epoch =
            IF r.table = "epoch" /\ r.value > ReplayAll(o, j).epoch
            THEN r.value ELSE ReplayAll(o, j).epoch
      BY <1>3, <3>1, <3>2, ReplayStep
    <3>5. ReplayAll(o, j).epoch \in Nat
      BY <1>2, <1>3
    <3> QED  BY <3>3, <3>4, <3>5
  <2>2. CASE ~((\A i \in 1..Len(j) : j[i] # Torn) /\ r # Torn)
    <3>1. ReplayAll(o, Append(j, r)) = ReplayAll(o, j)
      BY <2>2, ReplayAppend
    <3>2. ReplayAll(o, j).epoch \in Nat
      BY <1>2, <1>3
    <3> QED  BY <2>2, <3>1, <3>2
  <2> QED  BY <2>1, <2>2
<1>7. ReplayAll(o, j).epoch \in Nat /\ s.epoch \in Nat
  BY <1>2, <1>3
<1> QED  BY <1>1, <1>3, <1>4, <1>5, <1>6, <1>7 DEF o, DiskOf

\* Neither does an append that is interrupted.
LEMMA InterruptedEpoch ==
    ASSUME NEW s \in WideImage, NEW j \in Seq(Frames), NEW r \in WideRecord,
           NEW k \in Interrupted(j, r)
    PROVE  DiskOf(s, k).epoch \in Nat /\ DiskOf(s, k).epoch >= DiskOf(s, j).epoch
<1>1. r \in Frames /\ Torn \in Frames
  BY DEF Frames
<1>2. CASE k = j
  <2>1. DiskOf(s, j).epoch \in Nat
    BY DiskFacts
  <2> QED  BY <1>2, <2>1
<1>3. CASE k # j
  BY <1>1, <1>3, DiskFacts DEF Interrupted
<1> QED  BY <1>2, <1>3

\* Recovery, also over what a closed object still has in memory, finds at least
\* the epoch in the files.
LEMMA RecoveredEpoch ==
    ASSUME NEW x \in WideImage, snapshot \in WideImage, journal \in Seq(Frames)
    PROVE  Recovered(x).epoch \in Nat /\ Recovered(x).epoch >= Disk.epoch
<1> DEFINE o == Overlay(EmptyImage, snapshot)
           y == Overlay(x, snapshot)
<1>1. o \in WideImage /\ y \in WideImage /\ o.epoch = snapshot.epoch
       /\ y.epoch = IF snapshot.epoch = 0 THEN x.epoch ELSE snapshot.epoch
  BY EmptyTyped, OverlayTyped
<1>2. Recovered(x).epoch = ReplayAll(y, journal).epoch /\ Disk = ReplayAll(o, journal)
  BY RecoveredTyped DEF Disk, DiskOf
<1> HIDE DEF o, y
<1>3. o.epoch \in Nat /\ y.epoch \in Nat /\ x.epoch \in Nat /\ snapshot.epoch \in Nat
  BY <1>1 DEF WideImage
<1>4. PICK e \in Nat : /\ ReplayAll(y, journal).epoch = IF y.epoch < e THEN e ELSE y.epoch
                       /\ ReplayAll(o, journal).epoch = IF o.epoch < e THEN e ELSE o.epoch
  BY <1>1, ReplayAllFacts
<1>5. y.epoch >= o.epoch
  BY <1>1, <1>3
<1>6. ReplayAll(y, journal).epoch \in Nat /\ ReplayAll(y, journal).epoch >= ReplayAll(o, journal).epoch
  BY <1>3, <1>4, <1>5
<1> QED  BY <1>2, <1>6

\* EpochInv holds at first, is kept by every step, and so always holds.
LEMMA InitEpoch ==
    ASSUME Init
    PROVE  EpochInv
BY DEF Init, EpochInv

LEMMA NextEpoch ==
    ASSUME Shape, Shape', EpochInv, Next
    PROVE  EpochInv'
<1>1. Split
  BY NextSplit DEF Shape
<1>2. /\ mem \in WideImage /\ snapshot \in WideImage /\ journal \in Seq(Frames) /\ seen \subseteq Nat
      /\ mem' \in WideImage /\ snapshot' \in WideImage /\ journal' \in Seq(Frames)
  BY DEF Shape
<1>3. mem.epoch \in Nat /\ snapshot.epoch \in Nat /\ mem'.epoch \in Nat /\ Disk.epoch \in Nat
  BY <1>2, DiskFacts DEF WideImage, Disk
<1>4. Disk = DiskOf(snapshot, journal) /\ Disk' = DiskOf(snapshot', journal')
  BY DEF Disk
<1>5. status = "open" => mem.epoch # 0 /\ mem.epoch \in seen /\ \A e \in seen : e <= mem.epoch
  BY DEF EpochInv
<1>6. status = "open" /\ at \in 1..Len(plan) => Applied(mem, plan[at]).epoch = mem.epoch
  BY StepAt DEF EpochInv
<1>7. status = "opening" =>
       /\ Len(plan) = 1 /\ at = 1 /\ at \in 1..Len(plan) /\ phase # "idle"
       /\ plan[at].first = "memory" /\ plan[at].record.table = "epoch"
       /\ plan[at].record.value \in Nat \ {0}
       /\ plan[at].record.value = IF phase = "start" THEN mem.epoch + 1 ELSE mem.epoch
       /\ \A e \in seen : e < plan[at].record.value
       /\ \A i \in 1..Len(journal) : journal[i] # Torn
  BY StepAt DEF EpochInv
<1>8. CASE StartRecord
  <2>1. at \in 1..Len(plan) /\ phase = "start" /\ status \in {"opening", "open"}
    BY <1>8 DEF StartRecord, Shape
  <2>2. /\ mem' = IF plan[at].first = "memory" THEN Applied(mem, plan[at]) ELSE mem
        /\ snapshot' = (IF needs_compaction THEN mem' ELSE snapshot)
        /\ phase' = (IF needs_compaction THEN "renamed" ELSE "append")
        /\ UNCHANGED <<status, journal, plan, at, seen>>
    BY <1>8 DEF StartRecord, InstallSnapshot
  <2>3. status = "open" => mem'.epoch = mem.epoch
    BY <1>6, <2>1, <2>2
  <2>4. status = "opening" => mem'.epoch = plan[at].record.value
    BY <1>3, <1>7, <2>1, <2>2, StepAt
  <2>5. \A e \in seen : e <= mem'.epoch
    BY <1>2, <1>3, <1>5, <1>7, <2>1, <2>3, <2>4
  <2>6. \A e \in seen : e <= Disk'.epoch
    <3>1. CASE needs_compaction
      <4>1. Disk' = DiskOf(mem', journal)
        BY <1>4, <2>2, <3>1
      <4>2. Disk'.epoch \in Nat /\ Disk'.epoch >= mem'.epoch
        BY <1>2, <4>1, DiskFacts
      <4> QED  BY <1>2, <1>3, <2>5, <4>2
    <3>2. CASE ~ needs_compaction
      BY <1>4, <2>2, <3>2 DEF EpochInv
    <3> QED  BY <3>1, <3>2
  <2>7. phase' \in {"renamed", "append"} /\ (phase' = "renamed" => snapshot' = mem')
    BY <2>2
  <2>8. status' = "open" =>
          /\ mem'.epoch # 0 /\ mem'.epoch \in seen' /\ \A e \in seen' : e <= mem'.epoch
          /\ \A i \in 1..Len(plan') : plan'[i].record.table # "epoch"
    BY <1>5, <2>2, <2>3 DEF EpochInv
  <2>9. status' = "opening" =>
       /\ Len(plan') = 1 /\ at' = 1 /\ phase' # "idle"
       /\ plan'[1].first = "memory" /\ plan'[1].record.table = "epoch"
       /\ plan'[1].record.value = IF phase' = "start" THEN mem'.epoch + 1 ELSE mem'.epoch
       /\ \A e \in seen' : e < plan'[1].record.value
       /\ \A i \in 1..Len(journal') : journal'[i] # Torn
    BY <1>7, <2>2, <2>4, <2>7
  <2> QED  BY <2>2, <2>6, <2>7, <2>8, <2>9 DEF EpochInv
<1>9. CASE TruncateJournal
  <2>1. phase = "renamed" /\ snapshot = mem /\ status \in {"opening", "open"}
    BY <1>9 DEF TruncateJournal, Shape, EpochInv
  <2>2. /\ journal' = <<>> /\ phase' = (IF plan = <<>> THEN "idle" ELSE "append")
        /\ UNCHANGED <<status, mem, snapshot, plan, at, seen>>
    BY <1>9, SequenceRules DEF TruncateJournal, truncate_to
  <2>3. Disk'.epoch = mem.epoch
    BY <1>2, <1>4, <2>1, <2>2, DiskFacts
  <2>4. \A e \in seen : e <= mem.epoch
    <3>1. CASE status = "open"
      BY <1>5, <3>1
    <3>2. CASE status = "opening"
      <4>1. plan[at].record.value = mem.epoch /\ \A e \in seen : e < plan[at].record.value
        BY <1>7, <2>1, <3>2
      <4> QED  BY <1>2, <1>3, <4>1
    <3> QED  BY <2>1, <3>1, <3>2
  <2>5. status = "opening" => plan # <<>>
    BY <1>7
  <2>6. Len(journal') = 0
    BY <2>2
  <2>7. status' = "opening" =>
       /\ Len(plan') = 1 /\ at' = 1 /\ phase' # "idle"
       /\ plan'[1].first = "memory" /\ plan'[1].record.table = "epoch"
       /\ plan'[1].record.value = IF phase' = "start" THEN mem'.epoch + 1 ELSE mem'.epoch
       /\ \A e \in seen' : e < plan'[1].record.value
       /\ \A i \in 1..Len(journal') : journal'[i] # Torn
    BY <1>7, <2>1, <2>2, <2>5, <2>6
  <2> QED  BY <2>2, <2>3, <2>4, <2>7 DEF EpochInv
<1>10. CASE AppendRecord
  <2>1. at \in 1..Len(plan) /\ phase = "append" /\ status \in {"opening", "open"}
    BY <1>10 DEF AppendRecord, Shape
  <2>2. /\ journal' = Append(journal, plan[at].record)
        /\ mem' = IF plan[at].first = "journal" THEN Applied(mem, plan[at]) ELSE mem
        /\ snapshot' = snapshot
    BY <1>10 DEF AppendRecord
  <2>3. plan[at].record \in Frames /\ plan[at].record # Torn
    BY <2>1, StepAt, RecordIsNotTorn DEF Frames
  <2>4. Disk'.epoch \in Nat /\ Disk'.epoch >= Disk.epoch
    BY <1>2, <1>4, <2>2, <2>3, DiskFacts
  <2>5. CASE status = "open"
    <3>1. mem'.epoch = mem.epoch
      BY <1>6, <2>1, <2>2, <2>5
    <3>2. status' = "open" /\ seen' = seen /\ plan' \in {plan, <<>>} /\ phase' \in {"start", "idle"}
      BY <1>5, <1>10, <2>5, <3>1 DEF AppendRecord
    <3>3. \A i \in 1..Len(plan') : plan'[i].record.table # "epoch"
      BY <2>5, <3>2 DEF EpochInv
    <3>4. \A e \in seen : e <= Disk'.epoch
      BY <1>2, <1>3, <2>4 DEF EpochInv
    <3> QED  BY <1>5, <2>5, <3>1, <3>2, <3>3, <3>4 DEF EpochInv
  <2>6. CASE status = "opening"
    <3>1. mem' = mem /\ ~(at < Len(plan)) /\ plan[at].record.value = mem.epoch
      <4>1. plan[at].first = "memory" /\ at = 1 /\ Len(plan) = 1
        BY <1>7, <2>6
      <4>2. mem' = mem /\ ~(at < Len(plan))
        BY <2>2, <4>1
      <4>3. phase # "start"
        BY <2>1
      <4> QED  BY <1>7, <2>6, <4>2, <4>3, Zenon
    <3>2. status' = "open" /\ seen' = seen \cup {mem'.epoch} /\ plan' = <<>> /\ phase' = "idle"
      BY <1>10, <3>1 DEF AppendRecord
    <3>3. Disk'.epoch >= mem.epoch
      <4>1. Disk'.epoch >= plan[at].record.value
        BY <1>2, <1>4, <1>7, <2>2, <2>3, <2>6, DiskFacts
      <4> QED  BY <3>1, <4>1
    <3>4. mem.epoch # 0 /\ \A e \in seen : e <= mem.epoch
      BY <1>2, <1>3, <1>7, <2>6, <3>1
    <3>5. \A e \in seen' : e <= Disk'.epoch /\ e <= mem'.epoch
      BY <1>2, <1>3, <2>4, <3>1, <3>2, <3>3, <3>4
    <3>6. Len(plan') = 0
      BY <3>2
    <3> QED  BY <3>1, <3>2, <3>4, <3>5, <3>6 DEF EpochInv
  <2> QED  BY <2>1, <2>5, <2>6
<1>11. CASE FailOperation
  <2>1. phase # "idle" /\ status \in {"opening", "open"}
    BY <1>11 DEF FailOperation, Shape
  <2>2. /\ status' = IF status = "opening" THEN "closed" ELSE status
        /\ plan' = <<>> /\ phase' = "idle" /\ snapshot' = snapshot /\ seen' = seen
        /\ mem' \in {mem, Applied(mem, plan[at])}
        /\ mem' # mem => phase = "start"
        /\ \/ journal' = journal
           \/ phase = "renamed" /\ journal' = <<>>
           \/ phase = "append" /\ journal' \in Interrupted(journal, plan[at].record)
    BY <1>11 DEF FailOperation
  <2>3. \A e \in seen : e <= Disk'.epoch
    <3>1. CASE journal' = journal
      BY <1>4, <2>2, <3>1 DEF EpochInv
    <3>2. CASE phase = "renamed" /\ journal' = <<>>
      <4>1. snapshot = mem
        BY <3>2 DEF EpochInv
      <4>2. Disk'.epoch = mem.epoch
        BY <1>2, <1>4, <2>2, <3>2, <4>1, DiskFacts
      <4> QED  BY <1>2, <1>3, <1>5, <1>7, <2>1, <3>2, <4>2
    <3>3. CASE phase = "append" /\ journal' \in Interrupted(journal, plan[at].record)
      <4>1. at \in 1..Len(plan)
        BY <3>3 DEF Shape
      <4>2. plan[at].record \in WideRecord
        BY <4>1, StepAt
      <4>3. Disk'.epoch \in Nat /\ Disk'.epoch >= Disk.epoch
        BY <1>2, <1>4, <2>2, <3>3, <4>2, InterruptedEpoch
      <4> QED  BY <1>2, <1>3, <4>3 DEF EpochInv
    <3> QED  BY <2>2, <3>1, <3>2, <3>3
  <2>4. status = "open" => mem'.epoch = mem.epoch
    <3>1. phase = "start" => at \in 1..Len(plan)
      BY DEF Shape
    <3> QED  BY <1>6, <2>2, <3>1
  <2>5. status' # "opening" /\ (status' = "open" => status = "open") /\ Len(plan') = 0
    BY <2>1, <2>2
  <2> QED  BY <1>5, <2>2, <2>3, <2>4, <2>5 DEF EpochInv
<1>12. CASE Checkpoint
  <2>1. status = "open" /\ snapshot' = mem /\ phase' = "renamed" /\ UNCHANGED <<status, mem, journal, plan, seen>>
    BY <1>12 DEF Checkpoint, InstallSnapshot, Idle
  <2>2. Disk'.epoch \in Nat /\ Disk'.epoch >= mem.epoch
    BY <1>2, <1>4, <2>1, DiskFacts
  <2>3. \A e \in seen : e <= Disk'.epoch
    BY <1>2, <1>3, <1>5, <2>1, <2>2
  <2> QED  BY <1>5, <2>1, <2>3 DEF EpochInv
<1>13. CASE Crash
  <2>1. status' = "down" /\ phase' = "idle" /\ snapshot' = snapshot /\ seen' = seen
    BY <1>13 DEF Crash
  <2>2. \A e \in seen : e <= Disk'.epoch
    <3>1. CASE phase = "append"
      <4>1. at \in 1..Len(plan) /\ journal' \in Interrupted(journal, plan[at].record)
        BY <1>13, <3>1 DEF Shape, Crash
      <4>2. plan[at].record \in WideRecord
        BY <4>1, StepAt
      <4>3. Disk'.epoch \in Nat /\ Disk'.epoch >= Disk.epoch
        BY <1>2, <1>4, <2>1, <4>1, <4>2, InterruptedEpoch
      <4> QED  BY <1>2, <1>3, <4>3 DEF EpochInv
    <3>2. CASE phase # "append"
      <4>1. journal' = journal
        BY <1>13, <3>2 DEF Crash
      <4> QED  BY <1>4, <2>1, <4>1 DEF EpochInv
    <3> QED  BY <3>1, <3>2
  <2> QED  BY <2>1, <2>2 DEF EpochInv
<1>14. CASE Close
  <2>1. status' = "closed" /\ UNCHANGED <<snapshot, journal, phase, seen>> /\ phase = "idle"
    BY <1>14 DEF Close, Idle
  <2>2. Disk' = Disk
    BY <1>4, <2>1
  <2> QED  BY <2>1, <2>2 DEF EpochInv
<1>15. CASE Open
  <2>1. /\ mem' = Recovered(mem) /\ journal' = truncate_to(journal, Intact(journal))
        /\ status' = "opening" /\ phase' = "start" /\ at' = 1
        /\ plan' = <<Step("memory", "epoch", 0, mem'.epoch + 1)>>
        /\ UNCHANGED <<snapshot, seen>>
    BY <1>15 DEF Open
  <2>2. mem'.epoch >= Disk.epoch
    BY <1>2, <2>1, RecoveredEpoch
  <2>3. Disk' = Disk
    BY <1>2, <1>4, <2>1, DiskFacts
  <2>4. \A i \in 1..Len(journal') : journal'[i] # Torn
    <3>1. Intact(journal) \in Nat /\ Intact(journal) <= Len(journal) /\ Len(journal) \in Nat
           /\ \A i \in 1..Intact(journal) : journal[i] # Torn
      BY <1>2, IntactRecords, RecordIsNotTorn
    <3>2. Len(journal') = Intact(journal) /\ \A i \in 1..Intact(journal) : journal'[i] = journal[i]
      BY <1>2, <2>1, <3>1 DEF truncate_to
    <3> QED  BY <3>1, <3>2
  <2>5. Len(plan') = 1 /\ plan'[1].first = "memory" /\ plan'[1].record.table = "epoch"
         /\ plan'[1].record.value = mem'.epoch + 1
    BY <2>1 DEF Step
  <2>6. \A e \in seen' : e < mem'.epoch + 1 /\ e <= Disk'.epoch
    <3>1. \A e \in seen : e <= Disk.epoch
      BY DEF EpochInv
    <3>2. \A e \in seen : e < mem'.epoch + 1
      BY <1>2, <1>3, <2>2, <3>1
    <3> QED  BY <2>1, <2>3, <3>1, <3>2
  <2> QED  BY <2>1, <2>4, <2>5, <2>6 DEF EpochInv
<1>16. CASE OpenRefused
  <2>1. status' = "closed" /\ UNCHANGED <<snapshot, journal, phase, seen>> /\ phase = "idle"
    BY <1>16 DEF OpenRefused, Shape
  <2>2. Disk' = Disk
    BY <1>4, <2>1
  <2> QED  BY <2>1, <2>2 DEF EpochInv
<1>17. ASSUME NEW steps, Sound(steps), Begin(steps)
       PROVE  EpochInv'
  <2>1. status = "open" /\ plan' = steps /\ phase' = "start" /\ UNCHANGED <<status, mem, snapshot, journal, seen>>
    BY <1>17 DEF Begin, Idle
  <2>2. Disk' = Disk
    BY <1>4, <2>1
  <2>3. \A i \in 1..Len(plan') : plan'[i].record.table # "epoch"
    BY <1>17, <2>1 DEF Sound
  <2> QED  BY <1>5, <2>1, <2>2, <2>3 DEF EpochInv
<1> QED  BY <1>1, <1>8, <1>9, <1>10, <1>11, <1>12, <1>13, <1>14, <1>15, <1>16, <1>17 DEF Split

LEMMA AlwaysEpoch == Spec => [](Shape /\ EpochInv)
<1>1. Init => Shape /\ EpochInv
  BY InitShape, InitEpoch
<1>2. Shape /\ EpochInv /\ [Next]_vars => Shape' /\ EpochInv'
  <2> SUFFICES ASSUME Shape, EpochInv, [Next]_vars PROVE Shape' /\ EpochInv'
    OBVIOUS
  <2>1. CASE Next
    BY <2>1, NextShape, NextEpoch
  <2>2. CASE UNCHANGED vars
    BY <2>2 DEF vars, Shape, Idle, EpochInv, Disk
  <2> QED  BY <2>1, <2>2
<1> QED  BY <1>1, <1>2, PTL DEF Spec

\* fabric.cpp, open(): the epoch that an open() returns is larger than every
\* epoch an earlier open() returned, whatever crashes, failed writes and
\* compactions fell between the two.
THEOREM EpochsOnlyGrow == Spec => EpochNeverReused
<1>1. Shape /\ EpochInv /\ [Next]_vars
        => (status = "opening" /\ status' = "open" => \A e \in seen : mem'.epoch > e)
  <2> SUFFICES ASSUME Shape, EpochInv, [Next]_vars, status = "opening", status' = "open"
               PROVE  \A e \in seen : mem'.epoch > e
    OBVIOUS
  <2>1. AppendRecord
    <3>1. Next
      BY DEF vars
    <3>2. Split
      BY <3>1, NextSplit DEF Shape
    <3> QED  BY <3>2 DEF Split, StartRecord, TruncateJournal, FailOperation, Checkpoint, Crash,
                         Close, Open, OpenRefused, Begin, Idle
  <2>2. /\ at = 1 /\ phase = "append" /\ plan[1].first = "memory"
        /\ plan[1].record.value = mem.epoch /\ \A e \in seen : e < plan[1].record.value
    BY <2>1 DEF EpochInv, AppendRecord
  <2>3. mem' = mem
    BY <2>1, <2>2 DEF AppendRecord
  <2>4. mem.epoch \in Nat /\ seen \subseteq Nat
    BY DEF Shape, WideImage
  <2> QED  BY <2>2, <2>3, <2>4
<1> QED  BY <1>1, AlwaysEpoch, PTL DEF Spec, EpochNeverReused

-----------------------------------------------------------------------------

\* Recovery stays below a bound on all epochs.
LEMMA ReplayBelow ==
    ASSUME Shape, NEW b \in Nat, EpochsBelow(b), NEW x \in WideImage, x.epoch <= b
    PROVE  ReplayAll(Overlay(x, snapshot), journal).epoch <= b
<1> DEFINE y == Overlay(x, snapshot)
<1>1. snapshot \in WideImage /\ journal \in Seq(Frames)
  BY DEF Shape
<1>2. y \in WideImage /\ y.epoch = IF snapshot.epoch = 0 THEN x.epoch ELSE snapshot.epoch
  BY <1>1, OverlayTyped
<1> HIDE DEF y
<1>3. y.epoch \in Nat /\ y.epoch <= b
  BY <1>2 DEF WideImage, EpochsBelow
<1>4. PICK e \in Nat :
        /\ ReplayAll(y, journal).epoch = IF y.epoch < e THEN e ELSE y.epoch
        /\ e = 0 \/ \E i \in 1..Len(journal) :
                      journal[i] # Torn /\ journal[i].table = "epoch" /\ journal[i].value = e
  BY <1>1, <1>2, ReplayAllFacts
<1>5. e <= b
  BY <1>4 DEF EpochsBelow
<1>6. ReplayAll(y, journal).epoch <= b
  BY <1>3, <1>4, <1>5
<1> QED  BY <1>6 DEF y

\* Appending stays below it.
LEMMA AppendBelow ==
    ASSUME NEW j \in Seq(Frames), NEW b \in Nat, NEW r \in Frames,
           \A i \in 1..Len(j) : j[i] # Torn /\ j[i].table = "epoch" => j[i].value <= b,
           r # Torn /\ r.table = "epoch" => r.value <= b
    PROVE  \A i \in 1..Len(Append(j, r)) :
             Append(j, r)[i] # Torn /\ Append(j, r)[i].table = "epoch" => Append(j, r)[i].value <= b
<1>1. Len(j) \in Nat /\ Len(Append(j, r)) = Len(j) + 1
  OBVIOUS
<1>2. \A i \in 1..Len(Append(j, r)) : i \in 1..Len(j) \/ i = Len(j) + 1
  BY <1>1
<1>3. Append(j, r)[Len(j) + 1] = r /\ \A i \in 1..Len(j) : Append(j, r)[i] = j[i]
  OBVIOUS
<1> QED  BY <1>2, <1>3

\* Every step but open() stays below it.
LEMMA StepsKeepBelow ==
    ASSUME Shape, Shape', Split, ~ Open, NEW b \in Nat, EpochsBelow(b)
    PROVE  EpochsBelow(b)'
<1>1. /\ mem \in WideImage /\ snapshot \in WideImage /\ journal \in Seq(Frames)
      /\ mem.epoch \in Nat /\ mem'.epoch \in Nat
  BY DEF Shape, WideImage
<1>2. /\ mem.epoch <= b /\ snapshot.epoch <= b /\ before.epoch <= b
      /\ \A i \in 1..Len(journal) :
           journal[i] # Torn /\ journal[i].table = "epoch" => journal[i].value <= b
      /\ \A i \in 1..Len(plan) : plan[i].record.table = "epoch" => plan[i].record.value <= b
  BY DEF EpochsBelow
<1>3. at \in 1..Len(plan) =>
        /\ Applied(mem, plan[at]).epoch <= b
        /\ plan[at].record \in WideRecord
        /\ plan[at].record.table = "epoch" => plan[at].record.value <= b
  <2> SUFFICES ASSUME at \in 1..Len(plan)
               PROVE  /\ Applied(mem, plan[at]).epoch <= b
                      /\ plan[at].record \in WideRecord
                      /\ plan[at].record.table = "epoch" => plan[at].record.value <= b
    OBVIOUS
  <2> QED  BY <1>2, StepAt
<1>4. <<>> \in Seq(Frames) /\ Len(<<>>) = 0
  OBVIOUS
<1>5. ASSUME NEW k, at \in 1..Len(plan), k \in Interrupted(journal, plan[at].record)
      PROVE  \A i \in 1..Len(k) : k[i] # Torn /\ k[i].table = "epoch" => k[i].value <= b
  <2>1. plan[at].record \in Frames /\ Torn \in Frames
    BY <1>3, <1>5 DEF Frames
  <2> QED  BY <1>1, <1>2, <1>3, <1>5, <2>1, AppendBelow DEF Interrupted
<1>6. CASE StartRecord
  <2>1. at \in 1..Len(plan)
    BY <1>6 DEF StartRecord, Shape
  <2>2. mem'.epoch <= b
    BY <1>2, <1>3, <1>6, <2>1 DEF StartRecord
  <2>3. snapshot' \in {mem', snapshot} /\ UNCHANGED <<before, journal, plan>>
    BY <1>6 DEF StartRecord, InstallSnapshot
  <2> QED  BY <1>2, <2>2, <2>3 DEF EpochsBelow
<1>7. CASE TruncateJournal
  <2>1. journal' = <<>> /\ UNCHANGED <<mem, snapshot, before, plan>>
    BY <1>7, SequenceRules DEF TruncateJournal, truncate_to
  <2> QED  BY <1>2, <1>4, <2>1 DEF EpochsBelow
<1>8. CASE AppendRecord
  <2>1. at \in 1..Len(plan)
    BY <1>8 DEF AppendRecord, Shape
  <2>2. mem'.epoch <= b
    BY <1>2, <1>3, <1>8, <2>1 DEF AppendRecord
  <2>3. /\ snapshot' = snapshot /\ before' \in {before, mem'} /\ plan' \in {plan, <<>>}
        /\ journal' \in Interrupted(journal, plan[at].record)
    BY <1>8 DEF AppendRecord, Interrupted
  <2> QED  BY <1>2, <1>4, <1>5, <2>1, <2>2, <2>3 DEF EpochsBelow
<1>9. CASE FailOperation
  <2>1. mem'.epoch <= b
    <3>1. mem' = mem \/ (phase = "start" /\ mem' = Applied(mem, plan[at]))
      BY <1>9 DEF FailOperation
    <3> QED  BY <1>2, <1>3, <3>1 DEF Shape
  <2>2. snapshot' = snapshot /\ before' = mem' /\ plan' = <<>>
    BY <1>9 DEF FailOperation
  <2>3. \A i \in 1..Len(journal') :
           journal'[i] # Torn /\ journal'[i].table = "epoch" => journal'[i].value <= b
    <3>1. \/ journal' = journal \/ journal' = <<>>
          \/ phase = "append" /\ journal' \in Interrupted(journal, plan[at].record)
      BY <1>9 DEF FailOperation
    <3>2. phase = "append" => at \in 1..Len(plan)
      BY DEF Shape
    <3> QED  BY <1>2, <1>4, <1>5, <3>1, <3>2
  <2> QED  BY <1>2, <1>4, <2>1, <2>2, <2>3 DEF EpochsBelow
<1>10. CASE Checkpoint
  <2>1. snapshot' = mem /\ UNCHANGED <<mem, journal, plan, before>>
    BY <1>10 DEF Checkpoint, InstallSnapshot
  <2> QED  BY <1>2, <2>1 DEF EpochsBelow
<1>11. CASE Crash
  <2>1. mem' = EmptyImage /\ UNCHANGED <<snapshot, plan, before>>
    BY <1>11 DEF Crash
  <2>2. mem'.epoch <= b
    BY <2>1, EmptyTyped
  <2>3. \A i \in 1..Len(journal') :
           journal'[i] # Torn /\ journal'[i].table = "epoch" => journal'[i].value <= b
    <3>1. \/ journal' = journal
          \/ phase = "append" /\ journal' \in Interrupted(journal, plan[at].record)
      BY <1>11 DEF Crash
    <3>2. phase = "append" => at \in 1..Len(plan)
      BY DEF Shape
    <3> QED  BY <1>2, <1>5, <3>1, <3>2
  <2> QED  BY <1>2, <2>1, <2>2, <2>3 DEF EpochsBelow
<1>12. CASE Close
  <2>1. UNCHANGED <<mem, snapshot, journal, plan, before>>
    BY <1>12 DEF Close
  <2> QED  BY <1>2, <2>1 DEF EpochsBelow
<1>13. CASE OpenRefused
  <2>1. mem' = ReplayAll(Overlay(mem, snapshot), journal) /\ UNCHANGED <<snapshot, journal, plan, before>>
    BY <1>13 DEF OpenRefused
  <2>2. mem'.epoch <= b
    BY <1>1, <1>2, <2>1, ReplayBelow
  <2> QED  BY <1>2, <2>1, <2>2 DEF EpochsBelow
<1>14. ASSUME NEW steps, Sound(steps), Begin(steps)
       PROVE  EpochsBelow(b)'
  <2>1. plan' = steps /\ UNCHANGED <<mem, snapshot, journal, before>>
    BY <1>14 DEF Begin
  <2>2. \A i \in 1..Len(plan') : plan'[i].record.table # "epoch"
    BY <1>14, <2>1 DEF Sound
  <2> QED  BY <1>2, <2>1, <2>2 DEF EpochsBelow
<1> QED  BY <1>6, <1>7, <1>8, <1>9, <1>10, <1>11, <1>12, <1>13, <1>14 DEF Split

\* open() raises it by one.
LEMMA OpenAddsOne ==
    ASSUME Shape, Open, NEW b \in Nat, EpochsBelow(b)
    PROVE  EpochsBelow(b + 1)'
<1>1. /\ mem' = Recovered(mem) /\ before' = mem' /\ journal' = truncate_to(journal, Intact(journal))
      /\ plan' = <<Step("memory", "epoch", 0, mem'.epoch + 1)>> /\ snapshot' = snapshot
  BY DEF Open
<1>2. mem \in WideImage /\ snapshot \in WideImage /\ journal \in Seq(Frames)
  BY DEF Shape
<1>3. mem'.epoch \in Nat /\ mem'.epoch <= b
  <2>1. mem.epoch <= b
    BY DEF EpochsBelow
  <2>2. Recovered(mem).epoch = ReplayAll(Overlay(mem, snapshot), journal).epoch
    BY <1>2, RecoveredTyped
  <2> QED  BY <1>1, <1>2, <2>1, <2>2, ReplayBelow, RecoveredEpoch
<1>4. mem'.epoch + 1 <= b + 1 /\ mem'.epoch <= b + 1
  BY <1>3
<1>5. Len(plan') = 1 /\ plan'[1].record.value = mem'.epoch + 1
  BY <1>1 DEF Step
<1>6. \A i \in 1..Len(journal') :
        journal'[i] # Torn /\ journal'[i].table = "epoch" => journal'[i].value <= b + 1
  <2>1. Intact(journal) \in Nat /\ Intact(journal) <= Len(journal) /\ Len(journal) \in Nat
         /\ \A i \in 1..Intact(journal) : i \in 1..Len(journal) /\ journal[i] \in WideRecord
    BY <1>2, IntactRecords
  <2>2. Len(journal') = Intact(journal) /\ \A i \in 1..Intact(journal) : journal'[i] = journal[i]
    BY <1>1, <1>2, <2>1 DEF truncate_to
  <2>3. \A i \in 1..Intact(journal) : journal[i].table = "epoch" => journal[i].value \in Nat
    BY <2>1 DEF WideRecord
  <2>4. \A i \in 1..Intact(journal) : journal[i].table = "epoch" => journal[i].value <= b
    BY <2>1, RecordIsNotTorn DEF EpochsBelow
  <2>5. \A i \in 1..Intact(journal) : journal[i].table = "epoch" => journal[i].value <= b + 1
    BY <2>3, <2>4
  <2> QED  BY <2>2, <2>5
<1>7. snapshot.epoch <= b + 1
  <2>1. snapshot.epoch \in Nat /\ snapshot.epoch <= b
    BY <1>2 DEF WideImage, EpochsBelow
  <2> QED  BY <2>1
<1>8. \A i \in 1..Len(plan') : plan'[i].record.value <= b + 1
  BY <1>4, <1>5
<1> QED  BY <1>1, <1>4, <1>6, <1>7, <1>8 DEF EpochsBelow

\* BoundInv holds at first and is kept by every step.
LEMMA InitBound ==
    ASSUME Init
    PROVE  BoundInv
<1>1. Len(<<>>) = 0 /\ Cardinality({}) = 0 /\ IsFiniteSet({})
  BY FS_EmptySet
<1>2. EpochsBelow(0)
  BY <1>1, EmptyTyped DEF Init, EpochsBelow
<1>3. MaxOpens \in Nat /\ MaxOpens >= 1 /\ 0 <= MaxCrashes
  BY DurableAssumption
<1>4. Low = 0 /\ High = MaxOpens - 1
  BY <1>1, <1>3 DEF Init, Low, High
<1>5. 0 <= Low /\ 0 <= High
  BY <1>3, <1>4
<1> QED  BY <1>1, <1>2, <1>3, <1>5 DEF Init, BoundInv

LEMMA NextBound ==
    ASSUME Shape, Shape', EpochInv, EpochInv', BoundInv, Next
    PROVE  BoundInv'
<1>1. Split
  BY NextSplit DEF Shape
<1>2. PICK b \in Nat : EpochsBelow(b) /\ b <= Low /\ b <= High
  BY DEF BoundInv
<1>3. IsFiniteSet(seen) /\ 0 \notin seen /\ crashes <= MaxCrashes /\ Cardinality(seen) \in Nat
  BY FS_CardinalityType DEF BoundInv
<1>4. MaxOpens \in Nat /\ MaxCrashes \in Nat /\ crashes \in Nat /\ failures \in Nat
  BY DurableAssumption DEF Shape
<1>5. CASE AppendRecord
  <2>1. status \in {"opening", "open"}
    BY <1>5 DEF AppendRecord, Shape
  <2>2. UNCHANGED <<crashes, failures>>
    BY <1>5 DEF AppendRecord
  <2>3. \/ seen' = seen /\ status' = status
        \/ seen' = seen \cup {mem'.epoch} /\ status' = "open"
    <3>1. CASE at < Len(plan)
      BY <1>5, <3>1 DEF AppendRecord
    <3>2. CASE ~(at < Len(plan))
      BY <1>5, <3>2 DEF AppendRecord
    <3> QED  BY <3>1, <3>2
  <2>4. IsFiniteSet(seen') /\ Cardinality(seen') \in Nat /\ Cardinality(seen') >= Cardinality(seen)
    <3>1. IsFiniteSet(seen')
      BY <1>3, <2>3, FS_AddElement
    <3>2. seen \subseteq seen'
      BY <2>3
    <3> QED  BY <1>3, <3>1, <3>2, FS_Subset, FS_CardinalityType
  <2>5. 0 \notin seen'
    <3>1. status' = "open" => mem'.epoch # 0
      BY DEF EpochInv
    <3> QED  BY <1>3, <2>3, <3>1
  <2>6. status = "opening" => Cardinality(seen') = Cardinality(seen) + 1 /\ status' = "open"
    <3> SUFFICES ASSUME status = "opening"
                 PROVE  Cardinality(seen') = Cardinality(seen) + 1 /\ status' = "open"
      OBVIOUS
    <3>1. /\ at = 1 /\ Len(plan) = 1 /\ phase = "append" /\ plan[1].first = "memory"
          /\ plan[1].record.value = mem.epoch /\ \A e \in seen : e < plan[1].record.value
      BY <1>5 DEF EpochInv, AppendRecord
    <3>2. mem' = mem /\ ~(at < Len(plan))
      BY <1>5, <3>1 DEF AppendRecord
    <3>3. seen' = seen \cup {mem.epoch} /\ status' = "open"
      BY <1>5, <3>2 DEF AppendRecord
    <3>4. mem.epoch \in Nat /\ seen \subseteq Nat
      BY DEF Shape, WideImage
    <3>5. mem.epoch \notin seen
      BY <3>1, <3>4
    <3> QED  BY <1>3, <3>3, <3>5, FS_AddElement
  <2>7. b <= Low' /\ b <= High'
    <3>1. CASE status = "opening"
      BY <1>2, <1>3, <1>4, <2>2, <2>4, <2>6, <3>1 DEF Low, High
    <3>2. CASE status = "open"
      <4>1. status' = "open"
        BY <2>3, <3>2
      <4> QED  BY <1>2, <1>3, <1>4, <2>2, <2>4, <3>2, <4>1 DEF Low, High
    <3> QED  BY <2>1, <3>1, <3>2
  <2>8. ~ Open
    BY <2>1 DEF Open
  <2>9. EpochsBelow(b)'
    BY <1>1, <1>2, <2>8, StepsKeepBelow
  <2> QED  BY <1>3, <2>2, <2>4, <2>5, <2>7, <2>9 DEF BoundInv
<1>6. CASE Open
  <2>1. status \in {"down", "closed"} /\ status' = "opening" /\ UNCHANGED <<seen, crashes, failures>>
    BY <1>6 DEF Open
  <2>2. EpochsBelow(b + 1)'
    BY <1>2, <1>6, OpenAddsOne
  <2>3. b + 1 \in Nat /\ b + 1 <= Low' /\ b + 1 <= High'
    BY <1>2, <1>3, <1>4, <2>1 DEF Low, High
  <2> QED  BY <1>3, <2>1, <2>2, <2>3 DEF BoundInv
<1>7. CASE ~ AppendRecord /\ ~ Open
  <2>1. seen' = seen
    BY <1>1, <1>7 DEF Split, StartRecord, TruncateJournal, FailOperation, Checkpoint, Crash,
                      Close, OpenRefused, Begin
  <2>2. EpochsBelow(b)'
    BY <1>1, <1>2, <1>7, StepsKeepBelow
  <2>3. crashes' <= MaxCrashes /\ b <= Low' /\ b <= High'
    <3>1. CASE UNCHANGED <<status, crashes, failures>>
      BY <1>2, <1>3, <2>1, <3>1 DEF Low, High
    <3>2. CASE FailOperation
      <4>1. status \in {"opening", "open"} /\ failures' = failures + 1 /\ crashes' = crashes
             /\ status' = IF status = "opening" THEN "closed" ELSE status
        BY <3>2 DEF FailOperation, Shape
      <4>2. CASE status = "opening"
        BY <1>2, <1>3, <1>4, <2>1, <4>1, <4>2 DEF Low, High
      <4>3. CASE status = "open"
        BY <1>2, <1>3, <1>4, <2>1, <4>1, <4>3 DEF Low, High
      <4> QED  BY <4>1, <4>2, <4>3
    <3>3. CASE Crash
      <4>1. status # "down" /\ status' = "down" /\ crashes' = crashes + 1 /\ failures' = failures
             /\ crashes < MaxCrashes
        BY <3>3 DEF Crash
      <4>2. CASE status = "opening"
        BY <1>2, <1>3, <1>4, <2>1, <4>1, <4>2 DEF Low, High
      <4>3. CASE status # "opening"
        BY <1>2, <1>3, <1>4, <2>1, <4>1, <4>3 DEF Low, High
      <4> QED  BY <4>2, <4>3
    <3>4. CASE Close
      <4>1. status = "open" /\ status' = "closed" /\ UNCHANGED <<crashes, failures>>
             /\ Cardinality(seen) < MaxOpens
        BY <3>4 DEF Close, Idle
      <4> QED  BY <1>2, <1>3, <1>4, <2>1, <4>1 DEF Low, High
    <3>5. CASE OpenRefused
      <4>1. status \in {"down", "closed"} /\ status' = "closed" /\ UNCHANGED <<crashes, failures>>
        BY <3>5 DEF OpenRefused
      <4> QED  BY <1>2, <1>3, <1>4, <2>1, <4>1 DEF Low, High
    <3>6. CASE StartRecord \/ TruncateJournal \/ Checkpoint \/ \E steps : Sound(steps) /\ Begin(steps)
      <4>1. UNCHANGED <<status, crashes, failures>>
        BY <3>6 DEF StartRecord, TruncateJournal, Checkpoint, Begin
      <4> QED  BY <3>1, <4>1
    <3> QED  BY <1>1, <1>7, <3>2, <3>3, <3>4, <3>5, <3>6 DEF Split
  <2> QED  BY <1>2, <1>3, <2>1, <2>2, <2>3 DEF BoundInv
<1> QED  BY <1>5, <1>6, <1>7

\* GrantInv holds at first and is kept by every step.
LEMMA InitGrant ==
    ASSUME Init
    PROVE  GrantInv
<1>1. Len(<<>>) = 0 /\ 1 <= MaxAllocations + 1
  BY DurableAssumption
<1> QED  BY <1>1, EmptyTyped DEF Init, GrantInv

LEMMA NextGrant ==
    ASSUME Shape, Shape', GrantInv, Next
    PROVE  GrantInv'
<1>1. Split
  BY NextSplit DEF Shape
<1>2. /\ mem \in WideImage /\ snapshot \in WideImage /\ journal \in Seq(Frames)
      /\ mem.next_allocation_id \in Nat /\ MaxAllocations \in Nat
  BY DurableAssumption DEF Shape, WideImage
<1>3. /\ mem.next_allocation_id <= MaxAllocations + 1
      /\ snapshot.next_allocation_id <= MaxAllocations + 1
      /\ before.next_allocation_id <= MaxAllocations + 1
      /\ \A i \in 1..Len(plan) : plan[i].grant =>
           /\ Len(plan) = 1 /\ plan[i].first = "journal"
           /\ status # "down" /\ phase # "idle" => mem.next_allocation_id <= MaxAllocations
  BY DEF GrantInv
<1>4. at \in 1..Len(plan) =>
        Applied(mem, plan[at]).next_allocation_id =
          IF plan[at].grant THEN mem.next_allocation_id + 1 ELSE mem.next_allocation_id
  <2> SUFFICES ASSUME at \in 1..Len(plan)
               PROVE  Applied(mem, plan[at]).next_allocation_id =
                        IF plan[at].grant THEN mem.next_allocation_id + 1 ELSE mem.next_allocation_id
    OBVIOUS
  <2> QED  BY <1>2, StepAt, AppliedTyped
<1>5. Len(<<>>) = 0
  OBVIOUS
<1>6. CASE StartRecord
  <2>1. at \in 1..Len(plan) /\ phase = "start" /\ status # "down"
    BY <1>6 DEF StartRecord, Shape
  <2>2. mem'.next_allocation_id = mem.next_allocation_id
    <3>1. CASE plan[at].first = "memory"
      <4>1. ~ plan[at].grant
        BY <1>3, <2>1, <3>1
      <4> QED  BY <1>4, <1>6, <2>1, <3>1, <4>1 DEF StartRecord
    <3>2. CASE plan[at].first # "memory"
      BY <1>6, <3>2 DEF StartRecord
    <3> QED  BY <3>1, <3>2
  <2>3. snapshot' \in {mem', snapshot} /\ UNCHANGED <<status, plan, before>>
    BY <1>6 DEF StartRecord, InstallSnapshot
  <2> QED  BY <1>3, <2>1, <2>2, <2>3 DEF GrantInv
<1>7. CASE TruncateJournal
  <2>1. phase = "renamed" /\ UNCHANGED <<status, mem, snapshot, plan, before>>
    BY <1>7 DEF TruncateJournal
  <2> QED  BY <1>3, <2>1 DEF GrantInv
<1>8. CASE AppendRecord
  <2>1. at \in 1..Len(plan) /\ phase = "append" /\ status # "down"
    BY <1>8 DEF AppendRecord, Shape
  <2>2. mem'.next_allocation_id <= MaxAllocations + 1
    <3>1. mem' = mem \/ mem' = Applied(mem, plan[at])
      BY <1>8 DEF AppendRecord
    <3>2. plan[at].grant => mem.next_allocation_id <= MaxAllocations
      BY <1>3, <2>1
    <3> QED  BY <1>2, <1>3, <1>4, <2>1, <3>1, <3>2
  <2>3. snapshot' = snapshot /\ before' \in {before, mem'}
    BY <1>8 DEF AppendRecord
  <2>4. CASE at < Len(plan)
    <3>1. \A i \in 1..Len(plan) : ~ plan[i].grant
      <4>1. Len(plan) # 1
        <5>1. at \in Nat /\ at >= 1 /\ Len(plan) \in Nat
          BY DEF Shape
        <5>2. \A m, n \in Nat : m >= 1 /\ m < n => n # 1
          OBVIOUS
        <5> QED  BY <2>4, <5>1, <5>2, Zenon
      <4> QED  BY <1>3, <4>1
    <3>2. plan' = plan
      BY <1>8, <2>4 DEF AppendRecord
    <3> QED  BY <1>3, <2>2, <2>3, <3>1, <3>2 DEF GrantInv
  <2>5. CASE ~(at < Len(plan))
    <3>1. plan' = <<>>
      BY <1>8, <2>5 DEF AppendRecord
    <3> QED  BY <1>3, <1>5, <2>2, <2>3, <3>1 DEF GrantInv
  <2> QED  BY <2>4, <2>5
<1>9. CASE FailOperation
  <2>1. /\ mem' = mem \/ (phase = "start" /\ plan[at].first = "memory" /\ mem' = Applied(mem, plan[at]))
        /\ plan' = <<>> /\ snapshot' = snapshot /\ before' = mem'
    BY <1>9 DEF FailOperation
  <2>2. mem'.next_allocation_id = mem.next_allocation_id
    <3>1. phase = "start" => at \in 1..Len(plan) /\ status # "down"
      BY DEF Shape
    <3>2. phase = "start" /\ plan[at].first = "memory" => ~ plan[at].grant
      BY <1>3, <3>1
    <3> QED  BY <1>4, <2>1, <3>1, <3>2
  <2> QED  BY <1>3, <1>5, <2>1, <2>2 DEF GrantInv
<1>10. CASE Checkpoint
  <2>1. snapshot' = mem /\ UNCHANGED <<status, mem, plan, before>> /\ plan = <<>>
    BY <1>10 DEF Checkpoint, InstallSnapshot, Shape
  <2> QED  BY <1>3, <1>5, <2>1 DEF GrantInv
<1>11. CASE Crash
  <2>1. status' = "down" /\ mem' = EmptyImage /\ UNCHANGED <<snapshot, plan, before>>
    BY <1>11 DEF Crash
  <2>2. mem'.next_allocation_id <= MaxAllocations + 1
    BY <1>2, <2>1, EmptyTyped
  <2> QED  BY <1>3, <2>1, <2>2 DEF GrantInv
<1>12. CASE Close
  <2>1. UNCHANGED <<mem, snapshot, plan, before, phase>> /\ phase = "idle"
    BY <1>12 DEF Close, Idle
  <2> QED  BY <1>3, <2>1 DEF GrantInv
<1>13. CASE Open
  <2>1. mem' = Recovered(mem) /\ before' = mem' /\ snapshot' = snapshot
         /\ plan' = <<Step("memory", "epoch", 0, mem'.epoch + 1)>>
    BY <1>13 DEF Open
  <2>2. mem'.next_allocation_id <= MaxAllocations + 1
    BY <1>2, <1>3, <2>1, RecoveredTyped
  <2>3. Len(plan') = 1 /\ ~ plan'[1].grant
    BY <2>1 DEF Step
  <2> QED  BY <1>3, <2>1, <2>2, <2>3 DEF GrantInv
<1>14. CASE OpenRefused
  <2>1. mem' = ReplayAll(Overlay(mem, snapshot), journal) /\ UNCHANGED <<snapshot, plan, before, phase>>
         /\ phase = "idle"
    BY <1>14 DEF OpenRefused, Shape
  <2>2. mem'.next_allocation_id <= MaxAllocations + 1
    BY <1>2, <1>3, <2>1, OverlayTyped, ReplayAllFacts
  <2> QED  BY <1>3, <2>1, <2>2 DEF GrantInv
<1>15. ASSUME NEW steps, Sound(steps), Begin(steps)
       PROVE  GrantInv'
  <2>1. plan' = steps /\ UNCHANGED <<mem, snapshot, before>>
    BY <1>15 DEF Begin
  <2> QED  BY <1>3, <1>15, <2>1 DEF GrantInv, Sound
<1> QED  BY <1>1, <1>6, <1>7, <1>8, <1>9, <1>10, <1>11, <1>12, <1>13, <1>14, <1>15 DEF Split

\* The four invariants together give the type invariant.
LEMMA Typed ==
    ASSUME Shape, EpochInv, BoundInv, GrantInv
    PROVE  TypeOK
<1>1. PICK b \in Nat : EpochsBelow(b) /\ b <= Low /\ b <= High
  BY DEF BoundInv
<1>2. b <= MaxEpoch /\ MaxEpoch \in Nat
  <2>1. MaxOpens \in Nat /\ MaxCrashes \in Nat /\ MaxFailures \in Nat
         /\ crashes \in Nat /\ failures \in Nat /\ failures <= MaxFailures /\ crashes <= MaxCrashes
    BY DurableAssumption DEF Shape, BoundInv
  <2> QED  BY <1>1, <2>1 DEF High, MaxEpoch
<1>3. ASSUME NEW x \in WideImage, x.epoch <= b, x.next_allocation_id <= MaxAllocations + 1
      PROVE  x \in Image
  <2>1. x.epoch \in 0..MaxEpoch /\ x.next_allocation_id \in 1..(MaxAllocations + 1)
    BY <1>2, <1>3, DurableAssumption DEF WideImage
  <2> QED  BY <2>1 DEF WideImage, Image
<1>4. mem \in Image /\ snapshot \in Image /\ before \in Image
  BY <1>1, <1>3 DEF Shape, GrantInv, EpochsBelow
<1>5. ASSUME NEW r \in WideRecord, r.table = "epoch" => r.value <= b
      PROVE  r \in JournalRecord
  <2>1. CASE r.table # "epoch"
    BY <2>1 DEF WideRecord, JournalRecord
  <2>2. CASE r.table = "epoch"
    <3>1. r \in [table : {"epoch"}, key : {0}, value : Nat \ {0}]
      BY <2>2 DEF WideRecord
    <3>2. r.value \in 1..MaxEpoch
      BY <1>2, <1>5, <2>2, <3>1
    <3>3. r \in [table : {"epoch"}, key : {0}, value : 1..MaxEpoch]
      BY <3>1, <3>2
    <3> QED  BY <3>3 DEF JournalRecord
  <2> QED  BY <2>1, <2>2
<1>6. \A i \in 1..Len(journal) : journal[i] \in JournalRecord \cup {Torn}
  <2>1. \A i \in 1..Len(journal) : journal[i] \in WideRecord \cup {Torn}
    BY SequenceRules DEF Shape, Frames
  <2>2. \A i \in 1..Len(journal) :
          journal[i] # Torn /\ journal[i].table = "epoch" => journal[i].value <= b
    BY <1>1 DEF EpochsBelow
  <2> QED  BY <1>5, <2>1, <2>2
<1>7. \A i \in 1..Len(plan) :
        /\ plan[i].first \in {"memory", "journal"} /\ plan[i].grant \in BOOLEAN
        /\ plan[i].record \in JournalRecord
  <2>1. \A i \in 1..Len(plan) :
          /\ plan[i].first \in {"memory", "journal"} /\ plan[i].grant \in BOOLEAN
          /\ plan[i].record \in WideRecord
    BY SequenceRules DEF Shape, WideStep
  <2>2. \A i \in 1..Len(plan) : plan[i].record.table = "epoch" => plan[i].record.value <= b
    BY <1>1 DEF EpochsBelow
  <2> QED  BY <1>5, <2>1, <2>2
<1>8. seen \subseteq 1..MaxEpoch
  <2>1. Disk.epoch <= b
    <3>1. EmptyImage.epoch <= b
      BY EmptyTyped
    <3> QED  BY <1>1, <3>1, EmptyTyped, ReplayBelow DEF Disk, DiskOf
  <2>2. Disk.epoch \in Nat
    BY DiskFacts DEF Disk, Shape
  <2>3. \A e \in seen : e \in Nat /\ e # 0 /\ e <= Disk.epoch
    BY DEF Shape, EpochInv, BoundInv
  <2> QED  BY <1>2, <2>1, <2>2, <2>3
<1> QED  BY <1>4, <1>6, <1>7, <1>8 DEF TypeOK, Shape

\* The inductive invariant behind DurableTyped.
DInv == Shape /\ EpochInv /\ BoundInv /\ GrantInv

LEMMA AlwaysDInv == Spec => []DInv
<1>1. Init => DInv
  BY InitShape, InitEpoch, InitBound, InitGrant DEF DInv
<1>2. DInv /\ [Next]_vars => DInv'
  <2> SUFFICES ASSUME DInv, [Next]_vars PROVE DInv'
    OBVIOUS
  <2>1. CASE Next
    BY <2>1, NextShape, NextEpoch, NextBound, NextGrant DEF DInv
  <2>2. CASE UNCHANGED vars
    BY <2>2 DEF vars, DInv, Shape, Idle, EpochInv, Disk, BoundInv, EpochsBelow, Low, High, GrantInv
  <2> QED  BY <2>1, <2>2
<1> QED  BY <1>1, <1>2, PTL DEF Spec

\* Type correctness: the bounds on epochs, identities and generations that the
\* model's guards put on the operations hold of memory, of both files and of
\* the operation in progress.
THEOREM DurableTyped == Spec => []TypeOK
<1>1. DInv => TypeOK
  BY Typed DEF DInv
<1> QED  BY <1>1, AlwaysDInv, PTL

-----------------------------------------------------------------------------

\* Same is an equivalence.
LEMMA SameRules ==
    ASSUME NEW x, NEW y, NEW z
    PROVE  /\ Same(x, x)
           /\ Same(x, y) => Same(y, x)
           /\ Same(x, y) /\ Same(y, z) => Same(x, z)
BY DEF Same

\* Same, table by table.
LEMMA SameTables ==
    ASSUME NEW x, NEW y, x.epoch = y.epoch,
           x.pools = y.pools, x.config = y.config,
           \A q \in Queues : QueueView(x.queues[q]) = QueueView(y.queues[q]),
           \A a \in AllocationIds : LeaseView(x.allocations[a]) = LeaseView(y.allocations[a])
    PROVE  Same(x, y)
BY DEF Same, Tables, Keys, KeyView

\* Images that no restart tells apart have the same view.
LEMMA SameView ==
    ASSUME NEW x \in WideImage, NEW y \in WideImage, Same(x, y)
    PROVE  View(x) = View(y)
<1>1. /\ \A p \in Pools : x.pools[p] = y.pools[p]
      /\ \A c \in Configs : x.config[c] = y.config[c]
      /\ \A q \in Queues : QueueView(x.queues[q]) = QueueView(y.queues[q])
      /\ \A a \in AllocationIds : LeaseView(x.allocations[a]) = LeaseView(y.allocations[a])
  BY DEF Same, Tables, Keys, KeyView
<1>2. x.pools = y.pools /\ x.config = y.config /\ x.epoch = y.epoch
  BY <1>1 DEF WideImage, Same
<1>3. \A q \in Queues : (Live(x, q) <=> Live(y, q)) /\ (Live(x, q) => x.queues[q] = y.queues[q])
  BY <1>1 DEF Live, QueueView
<1>4. {q \in Queues : Live(x, q)} = {q \in Queues : Live(y, q)}
  BY <1>3
<1>5. [q \in {z \in Queues : Live(x, z)} |-> x.queues[q]]
        = [q \in {z \in Queues : Live(y, z)} |-> y.queues[q]]
  BY <1>3, <1>4
<1>6. ExpireLeases(x.allocations) = ExpireLeases(y.allocations)
  <2>1. \A v : ExpireLeases(v) = [a \in AllocationIds |-> LeaseView(v[a])]
    BY DEF ExpireLeases, LeaseView
  <2> QED  BY <1>1, <2>1
<1> QED  BY <1>2, <1>5, <1>6 DEF View

\* No restart tells whether leases were expired before.
LEMMA ExpiredSame ==
    ASSUME NEW x \in WideImage
    PROVE  Same([x EXCEPT !.allocations = ExpireLeases(@)], x)
<1> DEFINE y == [x EXCEPT !.allocations = ExpireLeases(@)]
<1>1. y.epoch = x.epoch /\ y.pools = x.pools /\ y.config = x.config /\ y.queues = x.queues
       /\ y.allocations = ExpireLeases(x.allocations)
  BY ExpireTyped
<1> HIDE DEF y
<1>2. \A a \in AllocationIds : y.allocations[a] = LeaseView(x.allocations[a])
  BY <1>1 DEF ExpireLeases, LeaseView
<1>3. \A a \in AllocationIds : x.allocations[a] \in AllocationRecord \cup {Absent}
  BY DEF WideImage
<1>4. \A v \in AllocationRecord \cup {Absent} : LeaseView(LeaseView(v)) = LeaseView(v)
  BY DEF LeaseView, AllocationRecord, Absent
<1>5. \A a \in AllocationIds : LeaseView(y.allocations[a]) = LeaseView(x.allocations[a])
  BY <1>2, <1>3, <1>4
<1>6. \A q \in Queues : QueueView(y.queues[q]) = QueueView(x.queues[q])
  BY <1>1
<1>7. Same(y, x)
  BY <1>1, <1>5, <1>6, SameTables
<1> QED  BY <1>7 DEF y

\* Replay respects Same.
LEMMA ReplaySame ==
    ASSUME NEW x \in WideImage, NEW y \in WideImage, NEW r \in WideRecord, Same(x, y)
    PROVE  Same(Replay(x, r), Replay(y, r))
<1>1. Replay(x, r).epoch = Replay(y, r).epoch
  BY ReplayStep DEF Same
<1>2. ASSUME NEW t \in Tables, NEW k \in Keys(t)
      PROVE  KeyView(t, Replay(x, r)[t][k]) = KeyView(t, Replay(y, r)[t][k])
  <2>1. KeyView(t, x[t][k]) = KeyView(t, y[t][k])
    BY DEF Same
  <2>2. CASE r.table = t /\ r.key = k
    BY <2>2, ReplayStep
  <2>3. CASE ~(r.table = t /\ r.key = k)
    BY <2>1, <2>3, ReplayStep
  <2> QED  BY <2>2, <2>3
<1> QED  BY <1>1, <1>2 DEF Same

\* Replaying a record twice is replaying it once.
LEMMA ReplayTwice ==
    ASSUME NEW x \in WideImage, NEW r \in WideRecord
    PROVE  Same(Replay(Replay(x, r), r), Replay(x, r))
<1> DEFINE y == Replay(x, r)
<1>1. y \in WideImage /\ x.epoch \in Nat /\ (r.table = "epoch" => r.value \in Nat)
  BY ReplayStep DEF WideImage, WideRecord
<1>2. Replay(y, r).epoch = y.epoch
  BY <1>1, ReplayStep
<1>3. \A t \in Tables : \A k \in Keys(t) : Replay(y, r)[t][k] = y[t][k]
  BY <1>1, ReplayStep
<1> QED  BY <1>2, <1>3 DEF Same

\* A step that removes a pool finds no live queue in it.
Vacated(x, s) ==
  s.record.table = "pools" /\ s.record.value = 0 =>
    \A q \in Queues : Live(x, q) => x.queues[q].pool # s.record.key

\* Memory and the files agree on what a step does.  remove_pool forgets retired
\* queues that the files keep; a restart does not restore those.
LEMMA AppliedSame ==
    ASSUME NEW x \in WideImage, NEW s \in WideStep, Vacated(x, s)
    PROVE  Same(Applied(x, s), Replay(x, s.record))
<1> DEFINE y == Replay(x, s.record)
           z == Applied(x, s)
<1>1. s.record \in WideRecord /\ (s.grant => s.record.table = "allocations") /\ s.grant \in BOOLEAN
  BY DEF WideStep
<1>2. z.epoch = y.epoch /\ z.pools = y.pools /\ z.config = y.config /\ z.allocations = y.allocations
  BY AppliedTyped
<1>3. \A q \in Queues : QueueView(z.queues[q]) = QueueView(y.queues[q])
  <2>1. CASE ~(s.record.table = "pools" /\ s.record.value = 0)
    BY <2>1, AppliedTyped
  <2>2. CASE s.record.table = "pools" /\ s.record.value = 0
    <3>1. y \in WideImage /\ \A q \in Queues : y.queues[q] = x.queues[q]
      BY <1>1, <2>2, ReplayStep DEF Tables, Keys
    <3>2. ~ s.grant
      BY <1>1, <2>2
    <3>3. z = ForgetQueues(y, s.record.key)
      BY <2>2, <3>2 DEF Applied
    <3> HIDE DEF y, z
    <3>4. \A q \in Queues : z.queues[q] =
            IF y.queues[q] # Absent /\ y.queues[q].pool = s.record.key THEN Absent ELSE y.queues[q]
      BY <3>1, <3>3 DEF ForgetQueues, WideImage
    <3> QED  BY <2>2, <3>1, <3>4 DEF Vacated, Live, QueueView
  <2> QED  BY <2>1, <2>2
<1> HIDE DEF y, z
<1>4. Same(z, y)
  BY <1>2, <1>3, SameTables
<1> QED  BY <1>4 DEF y, z

\* Appending the record of a step to files that are one step behind, or already
\* have the step from a snapshot, makes them current.
LEMMA AppendedSame ==
    ASSUME NEW d \in WideImage, NEW x \in WideImage, NEW s \in WideStep, Vacated(x, s),
           Same(d, x) \/ Same(d, Applied(x, s))
    PROVE  Same(Replay(d, s.record), Applied(x, s))
<1> DEFINE r == s.record
           y == Replay(x, r)
           z == Applied(x, s)
<1>1. r \in WideRecord
  BY DEF WideStep
<1>2. y \in WideImage /\ z \in WideImage /\ Replay(d, r) \in WideImage /\ Replay(z, r) \in WideImage
  BY <1>1, ReplayStep, AppliedTyped
<1>3. Same(z, y)
  BY AppliedSame
<1>4. CASE Same(d, x)
  <2>1. Same(Replay(d, r), y)
    BY <1>1, <1>4, ReplaySame
  <2> QED  BY <1>3, <2>1, SameRules
<1>5. CASE Same(d, z)
  <2>1. Same(Replay(d, r), Replay(z, r))
    BY <1>1, <1>2, <1>5, ReplaySame
  <2>2. Same(Replay(z, r), Replay(y, r))
    BY <1>1, <1>2, <1>3, ReplaySame
  <2>3. Same(Replay(y, r), y)
    BY <1>1, ReplayTwice
  <2> QED  BY <1>3, <2>1, <2>2, <2>3, SameRules
<1> QED  BY <1>4, <1>5

\* Replay of a whole journal respects Same.
LEMMA ReplayAllSame ==
    ASSUME NEW j \in Seq(Frames), NEW x \in WideImage, NEW y \in WideImage, Same(x, y)
    PROVE  Same(ReplayAll(x, j), ReplayAll(y, j))
<1>1. ReplayAll(x, j).epoch = ReplayAll(y, j).epoch
  <2>1. PICK e \in Nat : \A z \in WideImage :
          ReplayAll(z, j).epoch = IF z.epoch < e THEN e ELSE z.epoch
    BY ReplayAllFacts
  <2> QED  BY <2>1 DEF Same
<1>2. ASSUME NEW t \in Tables, NEW k \in Keys(t)
      PROVE  KeyView(t, ReplayAll(x, j)[t][k]) = KeyView(t, ReplayAll(y, j)[t][k])
  <2>1. KeyView(t, x[t][k]) = KeyView(t, y[t][k])
    BY DEF Same
  <2>2. \/ \A z \in WideImage : ReplayAll(z, j)[t][k] = z[t][k]
        \/ \E v : \A z \in WideImage : ReplayAll(z, j)[t][k] = v
    BY ReplayAllFacts
  <2>3. CASE \A z \in WideImage : ReplayAll(z, j)[t][k] = z[t][k]
    BY <2>1, <2>3, Zenon
  <2>4. CASE \E v : \A z \in WideImage : ReplayAll(z, j)[t][k] = v
    <3>1. ReplayAll(x, j)[t][k] = ReplayAll(y, j)[t][k]
      BY <2>4, Zenon
    <3> QED  BY <3>1, Zenon
  <2> QED  BY <2>2, <2>3, <2>4
<1> QED  BY <1>1, <1>2 DEF Same

\* The stale journal under a new snapshot: if the journal led to m, replaying it
\* over m leads to m again.
LEMMA Absorbed ==
    ASSUME NEW j \in Seq(Frames), NEW x \in WideImage, NEW m \in WideImage,
           Same(ReplayAll(x, j), m)
    PROVE  Same(ReplayAll(m, j), m)
<1>1. ReplayAll(m, j).epoch = m.epoch
  <2>1. PICK e \in Nat : \A z \in WideImage :
          ReplayAll(z, j).epoch = IF z.epoch < e THEN e ELSE z.epoch
    BY ReplayAllFacts
  <2>2. ReplayAll(x, j).epoch = m.epoch /\ x.epoch \in Nat /\ m.epoch \in Nat
    BY DEF Same, WideImage
  <2>3. /\ ReplayAll(x, j).epoch = IF x.epoch < e THEN e ELSE x.epoch
        /\ ReplayAll(m, j).epoch = IF m.epoch < e THEN e ELSE m.epoch
    BY <2>1
  <2> QED  BY <2>2, <2>3
<1>2. ASSUME NEW t \in Tables, NEW k \in Keys(t)
      PROVE  KeyView(t, ReplayAll(m, j)[t][k]) = KeyView(t, m[t][k])
  <2>1. KeyView(t, ReplayAll(x, j)[t][k]) = KeyView(t, m[t][k])
    BY DEF Same
  <2>2. \/ \A z \in WideImage : ReplayAll(z, j)[t][k] = z[t][k]
        \/ \E v : \A z \in WideImage : ReplayAll(z, j)[t][k] = v
    BY ReplayAllFacts
  <2>3. CASE \A z \in WideImage : ReplayAll(z, j)[t][k] = z[t][k]
    BY <2>3, Zenon
  <2>4. CASE \E v : \A z \in WideImage : ReplayAll(z, j)[t][k] = v
    <3>1. ReplayAll(m, j)[t][k] = ReplayAll(x, j)[t][k]
      BY <2>4, Zenon
    <3> QED  BY <2>1, <3>1, Zenon
  <2> QED  BY <2>2, <2>3, <2>4
<1> QED  BY <1>1, <1>2 DEF Same

\* The same when m has taken one more step, not yet in the journal: the stale
\* journal undoes the step or leaves it.
LEMMA AbsorbedButOne ==
    ASSUME NEW j \in Seq(Frames), NEW x \in WideImage, NEW m \in WideImage, NEW r \in WideRecord,
           Same(ReplayAll(x, j), m)
    PROVE  \/ Same(ReplayAll(Replay(m, r), j), m)
           \/ Same(ReplayAll(Replay(m, r), j), Replay(m, r))
<1> DEFINE y == Replay(m, r)
           w == ReplayAll(y, j)
           u == ReplayAll(m, j)
<1>1. /\ y \in WideImage
      /\ \A t \in Tables : \A k \in Keys(t) :
           y[t][k] = IF r.table = t /\ r.key = k THEN r.value ELSE m[t][k]
      /\ y.epoch = IF r.table = "epoch" /\ r.value > m.epoch THEN r.value ELSE m.epoch
  BY ReplayStep
<1>2. Same(u, m)
  BY Absorbed
<1>3. /\ m.epoch \in Nat /\ y.epoch \in Nat /\ y.epoch >= m.epoch
      /\ r.table # "epoch" => y.epoch = m.epoch
  <2>1. m.epoch \in Nat /\ y.epoch \in Nat
    BY <1>1 DEF WideImage
  <2>2. r.table = "epoch" => r.value \in Nat
    BY DEF WideRecord
  <2> QED  BY <1>1, <2>1, <2>2
<1> HIDE DEF y
<1>4. w.epoch = y.epoch
  <2>1. PICK e \in Nat : \A z \in WideImage :
          ReplayAll(z, j).epoch = IF z.epoch < e THEN e ELSE z.epoch
    BY ReplayAllFacts
  <2>2. /\ u.epoch = IF m.epoch < e THEN e ELSE m.epoch
        /\ w.epoch = IF y.epoch < e THEN e ELSE y.epoch
    BY <1>1, <2>1
  <2>3. u.epoch = m.epoch
    BY <1>2 DEF Same
  <2> QED  BY <1>3, <2>2, <2>3
<1>5. \A t \in Tables : \A k \in Keys(t) : w[t][k] = y[t][k] \/ w[t][k] = u[t][k]
  <2> SUFFICES ASSUME NEW t \in Tables, NEW k \in Keys(t)
               PROVE  w[t][k] = y[t][k] \/ w[t][k] = u[t][k]
    OBVIOUS
  <2>1. \/ \A z \in WideImage : ReplayAll(z, j)[t][k] = z[t][k]
        \/ \E v : \A z \in WideImage : ReplayAll(z, j)[t][k] = v
    BY ReplayAllFacts
  <2> QED  BY <1>1, <2>1, Zenon
<1>6. \A t \in Tables : \A k \in Keys(t) : KeyView(t, u[t][k]) = KeyView(t, m[t][k])
  BY <1>2 DEF Same
<1> HIDE DEF w, u
<1>7. \A t \in Tables : \A k \in Keys(t) :
        ~(r.table = t /\ r.key = k) => /\ KeyView(t, w[t][k]) = KeyView(t, m[t][k])
                                       /\ y[t][k] = m[t][k]
  <2> SUFFICES ASSUME NEW t \in Tables, NEW k \in Keys(t), ~(r.table = t /\ r.key = k)
               PROVE  KeyView(t, w[t][k]) = KeyView(t, m[t][k]) /\ y[t][k] = m[t][k]
    OBVIOUS
  <2>1. y[t][k] = m[t][k]
    BY <1>1
  <2> QED  BY <1>5, <1>6, <2>1
<1>8. CASE r.table \in Tables /\ r.key \in Keys(r.table)
           /\ w[r.table][r.key] = u[r.table][r.key]
  <2>1. r.table # "epoch"
    BY <1>8 DEF Tables
  <2>2. w.epoch = m.epoch
    BY <1>3, <1>4, <2>1
  <2>3. KeyView(r.table, w[r.table][r.key]) = KeyView(r.table, m[r.table][r.key])
    BY <1>6, <1>8
  <2>4. Same(w, m)
    BY <1>7, <2>2, <2>3 DEF Same
  <2> QED  BY <2>4 DEF w, y
<1>9. CASE ~(r.table \in Tables /\ r.key \in Keys(r.table)
              /\ w[r.table][r.key] = u[r.table][r.key])
  <2>1. \A t \in Tables : \A k \in Keys(t) : KeyView(t, w[t][k]) = KeyView(t, y[t][k])
    <3> SUFFICES ASSUME NEW t \in Tables, NEW k \in Keys(t)
                 PROVE  KeyView(t, w[t][k]) = KeyView(t, y[t][k])
      OBVIOUS
    <3>1. CASE r.table = t /\ r.key = k
      <4>1. w[t][k] = y[t][k]
        BY <1>5, <1>9, <3>1
      <4> QED  BY <4>1
    <3>2. CASE ~(r.table = t /\ r.key = k)
      BY <1>7, <3>2
    <3> QED  BY <3>1, <3>2
  <2>2. Same(w, y)
    BY <1>4, <2>1 DEF Same
  <2> QED  BY <2>2 DEF w, y
<1> QED  BY <1>8, <1>9

\* Recovery over what a closed object still has in memory finds what a new
\* process would.
LEMMA OverlaySame ==
    ASSUME NEW j \in Seq(Frames), NEW s \in WideImage, NEW m \in WideImage, Same(DiskOf(s, j), m)
    PROVE  Same(ReplayAll(Overlay(m, s), j), DiskOf(s, j))
<1> DEFINE o == Overlay(EmptyImage, s)
           y == Overlay(m, s)
           d == ReplayAll(o, j)
           w == ReplayAll(y, j)
<1>1. Same(d, m)
  BY DEF DiskOf
<1>2. /\ o \in WideImage /\ y \in WideImage
      /\ o.epoch = s.epoch /\ y.epoch = (IF s.epoch = 0 THEN m.epoch ELSE s.epoch)
      /\ \A t \in Tables : \A k \in Keys(t) : y[t][k] = m[t][k] \/ y[t][k] = o[t][k]
  BY EmptyTyped, OverlayTyped
<1> HIDE DEF o, y
<1>3. w.epoch = d.epoch
  <2>1. PICK e \in Nat : \A z \in WideImage :
          ReplayAll(z, j).epoch = IF z.epoch < e THEN e ELSE z.epoch
    BY ReplayAllFacts
  <2>2. /\ d.epoch = IF o.epoch < e THEN e ELSE o.epoch
        /\ w.epoch = IF y.epoch < e THEN e ELSE y.epoch
    BY <1>2, <2>1
  <2>3. d.epoch = m.epoch
    BY <1>1 DEF Same
  <2>4. s.epoch \in Nat /\ m.epoch \in Nat
    BY DEF WideImage
  <2> QED  BY <1>2, <2>2, <2>3, <2>4
<1>4. ASSUME NEW t \in Tables, NEW k \in Keys(t)
      PROVE  KeyView(t, w[t][k]) = KeyView(t, d[t][k])
  <2>1. \/ \A z \in WideImage : ReplayAll(z, j)[t][k] = z[t][k]
        \/ \E v : \A z \in WideImage : ReplayAll(z, j)[t][k] = v
    BY ReplayAllFacts
  <2>2. w[t][k] = d[t][k] \/ (w[t][k] = y[t][k] /\ d[t][k] = o[t][k])
    BY <1>2, <2>1, Zenon
  <2>3. KeyView(t, d[t][k]) = KeyView(t, m[t][k])
    BY <1>1 DEF Same
  <2> HIDE DEF w, d
  <2> QED  BY <1>2, <2>2, <2>3
<1>5. Same(w, d)
  BY <1>3, <1>4 DEF Same
<1> QED  BY <1>5 DEF y, o, DiskOf

\* A snapshot of an open fabric is read back as it was written.
LEMMA InstalledSame ==
    ASSUME NEW m \in WideImage, m.epoch # 0
    PROVE  Same(Overlay(EmptyImage, m), m)
<1>1. \A t \in Tables : \A k \in Keys(t) : EmptyImage[t][k] = Nothing(t)
  BY DEF EmptyImage, Tables, Keys, Nothing
<1>2. \A t \in Tables : \A k \in Keys(t) : Overlay(EmptyImage, m)[t][k] = m[t][k]
  BY <1>1, EmptyTyped, OverlayTyped
<1>3. Overlay(EmptyImage, m).epoch = m.epoch
  BY EmptyTyped, OverlayTyped
<1> QED  BY <1>2, <1>3 DEF Same

\* So are the files, up to the journal that is still there.
LEMMA InstalledDisk ==
    ASSUME NEW j \in Seq(Frames), NEW m \in WideImage, m.epoch # 0
    PROVE  /\ Same(DiskOf(m, <<>>), m)
           /\ Same(DiskOf(m, j), ReplayAll(m, j))
<1>1. Overlay(EmptyImage, m) \in WideImage /\ Same(Overlay(EmptyImage, m), m)
  BY InstalledSame, DiskFacts
<1> QED  BY <1>1, ReplayNothing, ReplayAllSame DEF DiskOf

-----------------------------------------------------------------------------

\* The images along a plan.
LEMMA AfterTyped ==
    ASSUME Shape
    PROVE  /\ After(0) = before
           /\ \A n \in 0..Len(plan) : After(n) \in WideImage
           /\ \A n \in 1..Len(plan) : After(n) = Applied(After(n - 1), plan[n])
<1>1. Len(plan) \in Nat /\ before \in WideImage /\ \A n \in 1..Len(plan) : plan[n] \in WideStep
  BY SequenceRules DEF Shape
<1>2. /\ After(0) = before
      /\ \A n \in 1..Len(plan) : After(n) = Applied(After(n - 1), plan[n])
  BY <1>1, AppliedSteps, ZenonT(30) DEF After
<1> DEFINE S == {n \in Nat : n <= Len(plan) => After(n) \in WideImage}
<1>3. 0 \in S
  BY <1>1, <1>2
<1>4. ASSUME NEW n \in Nat, n \in S
      PROVE  n + 1 \in S
  <2> SUFFICES ASSUME n + 1 <= Len(plan) PROVE After(n + 1) \in WideImage
    OBVIOUS
  <2>1. n <= Len(plan) /\ n + 1 \in 1..Len(plan) /\ (n + 1) - 1 = n
    BY <1>1
  <2>2. After(n) \in WideImage /\ After(n + 1) = Applied(After(n), plan[n + 1])
    BY <1>2, <1>4, <2>1
  <2> QED  BY <1>1, <2>1, <2>2, AppliedTyped
<1>5. Nat \subseteq S
  <2> HIDE DEF S
  <2> QED  BY <1>3, <1>4, SetInduction
<1>6. \A n \in 0..Len(plan) : n \in Nat /\ n <= Len(plan)
  BY <1>1
<1> QED  BY <1>2, <1>5, <1>6

\* While a record is being written: the files are at the step or before it, and
\* the record makes them current.
LEMMA Written ==
    ASSUME Shape, CrashInv, status # "down", at \in 1..Len(plan), phase \in {"append", "renamed"}
    PROVE  /\ After(at) \in WideImage /\ After(at - 1) \in WideImage
           /\ After(at) = Applied(After(at - 1), plan[at])
           /\ mem = IF plan[at].first = "memory" THEN After(at) ELSE After(at - 1)
           /\ Same(Disk, After(at - 1)) \/ Same(Disk, After(at))
           /\ Same(Replay(Disk, plan[at].record), After(at))
<1>1. at \in Nat /\ Len(plan) \in Nat /\ at - 1 \in 0..Len(plan) /\ at \in 0..Len(plan) /\ plan # <<>>
  BY DEF Shape
<1>2. /\ After(at) \in WideImage /\ After(at - 1) \in WideImage
      /\ After(at) = Applied(After(at - 1), plan[at])
  BY <1>1, AfterTyped
<1>3. Reached = IF plan[at].first = "memory" THEN at ELSE at - 1
  BY <1>1 DEF Reached
<1>4. mem = After(Reached) /\ (Same(Disk, mem) \/ Same(Disk, After(at - 1)))
  BY DEF CrashInv
<1>5. mem = IF plan[at].first = "memory" THEN After(at) ELSE After(at - 1)
  BY <1>3, <1>4
<1>6. Same(Disk, After(at - 1)) \/ Same(Disk, After(at))
  BY <1>4, <1>5
<1>7. Vacated(After(at - 1), plan[at])
  <2> SUFFICES ASSUME plan[at].record.table = "pools", plan[at].record.value = 0
               PROVE  \A q \in Queues : Live(After(at - 1), q)
                        => After(at - 1).queues[q].pool # plan[at].record.key
    BY DEF Vacated
  <2>1. Len(plan) = 1 /\ \A q \in Queues : Live(before, q) => before.queues[q].pool # plan[at].record.key
    BY DEF CrashInv
  <2>2. at - 1 = 0
    BY <2>1
  <2> QED  BY <2>1, <2>2, AfterTyped
<1>8. Disk \in WideImage /\ plan[at] \in WideStep
  BY DiskFacts, StepAt DEF Disk, Shape
<1>9. Same(Replay(Disk, plan[at].record), After(at))
  BY <1>2, <1>6, <1>7, <1>8, AppendedSame
<1> QED  BY <1>2, <1>5, <1>6, <1>9

\* CrashInv holds at first.
LEMMA InitCrash ==
    ASSUME Init
    PROVE  CrashInv
<1>1. Shape /\ Len(<<>>) = 0 /\ 0 \in 0..0
  BY InitShape
<1>2. After(0) = EmptyImage
  BY <1>1, AfterTyped DEF Init
<1>3. Disk = EmptyImage
  <2>1. Overlay(EmptyImage, EmptyImage) = EmptyImage
    BY EmptyTyped DEF Overlay
  <2> QED  BY <2>1, ReplayNothing DEF Init, Disk, DiskOf
<1>4. Same(Disk, After(0))
  BY <1>2, <1>3, SameRules
<1> QED  BY <1>1, <1>4 DEF Init, CrashInv

\* The code before an append: memory may go first, and a compaction may put a
\* snapshot of it in place while the journal is still full.
LEMMA StartCrash ==
    ASSUME Shape, Shape', EpochInv', CrashInv, StartRecord
    PROVE  CrashInv'
<1> DEFINE s == plan[at]
<1>1. /\ at \in 1..Len(plan) /\ Len(plan) \in Nat /\ phase = "start" /\ status \in {"opening", "open"}
      /\ plan # <<>> /\ status # "down" /\ status # "closed"
  BY DEF StartRecord, Shape
<1>2. /\ mem' = IF s.first = "memory" THEN Applied(mem, s) ELSE mem
      /\ snapshot' = (IF needs_compaction THEN mem' ELSE snapshot)
      /\ phase' \in {"append", "renamed"}
      /\ UNCHANGED <<status, journal, plan, at, before>>
  BY DEF StartRecord, InstallSnapshot
<1>3. mem = After(at - 1) /\ Same(Disk, mem)
  BY <1>1 DEF CrashInv, Reached
<1>4. /\ mem \in WideImage /\ mem' \in WideImage /\ snapshot \in WideImage /\ journal \in Seq(Frames)
      /\ s \in WideStep /\ s.record \in WideRecord
  BY <1>1, StepAt DEF Shape
<1>5. After(at) = Applied(mem, s)
  BY <1>1, <1>3, AfterTyped
<1>6. Reached' = IF s.first = "memory" THEN at ELSE at - 1
  BY <1>1, <1>2 DEF Reached
<1>7. mem' = After(Reached)'
  <2>1. After(Reached)' = After(Reached')
    BY <1>2 DEF After
  <2> QED  BY <1>2, <1>3, <1>5, <1>6, <2>1
<1>8. Same(Disk', mem') \/ Same(Disk', mem)
  <2>1. CASE ~ needs_compaction
    <3>1. Disk' = Disk
      BY <1>2, <2>1 DEF Disk
    <3> QED  BY <1>3, <3>1
  <2>2. CASE needs_compaction
    <3>1. Disk' = DiskOf(mem', journal)
      BY <1>2, <2>2 DEF Disk
    <3>2. mem'.epoch # 0
      <4>1. CASE status = "open"
        BY <1>2, <4>1 DEF EpochInv
      <4>2. CASE status = "opening"
        <5>1. Len(plan) = 1 /\ at = 1 /\ s.record.table = "epoch" /\ s.record.value = mem'.epoch
          BY <1>2, <4>2 DEF EpochInv
        <5> QED  BY <1>1, <5>1, StepAt
      <4> QED  BY <1>1, <4>1, <4>2
    <3>3. Same(Disk', ReplayAll(mem', journal))
      BY <1>4, <3>1, <3>2, InstalledDisk
    <3>4. Overlay(EmptyImage, snapshot) \in WideImage /\ Same(ReplayAll(Overlay(EmptyImage, snapshot), journal), mem)
      BY <1>3, <1>4, DiskFacts DEF Disk, DiskOf
    <3>5. CASE s.first # "memory"
      <4>1. mem' = mem
        BY <1>2, <3>5
      <4>2. Same(ReplayAll(mem, journal), mem)
        BY <1>4, <3>4, Absorbed
      <4> QED  BY <3>3, <4>1, <4>2, SameRules
    <3>6. CASE s.first = "memory"
      <4> DEFINE y == Replay(mem, s.record)
      <4>1. Vacated(mem, s)
        BY <1>1, <3>6 DEF CrashInv, Vacated
      <4>2. mem' = Applied(mem, s) /\ y \in WideImage
        BY <1>2, <1>4, <3>6, ReplayStep
      <4>3. Same(mem', y)
        BY <1>4, <4>1, <4>2, AppliedSame
      <4>4. Same(ReplayAll(y, journal), mem) \/ Same(ReplayAll(y, journal), y)
        BY <1>4, <3>4, AbsorbedButOne
      <4> HIDE DEF y
      <4>5. Same(ReplayAll(mem', journal), ReplayAll(y, journal))
        BY <1>4, <4>2, <4>3, ReplayAllSame
      <4>6. Same(Disk', ReplayAll(y, journal))
        BY <3>3, <4>5, SameRules
      <4>7. CASE Same(ReplayAll(y, journal), mem)
        BY <4>6, <4>7, SameRules
      <4>8. CASE Same(ReplayAll(y, journal), y)
        <5>1. Same(y, mem')
          BY <4>3, SameRules
        <5> QED  BY <4>6, <4>8, <5>1, SameRules
      <4> QED  BY <4>4, <4>7, <4>8
    <3> QED  BY <3>5, <3>6
  <2> QED  BY <2>1, <2>2
<1>9. \/ Same(Disk, mem)'
      \/ (phase \in {"append", "renamed"} /\ plan # <<>> /\ Same(Disk, After(at - 1)))'
  <2>1. After(at - 1)' = mem
    BY <1>2, <1>3 DEF After
  <2> QED  BY <1>1, <1>2, <1>8, <2>1
<1>10. (\A i \in 1..Len(journal) : journal[i] = Torn => status = "down" /\ i = Len(journal))'
  BY <1>2 DEF CrashInv
<1>11. (\A i \in 1..Len(plan) :
          plan[i].record.table = "pools" /\ plan[i].record.value = 0 =>
            /\ Len(plan) = 1 /\ plan[i].first = "journal"
            /\ \A q \in Queues : Live(before, q) => before.queues[q].pool # plan[i].record.key)'
  BY <1>2 DEF CrashInv, Live
<1>12. status' # "down" /\ status' # "closed"
  BY <1>1, <1>2
<1> QED  BY <1>7, <1>9, <1>10, <1>11, <1>12 DEF CrashInv

\* Emptying the journal under a snapshot of memory.
LEMMA TruncateCrash ==
    ASSUME Shape, EpochInv, CrashInv, TruncateJournal
    PROVE  CrashInv'
<1>1. /\ phase = "renamed" /\ status \in {"opening", "open"} /\ snapshot = mem
      /\ plan = <<>> \/ at \in 1..Len(plan)
      /\ mem \in WideImage
      /\ status # "down" /\ status # "closed"
  BY DEF TruncateJournal, Shape, EpochInv
<1>2. /\ journal' = <<>> /\ phase' = (IF plan = <<>> THEN "idle" ELSE "append")
      /\ UNCHANGED <<status, mem, snapshot, plan, at, before>>
  BY SequenceRules DEF TruncateJournal, truncate_to
<1>3. mem.epoch # 0
  <2>1. CASE status = "open"
    BY <2>1 DEF EpochInv
  <2>2. CASE status = "opening"
    <3>1. Len(plan) = 1 /\ at = 1 /\ plan[at].record.table = "epoch" /\ plan[at].record.value = mem.epoch
      BY <1>1, <2>2 DEF EpochInv
    <3> QED  BY <3>1, StepAt
  <2> QED  BY <1>1, <2>1, <2>2
<1>4. Same(Disk', mem')
  <2>1. Disk' = DiskOf(mem, <<>>)
    BY <1>1, <1>2 DEF Disk
  <2>2. <<>> \in Seq(Frames)
    OBVIOUS
  <2> QED  BY <1>1, <1>2, <1>3, <2>1, <2>2, InstalledDisk
<1>5. mem' = After(Reached)'
  <2>1. Reached' = Reached
    BY <1>1, <1>2 DEF Reached
  <2>2. After(Reached)' = After(Reached)
    BY <1>2, <2>1 DEF After
  <2>3. mem = After(Reached)
    BY <1>1 DEF CrashInv
  <2> QED  BY <1>2, <2>2, <2>3
<1>6. Len(journal') = 0
  BY <1>2
<1>7. (\A i \in 1..Len(plan) :
          plan[i].record.table = "pools" /\ plan[i].record.value = 0 =>
            /\ Len(plan) = 1 /\ plan[i].first = "journal"
            /\ \A q \in Queues : Live(before, q) => before.queues[q].pool # plan[i].record.key)'
  BY <1>2 DEF CrashInv, Live
<1>8. status' # "down" /\ status' # "closed"
  BY <1>1, <1>2
<1> QED  BY <1>4, <1>5, <1>6, <1>7, <1>8 DEF CrashInv

\* The append itself, and the acknowledgement after the last.
LEMMA AppendCrash ==
    ASSUME Shape, Shape', CrashInv, AppendRecord
    PROVE  CrashInv'
<1> DEFINE s == plan[at]
<1>1. /\ at \in 1..Len(plan) /\ Len(plan) \in Nat /\ phase = "append" /\ status \in {"opening", "open"}
      /\ status # "down" /\ status # "closed"
      /\ snapshot \in WideImage /\ journal \in Seq(Frames)
  BY DEF AppendRecord, Shape
<1>2. /\ journal' = Append(journal, s.record)
      /\ mem' = IF s.first = "journal" THEN Applied(mem, s) ELSE mem
      /\ snapshot' = snapshot
  BY DEF AppendRecord
<1>3. /\ s.record \in Frames /\ s.record # Torn /\ s.first \in {"memory", "journal"}
  BY <1>1, StepAt, RecordIsNotTorn DEF Frames, WideStep
<1>4. \A i \in 1..Len(journal) : journal[i] # Torn
  BY <1>1 DEF CrashInv
<1>5. \A i \in 1..Len(journal') : journal'[i] # Torn
  BY <1>1, <1>2, <1>3, <1>4
<1>6. Disk' = Replay(Disk, s.record)
  BY <1>1, <1>2, <1>3, <1>4, ReplayAppend DEF Disk, DiskOf
<1>7. /\ After(at) = Applied(After(at - 1), s)
      /\ mem = IF s.first = "memory" THEN After(at) ELSE After(at - 1)
      /\ Same(Replay(Disk, s.record), After(at))
  BY <1>1, Written
<1>8. mem' = After(at)
  BY <1>2, <1>3, <1>7
<1>9. Same(Disk', mem')
  BY <1>6, <1>7, <1>8
<1>10. CASE at < Len(plan)
  <2>1. at' = at + 1 /\ phase' = "start" /\ UNCHANGED <<status, plan, before>>
    BY <1>10 DEF AppendRecord
  <2>2. Reached' = at
    <3>1. Reached' = at' - 1
      BY <2>1 DEF Reached
    <3> QED  BY <1>1, <2>1, <3>1
  <2>3. mem' = After(Reached)'
    BY <1>8, <2>1, <2>2 DEF After
  <2>4. (\A i \in 1..Len(plan) :
          plan[i].record.table = "pools" /\ plan[i].record.value = 0 =>
            /\ Len(plan) = 1 /\ plan[i].first = "journal"
            /\ \A q \in Queues : Live(before, q) => before.queues[q].pool # plan[i].record.key)'
    BY <2>1 DEF CrashInv, Live
  <2>5. status' # "down" /\ status' # "closed"
    BY <1>1, <2>1
  <2> QED  BY <1>5, <1>9, <2>3, <2>4, <2>5 DEF CrashInv
<1>11. CASE ~(at < Len(plan))
  <2>1. at' = 1 /\ phase' = "idle" /\ plan' = <<>> /\ status' = "open" /\ before' = mem'
    BY <1>11 DEF AppendRecord
  <2>2. Reached' = 0
    BY <2>1 DEF Reached
  <2>3. AppliedUpTo(mem', <<>>, 0) = mem'
    BY AppliedSteps
  <2>4. mem' = After(Reached)'
    BY <2>1, <2>2, <2>3 DEF After
  <2>5. Len(plan') = 0
    BY <2>1
  <2> QED  BY <1>5, <1>9, <2>1, <2>4, <2>5 DEF CrashInv
<1> QED  BY <1>10, <1>11

\* Between operations memory and files agree.
LEMMA IdleCrash ==
    ASSUME Shape, CrashInv, Idle
    PROVE  /\ plan = <<>> /\ at = 1 /\ phase = "idle" /\ status = "open"
           /\ Reached = 0 /\ mem = before /\ mem = After(0) /\ Same(Disk, mem)
<1>1. plan = <<>> /\ at = 1 /\ phase = "idle" /\ status = "open"
  BY DEF Shape, Idle
<1>2. Reached = 0
  BY <1>1 DEF Reached
<1>3. mem = After(0) /\ Same(Disk, mem)
  BY <1>1, <1>2 DEF CrashInv
<1> QED  BY <1>1, <1>2, <1>3, AfterTyped

\* checkpoint() renames a snapshot of memory.
LEMMA CheckpointCrash ==
    ASSUME Shape, EpochInv, CrashInv, Checkpoint
    PROVE  CrashInv'
<1>1. /\ plan = <<>> /\ at = 1 /\ status = "open" /\ mem = After(0) /\ Same(Disk, mem)
      /\ mem \in WideImage /\ snapshot \in WideImage /\ journal \in Seq(Frames) /\ mem.epoch # 0
  BY IdleCrash DEF Checkpoint, Shape, EpochInv
<1>2. snapshot' = mem /\ UNCHANGED <<status, mem, journal, plan, at, before>>
  BY DEF Checkpoint, InstallSnapshot
<1>3. Same(Disk', mem')
  <2>1. Disk' = DiskOf(mem, journal)
    BY <1>2 DEF Disk
  <2>2. Same(Disk', ReplayAll(mem, journal))
    BY <1>1, <2>1, InstalledDisk
  <2>3. Overlay(EmptyImage, snapshot) \in WideImage /\ Same(ReplayAll(Overlay(EmptyImage, snapshot), journal), mem)
    BY <1>1, DiskFacts DEF Disk, DiskOf
  <2>4. Same(ReplayAll(mem, journal), mem)
    BY <1>1, <2>3, Absorbed
  <2> QED  BY <1>2, <2>2, <2>4, SameRules
<1>4. mem' = After(Reached)'
  <2>1. Reached' = 0
    BY <1>1, <1>2 DEF Reached
  <2> QED  BY <1>1, <1>2, <2>1 DEF After
<1>5. (\A i \in 1..Len(journal) : journal[i] = Torn => status = "down" /\ i = Len(journal))'
  BY <1>2 DEF CrashInv
<1>6. status' = "open" /\ Len(plan') = 0
  BY <1>1, <1>2
<1> QED  BY <1>3, <1>4, <1>5, <1>6 DEF CrashInv

\* A crash, in the middle of an append or anywhere else.
LEMMA CrashCrash ==
    ASSUME Shape, CrashInv, Crash
    PROVE  CrashInv'
<1>1. /\ status # "down" /\ status' = "down" /\ mem' = EmptyImage
      /\ UNCHANGED <<snapshot, plan, at, before>>
  BY DEF Crash
<1>2. /\ at \in 1..(Len(plan) + 1) /\ Len(plan) \in Nat
      /\ snapshot \in WideImage /\ journal \in Seq(Frames) /\ Len(journal) \in Nat
  BY DEF Shape
<1>3. \A i \in 1..Len(journal) : journal[i] # Torn
  BY <1>1 DEF CrashInv
<1>4. /\ \E n \in 0..Len(plan) : Same(Disk', After(n))
      /\ \A i \in 1..Len(journal') : journal'[i] = Torn => i = Len(journal')
  <2>1. CASE phase = "append"
    <3> DEFINE r == plan[at].record
    <3>1. at \in 1..Len(plan) /\ at \in 0..Len(plan) /\ at - 1 \in 0..Len(plan)
      BY <1>2, <2>1 DEF Shape
    <3>2. journal' \in {journal, Append(journal, Torn), Append(journal, r)}
      BY <2>1 DEF Crash, Interrupted
    <3>3. r \in Frames /\ r # Torn /\ Torn \in Frames
      BY <3>1, StepAt, RecordIsNotTorn DEF Frames
    <3>4. (Same(Disk, After(at - 1)) \/ Same(Disk, After(at))) /\ Same(Replay(Disk, r), After(at))
      BY <1>1, <2>1, <3>1, Written
    <3> HIDE DEF r
    <3>5. Disk' \in {Disk, Replay(Disk, r)}
      <4>1. Disk' = DiskOf(snapshot, journal')
        BY <1>1 DEF Disk
      <4>2. DiskOf(snapshot, Append(journal, Torn)) = Disk
        <5> DEFINE base == Overlay(EmptyImage, snapshot)
        <5>1. ReplayAll(base, Append(journal, Torn)) = ReplayAll(base, journal)
          <6> HIDE DEF base
          <6> QED  BY <1>2, <3>3, ReplayAppend, ZenonT(30)
        <5> QED  BY <5>1, Zenon DEF Disk, DiskOf
      <4>3. DiskOf(snapshot, Append(journal, r)) = Replay(Disk, r)
        <5> DEFINE base == Overlay(EmptyImage, snapshot)
        <5>1. ReplayAll(base, Append(journal, r)) = Replay(ReplayAll(base, journal), r)
          <6> HIDE DEF base
          <6> QED  BY <1>2, <1>3, <3>3, ReplayAppend
        <5> QED  BY <5>1, Zenon DEF Disk, DiskOf
      <4>4. DiskOf(snapshot, journal) = Disk
        BY DEF Disk
      <4> QED  BY <3>2, <4>1, <4>2, <4>3, <4>4
    <3>6. \A i \in 1..Len(journal') : journal'[i] = Torn => i = Len(journal')
      BY <1>2, <1>3, <3>2, <3>3
    <3> QED  BY <3>1, <3>4, <3>5, <3>6
  <2>2. CASE phase # "append"
    <3>1. journal' = journal
      BY <2>2 DEF Crash
    <3>2. Disk' = Disk
      BY <1>1, <3>1 DEF Disk
    <3>3. Reached \in 0..Len(plan) /\ at - 1 \in 0..Len(plan)
      <4>1. phase = "renamed" => plan = <<>> \/ at \in 1..Len(plan)
        BY DEF Shape
      <4>2. Reached = at - 1 \/ (Reached = at /\ phase = "renamed" /\ plan # <<>>)
        BY <2>2 DEF Reached
      <4> QED  BY <1>2, <4>1, <4>2
    <3>4. Same(Disk, After(Reached)) \/ Same(Disk, After(at - 1))
      BY <1>1 DEF CrashInv
    <3>5. \E n \in 0..Len(plan) : Same(Disk, After(n))
      BY <3>3, <3>4
    <3> QED  BY <1>3, <3>1, <3>2, <3>5
  <2> QED  BY <2>1, <2>2
<1>5. (\E n \in 0..Len(plan) : Same(Disk, After(n)))'
  BY <1>1, <1>4 DEF After
<1>6. (\A i \in 1..Len(plan) :
          plan[i].record.table = "pools" /\ plan[i].record.value = 0 =>
            /\ Len(plan) = 1 /\ plan[i].first = "journal"
            /\ \A q \in Queues : Live(before, q) => before.queues[q].pool # plan[i].record.key)'
  BY <1>1 DEF CrashInv, Live
<1>7. status' # "closed"
  BY <1>1
<1> QED  BY <1>1, <1>4, <1>5, <1>6, <1>7 DEF CrashInv

\* close() keeps memory and files.
LEMMA CloseCrash ==
    ASSUME Shape, CrashInv, Close
    PROVE  CrashInv'
<1>1. /\ plan = <<>> /\ at = 1 /\ status = "open" /\ mem = After(0) /\ Same(Disk, mem)
  BY IdleCrash DEF Close
<1>2. status' = "closed" /\ UNCHANGED <<mem, snapshot, journal, plan, at, before>>
  BY DEF Close
<1>3. Same(Disk', mem')
  BY <1>1, <1>2 DEF Disk
<1>4. mem' = After(Reached)'
  <2>1. Reached' = 0
    BY <1>1, <1>2 DEF Reached
  <2> QED  BY <1>1, <1>2, <2>1 DEF After
<1>5. \A i \in 1..Len(journal') : journal'[i] # Torn
  BY <1>1, <1>2 DEF CrashInv
<1>6. plan' = <<>> /\ at' = 1 /\ Len(plan') = 0
  BY <1>1, <1>2
<1> QED  BY <1>2, <1>3, <1>4, <1>5, <1>6 DEF CrashInv

\* open() recovers what the files hold, in a new process or in a closed object.
LEMMA OpenCrash ==
    ASSUME Shape, Shape', EpochInv', CrashInv, Open
    PROVE  CrashInv'
<1>1. /\ mem \in WideImage /\ snapshot \in WideImage /\ journal \in Seq(Frames)
      /\ status \in {"down", "closed"} /\ phase = "idle"
  BY DEF Open, Shape
<1>2. /\ mem' = Recovered(mem) /\ before' = mem' /\ snapshot' = snapshot
      /\ journal' = truncate_to(journal, Intact(journal))
      /\ status' = "opening" /\ phase' = "start" /\ at' = 1
      /\ plan' = <<Step("memory", "epoch", 0, mem'.epoch + 1)>>
  BY DEF Open
<1>3. Disk' = Disk
  BY <1>1, <1>2, DiskFacts DEF Disk
<1>4. Same(Disk', mem')
  <2> DEFINE w == ReplayAll(Overlay(mem, snapshot), journal)
  <2>1. w \in WideImage
    BY <1>1, RecoveredTyped
  <2>2. Same(mem', w)
    BY <1>2, <2>1, ExpiredSame DEF Recovered
  <2>3. Same(w, Disk)
    <3>1. CASE status = "down"
      <4>1. w = Disk
        BY <3>1 DEF CrashInv, Disk, DiskOf
      <4> QED  BY <4>1, SameRules
    <3>2. CASE status = "closed"
      <4>1. Same(Disk, mem)
        BY <1>1, <3>2 DEF CrashInv
      <4> QED  BY <1>1, <4>1, OverlaySame DEF Disk
    <3> QED  BY <1>1, <3>1, <3>2
  <2> HIDE DEF w
  <2> QED  BY <1>3, <2>2, <2>3, SameRules
<1>5. mem' = After(Reached)'
  <2>1. Reached' = 0
    BY <1>2 DEF Reached
  <2>2. Len(plan') \in Nat
    BY <1>2
  <2>3. AppliedUpTo(before', plan', 0) = before'
    BY <2>2, AppliedSteps
  <2> QED  BY <1>2, <2>1, <2>3 DEF After
<1>6. \A i \in 1..Len(journal') : journal'[i] # Torn
  BY <1>2 DEF EpochInv
<1>7. Len(plan') = 1 /\ plan'[1].record.table = "epoch"
  BY <1>2 DEF Step
<1>8. \A i \in 1..Len(plan') : plan'[i].record.table # "pools"
  BY <1>7
<1> QED  BY <1>2, <1>4, <1>5, <1>6, <1>8 DEF CrashInv

\* An operation begins.
LEMMA BeginCrash ==
    ASSUME Shape, CrashInv, NEW steps, Sound(steps), Begin(steps)
    PROVE  CrashInv'
<1>1. mem = before /\ status = "open" /\ Same(Disk, mem)
  BY IdleCrash DEF Begin
<1>2. /\ plan' = steps /\ at' = 1 /\ phase' = "start"
      /\ UNCHANGED <<status, mem, snapshot, journal, before>>
  BY DEF Begin
<1>3. Same(Disk', mem')
  BY <1>1, <1>2 DEF Disk
<1>4. mem' = After(Reached)'
  <2>1. Reached' = 0
    BY <1>2 DEF Reached
  <2>2. Len(steps) \in Nat
    BY DEF Sound
  <2>3. AppliedUpTo(before', steps, 0) = before'
    BY <2>2, AppliedSteps
  <2> QED  BY <1>1, <1>2, <2>1, <2>3 DEF After
<1>5. \A i \in 1..Len(journal') : journal'[i] # Torn
  BY <1>1, <1>2 DEF CrashInv
<1>6. (\A i \in 1..Len(plan) :
          plan[i].record.table = "pools" /\ plan[i].record.value = 0 =>
            /\ Len(plan) = 1 /\ plan[i].first = "journal"
            /\ \A q \in Queues : Live(before, q) => before.queues[q].pool # plan[i].record.key)'
  BY <1>1, <1>2 DEF Sound, Live
<1>7. status' = "open"
  BY <1>1, <1>2
<1> QED  BY <1>3, <1>4, <1>5, <1>6, <1>7 DEF CrashInv

\* Without write errors every step keeps CrashInv: no operation fails and no
\* recovery is refused.
LEMMA NextCrash ==
    ASSUME MaxFailures = 0, Shape, Shape', EpochInv, EpochInv', CrashInv, Next
    PROVE  CrashInv'
<1>1. Split
  BY NextSplit DEF Shape
<1>2. ~ FailOperation
  BY DEF FailOperation, Shape
<1>3. ~ OpenRefused
  <2> SUFFICES ASSUME Refused(journal) PROVE FALSE
    BY DEF OpenRefused
  <2>1. PICK i, k \in 1..Len(journal) : i < k /\ journal[i] = Torn
    BY DEF Refused
  <2>2. i = Len(journal) /\ Len(journal) \in Nat
    BY <2>1 DEF CrashInv, Shape
  <2> QED  BY <2>1, <2>2
<1> QED  BY <1>1, <1>2, <1>3, StartCrash, TruncateCrash, AppendCrash, CheckpointCrash, CrashCrash,
            CloseCrash, OpenCrash, BeginCrash DEF Split

\* CrashInv is what CrashKeepsPrefix needs.
LEMMA CrashRecovers ==
    ASSUME Shape, CrashInv
    PROVE  CrashKeepsPrefix
<1>1. \E n \in 0..Len(plan) : Same(Disk, After(n))
  <2>1. CASE status = "down"
    BY <2>1 DEF CrashInv
  <2>2. CASE status # "down"
    <3>1. /\ at \in 1..(Len(plan) + 1) /\ Len(plan) \in Nat
          /\ phase = "append" => at \in 1..Len(plan)
          /\ phase = "renamed" => plan = <<>> \/ at \in 1..Len(plan)
      BY DEF Shape
    <3>2. \/ Reached = at - 1
          \/ Reached = at /\ phase \in {"append", "renamed"} /\ plan # <<>>
      BY DEF Reached
    <3>3. Reached \in 0..Len(plan) /\ at - 1 \in 0..Len(plan)
      BY <3>1, <3>2
    <3>4. Same(Disk, After(Reached)) \/ Same(Disk, After(at - 1))
      BY <2>2 DEF CrashInv
    <3> QED  BY <3>3, <3>4
  <2> QED  BY <2>1, <2>2
<1>2. PICK n \in 0..Len(plan) : Same(Disk, After(n))
  BY <1>1
<1>3. Disk \in WideImage /\ After(n) \in WideImage
  BY AfterTyped, DiskFacts DEF Disk, Shape
<1>4. /\ Recovered(EmptyImage) = [Disk EXCEPT !.allocations = ExpireLeases(@)]
  BY DEF Recovered, Disk, DiskOf
<1>5. Recovered(EmptyImage) \in WideImage /\ Same(Recovered(EmptyImage), Disk)
  BY <1>3, <1>4, ExpireTyped, ExpiredSame
<1>6. Same(Recovered(EmptyImage), After(n))
  BY <1>2, <1>5, SameRules
<1>7. View(Recovered(EmptyImage)) = View(After(n))
  BY <1>3, <1>5, <1>6, SameView
<1> QED  BY <1>7 DEF CrashKeepsPrefix, After

LEMMA AlwaysCrash == MaxFailures = 0 => (Spec => [](DInv /\ CrashInv))
<1> SUFFICES ASSUME MaxFailures = 0 PROVE Spec => [](DInv /\ CrashInv)
  OBVIOUS
<1>1. Init => CrashInv
  BY InitCrash
<1>2. DInv /\ DInv' /\ CrashInv /\ [Next]_vars => CrashInv'
  <2> SUFFICES ASSUME DInv, DInv', CrashInv, [Next]_vars PROVE CrashInv'
    OBVIOUS
  <2>1. CASE Next
    BY <2>1, NextCrash DEF DInv
  <2>2. CASE UNCHANGED vars
    BY <2>2 DEF vars, CrashInv, Disk, After, Reached, Live
  <2> QED  BY <2>1, <2>2
<1> QED  BY <1>1, <1>2, AlwaysDInv, PTL DEF Spec

\* Crash consistency (fabric.cpp load_from_store, persistence.cpp append_record
\* and write_snapshot): at every instant a crash would recover the last
\* acknowledged state plus a prefix of the records of the operation in
\* progress, for any journal length and any compaction threshold.  The
\* hypothesis is that writes do not return errors; an operation that fails
\* half way leaves memory ahead of the files.
THEOREM CrashKeepsAPrefix == MaxFailures = 0 => (Spec => []CrashKeepsPrefix)
<1> SUFFICES ASSUME MaxFailures = 0 PROVE Spec => []CrashKeepsPrefix
  OBVIOUS
<1>1. DInv /\ CrashInv => CrashKeepsPrefix
  BY CrashRecovers DEF DInv
<1> QED  BY <1>1, AlwaysCrash, PTL

\* However often the process dies, in the middle of an append or of recovery
\* itself, open() finds a journal that it does not refuse: a torn frame is cut
\* before anything is appended after it (fabric.cpp load_from_store).
THEOREM CrashesAreNotCorruption == MaxFailures = 0 => (Spec => []DamageIsCorruption)
<1> SUFFICES ASSUME MaxFailures = 0 PROVE Spec => []DamageIsCorruption
  OBVIOUS
<1>1. DInv /\ CrashInv => DamageIsCorruption
  <2> SUFFICES ASSUME CrashInv, Len(journal) \in Nat,
                      NEW i \in 1..Len(journal), NEW k \in 1..Len(journal),
                      i < k, journal[i] = Torn
               PROVE  FALSE
    <3>1. DInv => Len(journal) \in Nat
      BY DEF DInv, Shape
    <3> QED  BY <3>1 DEF DamageIsCorruption, Refused
  <2>1. i = Len(journal)
    BY DEF CrashInv
  <2> QED  BY <2>1
<1> QED  BY <1>1, AlwaysCrash, PTL
==============================================================================
