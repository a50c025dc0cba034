------------------------------ MODULE DataLemmas -------------------------------
(***************************************************************************)
(* Lemmas that do not depend on what is modelled: induction, lists without *)
(* duplicates, and the quotients and remainders of a number.               *)
(*                                                                         *)
(* Induction is stated for a set of numbers, not for a predicate: the      *)
(* library's theorems that take the predicate as a parameter cannot be     *)
(* instantiated, its theorem on minimal elements of a set (WFMin) can.     *)
(***************************************************************************)
EXTENDS Lists, SequencesExt, WellFoundedInduction, FiniteSetTheorems, SequenceTheorems, TLAPS

(***************************************************************************)
(* Induction.                                                              *)
(***************************************************************************)
LEMMA LeastOf ==
    ASSUME NEW T, T \subseteq Nat, T # {}
    PROVE  \E x \in T : \A y \in T : x <= y
<1> DEFINE R == OpToRel(<, Nat)
<1>1. IsWellFoundedOn(R, Nat)
  BY NatLessThanWellFounded
<1>2. PICK x \in T : \A y \in T : ~(<<y, x>> \in R)
  <2> HIDE DEF R
  <2>1. QED BY <1>1, WFMin
<1>3. \A y \in T : ~(y < x)
  BY <1>2 DEF OpToRel
<1>4. QED
  BY <1>3

LEMMA SetInduction ==
    ASSUME NEW T, 0 \in T, \A n \in Nat : n \in T => n + 1 \in T
    PROVE  Nat \subseteq T
<1> SUFFICES ASSUME ~(Nat \subseteq T) PROVE FALSE
  OBVIOUS
<1>1. PICK x \in Nat \ T : \A y \in Nat \ T : x <= y
  <2>1. Nat \ T \subseteq Nat /\ Nat \ T # {}
    OBVIOUS
  <2>2. QED
    BY <2>1, LeastOf
<1>2. x # 0 /\ x - 1 \in Nat /\ x - 1 \in T
  BY <1>1
<1>3. QED
  BY <1>1, <1>2

(***************************************************************************)
(* The recursion in Those defines a function.                              *)
(***************************************************************************)
LEMMA ThoseRecursion ==
    ASSUME NEW S, NEW A, NEW list \in Seq(A)
    PROVE  \E f : /\ f = [k \in 0 .. Len(list) |->
                             IF k = 0 THEN <<>>
                             ELSE IF list[k] \in S THEN Append(f[k - 1], list[k]) ELSE f[k - 1]]
                  /\ Those(list, S) = f[Len(list)]
<1> DEFINE Step(f, k) == IF k = 0 THEN <<>>
                         ELSE IF list[k] \in S THEN Append(f[k - 1], list[k]) ELSE f[k - 1]
           T == {n \in Nat : \E f : f = [k \in 0 .. n |-> Step(f, k)]}
<1>1. 0 \in T
  <2> PICK f : f = [k \in 0 .. 0 |-> <<>>]
    OBVIOUS
  <2>1. f = [k \in 0 .. 0 |-> Step(f, k)]
    OBVIOUS
  <2>2. QED
    BY <2>1
<1>2. ASSUME NEW n \in Nat, n \in T PROVE n + 1 \in T
  <2> PICK f : f = [k \in 0 .. n |-> Step(f, k)]
    BY <1>2
  <2> PICK g : g = [k \in 0 .. n + 1 |-> IF k <= n THEN f[k] ELSE Step(f, n + 1)]
    OBVIOUS
  <2>1. \A k \in 0 .. n : g[k] = f[k] /\ f[k] = Step(f, k)
    <3> HIDE DEF Step
    <3>1. \A k \in 0 .. n : k \in 0 .. n + 1 /\ k <= n
      OBVIOUS
    <3>2. QED
      BY <3>1
  <2>2. ASSUME NEW k \in 0 .. n + 1 PROVE g[k] = Step(g, k)
    <3>1. CASE k <= n
      <4>1. k # 0 => k - 1 \in 0 .. n
        BY <3>1
      <4>2. k \in 0 .. n
        BY <3>1
      <4>3. k # 0 => g[k - 1] = f[k - 1]
        BY <2>1, <4>1
      <4>4. Step(g, k) = Step(f, k)
        BY <4>3
      <4>5. QED
        BY <2>1, <4>2, <4>4
    <3>2. CASE k = n + 1
      <4>1. n \in 0 .. n /\ k - 1 = n /\ n + 1 \in 0 .. n + 1
        BY <3>2
      <4>2. g[n] = f[n]
        BY <2>1, <4>1
      <4>3. g[k] = Step(f, n + 1)
        BY <3>2, <4>1
      <4>4. Step(g, k) = Step(f, k)
        BY <4>1, <4>2
      <4>5. QED
        BY <3>2, <4>3, <4>4
    <3>3. QED
      BY <3>1, <3>2
  <2>3. g = [k \in 0 .. n + 1 |-> Step(g, k)]
    <3> HIDE DEF Step
    <3>1. QED BY <2>2
  <2>4. QED
    <3> HIDE DEF Step
    <3>1. n + 1 \in Nat /\ \E e : e = [k \in 0 .. n + 1 |-> Step(e, k)]
      BY <2>3
    <3>2. QED
      BY <3>1
<1>3. Nat \subseteq T
  <2> HIDE DEF T
  <2>1. QED
    BY <1>1, <1>2, SetInduction
<1>4. Len(list) \in Nat
  OBVIOUS
<1>5. \E f : f = [k \in 0 .. Len(list) |-> Step(f, k)]
  BY <1>3, <1>4
<1> DEFINE h == CHOOSE f : f = [k \in 0 .. Len(list) |-> Step(f, k)]
<1>6. h = [k \in 0 .. Len(list) |-> Step(h, k)]
  BY <1>5
<1>7. Those(list, S) = h[Len(list)]
  BY DEF Those
<1>8. QED
  BY <1>6, <1>7

(***************************************************************************)
(* Lists without duplicates.                                               *)
(***************************************************************************)
NoDuplicates(list) == \A i, j \in 1 .. Len(list) : list[i] = list[j] => i = j

LEMMA AmongConcat ==
    ASSUME NEW A, NEW s \in Seq(A), NEW t \in Seq(A)
    PROVE  /\ s \o t \in Seq(A)
           /\ Among(s \o t) = Among(s) \cup Among(t)
           /\ NoDuplicates(s) /\ NoDuplicates(t) /\ Among(s) \cap Among(t) = {}
                 => NoDuplicates(s \o t)
<1> DEFINE u == s \o t
<1>1. /\ u \in Seq(A) /\ Len(u) = Len(s) + Len(t) /\ Len(s) \in Nat /\ Len(t) \in Nat
      /\ \A k \in 1 .. Len(s) : u[k] = s[k]
      /\ \A k \in 1 .. Len(u) : k > Len(s) => u[k] = t[k - Len(s)]
  OBVIOUS
<1> HIDE DEF u
<1>2. Among(u) \subseteq Among(s) \cup Among(t)
  <2> SUFFICES ASSUME NEW k \in 1 .. Len(u) PROVE u[k] \in Among(s) \cup Among(t)
    BY DEF Among
  <2>1. CASE k <= Len(s)
    BY <1>1, <2>1 DEF Among
  <2>2. CASE k > Len(s)
    <3>1. k - Len(s) \in 1 .. Len(t)
      BY <1>1, <2>2
    <3>2. QED
      BY <1>1, <2>2, <3>1 DEF Among
  <2>3. QED
    BY <1>1, <2>1, <2>2
<1>3. Among(s) \subseteq Among(u)
  BY <1>1 DEF Among
<1>4. Among(t) \subseteq Among(u)
  <2> SUFFICES ASSUME NEW k \in 1 .. Len(t) PROVE t[k] \in Among(u)
    BY DEF Among
  <2>1. k + Len(s) \in 1 .. Len(u) /\ k + Len(s) > Len(s) /\ (k + Len(s)) - Len(s) = k
    BY <1>1
  <2>2. u[k + Len(s)] = t[k]
    BY <1>1, <2>1
  <2>3. QED
    BY <2>1, <2>2 DEF Among
<1>5. ASSUME NoDuplicates(s), NoDuplicates(t), Among(s) \cap Among(t) = {},
             NEW i \in 1 .. Len(u), NEW j \in 1 .. Len(u), u[i] = u[j]
      PROVE  i = j
  <2>1. CASE i <= Len(s) /\ j <= Len(s)
    BY <1>1, <1>5, <2>1 DEF NoDuplicates
  <2>2. CASE i > Len(s) /\ j > Len(s)
    <3>1. i - Len(s) \in 1 .. Len(t) /\ j - Len(s) \in 1 .. Len(t)
      BY <1>1, <2>2
    <3>2. t[i - Len(s)] = t[j - Len(s)]
      BY <1>1, <1>5, <2>2
    <3>3. i - Len(s) = j - Len(s)
      BY <1>5, <3>1, <3>2 DEF NoDuplicates
    <3>4. QED
      BY <1>1, <3>3
  <2>3. CASE i <= Len(s) /\ j > Len(s)
    <3>1. i \in 1 .. Len(s) /\ j - Len(s) \in 1 .. Len(t)
      BY <1>1, <2>3
    <3>2. s[i] = t[j - Len(s)]
      BY <1>1, <1>5, <2>3, <3>1
    <3>3. QED
      BY <1>5, <3>1, <3>2 DEF Among
  <2>4. CASE i > Len(s) /\ j <= Len(s)
    <3>1. i - Len(s) \in 1 .. Len(t) /\ j \in 1 .. Len(s)
      BY <1>1, <2>4
    <3>2. t[i - Len(s)] = s[j]
      BY <1>1, <1>5, <2>4, <3>1
    <3>3. QED
      BY <1>5, <3>1, <3>2 DEF Among
  <2>5. QED
    BY <1>1, <2>1, <2>2, <2>3, <2>4
<1>6. NoDuplicates(s) /\ NoDuplicates(t) /\ Among(s) \cap Among(t) = {} => NoDuplicates(u)
  BY <1>5 DEF NoDuplicates
<1>7. QED
  BY <1>1, <1>2, <1>3, <1>4, <1>6 DEF u

LEMMA AmongAppend ==
    ASSUME NEW A, NEW s \in Seq(A), NEW e \in A
    PROVE  /\ Append(s, e) \in Seq(A)
           /\ Among(Append(s, e)) = Among(s) \cup {e}
           /\ NoDuplicates(s) /\ e \notin Among(s) => NoDuplicates(Append(s, e))
<1> DEFINE u == Append(s, e)
<1>1. /\ u \in Seq(A) /\ Len(u) = Len(s) + 1 /\ Len(s) \in Nat
      /\ \A k \in 1 .. Len(s) : u[k] = s[k]
      /\ u[Len(s) + 1] = e
  OBVIOUS
<1> HIDE DEF u
<1>2. Among(u) = Among(s) \cup {e}
  BY <1>1 DEF Among
<1>3. NoDuplicates(s) /\ e \notin Among(s) => NoDuplicates(u)
  BY <1>1 DEF Among, NoDuplicates
<1>4. QED
  BY <1>1, <1>2, <1>3 DEF u

LEMMA AmongEmpty == Among(<<>>) = {} /\ NoDuplicates(<<>>)
  BY DEF Among, NoDuplicates

\* The filter keeps what is in S, and makes no duplicates.
LEMMA ThoseProperties ==
    ASSUME NEW S, NEW A, NEW list \in Seq(A)
    PROVE  /\ Those(list, S) \in Seq(A)
           /\ Among(Those(list, S)) = Among(list) \cap S
           /\ NoDuplicates(list) => NoDuplicates(Those(list, S))
<1>1. PICK those :
        /\ those = [k \in 0 .. Len(list) |->
                       IF k = 0 THEN <<>>
                       ELSE IF list[k] \in S THEN Append(those[k - 1], list[k]) ELSE those[k - 1]]
        /\ Those(list, S) = those[Len(list)]
  BY ThoseRecursion
<1> DEFINE First(k) == {list[i] : i \in 1 .. k}
           Good(k) == /\ those[k] \in Seq(A)
                      /\ Among(those[k]) = First(k) \cap S
                      /\ NoDuplicates(list) => NoDuplicates(those[k])
           T == {k \in Nat : k <= Len(list) => Good(k)}
<1>2. Len(list) \in Nat /\ \A i \in 1 .. Len(list) : list[i] \in A
  OBVIOUS
<1>3. 0 \in T
  <2>1. those[0] = <<>>
    BY <1>1, <1>2
  <2>2. First(0) = {}
    OBVIOUS
  <2>3. Good(0)
    BY <2>1, <2>2, AmongEmpty
  <2>4. QED
    BY <2>3
<1>4. ASSUME NEW k \in Nat, k \in T PROVE k + 1 \in T
  <2>1. ASSUME k + 1 <= Len(list) PROVE Good(k + 1)
    <3> PICK e : e = list[k + 1]
      OBVIOUS
    <3>1. Good(k) /\ k + 1 \in 1 .. Len(list) /\ e \in A
      <4> HIDE DEF Good
      <4>1. k <= Len(list)
        BY <1>2, <2>1
      <4>2. QED
        BY <1>2, <1>4, <2>1, <4>1
    <3>2. First(k + 1) = First(k) \cup {e}
      OBVIOUS
    <3>3. those[k + 1] = IF e \in S THEN Append(those[k], e) ELSE those[k]
      <4>1. k + 1 \in 0 .. Len(list) /\ k + 1 # 0 /\ (k + 1) - 1 = k
        BY <3>1
      <4>2. QED
        BY <1>1, <4>1
    <3>4. NoDuplicates(list) => e \notin First(k)
      BY <3>1 DEF NoDuplicates
    <3> PICK before : before = those[k]
      OBVIOUS
    <3> PICK after : after = those[k + 1]
      OBVIOUS
    <3> HIDE DEF First
    <3>5. CASE e \in S
      <4>1. after = Append(before, e) /\ before \in Seq(A)
        BY <3>1, <3>3, <3>5
      <4>2. after \in Seq(A) /\ Among(after) = Among(before) \cup {e}
        BY <3>1, <4>1, AmongAppend
      <4>3. NoDuplicates(list) => NoDuplicates(after)
        BY <3>1, <3>4, <4>1, AmongAppend
      <4>4. QED
        BY <3>1, <3>2, <3>5, <4>2, <4>3
    <3>6. CASE e \notin S
      BY <3>1, <3>2, <3>3, <3>6
    <3>7. QED
      BY <3>5, <3>6
  <2>2. QED
    <3> HIDE DEF Good
    <3>1. QED
      BY <2>1
<1>5. Nat \subseteq T
  <2> HIDE DEF T
  <2>1. QED
    BY <1>3, <1>4, SetInduction
<1>6. Good(Len(list))
  <2> HIDE DEF Good
  <2>1. QED
    BY <1>2, <1>5
<1>7. First(Len(list)) = Among(list)
  BY DEF Among
<1>8. QED
  BY <1>1, <1>6, <1>7

\* What the filter has collected after each element.
LEMMA ThoseSteps ==
    ASSUME NEW S, NEW A, NEW list \in Seq(A)
    PROVE  \E f : /\ f[0] = <<>>
                  /\ \A k \in 1 .. Len(list) :
                        f[k] = IF list[k] \in S THEN Append(f[k - 1], list[k]) ELSE f[k - 1]
                  /\ Those(list, S) = f[Len(list)]
<1>1. PICK f : /\ f = [k \in 0 .. Len(list) |->
                          IF k = 0 THEN <<>>
                          ELSE IF list[k] \in S THEN Append(f[k - 1], list[k]) ELSE f[k - 1]]
               /\ Those(list, S) = f[Len(list)]
  BY ThoseRecursion
<1>2. Len(list) \in Nat
  OBVIOUS
<1>3. f[0] = <<>>
  BY <1>1, <1>2
<1>4. ASSUME NEW k \in 1 .. Len(list)
      PROVE  f[k] = IF list[k] \in S THEN Append(f[k - 1], list[k]) ELSE f[k - 1]
  <2>1. k \in 0 .. Len(list) /\ k # 0
    BY <1>2
  <2>2. QED
    BY <1>1, <2>1
<1>5. QED
  BY <1>1, <1>3, <1>4

LEMMA ThoseAppend ==
    ASSUME NEW S, NEW A, NEW list \in Seq(A), NEW e \in A
    PROVE  Those(Append(list, e), S) = IF e \in S THEN Append(Those(list, S), e) ELSE Those(list, S)
<1>1. PICK l \in Nat : l = Len(list)
  OBVIOUS
<1>2. PICK longer \in Seq(A) : longer = Append(list, e)
  BY AmongAppend
<1>3. Len(longer) = l + 1 /\ longer[l + 1] = e /\ \A k \in 1 .. l : longer[k] = list[k]
  BY <1>1, <1>2
<1>4. PICK f : /\ f[0] = <<>>
               /\ \A k \in 1 .. l :
                     f[k] = IF list[k] \in S THEN Append(f[k - 1], list[k]) ELSE f[k - 1]
               /\ Those(list, S) = f[l]
  BY <1>1, ThoseSteps
<1>5. PICK g : /\ g[0] = <<>>
               /\ \A k \in 1 .. l + 1 :
                     g[k] = IF longer[k] \in S THEN Append(g[k - 1], longer[k]) ELSE g[k - 1]
               /\ Those(longer, S) = g[l + 1]
  BY <1>3, ThoseSteps
<1> DEFINE T == {k \in Nat : k <= l => g[k] = f[k]}
<1>6. 0 \in T
  BY <1>4, <1>5
<1>7. ASSUME NEW k \in Nat, k \in T PROVE k + 1 \in T
  <2>1. ASSUME k + 1 <= l PROVE g[k + 1] = f[k + 1]
    <3>1. k + 1 \in 1 .. l /\ k + 1 \in 1 .. l + 1 /\ (k + 1) - 1 = k /\ g[k] = f[k]
      BY <1>7, <2>1
    <3>2. f[k + 1] = IF list[k + 1] \in S THEN Append(f[k], list[k + 1]) ELSE f[k]
      BY <1>4, <3>1
    <3>3. g[k + 1] = IF longer[k + 1] \in S THEN Append(g[k], longer[k + 1]) ELSE g[k]
      BY <1>5, <3>1
    <3>4. QED
      BY <1>3, <3>1, <3>2, <3>3
  <2>2. QED
    BY <2>1
<1>8. l \in T
  <2> HIDE DEF T
  <2>1. QED
    BY <1>6, <1>7, SetInduction
<1>9. g[l + 1] = IF e \in S THEN Append(g[l], e) ELSE g[l]
  <2>1. l + 1 \in 1 .. l + 1 /\ (l + 1) - 1 = l
    OBVIOUS
  <2>2. QED
    BY <1>3, <1>5, <2>1
<1>10. QED
  BY <1>2, <1>4, <1>5, <1>8, <1>9

\* An element behind all those that are in S comes last.
LEMMA ThoseLater ==
    ASSUME NEW S, NEW A, NEW list \in Seq(A), NoDuplicates(list), NEW h \in 1 .. Len(list),
           \A i \in 1 .. Len(list) : list[i] \in S => i < h
    PROVE  Those(list, S \cup {list[h]}) = Append(Those(list, S), list[h])
<1>1. PICK l \in Nat : l = Len(list)
  OBVIOUS
<1>2. PICK e : e = list[h]
  OBVIOUS
<1>3. \A i \in 1 .. l : list[i] = e => i = h
  BY <1>1, <1>2 DEF NoDuplicates
<1>4. PICK f : /\ f[0] = <<>>
               /\ \A k \in 1 .. l :
                     f[k] = IF list[k] \in S THEN Append(f[k - 1], list[k]) ELSE f[k - 1]
               /\ Those(list, S) = f[l]
  BY <1>1, ThoseSteps
<1>5. PICK g : /\ g[0] = <<>>
               /\ \A k \in 1 .. l :
                     g[k] = IF list[k] \in S \cup {e} THEN Append(g[k - 1], list[k]) ELSE g[k - 1]
               /\ Those(list, S \cup {e}) = g[l]
  BY <1>1, ThoseSteps
<1> DEFINE Good(k) == (k < h => g[k] = f[k]) /\ (k >= h => g[k] = Append(f[k], e))
           T == {k \in Nat : k <= l => Good(k)}
<1>6. 0 \in T
  BY <1>4, <1>5
<1>7. ASSUME NEW k \in Nat, k \in T PROVE k + 1 \in T
  <2>1. ASSUME k + 1 <= l PROVE Good(k + 1)
    <3>1. k + 1 \in 1 .. l /\ (k + 1) - 1 = k /\ Good(k)
      <4> HIDE DEF Good
      <4>1. k <= l
        BY <2>1
      <4>2. QED
        BY <1>7, <2>1, <4>1
    <3>2. f[k + 1] = IF list[k + 1] \in S THEN Append(f[k], list[k + 1]) ELSE f[k]
      BY <1>4, <3>1
    <3>3. g[k + 1] = IF list[k + 1] \in S \cup {e} THEN Append(g[k], list[k + 1]) ELSE g[k]
      BY <1>5, <3>1
    <3>4. list[k + 1] \in S => k + 1 < h
      BY <1>1, <3>1
    <3>5. list[k + 1] = e => k + 1 = h
      BY <1>3, <3>1
    <3>6. CASE k + 1 < h
      <4>1. g[k] = f[k]
        BY <3>1, <3>6
      <4>2. QED
        BY <3>2, <3>3, <3>5, <3>6, <4>1
    <3>7. CASE k + 1 = h
      <4>1. g[k] = f[k] /\ f[k + 1] = f[k] /\ g[k + 1] = Append(g[k], e)
        BY <1>2, <3>1, <3>2, <3>3, <3>4, <3>7
      <4>2. QED
        BY <3>7, <4>1
    <3>8. CASE k + 1 > h
      <4>1. g[k] = Append(f[k], e) /\ f[k + 1] = f[k] /\ g[k + 1] = g[k]
        BY <3>1, <3>2, <3>3, <3>4, <3>5, <3>8
      <4>2. QED
        BY <3>8, <4>1
    <3>9. QED
      BY <3>6, <3>7, <3>8
  <2>2. QED
    <3> HIDE DEF Good
    <3>1. QED
      BY <2>1
<1>8. l \in T
  <2> HIDE DEF T
  <2>1. QED
    BY <1>6, <1>7, SetInduction
<1>9. g[l] = Append(f[l], e)
  BY <1>1, <1>8
<1>10. QED
  BY <1>2, <1>4, <1>5, <1>9

LEMMA RemoveAtProperties ==
    ASSUME NEW A, NEW list \in Seq(A), NEW i \in 1 .. Len(list)
    PROVE  /\ RemoveAt(list, i) \in Seq(A)
           /\ Len(RemoveAt(list, i)) = Len(list) - 1
           /\ \A k \in 1 .. Len(list) - 1 :
                 RemoveAt(list, i)[k] = list[IF k < i THEN k ELSE k + 1]
           /\ NoDuplicates(list) =>
                 /\ Among(RemoveAt(list, i)) = Among(list) \ {list[i]}
                 /\ NoDuplicates(RemoveAt(list, i))
<1> DEFINE s == SubSeq(list, 1, i - 1)
           t == SubSeq(list, i + 1, Len(list))
           u == RemoveAt(list, i)
<1>1. u = s \o t
  BY DEF RemoveAt
<1>2. Len(list) \in Nat /\ i \in Nat /\ i >= 1 /\ i <= Len(list)
  OBVIOUS
<1>3. s \in Seq(A) /\ Len(s) = i - 1 /\ \A k \in 1 .. i - 1 : s[k] = list[k]
  BY <1>2
<1>4. t \in Seq(A) /\ Len(t) = Len(list) - i /\ \A k \in 1 .. Len(list) - i : t[k] = list[i + k]
  BY <1>2
<1> HIDE DEF s, t
<1>5. u \in Seq(A) /\ Len(u) = Len(list) - 1
  BY <1>1, <1>2, <1>3, <1>4
<1>6. ASSUME NEW k \in 1 .. Len(list) - 1 PROVE u[k] = list[IF k < i THEN k ELSE k + 1]
  <2>1. CASE k < i
    BY <1>1, <1>2, <1>3, <1>4, <2>1
  <2>2. CASE k >= i
    <3>1. k - (i - 1) \in 1 .. Len(list) - i /\ i + (k - (i - 1)) = k + 1
      BY <1>2, <2>2
    <3>2. u[k] = t[k - (i - 1)]
      BY <1>1, <1>2, <1>3, <1>4, <2>2
    <3>3. QED
      BY <1>4, <2>2, <3>1, <3>2
  <2>3. QED
    BY <1>2, <2>1, <2>2
<1> HIDE DEF u
<1>7. ASSUME NoDuplicates(list) PROVE Among(u) = Among(list) \ {list[i]}
  <2>1. ASSUME NEW k \in 1 .. Len(u) PROVE u[k] \in Among(list) /\ u[k] # list[i]
    <3> DEFINE m == IF k < i THEN k ELSE k + 1
    <3>1. m \in 1 .. Len(list) /\ m # i /\ u[k] = list[m]
      BY <1>2, <1>5, <1>6
    <3>2. QED
      BY <1>7, <3>1 DEF Among, NoDuplicates
  <2>2. ASSUME NEW m \in 1 .. Len(list), list[m] # list[i] PROVE list[m] \in Among(u)
    <3> DEFINE k == IF m < i THEN m ELSE m - 1
    <3>1. k \in 1 .. Len(u) /\ m = (IF k < i THEN k ELSE k + 1)
      BY <1>2, <1>5, <2>2
    <3>2. u[k] = list[m]
      BY <1>5, <1>6, <3>1
    <3>3. QED
      BY <3>1, <3>2 DEF Among
  <2>3. QED
    BY <2>1, <2>2 DEF Among
<1>8. ASSUME NoDuplicates(list) PROVE NoDuplicates(u)
  <2> SUFFICES ASSUME NEW j \in 1 .. Len(u), NEW k \in 1 .. Len(u), u[j] = u[k] PROVE j = k
    BY DEF NoDuplicates
  <2> DEFINE P(h) == IF h < i THEN h ELSE h + 1
  <2>1. P(j) \in 1 .. Len(list) /\ P(k) \in 1 .. Len(list) /\ list[P(j)] = list[P(k)]
    BY <1>2, <1>5, <1>6
  <2>2. P(j) = P(k)
    BY <1>8, <2>1 DEF NoDuplicates
  <2>3. QED
    BY <1>2, <1>5, <2>2
<1>9. QED
  BY <1>5, <1>6, <1>7, <1>8 DEF u

(***************************************************************************)
(* A list cut in two.                                                      *)
(***************************************************************************)
LEMMA CutList ==
    ASSUME NEW A, NEW list \in Seq(A), NEW k \in 0 .. Len(list), NoDuplicates(list)
    PROVE  LET s == SubSeq(list, 1, k)
               t == SubSeq(list, k + 1, Len(list))
           IN /\ s \in Seq(A) /\ t \in Seq(A)
              /\ Len(s) = k /\ Len(t) = Len(list) - k
              /\ \A i \in 1 .. k : s[i] = list[i]
              /\ \A i \in 1 .. Len(list) - k : t[i] = list[k + i]
              /\ Among(s) \cup Among(t) = Among(list)
              /\ Among(s) \cap Among(t) = {}
              /\ NoDuplicates(s) /\ NoDuplicates(t)
<1> DEFINE s == SubSeq(list, 1, k)
           t == SubSeq(list, k + 1, Len(list))
<1>1. Len(list) \in Nat /\ k \in Nat /\ k <= Len(list)
  OBVIOUS
<1>2. s \in Seq(A) /\ Len(s) = k /\ \A i \in 1 .. k : s[i] = list[i]
  BY <1>1
<1>3. t \in Seq(A) /\ Len(t) = Len(list) - k /\ \A i \in 1 .. Len(list) - k : t[i] = list[k + i]
  BY <1>1
<1> HIDE DEF s, t
<1>4. Among(s) \cup Among(t) \subseteq Among(list)
  BY <1>1, <1>2, <1>3 DEF Among
<1>5. ASSUME NEW m \in 1 .. Len(list) PROVE list[m] \in Among(s) \cup Among(t)
  <2>1. CASE m <= k
    BY <1>1, <1>2, <2>1 DEF Among
  <2>2. CASE m > k
    <3>1. m - k \in 1 .. Len(list) - k /\ k + (m - k) = m
      BY <1>1, <2>2
    <3>2. QED
      BY <1>3, <3>1 DEF Among
  <2>3. QED
    BY <1>1, <2>1, <2>2
<1>6. Among(s) \cap Among(t) = {}
  <2> SUFFICES ASSUME NEW i \in 1 .. k, NEW j \in 1 .. Len(list) - k, s[i] = t[j] PROVE FALSE
    BY <1>2, <1>3 DEF Among
  <2>1. list[i] = list[k + j] /\ i \in 1 .. Len(list) /\ k + j \in 1 .. Len(list)
    BY <1>1, <1>2, <1>3
  <2>2. i = k + j
    BY <2>1 DEF NoDuplicates
  <2>3. QED
    BY <1>1, <2>2
<1>7. NoDuplicates(s)
  BY <1>1, <1>2 DEF NoDuplicates
<1>8. NoDuplicates(t)
  <2> SUFFICES ASSUME NEW i \in 1 .. Len(t), NEW j \in 1 .. Len(t), t[i] = t[j] PROVE i = j
    BY DEF NoDuplicates
  <2>1. list[k + i] = list[k + j] /\ k + i \in 1 .. Len(list) /\ k + j \in 1 .. Len(list)
    BY <1>1, <1>3
  <2>2. k + i = k + j
    BY <2>1 DEF NoDuplicates
  <2>3. QED
    BY <1>1, <1>3, <2>2
<1>9. Among(list) \subseteq Among(s) \cup Among(t)
  BY <1>5 DEF Among
<1>10. QED
  BY <1>2, <1>3, <1>4, <1>6, <1>7, <1>8, <1>9 DEF s, t

(***************************************************************************)
(* Quotients and remainders, also by a number that is not known.           *)
(***************************************************************************)
LEMMA Multiple ==
    ASSUME NEW d \in Nat \ {0}, NEW p \in Int, NEW q \in Int, p < q
    PROVE  d * p + d <= d * q
<1>1. PICK e \in Nat : q = p + 1 + e
  <2>1. q - p - 1 \in Nat /\ q = p + 1 + (q - p - 1)
    OBVIOUS
  <2>2. QED
    BY <2>1
<1>2. d * q = d * p + d + d * e
  BY <1>1
<1>3. d * e \in Nat
  OBVIOUS
<1>4. QED
  BY <1>2, <1>3

LEMMA Quotient ==
    ASSUME NEW x \in Nat, NEW d \in Nat \ {0}
    PROVE  x \div d \in Nat /\ x % d \in 0 .. d - 1 /\ x = (d * (x \div d)) + (x % d)
<1> DEFINE q == x \div d
           r == x % d
<1>1. q \in Int /\ r \in 0 .. d - 1 /\ x = d * q + r
  OBVIOUS
<1> HIDE DEF q, r
<1>2. ~(q < 0)
  <2> SUFFICES ASSUME q < 0 PROVE FALSE
    OBVIOUS
  <2>1. d * q + d <= d * 0
    BY <1>1, Multiple
  <2>2. QED
    BY <1>1, <2>1
<1>3. QED
  BY <1>1, <1>2 DEF q, r

LEMMA QuotientUnique ==
    ASSUME NEW x \in Nat, NEW d \in Nat \ {0}, NEW q \in Int, NEW r \in 0 .. d - 1, x = d * q + r
    PROVE  x \div d = q /\ x % d = r
<1> DEFINE p == x \div d
           s == x % d
<1>1. p \in Nat /\ s \in 0 .. d - 1 /\ x = d * p + s
  BY Quotient
<1> HIDE DEF p, s
<1>2. ~(p < q)
  <2> SUFFICES ASSUME p < q PROVE FALSE
    OBVIOUS
  <2>1. d * p + d <= d * q
    BY <1>1, Multiple
  <2>2. QED
    BY <1>1, <2>1
<1>3. ~(q < p)
  <2> SUFFICES ASSUME q < p PROVE FALSE
    OBVIOUS
  <2>1. d * q + d <= d * p
    BY <1>1, Multiple
  <2>2. QED
    BY <1>1, <2>1
<1>4. p = q
  BY <1>1, <1>2, <1>3
<1>5. s = r
  BY <1>1, <1>4
<1>6. QED
  BY <1>4, <1>5 DEF p, s

\* The remainder of a remainder, and its quotient.
LEMMA NestedQuotient ==
    ASSUME NEW x \in Nat, NEW d \in Nat \ {0}, NEW k \in Nat \ {0}
    PROVE  /\ x \div d = (k * (x \div (k * d))) + ((x % (k * d)) \div d)
           /\ (x % (k * d)) \div d = (x \div d) % k
           /\ (x % (k * d)) % d = x % d
<1> k * d \in Nat \ {0}
  <2>1. d * 0 + d <= d * k
    BY Multiple
  <2>2. QED
    BY <2>1
<1>1. PICK q \in Nat, r \in 0 .. k * d - 1 : q = x \div (k * d) /\ r = x % (k * d) /\ x = k * d * q + r
  BY Quotient
<1>2. PICK p \in Nat, s \in 0 .. d - 1 : p = r \div d /\ s = r % d /\ r = d * p + s
  BY Quotient
<1>3. p < k
  <2> SUFFICES ASSUME p >= k PROVE FALSE
    OBVIOUS
  <2>1. d * p >= d * k
    <3>1. CASE p = k
      BY <3>1
    <3>2. CASE p > k
      BY <3>2, Multiple
    <3>3. QED
      BY <3>1, <3>2
  <2>2. QED
    BY <1>1, <1>2, <2>1
<1>4. x = d * (k * q + p) + s
  <2>1. d * (k * q + p) = d * (k * q) + d * p
    OBVIOUS
  <2>2. d * (k * q) = k * d * q
    OBVIOUS
  <2>3. x = k * d * q + r /\ r = d * p + s
    BY <1>1, <1>2
  <2>4. QED
    BY <2>1, <2>2, <2>3
<1>5. k * q + p \in Nat
  OBVIOUS
<1>6. x \div d = k * q + p /\ x % d = s
  BY <1>4, <1>5, QuotientUnique
<1>7. (k * q + p) % k = p
  BY <1>3, <1>5, QuotientUnique
<1>8. QED
  BY <1>1, <1>2, <1>6, <1>7

LEMMA QuotientMonotone ==
    ASSUME NEW x \in Nat, NEW y \in Nat, NEW d \in Nat \ {0}, x <= y
    PROVE  x \div d <= y \div d
<1> DEFINE p == x \div d
           q == y \div d
<1>1. p \in Nat /\ q \in Nat /\ d * p <= x /\ y < d * q + d
  BY Quotient
<1> HIDE DEF p, q
<1>2. SUFFICES ASSUME q < p PROVE FALSE
  BY <1>1 DEF p, q
<1>3. d * q + d <= d * p
  BY <1>1, <1>2, Multiple
<1>4. QED
  BY <1>1, <1>3

\* Numbers at most k * d apart have quotients at most k apart, and quotients at most k
\* apart make numbers less than (k + 1) * d apart.
LEMMA QuotientDistance ==
    ASSUME NEW x \in Nat, NEW y \in Nat, NEW d \in Nat \ {0}, NEW k \in Nat
    PROVE  /\ y <= x + k * d => y \div d <= x \div d + k
           /\ y \div d <= x \div d + k => y < x + (k + 1) * d
<1> DEFINE p == x \div d
           q == y \div d
<1>1. /\ p \in Nat /\ q \in Nat
      /\ d * p <= x /\ x < d * p + d
      /\ d * q <= y /\ y < d * q + d
  BY Quotient
<1> HIDE DEF p, q
<1>2. ASSUME y <= x + k * d PROVE q <= p + k
  <2> SUFFICES ASSUME p + k < q PROVE FALSE
    BY <1>1
  <2>1. d * (p + k) + d <= d * q
    BY <1>1, Multiple
  <2>2. d * (p + k) = d * p + k * d
    BY <1>1
  <2>3. k * d \in Nat /\ d * p \in Nat /\ d * q \in Nat
    BY <1>1
  <2>4. QED
    BY <1>1, <1>2, <2>1, <2>2, <2>3
<1>3. ASSUME q <= p + k PROVE y < x + (k + 1) * d
  <2>1. d * q <= d * (p + k)
    <3>1. CASE q = p + k
      BY <3>1
    <3>2. CASE q < p + k
      <4>1. d * q + d <= d * (p + k)
        BY <1>1, <3>2, Multiple
      <4>2. d * q \in Nat /\ d * (p + k) \in Nat
        BY <1>1
      <4>3. QED
        BY <4>1, <4>2
    <3>3. QED
      BY <1>1, <1>3, <3>1, <3>2
  <2>2. d * (p + k) = d * p + k * d /\ (k + 1) * d = k * d + d
    BY <1>1
  <2>3. k * d \in Nat /\ d * p \in Nat /\ d * q \in Nat
    BY <1>1
  <2>4. QED
    BY <1>1, <2>1, <2>2, <2>3
<1>4. QED
  BY <1>2, <1>3 DEF p, q

\* Adding before or after a reduction is the same.
LEMMA ReducedSum ==
    ASSUME NEW x \in Nat, NEW y \in Nat, NEW d \in Nat \ {0}
    PROVE  ((x % d) + y) % d = (x + y) % d
<1>1. PICK q \in Nat, r \in 0 .. d - 1 : r = x % d /\ x = d * q + r
  BY Quotient
<1>2. PICK z \in Nat : z = r + y
  OBVIOUS
<1>3. PICK p \in Nat, t \in 0 .. d - 1 : t = z % d /\ z = d * p + t
  BY Quotient
<1>4. PICK w \in Nat : w = x + y
  OBVIOUS
<1>5. PICK e \in Int : e = q + p
  OBVIOUS
<1>6. w = d * e + t
  <2>1. d * (q + p) = d * q + d * p /\ d * q \in Nat /\ d * p \in Nat
    OBVIOUS
  <2>2. x = d * q + r /\ r + y = d * p + t
    BY <1>1, <1>2, <1>3
  <2>3. QED
    BY <1>4, <1>5, <2>1, <2>2
<1>7. w % d = t
  BY <1>6, QuotientUnique
<1>8. QED
  BY <1>1, <1>2, <1>3, <1>4, <1>7
===============================================================================
