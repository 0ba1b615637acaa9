----------------------------- MODULE NumberLemmas -----------------------------
(***************************************************************************)
(* Lemmas about numbers: induction, loops and recursive definitions, which *)
(* are stated of sets and functions instead of predicates and operators;   *)
(* and that either format gives back each number it is given, wherever its *)
(* bytes stand in a buffer.                                                *)
(***************************************************************************)
EXTENDS NumberFormats, BitSets, SequenceTheorems, WellFoundedInduction, TLAPS

(* A nonempty set of naturals has a least element.                         *)
LEMMA LeastElement ==
  ASSUME NEW S \in SUBSET Nat, S # {}
  PROVE  \E m \in S : \A k \in S : m <= k
<1> DEFINE Less == {ss \in Nat \X Nat : ss[1] < ss[2]}
<1>1. IsWellFoundedOn(Less, Nat)
  BY NatLessThanWellFounded, Zenon DEF OpToRel
<1>2. PICK m \in S : \A k \in S : ~(<<k, m>> \in Less)
  <2> HIDE DEF Less
  <2> QED BY <1>1, WFMin
<1>3. ASSUME NEW k \in S PROVE m <= k
  <2>1. k \in Nat /\ m \in Nat
    OBVIOUS
  <2>2. ~(<<k, m>> \in Less)
    BY <1>2
  <2>3. <<k, m>> \in Nat \X Nat /\ <<k, m>>[1] = k /\ <<k, m>>[2] = m
    BY <2>1
  <2>4. ~(k < m)
    BY <2>2, <2>3, Zenon
  <2> QED BY <2>1, <2>4
<1> QED BY <1>3

(* A set of numbers that holds 0 and with each number the next one up to n *)
(* holds them all.                                                         *)
LEMMA UpTo ==
  ASSUME NEW n \in Nat, NEW T, 0 \in T, \A k \in 1..n : k - 1 \in T => k \in T
  PROVE  \A k \in 0..n : k \in T
<1> SUFFICES ASSUME NEW j \in 0..n, j \notin T PROVE FALSE  OBVIOUS
<1> DEFINE Bad == {k \in 0..n : k \notin T}
<1>1. Bad \in SUBSET Nat /\ Bad # {}  OBVIOUS
<1>2. PICK m \in Bad : \A k \in Bad : m <= k
  <2> HIDE DEF Bad
  <2> QED BY <1>1, LeastElement
<1>3. m \in 1..n /\ m - 1 \in 0..n  OBVIOUS
<1>4. m - 1 \in T  BY <1>2, <1>3
<1> QED BY <1>2, <1>3, <1>4

(* f holds what a loop over 1..n has after each turn, which g computes from*)
(* the number of the turn and from what there was before.                  *)
IsTrace(f, n, start, g) == f = [k \in 0..n |-> IF k = 0 THEN start ELSE g[<<k, f[k - 1]>>]]
Within(f, n, S) == \A k \in 0..n : f[k] \in S[k]

(* A loop over 1..n has a trace, if step k leads from S[k - 1] to S[k].    *)
LEMMA Trace ==
  ASSUME NEW n \in Nat, NEW S, NEW start, start \in S[0],
         NEW g, \A k \in 1..n : \A x \in S[k - 1] : g[<<k, x>>] \in S[k]
  PROVE  \E f : IsTrace(f, n, start, g) /\ Within(f, n, S)
<1> DEFINE Goes(f, m) ==
             /\ f = [k \in 0..m |-> IF k = 0 THEN start ELSE g[<<k, f[k - 1]>>]]
             /\ \A k \in 0..m : f[k] \in S[k]
           T == {m \in 0..n : \E f : Goes(f, m)}
<1>1. 0 \in T
  <2> DEFINE f == [k \in 0..0 |-> start]
  <2>1. f = [k \in 0..0 |-> IF k = 0 THEN start ELSE g[<<k, f[k - 1]>>]]  OBVIOUS
  <2>2. \A k \in 0..0 : f[k] \in S[k]  OBVIOUS
  <2>3. Goes(f, 0)
    <3> HIDE DEF f
    <3> QED BY <2>1, <2>2
  <2> HIDE DEF f, Goes
  <2> QED BY <2>3
<1>2. ASSUME NEW m \in 1..n, m - 1 \in T PROVE m \in T
  <2>1. PICK f : Goes(f, m - 1)  BY <1>2
  <2> DEFINE h == [k \in 0..m |-> IF k = m THEN g[<<m, f[m - 1]>>] ELSE f[k]]
  <2>2. \A k \in 0..(m - 1) : f[k] = IF k = 0 THEN start ELSE g[<<k, f[k - 1]>>]
    <3>1. f = [k \in 0..(m - 1) |-> IF k = 0 THEN start ELSE g[<<k, f[k - 1]>>]]  BY <2>1
    <3> QED BY <3>1, Zenon
  <2>3. \A k \in 0..(m - 1) : f[k] \in S[k]  BY <2>1
  <2>4. \A k \in 0..(m - 1) : h[k] = f[k]  OBVIOUS
  <2>5. h[m] = g[<<m, f[m - 1]>>]  OBVIOUS
  <2>6. DOMAIN h = 0..m /\ h = [k \in 0..m |-> h[k]]  OBVIOUS
  <2> HIDE DEF h, Goes
  <2>7. ASSUME NEW k \in 0..m
        PROVE  h[k] = (IF k = 0 THEN start ELSE g[<<k, h[k - 1]>>]) /\ h[k] \in S[k]
    <3>1. CASE k = m
      <4>1. m - 1 \in 0..(m - 1) /\ k # 0  BY <3>1
      <4>2. h[k - 1] = f[m - 1]  BY <2>4, <3>1, <4>1
      <4>3. f[m - 1] \in S[m - 1]  BY <2>3, <4>1
      <4> QED BY <2>5, <3>1, <4>1, <4>2, <4>3
    <3>2. CASE k # m /\ k # 0
      <4>1. k \in 0..(m - 1) /\ k - 1 \in 0..(m - 1)  BY <3>2
      <4> QED BY <2>2, <2>3, <2>4, <3>2, <4>1
    <3>3. CASE k = 0
      <4>1. k \in 0..(m - 1)  BY <3>3
      <4> QED BY <2>2, <2>3, <2>4, <3>3, <4>1
    <3> QED BY <3>1, <3>2, <3>3
  <2>8. h = [k \in 0..m |-> IF k = 0 THEN start ELSE g[<<k, h[k - 1]>>]]
    BY <2>6, <2>7, Zenon
  <2>9. Goes(h, m)  BY <2>7, <2>8 DEF Goes
  <2> QED BY <2>9
<1>3. n \in T
  <2> HIDE DEF T
  <2> QED BY <1>1, <1>2, UpTo
<1> QED BY <1>3 DEF IsTrace, Within

(* Induction with all smaller numbers.                                     *)
LEMMA StrongInduction ==
  ASSUME NEW T, \A n \in Nat : (\A m \in 0..(n - 1) : m \in T) => n \in T
  PROVE  \A n \in Nat : n \in T
<1> SUFFICES ASSUME NEW j \in Nat, j \notin T PROVE FALSE  OBVIOUS
<1> DEFINE Bad == {k \in Nat : k \notin T}
<1>1. Bad \in SUBSET Nat /\ Bad # {}  OBVIOUS
<1>2. PICK m \in Bad : \A k \in Bad : m <= k
  <2> HIDE DEF Bad
  <2> QED BY <1>1, LeastElement
<1>3. ASSUME NEW k \in 0..(m - 1) PROVE k \in T
  BY <1>2
<1> QED BY <1>2, <1>3

(* f is what a recursive definition describes that takes a number n other  *)
(* than 0 to a smaller one, d[n].                                          *)
IsRecursive(f, start, g, d) == f = [n \in Nat |-> IF n = 0 THEN start ELSE g[<<n, f[d[n]]>>]]

(* There is such a function.                                               *)
LEMMA Recursion ==
  ASSUME NEW S, NEW start \in S, NEW d, \A n \in Nat \ {0} : d[n] \in 0..(n - 1),
         NEW g, \A n \in Nat \ {0} : \A x \in S : g[<<n, x>>] \in S
  PROVE  \E f \in [Nat -> S] : IsRecursive(f, start, g, d)
<1> DEFINE Goes(f, m) ==
             /\ f \in [0..m -> S]
             /\ f[0] = start
             /\ \A n \in 1..m : f[n] = g[<<n, f[d[n]]>>]
           T == {m \in Nat : \E f : Goes(f, m)}
<1>1. 0 \in T
  <2>1. Goes([k \in 0..0 |-> start], 0)  OBVIOUS
  <2> HIDE DEF Goes
  <2> QED BY <2>1
<1>2. ASSUME NEW m \in Nat \ {0}, m - 1 \in T PROVE m \in T
  <2>1. PICK f : Goes(f, m - 1)  BY <1>2
  <2> DEFINE h == [k \in 0..m |-> IF k = m THEN g[<<m, f[d[m]]>>] ELSE f[k]]
  <2>2. d[m] \in 0..(m - 1)  OBVIOUS
  <2>3. f[d[m]] \in S  BY <2>1, <2>2
  <2>4. g[<<m, f[d[m]]>>] \in S  BY <2>3
  <2>5. h \in [0..m -> S]
    <3>1. \A k \in 0..m : k # m => k \in 0..(m - 1)  OBVIOUS
    <3>2. \A k \in 0..(m - 1) : f[k] \in S  BY <2>1
    <3> QED BY <2>4, <3>1, <3>2
  <2>6. \A k \in 0..(m - 1) : h[k] = f[k]  OBVIOUS
  <2>7. h[m] = g[<<m, f[d[m]]>>]  OBVIOUS
  <2> HIDE DEF h
  <2>8. h[0] = start
    <3>1. 0 \in 0..(m - 1)  OBVIOUS
    <3> QED BY <2>1, <2>6, <3>1
  <2>9. ASSUME NEW n \in 1..m PROVE h[n] = g[<<n, h[d[n]]>>]
    <3>1. n \in Nat \ {0} /\ d[n] \in 0..(n - 1)  OBVIOUS
    <3>2. d[n] \in 0..(m - 1)  BY <3>1
    <3>3. h[d[n]] = f[d[n]]  BY <2>6, <3>2
    <3>4. CASE n = m  BY <2>7, <3>3, <3>4
    <3>5. CASE n # m
      <4>1. n \in 1..(m - 1) /\ n \in 0..(m - 1)  BY <3>5
      <4>2. f[n] = g[<<n, f[d[n]]>>]  BY <2>1, <4>1
      <4>3. h[n] = f[n]  BY <2>6, <4>1
      <4> QED BY <3>3, <4>2, <4>3
    <3> QED BY <3>4, <3>5
  <2>10. Goes(h, m)  BY <2>5, <2>8, <2>9
  <2> HIDE DEF Goes
  <2> QED BY <2>10
<1>3. ASSUME NEW n \in Nat PROVE n \in T
  <2> HIDE DEF T
  <2>1. \A k \in 1..n : k - 1 \in T => k \in T  BY <1>2
  <2>2. \A k \in 0..n : k \in T  BY <1>1, <2>1, UpTo
  <2> QED BY <2>2
<1>4. ASSUME NEW m \in Nat, NEW n \in Nat, NEW f, NEW h, Goes(f, m), Goes(h, n),
             NEW k \in 0..m, k \in 0..n
      PROVE  f[k] = h[k]
  <2> DEFINE U == {j \in Nat : j \in 0..m /\ j \in 0..n => f[j] = h[j]}
  <2>1. ASSUME NEW j \in Nat, \A i \in 0..(j - 1) : i \in U PROVE j \in U
    <3> SUFFICES ASSUME j \in 0..m, j \in 0..n PROVE f[j] = h[j]  OBVIOUS
    <3>1. CASE j = 0  BY <1>4, <3>1
    <3>2. CASE j # 0
      <4>1. d[j] \in 0..(j - 1)  BY <3>2
      <4>2. d[j] \in 0..m /\ d[j] \in 0..n /\ d[j] \in Nat  BY <4>1
      <4>3. f[d[j]] = h[d[j]]  BY <2>1, <4>1, <4>2
      <4>4. j \in 1..m /\ j \in 1..n  BY <3>2
      <4> QED BY <1>4, <4>3, <4>4
    <3> QED BY <3>1, <3>2
  <2>2. \A j \in Nat : j \in U
    <3>1. \A j \in Nat : (\A i \in 0..(j - 1) : i \in U) => j \in U  BY <2>1
    <3> HIDE DEF U
    <3> QED BY <3>1, StrongInduction
  <2> QED BY <1>4, <2>2
<1> DEFINE part(n) == CHOOSE f : Goes(f, n)
           all == [n \in Nat |-> part(n)[n]]
<1>5. ASSUME NEW n \in Nat PROVE Goes(part(n), n)
  <2>1. \E f : Goes(f, n)  BY <1>3
  <2> HIDE DEF Goes
  <2> QED BY <2>1, Zenon
<1> HIDE DEF part
<1>6. all \in [Nat -> S]
  <2>1. \A n \in Nat : part(n)[n] \in S  BY <1>5
  <2> QED BY <2>1
<1>7. ASSUME NEW n \in Nat PROVE all[n] = IF n = 0 THEN start ELSE g[<<n, all[d[n]]>>]
  <2>1. all[n] = part(n)[n]  OBVIOUS
  <2>2. CASE n = 0  BY <1>5, <2>1, <2>2
  <2>3. CASE n # 0
    <3>1. d[n] \in 0..(n - 1)  BY <2>3
    <3>2. d[n] \in Nat /\ d[n] \in 0..n /\ d[n] \in 0..d[n] /\ n \in 1..n  BY <2>3, <3>1
    <3>3. part(n)[d[n]] = part(d[n])[d[n]]
      <4> HIDE DEF Goes
      <4>1. Goes(part(n), n) /\ Goes(part(d[n]), d[n])  BY <1>5, <3>2
      <4> QED BY <1>4, <3>2, <4>1
    <3>4. part(n)[n] = g[<<n, part(n)[d[n]]>>]  BY <1>5, <3>2
    <3>5. all[d[n]] = part(d[n])[d[n]]  BY <3>2
    <3> QED BY <2>1, <2>3, <3>3, <3>4, <3>5
  <2> QED BY <2>2, <2>3
<1> HIDE DEF all
<1>8. all = [n \in Nat |-> IF n = 0 THEN start ELSE g[<<n, all[d[n]]>>]]
  <2>1. DOMAIN all = Nat /\ all = [n \in Nat |-> all[n]]  BY <1>6
  <2> QED BY <1>7, <2>1, Zenon
<1>9. IsRecursive(all, start, g, d)  BY <1>8 DEF IsRecursive
<1> QED BY <1>6, <1>9

(* What repeated division leaves.                                          *)
IsDivided(f, m, d, val) == f = [k \in 0..m |-> IF k = 0 THEN val ELSE f[k - 1] \div d]
Divides(f, m, d, val) ==
  f \in [0..m -> Nat] /\ f[0] = val /\ \A k \in 1..m : f[k] = f[k - 1] \div d

(* Such a function of the powers of d there is.                            *)
LEMMA Divided ==
  ASSUME NEW m \in Nat, NEW d \in Nat \ {0}, NEW val \in Nat
  PROVE  Divides(CHOOSE f : IsDivided(f, m, d, val), m, d, val)
<1> DEFINE Is(f) == IsDivided(f, m, d, val)
           by == CHOOSE f : Is(f)
           S == [k \in 0..m |-> Nat]
           g == [kx \in (1..m) \X Nat |-> kx[2] \div d]
<1>1. \A k \in 0..m : S[k] = Nat  OBVIOUS
<1>2. \A x \in Nat : x \div d \in Nat  OBVIOUS
<1>3. \A k \in 1..m : \A x \in Nat : g[<<k, x>>] = x \div d  OBVIOUS
<1> HIDE DEF g, S
<1>4. PICK t : IsTrace(t, m, val, g) /\ Within(t, m, S)
  <2>1. val \in S[0]  BY <1>1
  <2>2. \A k \in 1..m : \A x \in S[k - 1] : g[<<k, x>>] \in S[k]
    <3> SUFFICES ASSUME NEW k \in 1..m, NEW x \in S[k - 1] PROVE g[<<k, x>>] \in S[k]
      OBVIOUS
    <3>1. k \in 0..m /\ k - 1 \in 0..m  OBVIOUS
    <3>2. x \in Nat /\ S[k] = Nat  BY <1>1, <3>1
    <3>3. g[<<k, x>>] = x \div d  BY <1>3, <3>2
    <3> QED BY <1>2, <3>2, <3>3
  <2> QED BY <2>1, <2>2, Trace
<1>5. \A k \in 0..m : t[k] \in Nat  BY <1>1, <1>4 DEF Within
<1>6. t = [k \in 0..m |-> IF k = 0 THEN val ELSE g[<<k, t[k - 1]>>]]  BY <1>4 DEF IsTrace
<1>7. \A k \in 0..m : k # 0 => g[<<k, t[k - 1]>>] = t[k - 1] \div d
  <2> SUFFICES ASSUME NEW k \in 0..m, k # 0 PROVE g[<<k, t[k - 1]>>] = t[k - 1] \div d
    OBVIOUS
  <2>1. k \in 1..m /\ k - 1 \in 0..m  OBVIOUS
  <2> QED BY <1>3, <1>5, <2>1
<1>8. Is(t)  BY <1>6, <1>7, Zenon DEF IsDivided
<1>9. Is(by)
  <2> HIDE DEF Is
  <2> QED BY <1>8, Zenon
<1> HIDE DEF by
<1>10. DOMAIN by = 0..m /\ by = [k \in 0..m |-> by[k]]  BY <1>9, Zenon DEF IsDivided
<1>11. \A k \in 0..m : by[k] = IF k = 0 THEN val ELSE by[k - 1] \div d  BY <1>9, Zenon DEF IsDivided
<1>12. \A k \in 0..m : by[k] \in Nat
  <2> DEFINE T == {k \in 0..m : by[k] \in Nat}
  <2>1. 0 \in T  BY <1>11
  <2>2. ASSUME NEW k \in 1..m, k - 1 \in T PROVE k \in T
    <3>1. k \in 0..m /\ k # 0  OBVIOUS
    <3>2. by[k] = by[k - 1] \div d /\ by[k - 1] \in Nat  BY <1>11, <2>2, <3>1
    <3> QED BY <1>2, <3>1, <3>2
  <2>3. \A k \in 0..m : k \in T
    <3> HIDE DEF T
    <3> QED BY <2>1, <2>2, UpTo
  <2> QED BY <2>3
<1>13. by \in [0..m -> Nat]  BY <1>10, <1>12
<1>14. by[0] = val /\ \A k \in 1..m : by[k] = by[k - 1] \div d
  <2>1. 0 \in 0..m /\ \A k \in 1..m : k \in 0..m /\ k # 0  OBVIOUS
  <2> QED BY <1>11, <2>1
<1>15. Divides(by, m, d, val)  BY <1>13, <1>14 DEF Divides
<1> QED BY <1>15 DEF by

----------------------------------------------------------------------------
Octet == 0..255
Octets == Seq(Octet)

(* A buffer holds the bytes from position i on.                            *)
HasAt(buffer, i, bytes) ==
  /\ i \in Nat \ {0} /\ i + Len(bytes) - 1 <= Len(buffer)
  /\ \A k \in 1..Len(bytes) : buffer[i + k - 1] = bytes[k]

----------------------------------------------------------------------------
(* Version 6.                                                              *)
Carrying == Seq(128..255)

(* The groups that are carried on are those of the recursive definition.    *)
LEMMA CarriedIs ==
  /\ Sdnv!Carried \in [Nat -> Carrying]
  /\ \A val \in Nat : Sdnv!Carried[val] =
       IF val = 0 THEN <<>> ELSE Append(Sdnv!Carried[val \div 128], (val % 128) + 128)
<1> DEFINE d == [n \in Nat |-> n \div 128]
           g == [nx \in Nat \X Carrying |-> Append(nx[2], (nx[1] % 128) + 128)]
           Is(f) == f = [val \in Nat |->
                           IF val = 0 THEN <<>> ELSE Append(f[val \div 128], (val % 128) + 128)]
<1>1. <<>> \in Carrying  BY DEF Carrying
<1>2. \A n \in Nat \ {0} : d[n] \in 0..(n - 1)  OBVIOUS
<1>3. ASSUME NEW n \in Nat, NEW s \in Carrying
      PROVE  g[<<n, s>>] \in Carrying /\ g[<<n, s>>] = Append(s, (n % 128) + 128)
  <2> DEFINE High == 128..255
             byte == (n % 128) + 128
  <2>1. byte \in High  OBVIOUS
  <2>2. g[<<n, s>>] = Append(s, byte)  OBVIOUS
  <2>3. s \in Seq(High)  BY DEF Carrying
  <2> HIDE DEF High, byte, g
  <2>4. Append(s, byte) \in Seq(High)  BY <2>1, <2>3, AppendProperties
  <2> QED BY <2>2, <2>4 DEF High, Carrying, byte
<1> HIDE DEF g
<1>4. \E f \in [Nat -> Carrying] : IsRecursive(f, <<>>, g, d)
  <2> HIDE DEF d
  <2>1. \A n \in Nat \ {0} : \A s \in Carrying : g[<<n, s>>] \in Carrying  BY <1>3
  <2> QED BY <1>1, <1>2, <2>1, Recursion
<1>5. ASSUME NEW f, Is(f)
      PROVE  f \in [Nat -> Carrying]
  <2> DEFINE T == {n \in Nat : f[n] \in Carrying}
  <2>1. \A n \in Nat : f[n] = IF n = 0 THEN <<>> ELSE Append(f[n \div 128], (n % 128) + 128)
    BY <1>5, Zenon
  <2>2. ASSUME NEW n \in Nat, \A m \in 0..(n - 1) : m \in T PROVE n \in T
    <3>1. CASE n = 0  BY <1>1, <2>1, <3>1
    <3>2. CASE n # 0
      <4>1. n \div 128 \in 0..(n - 1) /\ n \div 128 \in Nat  BY <3>2
      <4>2. f[n \div 128] \in Carrying  BY <2>2, <4>1
      <4>3. Append(f[n \div 128], (n % 128) + 128) \in Carrying
        <5> DEFINE x == f[n \div 128]
        <5>1. x \in Carrying  BY <4>2
        <5> HIDE DEF x
        <5>2. g[<<n, x>>] \in Carrying /\ g[<<n, x>>] = Append(x, (n % 128) + 128)  BY <1>3, <5>1
        <5> QED BY <5>2 DEF x
      <4> QED BY <2>1, <3>2, <4>3
    <3> QED BY <3>1, <3>2
  <2>3. \A n \in Nat : n \in T
    <3>1. \A n \in Nat : (\A m \in 0..(n - 1) : m \in T) => n \in T  BY <2>2
    <3> HIDE DEF T
    <3> QED BY <3>1, StrongInduction
  <2>4. DOMAIN f = Nat /\ f = [n \in Nat |-> f[n]]
    <3> HIDE DEF T
    <3> QED BY <1>5, Zenon
  <2> QED BY <2>3, <2>4
<1>6. \E f : Is(f)
  <2>1. PICK f \in [Nat -> Carrying] : IsRecursive(f, <<>>, g, d)  BY <1>4
  <2>2. \A n \in Nat : n # 0 => g[<<n, f[d[n]]>>] = Append(f[n \div 128], (n % 128) + 128)
    <3> SUFFICES ASSUME NEW n \in Nat, n # 0
                 PROVE  g[<<n, f[d[n]]>>] = Append(f[n \div 128], (n % 128) + 128)
      OBVIOUS
    <3>1. d[n] = n \div 128 /\ d[n] \in Nat  OBVIOUS
    <3> HIDE DEF d
    <3>2. f[d[n]] \in Carrying  BY <3>1
    <3> QED BY <1>3, <3>1, <3>2
  <2>3. f = [n \in Nat |-> IF n = 0 THEN <<>> ELSE g[<<n, f[d[n]]>>]]  BY <2>1 DEF IsRecursive
  <2> HIDE DEF d
  <2>4. Is(f)  BY <2>2, <2>3, Zenon
  <2> HIDE DEF Is
  <2> QED BY <2>4
<1>7. Is(Sdnv!Carried)
  <2>1. Sdnv!Carried = CHOOSE f : Is(f)  BY Zenon DEF Sdnv!Carried
  <2> HIDE DEF Is
  <2> QED BY <1>6, <2>1
<1>8. \A val \in Nat : Sdnv!Carried[val] =
        IF val = 0 THEN <<>> ELSE Append(Sdnv!Carried[val \div 128], (val % 128) + 128)
  BY <1>7, Zenon
<1> QED BY <1>5, <1>7, <1>8

(* s is what val is encoded as: its groups c, carried on, and a last one.  *)
Grouped(val, c, s) ==
  /\ c \in Carrying /\ s \in Octets /\ Len(s) = Len(c) + 1
  /\ \A k \in 1..Len(c) : s[k] = c[k] /\ c[k] \in 128..255
  /\ s[Len(s)] = val % 128

(* What Sdnv::Encode writes: the higher groups with the carry bit, and a    *)
(* last one without.                                                        *)
LEMMA SdnvGrouped ==
  ASSUME NEW val \in Nat
  PROVE  Grouped(val, Sdnv!Carried[val \div 128], Sdnv!Encode(val))
<1> DEFINE c == Sdnv!Carried[val \div 128]
           High == 128..255
           last == val % 128
<1>1. val \div 128 \in Nat /\ last \in Octet  BY DEF Octet
<1>2. c \in Carrying  BY <1>1, CarriedIs
<1>3. c \in Seq(High)  BY <1>2 DEF Carrying
<1>4. High \subseteq Octet  BY DEF Octet
<1>5. Sdnv!Encode(val) = Append(c, last)  BY Zenon DEF Sdnv!Encode
<1> HIDE DEF c, last
<1>6. \A k \in 1..Len(c) : c[k] \in 128..255
  <2> HIDE DEF High
  <2>1. \A k \in 1..Len(c) : c[k] \in High  BY <1>3
  <2> QED BY <2>1 DEF High
<1> HIDE DEF High
<1>7. c \in Octets  BY <1>3, <1>4 DEF Octets
<1>8. /\ Append(c, last) \in Octets /\ Len(Append(c, last)) = Len(c) + 1
      /\ \A k \in 1..Len(c) : Append(c, last)[k] = c[k]
      /\ Append(c, last)[Len(c) + 1] = last
  BY <1>1, <1>7, AppendProperties DEF Octets
<1> QED BY <1>2, <1>5, <1>6, <1>8 DEF Grouped, c, last

(* The bytes of a buffer are numbers.                                       *)
LEMMA OctetsAre ==
  ASSUME NEW b \in Octets
  PROVE  Len(b) \in Nat /\ \A k \in 1..Len(b) : b[k] \in Nat /\ b[k] \in 0..255
<1>1. Len(b) \in Nat /\ \A k \in 1..Len(b) : b[k] \in Octet  BY DEF Octets
<1>2. \A x \in Octet : x \in Nat /\ x \in 0..255  BY DEF Octet
<1> HIDE DEF Octet
<1>3. \A k \in 1..Len(b) : b[k] \in Nat /\ b[k] \in 0..255  BY <1>1, <1>2, Zenon
<1> QED BY <1>1, <1>3, Zenon

(* The first byte without the carry bit is the last of the number, where    *)
(* Sdnv::Decode stops.                                                      *)
LEMMA SdnvEnds ==
  ASSUME NEW b \in Octets, NEW i, NEW val \in Nat, HasAt(b, i, Sdnv!Encode(val))
  PROVE  Sdnv!LastByte(b, i) = i + Len(Sdnv!Encode(val)) - 1
<1> DEFINE s == Sdnv!Encode(val)
           c == Sdnv!Carried[val \div 128]
           last == i + Len(s) - 1
           Is(j) == b[j] < 128 /\ \A k \in i..(j - 1) : b[k] >= 128
<1>1. Grouped(val, c, s)  BY SdnvGrouped
<1> HIDE DEF s, c
<1>2. Len(c) \in Nat /\ Len(s) = Len(c) + 1 /\ i \in Nat \ {0} /\ last <= Len(b) /\ Len(b) \in Nat
  <2>1. Len(c) \in Nat  BY <1>1 DEF Grouped, Carrying
  <2> QED BY <1>1, <2>1, OctetsAre DEF Grouped, HasAt, s
<1>3. last \in i..Len(b) /\ b[last] = val % 128
  <2>1. Len(s) \in 1..Len(s)  BY <1>2
  <2>2. b[i + Len(s) - 1] = s[Len(s)]  BY <2>1 DEF HasAt, s
  <2> QED BY <1>1, <1>2, <2>2 DEF Grouped
<1>4. ASSUME NEW k \in i..(last - 1) PROVE b[k] >= 128
  <2>1. k - i + 1 \in 1..Len(c) /\ k - i + 1 \in 1..Len(s) /\ i + (k - i + 1) - 1 = k  BY <1>2
  <2>2. b[i + (k - i + 1) - 1] = s[k - i + 1]  BY <2>1 DEF HasAt, s
  <2>3. s[k - i + 1] \in 128..255  BY <1>1, <2>1 DEF Grouped
  <2>4. b[k] = s[k - i + 1]  BY <2>1, <2>2
  <2>5. \A x \in 128..255 : x >= 128  OBVIOUS
  <2> QED BY <2>3, <2>4, <2>5, Zenon
<1>5. Is(last)
  <2>1. val % 128 < 128  OBVIOUS
  <2> QED BY <1>3, <1>4, <2>1
<1>6. ASSUME NEW j \in i..Len(b), Is(j) PROVE j = last
  <2>1. j \in Nat /\ last \in Nat  BY <1>2
  <2>2. CASE j < last
    <3>1. j \in i..(last - 1) /\ j \in 1..Len(b)  BY <1>2, <2>1, <2>2
    <3>2. b[j] >= 128 /\ b[j] \in Nat  BY <1>4, <3>1, OctetsAre
    <3> QED BY <1>6, <3>2
  <2>3. CASE last < j
    <3>1. last \in i..(j - 1) /\ last \in 1..Len(b)  BY <1>2, <1>3, <2>1, <2>3
    <3>2. b[last] >= 128 /\ b[last] \in Nat  BY <1>6, <3>1, OctetsAre
    <3> QED BY <1>5, <3>2
  <2> QED BY <2>1, <2>2, <2>3
<1>7. Sdnv!LastByte(b, i) = CHOOSE j \in i..Len(b) : Is(j)
  BY Zenon DEF Sdnv!LastByte
<1> HIDE DEF Is, last
<1>8. (CHOOSE j \in i..Len(b) : Is(j)) = last
  BY <1>3, <1>5, <1>6
<1> QED BY <1>7, <1>8 DEF last, s

(* f holds what a decoder has after each of the n bytes from i on.         *)
Reads(f, b, i, n) ==
  f[i - 1] = 0 /\ \A j \in i..(i + n - 1) : f[j] = f[j - 1] * 128 + (b[j] % 128)

(* A decoder that has read the groups of val that are carried on has got    *)
(* val.                                                                     *)
LEMMA CarriedRead ==
  ASSUME NEW b \in Octets, NEW i, NEW f
  PROVE  \A val \in Nat : HasAt(b, i, Sdnv!Carried[val]) /\ Reads(f, b, i, Len(Sdnv!Carried[val]))
                            => f[i + Len(Sdnv!Carried[val]) - 1] = val
<1> DEFINE C(val) == Sdnv!Carried[val]
           T == {val \in Nat : HasAt(b, i, C(val)) /\ Reads(f, b, i, Len(C(val)))
                                 => f[i + Len(C(val)) - 1] = val}
<1>1. ASSUME NEW val \in Nat, \A m \in 0..(val - 1) : m \in T PROVE val \in T
  <2> SUFFICES ASSUME HasAt(b, i, C(val)), Reads(f, b, i, Len(C(val)))
               PROVE  f[i + Len(C(val)) - 1] = val
    OBVIOUS
  <2>0. i \in Nat \ {0}  BY DEF HasAt
  <2>1. CASE val = 0
    <3>1. C(val) = <<>>  BY <2>1, CarriedIs
    <3>2. i + Len(C(val)) - 1 = i - 1  BY <2>0, <3>1
    <3> QED BY <2>1, <3>2 DEF Reads
  <2>2. CASE val # 0
    <3> DEFINE q == val \div 128
               n == Len(C(q))
               byte == (val % 128) + 128
    <3>1. q \in 0..(val - 1) /\ q \in Nat  BY <2>2
    <3>2. C(val) = Append(C(q), byte) /\ C(q) \in Carrying  BY <2>2, <3>1, CarriedIs
    <3>3. n \in Nat /\ Len(C(val)) = n + 1 /\ C(val)[n + 1] = byte
          /\ \A k \in 1..n : C(val)[k] = C(q)[k]
      <4> DEFINE High == 128..255
                 c == C(q)
      <4>1. c \in Seq(High) /\ byte \in High  BY <3>2 DEF Carrying
      <4> HIDE DEF High, byte, c
      <4>2. /\ Len(c) \in Nat /\ Len(Append(c, byte)) = Len(c) + 1
            /\ Append(c, byte)[Len(c) + 1] = byte
            /\ \A k \in 1..Len(c) : Append(c, byte)[k] = c[k]
        BY <4>1, AppendProperties
      <4> QED BY <3>2, <4>2 DEF c
    <3> HIDE DEF q, n
    <3>4. HasAt(b, i, C(q))
      <4>1. Len(C(q)) = n /\ \A k \in 1..n : k \in 1..(n + 1)  BY <3>3 DEF n
      <4>2. \A k \in 1..n : b[i + k - 1] = C(q)[k]  BY <3>3, <4>1 DEF HasAt
      <4>3. i + n - 1 <= Len(b)  BY <2>0, <3>3, OctetsAre DEF HasAt
      <4> QED BY <2>0, <4>1, <4>2, <4>3 DEF HasAt
    <3>5. Reads(f, b, i, n)
      <4>1. \A j \in i..(i + n - 1) : j \in i..(i + (n + 1) - 1)  BY <2>0, <3>3
      <4> QED BY <3>3, <4>1 DEF Reads
    <3>6. f[i + n - 1] = q
      <4>1. q \in T  BY <1>1, <3>1
      <4> QED BY <3>4, <3>5, <4>1 DEF n
    <3>7. f[i + n] = f[i + n - 1] * 128 + (b[i + n] % 128)
      <4>1. i + n \in i..(i + (n + 1) - 1) /\ (i + n) - 1 = i + n - 1  BY <2>0, <3>3
      <4>2. \A j \in i..(i + (n + 1) - 1) : f[j] = f[j - 1] * 128 + (b[j] % 128)
        BY <3>3 DEF Reads
      <4> QED BY <4>1, <4>2
    <3>8. b[i + n] = byte
      <4>1. n + 1 \in 1..(n + 1) /\ i + (n + 1) - 1 = i + n  BY <2>0, <3>3
      <4>2. b[i + (n + 1) - 1] = C(val)[n + 1]  BY <3>3, <4>1 DEF HasAt
      <4> QED BY <3>3, <4>1, <4>2
    <3>9. q * 128 + (byte % 128) = val  BY DEF q
    <3>10. i + Len(C(val)) - 1 = i + n  BY <2>0, <3>3
    <3> HIDE DEF byte
    <3> QED BY <3>6, <3>7, <3>8, <3>9, <3>10
  <2> QED BY <2>1, <2>2
<1>2. \A val \in Nat : val \in T
  <2>1. \A val \in Nat : (\A m \in 0..(val - 1) : m \in T) => val \in T  BY <1>1
  <2> HIDE DEF T
  <2> QED BY <2>1, StrongInduction
<1> QED BY <1>2

(* Sdnv::Decode gives back each number that Sdnv::Encode wrote, of any      *)
(* length, wherever its bytes stand in a buffer, and stops behind them.     *)
LEMMA SdnvDecodes ==
  ASSUME NEW b \in Octets, NEW i, NEW val \in Nat, HasAt(b, i, Sdnv!Encode(val))
  PROVE  /\ Sdnv!Decode(b, i) = val
         /\ Sdnv!Behind(b, i) = i + Len(Sdnv!Encode(val))
<1> DEFINE s == Sdnv!Encode(val)
           c == Sdnv!Carried[val \div 128]
           n == Len(c)
           last == i + n
           Is(f) == f = [j \in (i - 1)..last |->
                           IF j < i THEN 0 ELSE f[j - 1] * 128 + (b[j] % 128)]
           value == CHOOSE f : Is(f)
<1>1. Grouped(val, c, s)  BY SdnvGrouped
<1>2. Sdnv!LastByte(b, i) = i + Len(s) - 1  BY SdnvEnds
<1> HIDE DEF s, c
<1>3. n \in Nat /\ Len(s) = n + 1 /\ i \in Nat \ {0} /\ last <= Len(b) /\ Len(b) \in Nat
  <2>1. n \in Nat  BY <1>1 DEF Grouped, Carrying
  <2> QED BY <1>1, <2>1, OctetsAre DEF Grouped, HasAt, s
<1> HIDE DEF n
<1>4. Sdnv!LastByte(b, i) = last  BY <1>2, <1>3
<1>5. \E f : Is(f)
  <2> DEFINE S == [k \in 0..(n + 1) |-> Nat]
             g == [kx \in (1..(n + 1)) \X Nat |-> kx[2] * 128 + (b[i + kx[1] - 1] % 128)]
  <2>1. ASSUME NEW k \in 1..(n + 1) PROVE b[i + k - 1] \in Nat
    <3>1. i + k - 1 \in 1..Len(b)  BY <1>3
    <3> QED BY <3>1, OctetsAre
  <2>2. ASSUME NEW k \in 1..(n + 1), NEW x \in Nat
        PROVE  g[<<k, x>>] \in Nat /\ g[<<k, x>>] = x * 128 + (b[i + k - 1] % 128)
    <3>1. b[i + k - 1] % 128 \in Nat  BY <2>1
    <3>2. g[<<k, x>>] = x * 128 + (b[i + k - 1] % 128)  OBVIOUS
    <3> HIDE DEF g
    <3> QED BY <3>1, <3>2
  <2>3. \A k \in 0..(n + 1) : S[k] = Nat  OBVIOUS
  <2> HIDE DEF S, g
  <2>4. PICK t : IsTrace(t, n + 1, 0, g) /\ Within(t, n + 1, S)
    <3>1. 0 \in S[0] /\ n + 1 \in Nat  BY <1>3, <2>3
    <3>2. \A k \in 1..(n + 1) : \A x \in S[k - 1] : g[<<k, x>>] \in S[k]
      <4> SUFFICES ASSUME NEW k \in 1..(n + 1), NEW x \in S[k - 1] PROVE g[<<k, x>>] \in S[k]
        OBVIOUS
      <4>1. k - 1 \in 0..(n + 1) /\ k \in 0..(n + 1)  BY <1>3
      <4>2. x \in Nat /\ S[k] = Nat  BY <2>3, <4>1
      <4> QED BY <2>2, <4>2
    <3> QED BY <3>1, <3>2, Trace
  <2>5. \A k \in 0..(n + 1) : t[k] \in Nat  BY <2>3, <2>4 DEF Within
  <2>6. \A k \in 0..(n + 1) : t[k] = IF k = 0 THEN 0 ELSE g[<<k, t[k - 1]>>]
    <3>1. t = [k \in 0..(n + 1) |-> IF k = 0 THEN 0 ELSE g[<<k, t[k - 1]>>]]  BY <2>4 DEF IsTrace
    <3> QED BY <3>1, Zenon
  <2> DEFINE h == [j \in (i - 1)..last |-> t[j - i + 1]]
  <2>7. \A j \in (i - 1)..last : h[j] = t[j - i + 1]  OBVIOUS
  <2>8. DOMAIN h = (i - 1)..last /\ h = [j \in (i - 1)..last |-> h[j]]  OBVIOUS
  <2> HIDE DEF h
  <2>9. ASSUME NEW j \in (i - 1)..last
        PROVE  h[j] = IF j < i THEN 0 ELSE h[j - 1] * 128 + (b[j] % 128)
    <3>1. CASE j < i
      <4>1. j - i + 1 = 0 /\ 0 \in 0..(n + 1)  BY <1>3, <3>1
      <4>2. h[j] = t[0]  BY <2>7, <4>1
      <4> QED BY <2>6, <3>1, <4>1, <4>2
    <3>2. CASE ~(j < i)
      <4> DEFINE k == j - i + 1
      <4>1. /\ k \in 1..(n + 1) /\ k \in 0..(n + 1) /\ k - 1 \in 0..(n + 1) /\ k # 0
            /\ j - 1 \in (i - 1)..last /\ (j - 1) - i + 1 = k - 1 /\ i + k - 1 = j
        BY <1>3, <3>2
      <4>2. h[j] = t[k] /\ h[j - 1] = t[k - 1]  BY <2>7, <4>1
      <4> HIDE DEF k
      <4>3. t[k] = g[<<k, t[k - 1]>>]  BY <2>6, <4>1
      <4>4. t[k - 1] \in Nat  BY <2>5, <4>1
      <4>5. g[<<k, t[k - 1]>>] = t[k - 1] * 128 + (b[i + k - 1] % 128)  BY <2>2, <4>1, <4>4
      <4> QED BY <3>2, <4>1, <4>2, <4>3, <4>5
    <3> QED BY <3>1, <3>2
  <2>10. h = [j \in (i - 1)..last |-> IF j < i THEN 0 ELSE h[j - 1] * 128 + (b[j] % 128)]
    BY <2>8, <2>9, Zenon
  <2> QED BY <2>10
<1>6. Is(value)
  <2> HIDE DEF Is
  <2> QED BY <1>5, Zenon
<1>7. \A j \in (i - 1)..last : value[j] = IF j < i THEN 0 ELSE value[j - 1] * 128 + (b[j] % 128)
  <2> HIDE DEF value, last
  <2> QED BY <1>6, Zenon
<1>8. Sdnv!Decode(b, i) = value[last]
  <2> HIDE DEF last
  <2> QED BY <1>4, Zenon DEF Sdnv!Decode
<1> HIDE DEF value, Is
<1>9. HasAt(b, i, c)
  <2>1. \A k \in 1..n : k \in 1..Len(s)  BY <1>3
  <2>2. \A k \in 1..n : b[i + k - 1] = s[k] /\ s[k] = c[k]
    BY <1>1, <2>1 DEF HasAt, Grouped, n, s
  <2>3. i + n - 1 <= Len(b)  BY <1>3
  <2> QED BY <1>3, <2>2, <2>3 DEF HasAt, n
<1>10. Reads(value, b, i, n)
  <2>1. i - 1 \in (i - 1)..last /\ i - 1 < i  BY <1>3
  <2>2. value[i - 1] = 0  BY <1>7, <2>1
  <2>3. \A j \in i..(i + n - 1) : j \in (i - 1)..last /\ ~(j < i)  BY <1>3
  <2> QED BY <1>7, <2>2, <2>3 DEF Reads
<1>11. value[last - 1] = val \div 128
  <2> DEFINE q == val \div 128
  <2>1. q \in Nat  OBVIOUS
  <2>2. HasAt(b, i, Sdnv!Carried[q]) /\ Reads(value, b, i, Len(Sdnv!Carried[q]))
    BY <1>9, <1>10 DEF c, n
  <2> HIDE DEF q
  <2>3. value[i + Len(Sdnv!Carried[q]) - 1] = q  BY <2>1, <2>2, CarriedRead
  <2>4. Len(Sdnv!Carried[q]) = n  BY DEF q, n, c
  <2>5. i + n - 1 = last - 1  BY <1>3
  <2>6. value[last - 1] = q  BY <2>3, <2>4, <2>5
  <2> QED BY <2>6 DEF q
<1>12. value[last] = value[last - 1] * 128 + (b[last] % 128)
  <2>1. last \in (i - 1)..last /\ ~(last < i)  BY <1>3
  <2> QED BY <1>7, <2>1
<1>13. b[last] = val % 128
  <2>1. n + 1 \in 1..Len(s) /\ i + (n + 1) - 1 = last  BY <1>3
  <2>2. b[i + (n + 1) - 1] = s[n + 1]  BY <2>1 DEF HasAt, s
  <2> QED BY <1>1, <1>3, <2>1, <2>2 DEF Grouped
<1>14. (val \div 128) * 128 + ((val % 128) % 128) = val  OBVIOUS
<1>15. Sdnv!Decode(b, i) = val  BY <1>8, <1>11, <1>12, <1>13, <1>14
<1>16. Sdnv!Behind(b, i) = i + Len(s)
  <2>1. Sdnv!Behind(b, i) = Sdnv!LastByte(b, i) + 1  BY Zenon DEF Sdnv!Behind
  <2> QED BY <1>3, <1>4, <2>1
<1> QED BY <1>15, <1>16 DEF s

----------------------------------------------------------------------------
(* Version 7.                                                              *)
(* f[k] is val without its k lowest bytes.                                 *)
Shifts(f, val) ==
  f \in [0..8 -> Nat] /\ f[0] = val /\ \A k \in 1..8 : f[k] = f[k - 1] \div 256

(* Shifted is what its recursive definition says.                           *)
LEMMA CborShifts == ASSUME NEW val \in Nat PROVE Shifts(Cbor!Shifted(val), val)
<1>1. Cbor!Shifted(val) = CHOOSE f : IsDivided(f, 8, 256, val)
  BY Zenon DEF Cbor!Shifted, IsDivided
<1>2. Divides(Cbor!Shifted(val), 8, 256, val)  BY <1>1, Divided
<1> QED BY <1>2 DEF Divides, Shifts

(* How many bytes follow the first one, and what the first one says of it. *)
FirstByte(val, n, more) ==
  /\ n \in {0, 1, 2, 4, 8} /\ more \in 0..27
  /\ n = 0 => val \in 0..23 /\ more = val
  /\ (n = 1 => more = 24) /\ (n = 2 => more = 25) /\ (n = 4 => more = 26) /\ (n = 8 => more = 27)

(* Length and the additional information of the first byte agree.           *)
LEMMA CborLength ==
  ASSUME NEW val \in Nat
  PROVE  FirstByte(val, Cbor!Length(val), Cbor!Additional(val))
<1> DEFINE n == Cbor!Length(val)
           f == Cbor!Shifted(val)
           more == Cbor!Additional(val)
<1>1. n = IF val < 24 THEN 0 ELSE IF f[1] = 0 THEN 1 ELSE IF f[2] = 0 THEN 2
          ELSE IF f[4] = 0 THEN 4 ELSE 8
  BY DEF Cbor!Length
<1>2. more = IF n = 0 THEN val ELSE IF n = 1 THEN 24 ELSE IF n = 2 THEN 25
             ELSE IF n = 4 THEN 26 ELSE 27
  BY DEF Cbor!Additional
<1> HIDE DEF n, f, more
<1>3. FirstByte(val, n, more)  BY <1>1, <1>2 DEF FirstByte
<1> QED BY <1>3 DEF n, more

(* Nothing is left of val after all of its bytes.                          *)
LEMMA CborShiftedOut ==
  ASSUME NEW val, Cbor!Fits(val), Cbor!Length(val) # 0
  PROVE  Cbor!Shifted(val)[Cbor!Length(val)] = 0
<1> DEFINE n == Cbor!Length(val)
           f == Cbor!Shifted(val)
<1>1. n = IF val < 24 THEN 0 ELSE IF f[1] = 0 THEN 1 ELSE IF f[2] = 0 THEN 2
          ELSE IF f[4] = 0 THEN 4 ELSE 8
  BY DEF Cbor!Length
<1>2. f[8] = 0  BY DEF Cbor!Fits
<1>3. n # 0  OBVIOUS
<1> HIDE DEF n, f
<1>4. f[n] = 0  BY <1>1, <1>2, <1>3
<1> QED BY <1>4 DEF n, f

(* s is the item of a value: its first byte and n others.                  *)
IsItem(s, tag, val, n, more, f) ==
  /\ s \in Octets /\ Len(s) = n + 1 /\ s[1] = 32 * tag + more
  /\ \A k \in 1..n : s[k + 1] = f[n - k] % 256

(* What encodeTagAndValue writes: the first byte and the value, highest byte*)
(* first.                                                                   *)
LEMMA CborItem ==
  ASSUME NEW tag \in 0..7, NEW val, Cbor!Fits(val)
  PROVE  IsItem(Cbor!Encode(tag, val), tag, val, Cbor!Length(val), Cbor!Additional(val),
                Cbor!Shifted(val))
<1> DEFINE n == Cbor!Length(val)
           f == Cbor!Shifted(val)
           more == Cbor!Additional(val)
           s == Cbor!Encode(tag, val)
           first == <<32 * tag + more>>
           bytes == [k \in 1..n |-> f[n - k] % 256]
<1>0. val \in Nat  BY DEF Cbor!Fits
<1>1. s = first \o bytes  BY Zenon DEF Cbor!Encode
<1>2. FirstByte(val, n, more)  BY <1>0, CborLength
<1>3. Shifts(f, val)  BY <1>0, CborShifts
<1> HIDE DEF n, f, more, s
<1>4. n \in 0..8 /\ more \in 0..27  BY <1>2 DEF FirstByte
<1>5. 32 * tag + more \in Octet  BY <1>4 DEF Octet
<1>6. \A k \in 1..n : f[n - k] % 256 \in Octet
  <2> SUFFICES ASSUME NEW k \in 1..n PROVE f[n - k] % 256 \in Octet  OBVIOUS
  <2>1. n - k \in 0..8  BY <1>4
  <2>2. f[n - k] \in Nat  BY <1>3, <2>1 DEF Shifts
  <2> QED BY <2>2 DEF Octet
<1>7. bytes \in Octets /\ Len(bytes) = n /\ \A k \in 1..n : bytes[k] = f[n - k] % 256
  <2>1. bytes \in [1..n -> Octet]  BY <1>6
  <2>2. \A k \in 1..n : bytes[k] = f[n - k] % 256  OBVIOUS
  <2> HIDE DEF bytes
  <2>3. n \in Nat  BY <1>4
  <2> QED BY <2>1, <2>2, <2>3 DEF Octets
<1>8. first \in Octets /\ Len(first) = 1 /\ first[1] = 32 * tag + more  BY <1>5 DEF Octets
<1> HIDE DEF first, bytes
<1>9. /\ first \o bytes \in Octets /\ Len(first \o bytes) = 1 + n
      /\ \A k \in 1..(1 + n) : (first \o bytes)[k] = IF k <= 1 THEN first[k] ELSE bytes[k - 1]
  <2>1. first \in Seq(Octet) /\ bytes \in Seq(Octet) /\ Len(first) = 1 /\ Len(bytes) = n
    BY <1>7, <1>8 DEF Octets
  <2>2. /\ first \o bytes \in Seq(Octet) /\ Len(first \o bytes) = Len(first) + Len(bytes)
        /\ \A k \in 1..(Len(first) + Len(bytes)) : (first \o bytes)[k] =
             IF k <= Len(first) THEN first[k] ELSE bytes[k - Len(first)]
    BY <2>1, ConcatProperties, Zenon
  <2> QED BY <2>1, <2>2 DEF Octets
<1>10. (first \o bytes)[1] = first[1]  BY <1>4, <1>9
<1>11. \A k \in 1..n : (first \o bytes)[k + 1] = bytes[k]  BY <1>4, <1>9
<1>12. s \in Octets /\ Len(s) = n + 1  BY <1>1, <1>4, <1>9
<1>13. s[1] = 32 * tag + more  BY <1>1, <1>8, <1>10
<1>14. \A k \in 1..n : s[k + 1] = f[n - k] % 256
  <2> SUFFICES ASSUME NEW k \in 1..n PROVE s[k + 1] = f[n - k] % 256  OBVIOUS
  <2>1. (first \o bytes)[k + 1] = bytes[k] /\ bytes[k] = f[n - k] % 256  BY <1>7, <1>11
  <2> QED BY <1>1, <2>1, Zenon
<1>15. IsItem(s, tag, val, n, more, f)  BY <1>12, <1>13, <1>14 DEF IsItem
<1> QED BY <1>15 DEF s, n, more, f

(* The bytes of f stand behind position i; value is what a decoder makes   *)
(* of them, byte by byte.                                                  *)
HasShifts(b, i, f, n) == \A k \in 1..n : b[i + k] = f[n - k] % 256
ReadsItem(value, b, i, n) ==
  value[0] = 0 /\ \A k \in 1..n : value[k] = 256 * value[k - 1] + b[i + k]

(* A decoder that has read all bytes of a value has got the value.          *)
LEMMA CborRead ==
  ASSUME NEW f, NEW val, Shifts(f, val), NEW n \in 1..8, f[n] = 0, NEW i \in Nat, NEW b,
         HasShifts(b, i, f, n), NEW value, ReadsItem(value, b, i, n)
  PROVE  value[n] = val
<1> DEFINE T == {k \in 0..n : value[k] = f[n - k]}
<1>0. f \in [0..8 -> Nat] /\ f[0] = val /\ \A k \in 1..8 : f[k] = f[k - 1] \div 256
  BY DEF Shifts
<1>1. 0 \in T  BY DEF ReadsItem
<1>2. ASSUME NEW k \in 1..n, k - 1 \in T PROVE k \in T
  <2> DEFINE m == n - k
  <2>1. m \in 0..7 /\ m + 1 \in 1..8 /\ (m + 1) - 1 = m /\ n - (k - 1) = m + 1  OBVIOUS
  <2>2. value[k] = 256 * value[k - 1] + b[i + k] /\ b[i + k] = f[m] % 256
    BY DEF ReadsItem, HasShifts
  <2>3. value[k - 1] = f[m + 1]  BY <1>2, <2>1
  <2> HIDE DEF m
  <2>4. f[m + 1] = f[m] \div 256 /\ f[m] \in Nat  BY <1>0, <2>1
  <2>5. 256 * (f[m] \div 256) + (f[m] % 256) = f[m]
    <3> DEFINE x == f[m]
    <3>1. x \in Nat  BY <2>4
    <3> HIDE DEF x
    <3>2. 256 * (x \div 256) + (x % 256) = x  BY <3>1
    <3> QED BY <3>2 DEF x
  <2>6. value[k] = f[m]  BY <2>2, <2>3, <2>4, <2>5
  <2>7. k \in 0..n  OBVIOUS
  <2> QED BY <2>6, <2>7 DEF m
<1>3. n \in T
  <2> HIDE DEF T
  <2>1. n \in Nat /\ n \in 0..n  OBVIOUS
  <2>2. \A k \in 0..n : k \in T  BY <1>1, <1>2, <2>1, UpTo
  <2> QED BY <2>1, <2>2
<1>4. value[n] = f[n - n] /\ n - n = 0  BY <1>3
<1> QED BY <1>0, <1>4

(* decodeTagAndValue gives back each tag and each value of up to 64 bits    *)
(* that encodeTagAndValue wrote, wherever their bytes stand in a buffer, and*)
(* stops behind them.                                                       *)
LEMMA CborDecodes ==
  ASSUME NEW b \in Octets, NEW i, NEW tag \in 0..7, NEW val, Cbor!Fits(val),
         HasAt(b, i, Cbor!Encode(tag, val))
  PROVE  /\ Cbor!Item(b, i).tag = tag /\ Cbor!Item(b, i).value = val
         /\ Cbor!Item(b, i).next = i + Len(Cbor!Encode(tag, val))
<1> DEFINE n == Cbor!Length(val)
           f == Cbor!Shifted(val)
           more == Cbor!Additional(val)
           s == Cbor!Encode(tag, val)
           Is(v) == v = [k \in 0..n |-> IF k = 0 THEN 0 ELSE 256 * v[k - 1] + b[i + k]]
           value == CHOOSE v : Is(v)
<1>0. val \in Nat  BY DEF Cbor!Fits
<1>1. IsItem(s, tag, val, n, more, f)  BY CborItem
<1>2. FirstByte(val, n, more)  BY <1>0, CborLength
<1>3. Shifts(f, val)  BY <1>0, CborShifts
<1>4. n # 0 => f[n] = 0  BY CborShiftedOut
<1>5. HasAt(b, i, s)  OBVIOUS
<1> HIDE DEF n, f, more, s
<1>6. n \in 0..8 /\ more \in 0..27  BY <1>2 DEF FirstByte
<1>7. i \in Nat \ {0} /\ Len(s) = n + 1 /\ Len(b) \in Nat /\ i + n <= Len(b)
  <2>1. Len(s) = n + 1 /\ i + Len(s) - 1 <= Len(b) /\ i \in Nat \ {0}
    BY <1>1, <1>5 DEF HasAt, IsItem
  <2>2. Len(b) \in Nat  BY OctetsAre
  <2> QED BY <1>6, <2>1, <2>2
<1>8. b[i] = 32 * tag + more
  <2>1. 1 \in 1..Len(s) /\ i + 1 - 1 = i  BY <1>6, <1>7
  <2>2. b[i + 1 - 1] = s[1]  BY <1>5, <2>1 DEF HasAt
  <2>3. s[1] = 32 * tag + more  BY <1>1 DEF IsItem
  <2> QED BY <2>1, <2>2, <2>3
<1>9. ASSUME NEW k \in 1..n PROVE b[i + k] = f[n - k] % 256 /\ b[i + k] \in Nat
  <2>1. k + 1 \in 1..Len(s) /\ i + (k + 1) - 1 = i + k /\ i + k \in 1..Len(b)  BY <1>6, <1>7
  <2>2. b[i + (k + 1) - 1] = s[k + 1]  BY <1>5, <2>1 DEF HasAt
  <2>3. s[k + 1] = f[n - k] % 256  BY <1>1 DEF IsItem
  <2>4. b[i + k] \in Nat  BY <2>1, OctetsAre
  <2> QED BY <2>1, <2>2, <2>3, <2>4
<1>10. b[i] \div 32 = tag /\ b[i] % 32 = more  BY <1>6, <1>8
<1>11. Cbor!Following(b, i) = n
  <2> DEFINE r == b[i] % 32
  <2>1. Cbor!Following(b, i) = CASE r < 24 -> 0 [] r = 24 -> 1 [] r = 25 -> 2
                                [] r = 26 -> 4 [] r = 27 -> 8
    BY Zenon DEF Cbor!Following
  <2>2. r = more  BY <1>10
  <2> HIDE DEF r
  <2>3. CASE n = 0
    <3>1. r < 24 /\ r # 24 /\ r # 25 /\ r # 26 /\ r # 27  BY <1>2, <2>2, <2>3 DEF FirstByte
    <3> QED BY <2>1, <2>3, <3>1
  <2>4. CASE n # 0
    <3>1. \/ n = 1 /\ r = 24
          \/ n = 2 /\ r = 25
          \/ n = 4 /\ r = 26
          \/ n = 8 /\ r = 27
      BY <1>2, <2>2, <2>4 DEF FirstByte
    <3> QED BY <2>1, <3>1
  <2> QED BY <2>3, <2>4
<1>12. Cbor!Item(b, i) = [tag |-> b[i] \div 32,
                          value |-> IF n = 0 THEN b[i] % 32 ELSE value[n],
                          next |-> i + n + 1]
  <2> DEFINE Got(m) ==
               [tag |-> b[i] \div 32,
                value |-> IF m = 0 THEN b[i] % 32
                          ELSE (CHOOSE v : v = [k \in 0..m |-> IF k = 0 THEN 0
                                                  ELSE 256 * v[k - 1] + b[i + k]])[m],
                next |-> i + m + 1]
  <2>1. Cbor!Item(b, i) = Got(Cbor!Following(b, i))  BY Zenon DEF Cbor!Item
  <2>2. Cbor!Item(b, i) = Got(n)
    <3> HIDE DEF Got
    <3> QED BY <1>11, <2>1
  <2> QED BY <2>2, Zenon
<1>13. \E v : Is(v)
  <2> DEFINE S == [k \in 0..n |-> Nat]
             g == [kx \in (1..n) \X Nat |-> 256 * kx[2] + b[i + kx[1]]]
  <2>1. \A k \in 0..n : S[k] = Nat  OBVIOUS
  <2>2. ASSUME NEW k \in 1..n, NEW x \in Nat
        PROVE  g[<<k, x>>] = 256 * x + b[i + k] /\ g[<<k, x>>] \in Nat
    <3>1. g[<<k, x>>] = 256 * x + b[i + k]  OBVIOUS
    <3> HIDE DEF g
    <3>2. b[i + k] \in Nat  BY <1>9
    <3> QED BY <3>1, <3>2
  <2> HIDE DEF S, g
  <2>3. PICK t : IsTrace(t, n, 0, g) /\ Within(t, n, S)
    <3>1. n \in Nat /\ 0 \in S[0]  BY <1>6, <2>1
    <3>2. \A k \in 1..n : \A x \in S[k - 1] : g[<<k, x>>] \in S[k]
      <4> SUFFICES ASSUME NEW k \in 1..n, NEW x \in S[k - 1] PROVE g[<<k, x>>] \in S[k]
        OBVIOUS
      <4>1. k \in 0..n /\ k - 1 \in 0..n  BY <1>6
      <4> QED BY <2>1, <2>2, <4>1
    <3> QED BY <3>1, <3>2, Trace
  <2>4. \A k \in 0..n : t[k] \in Nat  BY <2>1, <2>3 DEF Within
  <2>5. t = [k \in 0..n |-> IF k = 0 THEN 0 ELSE g[<<k, t[k - 1]>>]]  BY <2>3 DEF IsTrace
  <2>6. \A k \in 0..n : k # 0 => g[<<k, t[k - 1]>>] = 256 * t[k - 1] + b[i + k]
    <3> SUFFICES ASSUME NEW k \in 0..n, k # 0
                 PROVE  g[<<k, t[k - 1]>>] = 256 * t[k - 1] + b[i + k]
      OBVIOUS
    <3>1. k \in 1..n /\ k - 1 \in 0..n  BY <1>6
    <3> QED BY <2>2, <2>4, <3>1
  <2>7. Is(t)  BY <2>5, <2>6, Zenon
  <2> HIDE DEF Is
  <2> QED BY <2>7
<1>14. Is(value)
  <2> HIDE DEF Is
  <2> QED BY <1>13, Zenon
<1> HIDE DEF value
<1>15. \A k \in 0..n : value[k] = IF k = 0 THEN 0 ELSE 256 * value[k - 1] + b[i + k]
  BY <1>14, Zenon
<1>16. n # 0 => value[n] = val
  <2> SUFFICES ASSUME n # 0 PROVE value[n] = val  OBVIOUS
  <2>1. n \in 1..8 /\ i \in Nat  BY <1>6, <1>7
  <2>2. ReadsItem(value, b, i, n)
    <3>1. 0 \in 0..n /\ \A k \in 1..n : k \in 0..n /\ k # 0  BY <1>6
    <3> QED BY <1>15, <3>1 DEF ReadsItem
  <2>3. HasShifts(b, i, f, n)  BY <1>9 DEF HasShifts
  <2> QED BY <1>3, <1>4, <2>1, <2>2, <2>3, CborRead
<1>17. n = 0 => b[i] % 32 = val  BY <1>2, <1>10 DEF FirstByte
<1>18. Cbor!Item(b, i).tag = tag /\ Cbor!Item(b, i).next = i + Len(s)
  BY <1>6, <1>7, <1>10, <1>12
<1>19. Cbor!Item(b, i).value = val
  <2>1. Cbor!Item(b, i).value = IF n = 0 THEN b[i] % 32 ELSE value[n]  BY <1>12
  <2> QED BY <1>16, <1>17, <2>1
<1> QED BY <1>18, <1>19 DEF s

----------------------------------------------------------------------------
(* Words of flags.                                                         *)
(* What Halved leaves, and how it goes on.                                 *)
LEMMA HalvedIs == ASSUME NEW n \in Nat PROVE Divides(Halved(n), Width, 2, n)
<1>1. Halved(n) = CHOOSE f : IsDivided(f, Width, 2, n)  BY Zenon DEF Halved, IsDivided
<1>2. Width \in Nat  BY DEF Width
<1> QED BY <1>1, <1>2, Divided

(* What NumberOf sums up.                                                  *)
IsSum(f, bits) ==
  f = [k \in 0..Width |->
         IF k = 0 THEN 0 ELSE 2 * f[k - 1] + (IF Width - k \in bits THEN 1 ELSE 0)]
Sums(f, bits) ==
  /\ f \in [0..Width -> Nat] /\ f[0] = 0
  /\ \A k \in 1..Width : f[k] = 2 * f[k - 1] + (IF Width - k \in bits THEN 1 ELSE 0)

(* There is such a sum.                                                    *)
LEMMA SumIs ==
  ASSUME NEW bits PROVE \E f : Sums(f, bits) /\ NumberOf(bits) = f[Width]
<1> DEFINE m == Width
           bit(k) == IF m - k \in bits THEN 1 ELSE 0
           by == CHOOSE f : IsSum(f, bits)
           S == [k \in 0..m |-> Nat]
           g == [kx \in (1..m) \X Nat |-> 2 * kx[2] + bit(kx[1])]
<1>0. m \in Nat  BY DEF Width
<1>1. \A k \in 0..m : S[k] = Nat  OBVIOUS
<1>2. \A k : bit(k) \in Nat  OBVIOUS
<1>3. \A k \in 1..m : \A x \in Nat : g[<<k, x>>] = 2 * x + bit(k)  OBVIOUS
<1> HIDE DEF g, S, m
<1>4. PICK t : IsTrace(t, m, 0, g) /\ Within(t, m, S)
  <2>1. 0 \in S[0]  BY <1>0, <1>1
  <2>2. \A k \in 1..m : \A x \in S[k - 1] : g[<<k, x>>] \in S[k]
    <3> SUFFICES ASSUME NEW k \in 1..m, NEW x \in S[k - 1] PROVE g[<<k, x>>] \in S[k]
      OBVIOUS
    <3>1. k \in 0..m /\ k - 1 \in 0..m  BY <1>0
    <3>2. x \in Nat /\ S[k] = Nat  BY <1>1, <3>1
    <3>3. g[<<k, x>>] = 2 * x + bit(k) /\ bit(k) \in Nat  BY <1>2, <1>3, <3>2
    <3> HIDE DEF bit
    <3> QED BY <3>2, <3>3
  <2> QED BY <1>0, <2>1, <2>2, Trace
<1>5. \A k \in 0..m : t[k] \in Nat  BY <1>1, <1>4 DEF Within
<1>6. t = [k \in 0..m |-> IF k = 0 THEN 0 ELSE g[<<k, t[k - 1]>>]]  BY <1>4 DEF IsTrace
<1>7. \A k \in 0..m : k # 0 => g[<<k, t[k - 1]>>] = 2 * t[k - 1] + bit(k)
  <2> SUFFICES ASSUME NEW k \in 0..m, k # 0
               PROVE  g[<<k, t[k - 1]>>] = 2 * t[k - 1] + bit(k)
    OBVIOUS
  <2>1. k \in 1..m /\ k - 1 \in 0..m  BY <1>0
  <2> QED BY <1>3, <1>5, <2>1
<1>8. IsSum(t, bits)  BY <1>6, <1>7, Zenon DEF IsSum, m
<1>9. IsSum(by, bits)  BY <1>8, Zenon
<1> HIDE DEF by
<1>10. DOMAIN by = 0..m /\ by = [k \in 0..m |-> by[k]]  BY <1>9, Zenon DEF IsSum, m
<1>11. \A k \in 0..m : by[k] = IF k = 0 THEN 0 ELSE 2 * by[k - 1] + bit(k)
  BY <1>9, Zenon DEF IsSum, m
<1> HIDE DEF bit
<1>12. \A k \in 0..m : by[k] \in Nat
  <2> DEFINE T == {k \in 0..m : by[k] \in Nat}
  <2>1. 0 \in T  BY <1>0, <1>11
  <2>2. ASSUME NEW k \in 1..m, k - 1 \in T PROVE k \in T
    <3>1. k \in 0..m /\ k # 0  BY <1>0
    <3>2. by[k] = 2 * by[k - 1] + bit(k) /\ by[k - 1] \in Nat /\ bit(k) \in Nat
      BY <1>2, <1>11, <2>2, <3>1
    <3> QED BY <3>1, <3>2
  <2>3. \A k \in 0..m : k \in T
    <3> HIDE DEF T
    <3> QED BY <1>0, <2>1, <2>2, UpTo
  <2> QED BY <2>3
<1>13. by \in [0..m -> Nat]  BY <1>10, <1>12
<1>14. by[0] = 0 /\ \A k \in 1..m : by[k] = 2 * by[k - 1] + bit(k)
  <2>1. 0 \in 0..m /\ \A k \in 1..m : k \in 0..m /\ k # 0  BY <1>0
  <2> QED BY <1>11, <2>1
<1>15. Sums(by, bits)  BY <1>13, <1>14 DEF Sums, m, bit
<1>16. NumberOf(bits) = by[m]  BY Zenon DEF NumberOf, IsSum, by, m
<1> QED BY <1>15, <1>16 DEF m

(* The bits of the number that stands for a set of bits are that set.      *)
LEMMA BitsRead ==
  ASSUME NEW all \in SUBSET (0..(Width - 1)), NEW bits \in SUBSET all
  PROVE  NumberOf(bits) \in Nat /\ BitsOf(NumberOf(bits), all) = bits
<1>1. PICK sum : Sums(sum, bits) /\ NumberOf(bits) = sum[Width]  BY SumIs
<1> DEFINE n == NumberOf(bits)
           by == Halved(n)
           m == Width
<1>2. m \in Nat  BY DEF Width
<1>3. n = sum[m] /\ n \in Nat  BY <1>1, <1>2 DEF Sums
<1>4. Divides(by, m, 2, n)  BY <1>3, HalvedIs
<1>5. \A k \in 1..m : sum[k] = 2 * sum[k - 1] + (IF m - k \in bits THEN 1 ELSE 0)
  BY <1>1 DEF Sums
<1>6. sum \in [0..m -> Nat]  BY <1>1 DEF Sums
<1>7. BitsOf(n, all) = {b \in all : by[b] % 2 = 1}  BY Zenon DEF BitsOf
<1> HIDE DEF n, by
<1>8. all \in SUBSET (0..(m - 1))  OBVIOUS
<1> HIDE DEF m
<1> DEFINE T == {k \in 0..m : by[k] = sum[m - k]}
<1>9. 0 \in T  BY <1>2, <1>3, <1>4 DEF Divides
<1>10. ASSUME NEW k \in 1..m, k - 1 \in T PROVE k \in T
  <2> DEFINE j == m - k
  <2>1. j \in 0..m /\ j + 1 \in 1..m /\ m - (k - 1) = j + 1 /\ (j + 1) - 1 = j /\ k \in 0..m
    BY <1>2
  <2>2. by[k] = by[k - 1] \div 2 /\ by[k - 1] = sum[j + 1]  BY <1>4, <1>10, <2>1 DEF Divides
  <2> HIDE DEF j
  <2>3. \E c \in 0..1 : sum[j + 1] = 2 * sum[j] + c
    <3>1. sum[j + 1] = 2 * sum[j] + (IF m - (j + 1) \in bits THEN 1 ELSE 0)  BY <1>5, <2>1
    <3> QED BY <3>1
  <2>4. sum[j] \in Nat  BY <1>6, <2>1
  <2>5. by[k] = sum[j]  BY <2>2, <2>3, <2>4
  <2> QED BY <2>1, <2>5 DEF j
<1>11. \A k \in 0..m : by[k] = sum[m - k]
  <2>1. \A k \in 0..m : k \in T
    <3> HIDE DEF T
    <3> QED BY <1>2, <1>9, <1>10, UpTo
  <2> QED BY <2>1
<1>12. ASSUME NEW b \in all PROVE by[b] % 2 = 1 <=> b \in bits
  <2>1. b \in 0..m /\ m - b \in 1..m /\ m - (m - b) = b /\ (m - b) - 1 \in 0..m  BY <1>2, <1>8
  <2>2. by[b] = 2 * sum[(m - b) - 1] + (IF b \in bits THEN 1 ELSE 0)  BY <1>5, <1>11, <2>1
  <2> DEFINE x == sum[(m - b) - 1]
  <2>3. x \in Nat  BY <1>6, <2>1
  <2>4. by[b] = 2 * x + (IF b \in bits THEN 1 ELSE 0)  BY <2>2
  <2> HIDE DEF x
  <2> QED BY <2>3, <2>4
<1>13. BitsOf(n, all) = bits  BY <1>7, <1>12
<1> QED BY <1>3, <1>13 DEF n

(* A byte is the number of its bits.                                       *)
LEMMA ByteIsBits ==
  ASSUME NEW n \in 0..255 PROVE NumberOf(BitsOf(n, 0..7)) = n
<1> DEFINE m == Width
           by == Halved(n)
           bits == BitsOf(n, 0..7)
<1>1. m \in Nat /\ m \in 9..99  BY DEF Width
<1>2. Divides(by, m, 2, n)  BY HalvedIs
<1>3. bits = {b \in 0..7 : by[b] % 2 = 1}  BY Zenon DEF BitsOf
<1>4. PICK sum : Sums(sum, bits) /\ NumberOf(bits) = sum[m]  BY SumIs
<1>5. \A k \in 1..m : sum[k] = 2 * sum[k - 1] + (IF m - k \in bits THEN 1 ELSE 0)
  BY <1>4 DEF Sums
<1>6. sum[0] = 0  BY <1>4 DEF Sums
<1> HIDE DEF by, bits, m
<1>7. by \in [0..m -> Nat] /\ by[0] = n /\ \A k \in 1..m : by[k] = by[k - 1] \div 2
  BY <1>2 DEF Divides
<1>8. by[8] = 0
  <2>1. ASSUME NEW j \in 0..7 PROVE by[j + 1] = by[j] \div 2
    <3>1. j + 1 \in 1..m /\ (j + 1) - 1 = j  BY <1>1
    <3> QED BY <1>7, <3>1
  <2>2. /\ by[0 + 1] = by[0] \div 2 /\ by[1 + 1] = by[1] \div 2 /\ by[2 + 1] = by[2] \div 2
        /\ by[3 + 1] = by[3] \div 2 /\ by[4 + 1] = by[4] \div 2 /\ by[5 + 1] = by[5] \div 2
        /\ by[6 + 1] = by[6] \div 2 /\ by[7 + 1] = by[7] \div 2
    BY <2>1
  <2>3. by[0] \in 0..255  BY <1>7
  <2>4. by[1] \in 0..127  BY <2>2, <2>3
  <2>5. by[2] \in 0..63  BY <2>2, <2>4
  <2>6. by[4] \in 0..15  BY <2>2, <2>5
  <2>7. by[6] \in 0..3  BY <2>2, <2>6
  <2> QED BY <2>2, <2>7
<1>9. \A k \in 0..m : k >= 8 => by[k] = 0
  <2> DEFINE T == {k \in 0..m : k >= 8 => by[k] = 0}
  <2>1. 0 \in T  BY <1>1
  <2>2. ASSUME NEW k \in 1..m, k - 1 \in T PROVE k \in T
    <3>1. k \in 0..m  BY <1>1
    <3>2. CASE k <= 8  BY <1>8, <3>1, <3>2
    <3>3. CASE k > 8
      <4>1. by[k - 1] = 0  BY <2>2, <3>3
      <4> QED BY <1>7, <3>1, <4>1
    <3> QED BY <3>1, <3>2, <3>3
  <2>3. \A k \in 0..m : k \in T
    <3> HIDE DEF T
    <3> QED BY <1>1, <2>1, <2>2, UpTo
  <2> QED BY <2>3
<1> DEFINE T == {k \in 0..m : sum[k] = by[m - k]}
<1>10. 0 \in T  BY <1>1, <1>6, <1>9
<1>11. ASSUME NEW k \in 1..m, k - 1 \in T PROVE k \in T
  <2> DEFINE j == m - k
             x == by[j]
  <2>1. j \in 0..m /\ j + 1 \in 1..m /\ m - (k - 1) = j + 1 /\ (j + 1) - 1 = j /\ k \in 0..m
    BY <1>1
  <2>2. sum[k] = 2 * sum[k - 1] + (IF j \in bits THEN 1 ELSE 0)  BY <1>5
  <2>3. sum[k - 1] = x \div 2  BY <1>7, <1>11, <2>1
  <2>4. x \in Nat  BY <1>7, <2>1
  <2>5. CASE j \in 0..7
    <3>1. j \in bits <=> x % 2 = 1  BY <1>3, <2>5
    <3> HIDE DEF x, j
    <3>2. sum[k] = x  BY <2>2, <2>3, <2>4, <3>1
    <3> QED BY <2>1, <3>2 DEF x, j
  <2>6. CASE j \notin 0..7
    <3>1. x = 0 /\ j \notin bits  BY <1>3, <1>9, <2>1, <2>6
    <3> HIDE DEF x, j
    <3>2. sum[k] = x  BY <2>2, <2>3, <3>1
    <3> QED BY <2>1, <3>2 DEF x, j
  <2> QED BY <2>5, <2>6
<1>12. m \in T
  <2> HIDE DEF T
  <2>1. \A k \in 0..m : k \in T  BY <1>1, <1>10, <1>11, UpTo
  <2> QED BY <1>1, <2>1
<1>13. sum[m] = n  BY <1>1, <1>7, <1>12
<1> QED BY <1>4, <1>13 DEF bits

----------------------------------------------------------------------------
(* Buffers.  The bytes of a number are those of a code, code[n], which says *)
(* the same of every format.                                               *)
IsCode(code) == code \in [DOMAIN code -> Octets] /\ \A n \in DOMAIN code : Len(code[n]) \in Nat \ {0}

(* The buffer consists of the bytes of the numbers, the k-th from position *)
(* starts[k] on.                                                           *)
Layout(starts, nums, bytes, code) ==
  /\ nums \in Seq(DOMAIN code) /\ bytes \in Octets
  /\ starts \in [1..(Len(nums) + 1) -> Nat \ {0}]
  /\ starts[1] = 1 /\ starts[Len(nums) + 1] = Len(bytes) + 1
  /\ \A k \in 1..Len(nums) : /\ starts[k + 1] = starts[k] + Len(code[nums[k]])
                             /\ HasAt(bytes, starts[k], code[nums[k]])

IsLaidOut(nums, bytes, code) == \E starts : Layout(starts, nums, bytes, code)

(* What a buffer holds it holds when bytes are added behind.               *)
LEMMA HasAtStays ==
  ASSUME NEW bytes \in Octets, NEW more \in Octets, NEW i, NEW s \in Octets, HasAt(bytes, i, s)
  PROVE  HasAt(bytes \o more, i, s)
<1>1. /\ Len(bytes) \in Nat /\ Len(more) \in Nat /\ Len(bytes \o more) = Len(bytes) + Len(more)
      /\ \A k \in 1..(Len(bytes) + Len(more)) : (bytes \o more)[k] =
           IF k <= Len(bytes) THEN bytes[k] ELSE more[k - Len(bytes)]
  BY ConcatProperties, OctetsAre DEF Octets
<1>2. /\ i \in Nat \ {0} /\ i + Len(s) - 1 <= Len(bytes) /\ Len(s) \in Nat
      /\ \A k \in 1..Len(s) : bytes[i + k - 1] = s[k]
  BY OctetsAre DEF HasAt
<1>3. ASSUME NEW k \in 1..Len(s) PROVE (bytes \o more)[i + k - 1] = s[k]
  <2>1. i + k - 1 \in 1..Len(bytes) /\ i + k - 1 \in 1..(Len(bytes) + Len(more))
        /\ i + k - 1 <= Len(bytes)
    BY <1>1, <1>2
  <2>2. (bytes \o more)[i + k - 1] = bytes[i + k - 1]  BY <1>1, <2>1
  <2> QED BY <1>2, <2>2
<1>4. i + Len(s) - 1 <= Len(bytes \o more)  BY <1>1, <1>2
<1> QED BY <1>2, <1>3, <1>4 DEF HasAt

(* The bytes that are added stand behind the others.                       *)
LEMMA HasAtBehind ==
  ASSUME NEW bytes \in Octets, NEW more \in Octets
  PROVE  HasAt(bytes \o more, Len(bytes) + 1, more)
<1>1. /\ Len(bytes) \in Nat /\ Len(more) \in Nat /\ Len(bytes \o more) = Len(bytes) + Len(more)
      /\ \A k \in 1..(Len(bytes) + Len(more)) : (bytes \o more)[k] =
           IF k <= Len(bytes) THEN bytes[k] ELSE more[k - Len(bytes)]
  BY ConcatProperties, OctetsAre DEF Octets
<1>2. ASSUME NEW k \in 1..Len(more) PROVE (bytes \o more)[Len(bytes) + 1 + k - 1] = more[k]
  <2> DEFINE j == Len(bytes) + 1 + k - 1
  <2>1. j \in 1..(Len(bytes) + Len(more)) /\ ~(j <= Len(bytes)) /\ j - Len(bytes) = k  BY <1>1
  <2> HIDE DEF j
  <2>2. (bytes \o more)[j] = more[j - Len(bytes)]  BY <1>1, <2>1
  <2> QED BY <2>1, <2>2 DEF j
<1> QED BY <1>1, <1>2 DEF HasAt

(* A buffer to which the bytes of a number are added consists of the bytes  *)
(* of one number more.                                                      *)
LEMMA Added ==
  ASSUME NEW nums, NEW bytes, NEW code, IsCode(code), IsLaidOut(nums, bytes, code),
         NEW n \in DOMAIN code
  PROVE  IsLaidOut(Append(nums, n), bytes \o code[n], code)
<1>1. PICK starts : Layout(starts, nums, bytes, code)  BY DEF IsLaidOut
<1> DEFINE len == Len(nums)
           new == Append(nums, n)
           all == bytes \o code[n]
           l == Len(bytes)
           m == Len(code[n])
           last == l + 1 + m
           more == [k \in 1..(len + 2) |-> IF k = len + 2 THEN last ELSE starts[k]]
<1>2. /\ nums \in Seq(DOMAIN code) /\ bytes \in Octets /\ code[n] \in Octets
      /\ len \in Nat /\ Len(bytes) \in Nat /\ Len(code[n]) \in Nat
  BY <1>1, OctetsAre DEF Layout, IsCode
<1>0. l \in Nat /\ m \in Nat  BY <1>2
<1>3. /\ new \in Seq(DOMAIN code) /\ Len(new) = len + 1 /\ new[len + 1] = n
      /\ \A k \in 1..len : new[k] = nums[k]
  BY <1>2, AppendProperties
<1>4. all \in Octets /\ Len(all) = Len(bytes) + Len(code[n])
  BY <1>2, ConcatProperties DEF Octets
<1>5. /\ starts \in [1..(len + 1) -> Nat \ {0}] /\ starts[1] = 1
      /\ starts[len + 1] = Len(bytes) + 1
  BY <1>1 DEF Layout
<1>6. ASSUME NEW k \in 1..len
      PROVE  /\ starts[k + 1] = starts[k] + Len(code[nums[k]])
             /\ HasAt(bytes, starts[k], code[nums[k]])
  BY <1>1 DEF Layout
<1> HIDE DEF len, l, m
<1>7. /\ more \in [1..(len + 2) -> Nat \ {0}] /\ more[len + 2] = last
      /\ \A k \in 1..(len + 1) : more[k] = starts[k]
  <2>1. last \in Nat \ {0}  BY <1>0
  <2> HIDE DEF last
  <2>2. \A k \in 1..(len + 2) : k # len + 2 => k \in 1..(len + 1)  BY <1>2
  <2>3. \A k \in 1..(len + 1) : k \in 1..(len + 2) /\ k # len + 2  BY <1>2
  <2>4. len + 2 \in 1..(len + 2)  BY <1>2
  <2>5. \A k \in 1..(len + 1) : starts[k] \in Nat \ {0}  BY <1>5
  <2>6. more \in [1..(len + 2) -> Nat \ {0}]  BY <2>1, <2>2, <2>5
  <2>7. more[len + 2] = last  BY <2>4
  <2>8. \A k \in 1..(len + 1) : more[k] = starts[k]  BY <2>3
  <2> QED BY <2>6, <2>7, <2>8
<1> HIDE DEF new, all, more, last
<1>8. ASSUME NEW k \in 1..(len + 1)
      PROVE  /\ more[k + 1] = more[k] + Len(code[new[k]])
             /\ HasAt(all, more[k], code[new[k]])
  <2>1. CASE k = len + 1
    <3>1. k + 1 = len + 2 /\ k \in 1..(len + 1)  BY <1>2, <2>1
    <3>2. new[k] = n  BY <1>3, <2>1
    <3>3. more[k] = Len(bytes) + 1  BY <1>5, <1>7, <2>1, <3>1
    <3>4. more[k + 1] = last  BY <1>7, <3>1
    <3>5. HasAt(all, Len(bytes) + 1, code[n])  BY <1>2, HasAtBehind DEF all
    <3> QED BY <3>2, <3>3, <3>4, <3>5 DEF last, l, m
  <2>2. CASE k # len + 1
    <3>1. k \in 1..len /\ k + 1 \in 1..(len + 1)  BY <1>2, <2>2
    <3>2. new[k] = nums[k] /\ more[k] = starts[k] /\ more[k + 1] = starts[k + 1]
      BY <1>3, <1>7, <3>1
    <3>3. nums[k] \in DOMAIN code  BY <1>2, <3>1 DEF len
    <3>4. code[nums[k]] \in Octets  BY <3>3 DEF IsCode
    <3>5. HasAt(all, starts[k], code[nums[k]])  BY <1>2, <1>6, <3>1, <3>4, HasAtStays DEF all
    <3> QED BY <1>6, <3>1, <3>2, <3>5
  <2> QED BY <2>1, <2>2
<1>9. Layout(more, new, all, code)
  <2>1. Len(new) = len + 1 /\ (len + 1) + 1 = len + 2  BY <1>2, <1>3
  <2>2. more \in [1..(Len(new) + 1) -> Nat \ {0}]  BY <1>7, <2>1
  <2>3. more[1] = 1  BY <1>2, <1>5, <1>7
  <2>4. more[Len(new) + 1] = Len(all) + 1
    <3>1. more[Len(new) + 1] = last  BY <1>7, <2>1
    <3>2. Len(all) = l + m  BY <1>4 DEF l, m
    <3>3. last = Len(all) + 1  BY <1>0, <3>2 DEF last
    <3> QED BY <3>1, <3>3
  <2> QED BY <1>3, <1>4, <1>8, <2>1, <2>2, <2>3, <2>4 DEF Layout
<1> QED BY <1>9 DEF IsLaidOut, new, all

(* What stands behind the first bytes of a buffer.                         *)
LEMMA HasAtRest ==
  ASSUME NEW bytes \in Octets, NEW from \in 1..(Len(bytes) + 1), NEW i \in Nat, from <= i,
         NEW s \in Octets, HasAt(bytes, i, s)
  PROVE  HasAt(SubSeq(bytes, from, Len(bytes)), i - from + 1, s)
<1> DEFINE rest == SubSeq(bytes, from, Len(bytes))
           m == Len(bytes)
           j == i - from + 1
<1>1. /\ m \in Nat /\ Len(s) \in Nat /\ i \in Nat \ {0} /\ i + Len(s) - 1 <= m
      /\ \A k \in 1..Len(s) : bytes[i + k - 1] = s[k]
  BY OctetsAre DEF HasAt
<1>2. /\ Len(rest) = m - from + 1
      /\ \A k \in 1..(m - from + 1) : rest[k] = bytes[from + k - 1]
  BY <1>1 DEF Octets
<1> HIDE DEF rest, m, j
<1>3. ASSUME NEW k \in 1..Len(s) PROVE rest[j + k - 1] = s[k]
  <2>1. j + k - 1 \in 1..(m - from + 1) /\ from + (j + k - 1) - 1 = i + k - 1  BY <1>1 DEF m, j
  <2>2. rest[j + k - 1] = bytes[from + (j + k - 1) - 1]  BY <1>2, <2>1
  <2> QED BY <1>1, <2>1, <2>2
<1>4. j \in Nat \ {0} /\ j + Len(s) - 1 <= Len(rest)  BY <1>1, <1>2 DEF m, j
<1>5. HasAt(rest, j, s)  BY <1>3, <1>4 DEF HasAt
<1> QED BY <1>5 DEF rest, m, j

(* A buffer begins with the bytes of its first number, and consists of the  *)
(* others behind them.                                                      *)
LEMMA Taken ==
  ASSUME NEW nums, NEW bytes, NEW code, IsCode(code), IsLaidOut(nums, bytes, code), nums # <<>>
  PROVE  /\ Head(nums) \in DOMAIN code
         /\ HasAt(bytes, 1, code[Head(nums)])
         /\ IsLaidOut(Tail(nums), SubSeq(bytes, 1 + Len(code[Head(nums)]), Len(bytes)), code)
<1>1. PICK starts : Layout(starts, nums, bytes, code)  BY DEF IsLaidOut
<1> DEFINE len == Len(nums)
           n == Head(nums)
           new == Tail(nums)
           from == 1 + Len(code[n])
           rest == SubSeq(bytes, from, Len(bytes))
           less == [k \in 1..len |-> starts[k + 1] - from + 1]
<1>2. nums \in Seq(DOMAIN code) /\ bytes \in Octets /\ len \in Nat /\ Len(bytes) \in Nat
  BY <1>1, OctetsAre DEF Layout
<1>3. len \in Nat \ {0} /\ n = nums[1] /\ n \in DOMAIN code
  <2>1. len # 0  BY <1>2, EmptySeq
  <2>2. n = nums[1] /\ n \in DOMAIN code  BY <1>2, HeadTailProperties
  <2> QED BY <1>2, <2>1, <2>2
<1>4. /\ new \in Seq(DOMAIN code) /\ Len(new) = len - 1
      /\ \A k \in 1..Len(new) : new[k] = nums[k + 1]
  BY <1>2, HeadTailProperties
<1>5. /\ starts \in [1..(len + 1) -> Nat \ {0}] /\ starts[1] = 1
      /\ starts[len + 1] = Len(bytes) + 1
  BY <1>1 DEF Layout
<1>6. ASSUME NEW k \in 1..len
      PROVE  /\ starts[k + 1] = starts[k] + Len(code[nums[k]])
             /\ HasAt(bytes, starts[k], code[nums[k]])
  BY <1>1 DEF Layout
<1>7. code[n] \in Octets /\ Len(code[n]) \in Nat \ {0}  BY <1>3 DEF IsCode
<1> HIDE DEF len, n, new, from, rest
<1>8. HasAt(bytes, 1, code[n]) /\ starts[2] = from
  <2>1. 1 \in 1..len /\ 1 + 1 = 2  BY <1>3
  <2>2. starts[1 + 1] = starts[1] + Len(code[nums[1]]) /\ HasAt(bytes, starts[1], code[nums[1]])
    BY <1>6, <2>1
  <2> QED BY <1>3, <1>5, <2>1, <2>2 DEF from
<1>9. from \in 1..(Len(bytes) + 1) /\ from \in Nat \ {0}
  <2>1. 1 + Len(code[n]) - 1 <= Len(bytes)  BY <1>8 DEF HasAt
  <2> QED BY <1>2, <1>7, <2>1 DEF from
<1>10. \A k \in 1..len : from <= starts[k + 1]
  <2> DEFINE T == {k \in 0..(len - 1) : from <= starts[k + 2]}
  <2>0. len - 1 \in Nat  BY <1>3
  <2>1. 0 \in T  BY <1>8, <1>9, <2>0
  <2>2. ASSUME NEW k \in 1..(len - 1), k - 1 \in T PROVE k \in T
    <3>1. k + 1 \in 1..len /\ (k - 1) + 2 = k + 1 /\ (k + 1) + 1 = k + 2 /\ k \in 0..(len - 1)
      BY <1>3
    <3>2. from <= starts[k + 1]  BY <2>2, <3>1
    <3>3. starts[k + 2] = starts[k + 1] + Len(code[nums[k + 1]])  BY <1>6, <3>1
    <3>4. nums[k + 1] \in DOMAIN code  BY <1>2, <3>1 DEF len
    <3>5. Len(code[nums[k + 1]]) \in Nat  BY <3>4 DEF IsCode
    <3>6. starts[k + 1] \in Nat
      <4>1. k + 1 \in 1..(len + 1)  BY <1>3, <3>1
      <4> QED BY <1>5, <4>1
    <3>7. from <= starts[k + 2]  BY <1>9, <3>2, <3>3, <3>5, <3>6
    <3> QED BY <3>1, <3>7
  <2>3. \A k \in 0..(len - 1) : k \in T
    <3> HIDE DEF T
    <3> QED BY <2>0, <2>1, <2>2, UpTo
  <2> SUFFICES ASSUME NEW k \in 1..len PROVE from <= starts[k + 1]  OBVIOUS
  <2>4. k - 1 \in 0..(len - 1) /\ (k - 1) + 2 = k + 1  BY <1>3
  <2> QED BY <2>3, <2>4
<1>11. ASSUME NEW k \in 1..len PROVE less[k] = starts[k + 1] - from + 1 /\ less[k] \in Nat \ {0}
  <2>1. k + 1 \in 1..(len + 1)  BY <1>3
  <2>2. starts[k + 1] \in Nat /\ from <= starts[k + 1]  BY <1>5, <1>10, <2>1
  <2> QED BY <1>9, <2>2
<1>12. less \in [1..len -> Nat \ {0}]
  <2>1. less = [k \in 1..len |-> less[k]]  OBVIOUS
  <2> HIDE DEF less
  <2> QED BY <1>11, <2>1
<1> HIDE DEF less
<1>13. rest \in Octets /\ Len(rest) = Len(bytes) - from + 1
  <2>1. rest \in Seq(Octet)
    <3>1. bytes \in Seq(Octet)  BY <1>2 DEF Octets
    <3>2. \A k \in from..Len(bytes) : k \in 1..Len(bytes)  BY <1>2, <1>9
    <3>3. \A k \in from..Len(bytes) : bytes[k] \in Octet  BY <3>1, <3>2
    <3> QED BY <1>2, <1>9, <3>1, <3>3, SubSeqProperties DEF rest
  <2>2. Len(rest) = Len(bytes) - from + 1  BY <1>2, <1>9 DEF rest, Octets
  <2> QED BY <2>1, <2>2 DEF Octets
<1>14. ASSUME NEW k \in 1..(len - 1)
       PROVE  /\ less[k + 1] = less[k] + Len(code[new[k]])
              /\ HasAt(rest, less[k], code[new[k]])
  <2>1. k + 1 \in 1..len /\ k \in 1..len /\ k \in 1..Len(new) /\ k + 1 \in 1..(len + 1)
    BY <1>3, <1>4
  <2>2. new[k] = nums[k + 1] /\ nums[k + 1] \in DOMAIN code  BY <1>2, <1>4, <2>1 DEF len
  <2> DEFINE c == code[new[k]]
             i == starts[k + 1]
  <2>3. c \in Octets /\ Len(c) \in Nat  BY <2>2 DEF IsCode
  <2>4. starts[(k + 1) + 1] = i + Len(c) /\ HasAt(bytes, i, c)  BY <1>6, <2>1, <2>2
  <2>5. i \in Nat /\ from <= i  BY <1>5, <1>10, <2>1
  <2>6. less[k] = i - from + 1 /\ less[k + 1] = starts[(k + 1) + 1] - from + 1  BY <1>11, <2>1
  <2> HIDE DEF c, i
  <2>7. less[k + 1] = less[k] + Len(c)  BY <1>9, <2>3, <2>4, <2>5, <2>6
  <2>8. HasAt(rest, i - from + 1, c)  BY <1>2, <1>9, <2>3, <2>4, <2>5, HasAtRest DEF rest
  <2> QED BY <2>6, <2>7, <2>8 DEF c
<1>15. Layout(less, new, rest, code)
  <2>1. Len(new) + 1 = len /\ Len(new) = len - 1  BY <1>3, <1>4
  <2>2. less[1] = 1
    <3>1. 1 \in 1..len /\ 1 + 1 = 2  BY <1>3
    <3>2. less[1] = starts[2] - from + 1  BY <1>11, <3>1
    <3> QED BY <1>8, <1>9, <3>2
  <2>3. less[len] = Len(rest) + 1
    <3>1. less[len] = starts[len + 1] - from + 1  BY <1>3, <1>11
    <3> QED BY <1>2, <1>5, <1>9, <1>13, <3>1
  <2> QED BY <1>4, <1>12, <1>13, <1>14, <2>1, <2>2, <2>3 DEF Layout
<1>16. IsLaidOut(new, rest, code)  BY <1>15 DEF IsLaidOut
<1> QED BY <1>3, <1>8, <1>16 DEF n, new, from, rest

(* No numbers are no bytes.                                                 *)
LEMMA EmptyLaidOut == ASSUME NEW code PROVE IsLaidOut(<<>>, <<>>, code)
<1> DEFINE starts == [k \in 1..1 |-> 1]
<1>1. <<>> \in Seq(DOMAIN code) /\ <<>> \in Octets /\ Len(<<>>) = 0  BY EmptySeq DEF Octets
<1>2. starts \in [1..1 -> Nat \ {0}] /\ starts[1] = 1  OBVIOUS
<1> HIDE DEF starts
<1>3. Layout(starts, <<>>, <<>>, code)  BY <1>1, <1>2 DEF Layout
<1> QED BY <1>3 DEF IsLaidOut

(* Bytes are only there while numbers are.                                 *)
LEMMA NothingElse ==
  ASSUME NEW bytes, NEW code, IsLaidOut(<<>>, bytes, code) PROVE bytes = <<>>
<1>1. PICK starts : Layout(starts, <<>>, bytes, code)  BY DEF IsLaidOut
<1>2. bytes \in Seq(Octet) /\ Len(bytes) \in Nat  BY <1>1, OctetsAre DEF Layout, Octets
<1>3. starts[1] = 1 /\ starts[0 + 1] = Len(bytes) + 1
  <2>1. Len(<<>>) = 0  BY EmptySeq
  <2> QED BY <1>1, <2>1 DEF Layout
<1>4. Len(bytes) = 0  BY <1>2, <1>3
<1> QED BY <1>2, <1>4, EmptySeq

(* Two buffers, one behind the other.                                      *)
LEMMA OctetsConcat ==
  ASSUME NEW s \in Octets, NEW t \in Octets
  PROVE  /\ s \o t \in Octets /\ Len(s \o t) = Len(s) + Len(t)
         /\ Len(s) \in Nat /\ Len(t) \in Nat
         /\ \A k \in 1..Len(s) : (s \o t)[k] = s[k]
         /\ \A k \in 1..Len(t) : (s \o t)[Len(s) + k] = t[k]
<1> DEFINE l == Len(s)
           m == Len(t)
           both == s \o t
<1>1. /\ both \in Octets /\ Len(both) = l + m /\ l \in Nat /\ m \in Nat
      /\ \A k \in 1..(l + m) : both[k] = IF k <= l THEN s[k] ELSE t[k - l]
  BY ConcatProperties DEF Octets
<1> HIDE DEF l, m, both
<1>2. \A k \in 1..l : both[k] = s[k]  BY <1>1
<1>3. ASSUME NEW k \in 1..m PROVE both[l + k] = t[k]
  <2>1. l + k \in 1..(l + m) /\ ~(l + k <= l) /\ (l + k) - l = k  BY <1>1
  <2> QED BY <1>1, <2>1
<1> QED BY <1>1, <1>2, <1>3 DEF l, m, both

(* A buffer holds itself.                                                  *)
LEMMA HasAtWhole == ASSUME NEW b \in Octets PROVE HasAt(b, 1, b)
<1> DEFINE l == Len(b)
<1>1. l \in Nat  BY OctetsAre
<1> HIDE DEF l
<1>2. 1 + l - 1 <= l /\ \A k \in 1..l : 1 + k - 1 = k  BY <1>1
<1> QED BY <1>2 DEF HasAt, l

(* What a buffer holds it holds part by part.                              *)
LEMMA HasAtParts ==
  ASSUME NEW b \in Octets, NEW s \in Octets, NEW t \in Octets, NEW i, HasAt(b, i, s \o t)
  PROVE  HasAt(b, i, s) /\ HasAt(b, i + Len(s), t)
<1> DEFINE l == Len(s)
           m == Len(t)
           both == s \o t
<1>1. /\ Len(both) = l + m /\ l \in Nat /\ m \in Nat
      /\ \A k \in 1..l : both[k] = s[k]
      /\ \A k \in 1..m : both[l + k] = t[k]
  BY OctetsConcat
<1>2. /\ i \in Nat \ {0} /\ i + Len(both) - 1 <= Len(b)
      /\ \A k \in 1..Len(both) : b[i + k - 1] = both[k]
  BY DEF HasAt
<1>3. Len(b) \in Nat  BY OctetsAre
<1> HIDE DEF l, m, both
<1>4. HasAt(b, i, s)
  <2>1. \A k \in 1..l : k \in 1..Len(both)  BY <1>1
  <2>2. \A k \in 1..l : b[i + k - 1] = s[k]  BY <1>1, <1>2, <2>1
  <2>3. i + l - 1 <= Len(b)  BY <1>1, <1>2, <1>3
  <2> QED BY <1>2, <2>2, <2>3 DEF HasAt, l
<1>5. HasAt(b, i + l, t)
  <2>1. ASSUME NEW k \in 1..m PROVE b[i + l + k - 1] = t[k]
    <3>1. l + k \in 1..Len(both) /\ i + (l + k) - 1 = i + l + k - 1  BY <1>1, <1>2
    <3>2. b[i + (l + k) - 1] = both[l + k]  BY <1>2, <3>1
    <3> QED BY <1>1, <3>1, <3>2
  <2>2. i + l \in Nat \ {0} /\ i + l + m - 1 <= Len(b)  BY <1>1, <1>2, <1>3
  <2> QED BY <2>1, <2>2 DEF HasAt, m
<1> QED BY <1>4, <1>5 DEF l

(* What stands within a part.                                              *)
LEMMA HasAtWithin ==
  ASSUME NEW b \in Octets, NEW s \in Octets, NEW t \in Octets, NEW i, NEW j,
         HasAt(b, i, s), HasAt(s, j, t)
  PROVE  HasAt(b, i + j - 1, t)
<1> DEFINE l == Len(s)
           m == Len(t)
<1>1. l \in Nat /\ m \in Nat /\ Len(b) \in Nat  BY OctetsAre
<1>2. i \in Nat \ {0} /\ i + l - 1 <= Len(b) /\ \A k \in 1..l : b[i + k - 1] = s[k]
  BY DEF HasAt
<1>3. j \in Nat \ {0} /\ j + m - 1 <= l /\ \A k \in 1..m : s[j + k - 1] = t[k]
  BY DEF HasAt
<1> HIDE DEF l, m
<1>4. ASSUME NEW k \in 1..m PROVE b[i + j - 1 + k - 1] = t[k]
  <2>1. j + k - 1 \in 1..l /\ i + (j + k - 1) - 1 = i + j - 1 + k - 1  BY <1>1, <1>2, <1>3
  <2>2. b[i + (j + k - 1) - 1] = s[j + k - 1]  BY <1>2, <2>1
  <2> QED BY <1>3, <2>1, <2>2
<1>5. i + j - 1 \in Nat \ {0} /\ i + j - 1 + m - 1 <= Len(b)  BY <1>1, <1>2, <1>3
<1> QED BY <1>4, <1>5 DEF HasAt, m

(* What a buffer holds may be cut out of it.                               *)
LEMMA HasAtCut ==
  ASSUME NEW b \in Octets, NEW s \in Octets, NEW i, HasAt(b, i, s)
  PROVE  SubSeq(b, i, i + Len(s) - 1) = s
<1> DEFINE l == Len(s)
           got == SubSeq(b, i, i + l - 1)
<1>1. l \in Nat /\ Len(b) \in Nat  BY OctetsAre
<1>2. i \in Nat \ {0} /\ i + l - 1 <= Len(b) /\ \A k \in 1..l : b[i + k - 1] = s[k]
  BY DEF HasAt
<1>3. b \in Seq(Octet) /\ s \in Seq(Octet)  BY DEF Octets
<1> HIDE DEF l
<1>4. \A k \in i..(i + l - 1) : b[k] \in Octet
  <2>1. \A k \in i..(i + l - 1) : k \in 1..Len(b)  BY <1>1, <1>2
  <2> QED BY <1>3, <2>1
<1>5. /\ got \in Seq(Octet) /\ Len(got) = IF i <= i + l - 1 THEN (i + l - 1) - i + 1 ELSE 0
      /\ \A k \in 1..((i + l - 1) - i + 1) : got[k] = b[i + k - 1]
  <2>1. i \in Int /\ i + l - 1 \in Int  BY <1>1, <1>2
  <2> QED BY <1>4, <2>1, SubSeqProperties
<1> HIDE DEF got
<1>6. Len(got) = l /\ (i + l - 1) - i + 1 = l  BY <1>1, <1>2, <1>5
<1>7. \A k \in 1..l : got[k] = s[k]  BY <1>2, <1>5, <1>6
<1>8. got = s
  <2>1. Len(got) = Len(s) /\ \A k \in 1..Len(got) : got[k] = s[k]  BY <1>6, <1>7 DEF l
  <2> QED BY <1>3, <1>5, <2>1, SeqEqual
<1> QED BY <1>8 DEF got, l

(* The k-th number of a layout stands where the buffer holds the layout.   *)
LEMMA LaidOutAt ==
  ASSUME NEW b \in Octets, NEW i, NEW nums, NEW bytes, NEW code, IsCode(code), NEW starts,
         Layout(starts, nums, bytes, code), HasAt(b, i, bytes), NEW k \in 1..Len(nums)
  PROVE  /\ HasAt(b, i + starts[k] - 1, code[nums[k]])
         /\ i + starts[k + 1] - 1 = (i + starts[k] - 1) + Len(code[nums[k]])
<1>1. /\ HasAt(bytes, starts[k], code[nums[k]])
      /\ starts[k + 1] = starts[k] + Len(code[nums[k]])
      /\ bytes \in Octets /\ nums[k] \in DOMAIN code
  BY DEF Layout
<1>2. code[nums[k]] \in Octets /\ Len(code[nums[k]]) \in Nat  BY <1>1 DEF IsCode
<1>3. i \in Nat /\ starts[k] \in Nat  BY <1>1 DEF HasAt
<1>4. HasAt(b, i + starts[k] - 1, code[nums[k]])  BY <1>1, <1>2, HasAtWithin
<1> QED BY <1>1, <1>2, <1>3, <1>4

(* f holds the bytes of the first numbers, of ever more of them.           *)
IsJoined(f, nums, code) ==
  f = [k \in 0..Len(nums) |-> IF k = 0 THEN <<>> ELSE f[k - 1] \o code[nums[k]]]

(* Encoding one number behind the other defines a function.                *)
LEMMA JoinedExists ==
  ASSUME NEW code, IsCode(code), NEW nums \in Seq(DOMAIN code)
  PROVE  \E f : IsJoined(f, nums, code)
<1> DEFINE n == Len(nums)
           S == [k \in 0..n |-> Octets]
           g == [kx \in (1..n) \X Octets |-> kx[2] \o code[nums[kx[1]]]]
<1>0. n \in Nat  OBVIOUS
<1>1. \A k \in 0..n : S[k] = Octets  OBVIOUS
<1>2. ASSUME NEW k \in 1..n, NEW x \in Octets
      PROVE  g[<<k, x>>] = x \o code[nums[k]] /\ g[<<k, x>>] \in Octets
  <2>1. nums[k] \in DOMAIN code  OBVIOUS
  <2>2. code[nums[k]] \in Octets  BY <2>1 DEF IsCode
  <2>3. x \o code[nums[k]] \in Octets  BY <2>2, OctetsConcat
  <2>4. g[<<k, x>>] = x \o code[nums[k]]  OBVIOUS
  <2> QED BY <2>3, <2>4
<1> HIDE DEF g, S, n
<1>3. PICK t : IsTrace(t, n, <<>>, g) /\ Within(t, n, S)
  <2>1. <<>> \in S[0]
    <3>1. 0 \in 0..n  BY <1>0
    <3>2. <<>> \in Octets  BY DEF Octets
    <3> QED BY <1>1, <3>1, <3>2
  <2>2. \A k \in 1..n : \A x \in S[k - 1] : g[<<k, x>>] \in S[k]
    <3> SUFFICES ASSUME NEW k \in 1..n, NEW x \in S[k - 1] PROVE g[<<k, x>>] \in S[k]
      OBVIOUS
    <3>1. k \in 0..n /\ k - 1 \in 0..n  BY <1>0
    <3> QED BY <1>1, <1>2, <3>1
  <2> QED BY <1>0, <2>1, <2>2, Trace
<1>4. \A k \in 0..n : t[k] \in Octets  BY <1>1, <1>3 DEF Within
<1>5. t = [k \in 0..n |-> IF k = 0 THEN <<>> ELSE g[<<k, t[k - 1]>>]]  BY <1>3 DEF IsTrace
<1>6. \A k \in 0..n : k # 0 => g[<<k, t[k - 1]>>] = t[k - 1] \o code[nums[k]]
  <2> SUFFICES ASSUME NEW k \in 0..n, k # 0
               PROVE  g[<<k, t[k - 1]>>] = t[k - 1] \o code[nums[k]]
    OBVIOUS
  <2>1. k \in 1..n /\ k - 1 \in 0..n  BY <1>0
  <2> QED BY <1>2, <1>4, <2>1
<1>7. IsJoined(t, nums, code)  BY <1>5, <1>6, Zenon DEF IsJoined, n
<1> QED BY <1>7

(* The bytes of numbers that are joined are laid out one after the other.  *)
LEMMA JoinedLaidOut ==
  ASSUME NEW code, IsCode(code), NEW nums \in Seq(DOMAIN code), NEW f, IsJoined(f, nums, code)
  PROVE  IsLaidOut(nums, f[Len(nums)], code)
<1> DEFINE n == Len(nums)
           first(k) == SubSeq(nums, 1, k)
           T == {k \in 0..n : IsLaidOut(first(k), f[k], code)}
<1>0. n \in Nat  OBVIOUS
<1>1. \A k \in 0..n : f[k] = IF k = 0 THEN <<>> ELSE f[k - 1] \o code[nums[k]]
  BY Zenon DEF IsJoined
<1>2. 0 \in T
  <2>1. first(0) = <<>>  BY SubSeqEmpty
  <2>2. f[0] = <<>> /\ 0 \in 0..n  BY <1>0, <1>1
  <2> QED BY <2>1, <2>2, EmptyLaidOut
<1>3. ASSUME NEW k \in 1..n, k - 1 \in T PROVE k \in T
  <2>1. k \in 0..n /\ k # 0 /\ nums[k] \in DOMAIN code  OBVIOUS
  <2>2. first(k) = first(k - 1) \o <<nums[k]>>
    <3>1. 1 \in 1..n /\ k \in 1..n  BY <1>0
    <3> QED BY <3>1, SubSeqRecursiveSecond
  <2>3. first(k - 1) \o <<nums[k]>> = Append(first(k - 1), nums[k])
    <3>1. first(k - 1) \in Seq(DOMAIN code)
      <4> DEFINE x == first(k - 1)
      <4>1. \A j \in 1..(k - 1) : nums[j] \in DOMAIN code  OBVIOUS
      <4> QED BY <4>1, SubSeqProperties
    <3> HIDE DEF first
    <3> QED BY <2>1, <3>1, AppendIsConcat
  <2>4. IsLaidOut(first(k - 1), f[k - 1], code)  BY <1>3
  <2>5. f[k] = f[k - 1] \o code[nums[k]]  BY <1>1, <2>1
  <2> HIDE DEF first
  <2>6. IsLaidOut(Append(first(k - 1), nums[k]), f[k - 1] \o code[nums[k]], code)
    BY <2>1, <2>4, Added
  <2> QED BY <2>1, <2>2, <2>3, <2>5, <2>6
<1>4. n \in T
  <2> HIDE DEF T, n
  <2>1. \A k \in 0..n : k \in T  BY <1>0, <1>2, <1>3, UpTo
  <2> QED BY <1>0, <2>1
<1>5. first(n) = nums  BY SubSeqFull
<1> QED BY <1>4, <1>5

(* A number of version 6 is one byte or more.                               *)
LEMMA SdnvBytes ==
  ASSUME NEW n \in Nat PROVE Sdnv!Encode(n) \in Octets /\ Len(Sdnv!Encode(n)) \in Nat \ {0}
<1> DEFINE s == Sdnv!Encode(n)
           c == Sdnv!Carried[n \div 128]
<1>1. Grouped(n, c, s)  BY SdnvGrouped
<1> HIDE DEF s, c
<1>2. s \in Octets /\ Len(s) = Len(c) + 1 /\ Len(c) \in Nat  BY <1>1 DEF Grouped, Carrying
<1> QED BY <1>2 DEF s

(* An item of version 7 is one byte or more.                                *)
LEMMA CborBytes ==
  ASSUME NEW tag \in 0..7, NEW val, Cbor!Fits(val)
  PROVE  Cbor!Encode(tag, val) \in Octets /\ Len(Cbor!Encode(tag, val)) \in Nat \ {0}
<1> DEFINE s == Cbor!Encode(tag, val)
           n == Cbor!Length(val)
<1>1. s \in Octets /\ Len(s) = n + 1  BY CborItem DEF IsItem
<1>2. val \in Nat  BY DEF Cbor!Fits
<1>3. n \in {0, 1, 2, 4, 8}  BY <1>2, CborLength DEF FirstByte
<1> HIDE DEF s, n
<1> QED BY <1>1, <1>3 DEF s

(* The numbers of version 6 as a code.                                     *)
SdnvCode == [n \in Nat |-> Sdnv!Encode(n)]

(* SDNVs give each natural number bytes of its own.                        *)
LEMMA SdnvIsCode == IsCode(SdnvCode) /\ DOMAIN SdnvCode = Nat
<1> DEFINE code == SdnvCode
<1>1. DOMAIN code = Nat /\ \A n \in Nat : code[n] = Sdnv!Encode(n)  BY DEF SdnvCode
<1>2. code = [n \in Nat |-> code[n]]  BY DEF SdnvCode
<1> HIDE DEF code
<1>3. \A n \in Nat : code[n] \in Octets /\ Len(code[n]) \in Nat \ {0}  BY <1>1, SdnvBytes
<1> QED BY <1>1, <1>2, <1>3 DEF IsCode, code

(* A decoder that reads number after number from position i on arrives at  *)
(* the position of each.                                                   *)
IsWalk(at, b, i, m) ==
  at = [k \in 1..m |-> IF k = 1 THEN i ELSE Sdnv!Behind(b, at[k - 1])]

Walk(b, i, m) == CHOOSE at : IsWalk(at, b, i, m)

(* Walking over SDNVs from one to the next meets each number of the        *)
(* sequence, and ends behind the last.                                     *)
LEMMA SdnvWalk ==
  ASSUME NEW b \in Octets, NEW i \in Nat, NEW nums \in Seq(Nat), NEW bytes,
         IsLaidOut(nums, bytes, SdnvCode), HasAt(b, i, bytes),
         NEW n \in Nat, n = Len(nums), NEW m, m = n + 1
  PROVE  /\ \A k \in 1..n : Sdnv!Decode(b, Walk(b, i, m)[k]) = nums[k]
         /\ Walk(b, i, m)[m] = i + Len(bytes)
<1>1. PICK starts : Layout(starts, nums, bytes, SdnvCode)  BY DEF IsLaidOut
<1> DEFINE pos == [k \in 1..(n + 1) |-> i + starts[k] - 1]
           at == Walk(b, i, m)
<1>2. /\ starts \in [1..(n + 1) -> Nat \ {0}] /\ starts[1] = 1 /\ starts[n + 1] = Len(bytes) + 1
      /\ bytes \in Octets
  BY <1>1 DEF Layout
<1>3. pos[1] = i /\ pos[n + 1] = i + Len(bytes)
  <2>1. Len(bytes) \in Nat  BY <1>2, OctetsAre
  <2>2. 1 \in 1..(n + 1) /\ n + 1 \in 1..(n + 1)  OBVIOUS
  <2>3. pos[1] = i + starts[1] - 1 /\ pos[n + 1] = i + starts[n + 1] - 1  BY <2>2
  <2> HIDE DEF pos
  <2> QED BY <1>2, <2>1, <2>3
<1>4. ASSUME NEW k \in 1..n
      PROVE  Sdnv!Decode(b, pos[k]) = nums[k] /\ Sdnv!Behind(b, pos[k]) = pos[k + 1]
  <2> DEFINE s == SdnvCode[nums[k]]
  <2>1. nums[k] \in Nat /\ k \in 1..(n + 1) /\ k + 1 \in 1..(n + 1)  OBVIOUS
  <2>2. s = Sdnv!Encode(nums[k])  BY <2>1 DEF SdnvCode
  <2>3. pos[k] = i + starts[k] - 1 /\ pos[k + 1] = i + starts[k + 1] - 1  BY <2>1
  <2> HIDE DEF pos, s
  <2>4. HasAt(b, i + starts[k] - 1, s) /\ i + starts[k + 1] - 1 = (i + starts[k] - 1) + Len(s)
    BY <1>1, SdnvIsCode, LaidOutAt DEF s
  <2>5. HasAt(b, pos[k], Sdnv!Encode(nums[k]))  BY <2>2, <2>3, <2>4
  <2>6. Sdnv!Decode(b, pos[k]) = nums[k] /\ Sdnv!Behind(b, pos[k]) = pos[k] + Len(s)
    BY <2>1, <2>2, <2>5, SdnvDecodes
  <2> QED BY <2>3, <2>4, <2>6
<1>5. pos = [k \in 1..(n + 1) |-> pos[k]]  OBVIOUS
<1> HIDE DEF pos
<1>6. ASSUME NEW k \in 1..(n + 1)
      PROVE  pos[k] = IF k = 1 THEN i ELSE Sdnv!Behind(b, pos[k - 1])
  <2>1. CASE k = 1  BY <1>3, <2>1
  <2>2. CASE k # 1
    <3>1. k - 1 \in 1..n /\ (k - 1) + 1 = k  BY <2>2
    <3> QED BY <1>4, <2>2, <3>1
  <2> QED BY <2>1, <2>2
<1>7. IsWalk(pos, b, i, m)  BY <1>5, <1>6, Zenon DEF IsWalk
<1>8. IsWalk(at, b, i, m)  BY <1>7, Zenon DEF Walk
<1> HIDE DEF at
<1>9. \A k \in 1..(n + 1) : at[k] = IF k = 1 THEN i ELSE Sdnv!Behind(b, at[k - 1])
  BY <1>8, Zenon DEF IsWalk
<1>10. \A k \in 1..(n + 1) : at[k] = pos[k]
  <2> DEFINE T == {k \in 0..n : at[k + 1] = pos[k + 1]}
  <2>1. 0 \in T
    <3>1. 1 \in 1..(n + 1) /\ 0 + 1 = 1 /\ 0 \in 0..n  OBVIOUS
    <3> QED BY <1>3, <1>9, <3>1
  <2>2. ASSUME NEW k \in 1..n, k - 1 \in T PROVE k \in T
    <3>1. /\ k + 1 \in 1..(n + 1) /\ k + 1 # 1 /\ (k + 1) - 1 = k /\ (k - 1) + 1 = k
          /\ k \in 0..n
      OBVIOUS
    <3>2. at[k] = pos[k]  BY <2>2, <3>1
    <3> QED BY <1>6, <1>9, <3>1, <3>2
  <2>3. \A k \in 0..n : k \in T
    <3> HIDE DEF T
    <3> QED BY <2>1, <2>2, UpTo
  <2> SUFFICES ASSUME NEW k \in 1..(n + 1) PROVE at[k] = pos[k]  OBVIOUS
  <2>4. k - 1 \in 0..n /\ (k - 1) + 1 = k  OBVIOUS
  <2> QED BY <2>3, <2>4
<1>11. \A k \in 1..n : k \in 1..(n + 1)  OBVIOUS
<1>12. n + 1 \in 1..(n + 1)  OBVIOUS
<1> QED BY <1>3, <1>4, <1>10, <1>11, <1>12 DEF at
=============================================================================
