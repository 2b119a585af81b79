--------------------------- MODULE HuffmanProofs ---------------------------
(***************************************************************************)
(* What module Huffman promises, for every prefix-free code whose end of   *)
(* string begins with ones, octets of any number of bits, and texts and    *)
(* blocks of any length.                                                   *)
(***************************************************************************)
EXTENDS Huffman, SequenceTheorems, WellFoundedInduction, TLAPS

-----------------------------------------------------------------------------
(* Numbers and sequences.                                                  *)

LEMMA LeastNatural ==
  ASSUME NEW S \in SUBSET Nat, S # {}
  PROVE  \E x \in S : \A y \in S : x <= y
<1>1. PICK x \in S : \A y \in S : ~(<<y, x>> \in OpToRel(<, Nat))
  BY NatLessThanWellFounded, WFMin, Zenon
<1>2. \A y \in S : <<y, x>> \in OpToRel(<, Nat) <=> y < x
  BY <1>1 DEF OpToRel
<1>3. \A y \in S : ~(y < x)
  BY <1>1, <1>2
<1>4. x \in Nat /\ \A y \in S : y \in Nat
  BY <1>1
<1>5. \A y \in S : x <= y
  BY <1>3, <1>4
<1>6. QED
  BY <1>1, <1>5

\* Octet and bit of a position are its quotient and remainder.
LEMMA Division ==
  ASSUME NEW b \in Nat \ {0}, NEW q \in Int
  PROVE  q \div b \in Int /\ q % b \in 0 .. b - 1 /\ q = (q \div b) * b + (q % b)
OBVIOUS

\* What is missing to a whole number of octets makes it whole.
LEMMA FilledUp ==
  ASSUME NEW b \in Nat \ {0}, NEW l \in Nat
  PROVE  /\ (-l) % b \in 0 .. b - 1
         /\ ((l + ((-l) % b)) \div b) * b = l + ((-l) % b)
         /\ (l + ((-l) % b)) \div b \in Nat
<1> DEFINE k == -l
           d == (-l) \div b
           r == (-l) % b
<1>1. (-l) % b \in 0 .. b - 1 /\ (-l) = ((-l) \div b) * b + ((-l) % b) /\ (-l) \div b \in Int
  <2>1. k \in Int
    OBVIOUS
  <2> HIDE DEF k
  <2>2. k % b \in 0 .. b - 1 /\ k = (k \div b) * b + (k % b) /\ k \div b \in Int
    BY ONLY <2>1, Division, b \in Nat \ {0}
  <2>3. QED
    BY <2>2, Zenon DEF k
<1> HIDE DEF d, r
<1>2. r \in 0 .. b - 1 /\ d \in Int /\ -l = d * b + r
  BY <1>1 DEF d, r
<1>3. l + r = (-d) * b
  BY <1>2
<1>4. (l + r) \div b = -d
  BY <1>2, <1>3
<1>5. -d \in Nat
  BY <1>2, <1>3
<1>6. QED
  BY <1>2, <1>3, <1>4, <1>5 DEF r

LEMMA QuotientBelow ==
  ASSUME NEW b \in Nat \ {0}, NEW n \in Nat, NEW q \in Nat, q < n * b
  PROVE  q \div b \in 0 .. n - 1
OBVIOUS

LEMMA Joined ==
  ASSUME NEW S, NEW u \in Seq(S), NEW v \in Seq(S)
  PROVE  /\ u \o v \in Seq(S) /\ Len(u \o v) = Len(u) + Len(v)
         /\ \A k \in 1 .. Len(u) : (u \o v)[k] = u[k]
         /\ \A k \in 1 .. Len(v) : (u \o v)[Len(u) + k] = v[k]
OBVIOUS

LEMMA Appended ==
  ASSUME NEW S, NEW u \in Seq(S), NEW x \in S
  PROVE  /\ Append(u, x) \in Seq(S) /\ Len(Append(u, x)) = Len(u) + 1
         /\ \A k \in 1 .. Len(u) : Append(u, x)[k] = u[k]
         /\ Append(u, x)[Len(u) + 1] = x
OBVIOUS

LEMMA Beginning ==
  ASSUME NEW S, NEW u \in Seq(S), NEW n \in 0 .. Len(u)
  PROVE  /\ SubSeq(u, 1, n) \in Seq(S) /\ Len(SubSeq(u, 1, n)) = n
         /\ \A k \in 1 .. n : SubSeq(u, 1, n)[k] = u[k]
OBVIOUS

LEMMA SameSequence ==
  ASSUME NEW S, NEW u \in Seq(S), NEW v \in Seq(S), Len(u) = Len(v),
         \A k \in 1 .. Len(u) : u[k] = v[k]
  PROVE  u = v
OBVIOUS

LEMMA PrefixIs ==
  ASSUME NEW S, NEW u \in Seq(S), NEW v \in Seq(S)
  PROVE  IsPrefix(u, v) <=> Len(u) <= Len(v) /\ \A k \in 1 .. Len(u) : u[k] = v[k]
<1> DEFINE p == SubSeq(u, 1, Len(u))
           q == SubSeq(v, 1, Len(u))
<1>1. p = u
  OBVIOUS
<1>2. ASSUME Len(u) <= Len(v)
      PROVE  q \in Seq(S) /\ Len(q) = Len(u) /\ \A k \in 1 .. Len(u) : q[k] = v[k]
  BY <1>2
<1>3. ASSUME Len(u) <= Len(v), \A k \in 1 .. Len(u) : u[k] = v[k] PROVE u = q
  BY <1>2, <1>3, SameSequence
<1> HIDE DEF p, q
<1>4. IsPrefix(u, v) <=> Len(u) <= Len(v) /\ u = q
  BY <1>1 DEF IsPrefix, p, q
<1>5. QED
  BY <1>2, <1>3, <1>4

-----------------------------------------------------------------------------
(* FlattenSeq.                                                             *)

\* Its recursive function, on the first n sequences.
FlatTo(ss, n, f) ==
  f = [k \in 1 .. n |-> IF k = 1 THEN ss[k] ELSE f[k - 1] \o ss[k]]

LEMMA FlatExists ==
  ASSUME NEW S, NEW ss \in Seq(Seq(S)), NEW n \in 0 .. Len(ss)
  PROVE  \E f : FlatTo(ss, n, f)
<1> DEFINE Without == {k \in Nat : k <= Len(ss) /\ ~\E f : FlatTo(ss, k, f)}
<1>1. SUFFICES ASSUME Without # {} PROVE FALSE
  OBVIOUS
<1>2. PICK k \in Without : \A j \in Without : k <= j
  BY <1>1, LeastNatural
<1>3. CASE k = 0
  <2> DEFINE f == [j \in 1 .. 0 |-> <<>>]
  <2>1. FlatTo(ss, 0, f)
    BY DEF FlatTo
  <2>2. QED
    BY <1>2, <1>3, <2>1
<1>4. CASE k # 0
  <2>1. k - 1 \in Nat /\ k - 1 <= Len(ss) /\ k \in 1 .. Len(ss) /\ k - 1 \notin Without
    <3>0. Len(ss) \in Nat
      OBVIOUS
    <3>1. k \in Nat /\ k <= Len(ss)
      BY <1>2
    <3>2. k - 1 \in Nat /\ k - 1 <= Len(ss) /\ k \in 1 .. Len(ss) /\ ~(k <= k - 1)
      BY <1>4, <3>0, <3>1
    <3> HIDE DEF Without
    <3>3. QED
      BY <1>2, <3>2, Zenon
  <2>2. PICK f : FlatTo(ss, k - 1, f)
    BY <2>1
  <2> DEFINE g == [j \in 1 .. k |->
                     IF j < k THEN f[j] ELSE IF k = 1 THEN ss[k] ELSE f[k - 1] \o ss[k]]
  <2>3. ASSUME NEW j \in 1 .. k
        PROVE  g[j] = IF j = 1 THEN ss[j] ELSE g[j - 1] \o ss[j]
    <3>1. CASE j < k
      <4>1. j \in 1 .. k - 1 /\ (j # 1 => j - 1 \in 1 .. k - 1 /\ j - 1 \in 1 .. k)
        BY <2>1, <3>1
      <4>2. f[j] = IF j = 1 THEN ss[j] ELSE f[j - 1] \o ss[j]
        BY <2>2, <4>1 DEF FlatTo
      <4>3. g[j] = f[j] /\ (j # 1 => g[j - 1] = f[j - 1])
        BY <2>1, <3>1, <4>1
      <4>4. QED
        BY <4>2, <4>3
    <3>2. CASE j = k
      <4>1. k # 1 => k - 1 \in 1 .. k /\ k - 1 < k
        BY <2>1
      <4>2. g[k] = (IF k = 1 THEN ss[k] ELSE f[k - 1] \o ss[k]) /\ (k # 1 => g[k - 1] = f[k - 1])
        BY <2>1, <4>1
      <4>3. QED
        BY <3>2, <4>2
    <3>3. QED
      BY <2>1, <3>1, <3>2
  <2>4. g = [j \in 1 .. k |-> g[j]]
    OBVIOUS
  <2> HIDE DEF g
  <2>5. FlatTo(ss, k, g)
    <3>1. [j \in 1 .. k |-> g[j]] =
            [j \in 1 .. k |-> IF j = 1 THEN ss[j] ELSE g[j - 1] \o ss[j]]
      BY <2>3
    <3>2. QED
      BY <2>4, <3>1 DEF FlatTo
  <2>6. QED
    BY <1>2, <2>5
<1>5. QED
  BY <1>3, <1>4

\* What it is at each index.
FlatAt(S, ss, n, f) ==
  \A k \in 1 .. n : /\ f[k] \in Seq(S)
                    /\ f[k] = IF k = 1 THEN ss[k] ELSE f[k - 1] \o ss[k]

LEMMA FlatSteps ==
  ASSUME NEW S, NEW ss \in Seq(Seq(S)), NEW n \in 0 .. Len(ss), NEW f, FlatTo(ss, n, f)
  PROVE  FlatAt(S, ss, n, f)
<1>1. ASSUME NEW k \in 1 .. n PROVE f[k] = IF k = 1 THEN ss[k] ELSE f[k - 1] \o ss[k]
  BY Zenon DEF FlatTo
<1> DEFINE Without == {k \in Nat : k \in 1 .. n /\ f[k] \notin Seq(S)}
<1>2. ASSUME Without # {} PROVE FALSE
  <2>1. PICK k \in Without : \A j \in Without : k <= j
    BY <1>2, LeastNatural
  <2>2. ss[k] \in Seq(S)
    BY <2>1
  <2>3. CASE k = 1
    BY <1>1, <2>1, <2>2, <2>3
  <2>4. CASE k # 1
    <3>1. k - 1 \in 1 .. n /\ k - 1 \notin Without /\ k - 1 \in Nat
      BY <2>1, <2>4
    <3>2. f[k - 1] \in Seq(S)
      BY <3>1
    <3>3. f[k] = f[k - 1] \o ss[k]
      BY <1>1, <2>1, <2>4
    <3>4. f[k - 1] \o ss[k] \in Seq(S)
      BY <2>2, <3>2, Joined
    <3>5. f[k] \notin Seq(S)
      BY <2>1
    <3>6. QED
      BY <3>3, <3>4, <3>5, Zenon
  <2>5. QED
    BY <2>3, <2>4
<1>3. ASSUME NEW k \in 1 .. n PROVE f[k] \in Seq(S)
  BY <1>2
<1>4. QED
  BY <1>1, <1>3, Zenon DEF FlatAt

LEMMA FlatteningIs ==
  ASSUME NEW S, NEW ss \in Seq(Seq(S))
  PROVE  \E f : /\ FlatTo(ss, Len(ss), f)
                /\ FlattenSeq(ss) = IF Len(ss) = 0 THEN ss ELSE f[Len(ss)]
<1> DEFINE g == CHOOSE f : FlatTo(ss, Len(ss), f)
<1>1. FlatTo(ss, Len(ss), g)
  BY FlatExists
<1>2. FlattenSeq(ss) = IF Len(ss) = 0 THEN ss ELSE g[Len(ss)]
  BY Zenon DEF FlattenSeq, FlatTo
<1>3. QED
  BY <1>1, <1>2, Zenon

\* One more sequence comes to the end.
LEMMA FlattenAppend ==
  ASSUME NEW S, NEW ss \in Seq(Seq(S)), NEW x \in Seq(S)
  PROVE  /\ FlattenSeq(ss) \in Seq(S)
         /\ FlattenSeq(Append(ss, x)) = FlattenSeq(ss) \o x
         /\ Len(ss) = 0 => FlattenSeq(ss) = <<>>
<1> DEFINE n == Len(ss)
           tt == Append(ss, x)
<1>1. /\ n \in Nat /\ tt \in Seq(Seq(S)) /\ Len(tt) = n + 1 /\ tt[n + 1] = x
      /\ \A k \in 1 .. n : tt[k] = ss[k]
  OBVIOUS
<1>2. PICK f : FlatTo(ss, n, f) /\ FlattenSeq(ss) = IF n = 0 THEN ss ELSE f[n]
  BY FlatteningIs
<1>3. PICK g : FlatTo(tt, n + 1, g) /\ FlattenSeq(tt) = g[n + 1]
  <2>1. \E g : FlatTo(tt, Len(tt), g) /\ FlattenSeq(tt) = IF Len(tt) = 0 THEN tt ELSE g[Len(tt)]
    BY <1>1, FlatteningIs
  <2>2. n + 1 # 0
    BY <1>1
  <2>3. QED
    BY <1>1, <2>1, <2>2
<1>4. \A k \in 1 .. n : f[k] \in Seq(S) /\ f[k] = IF k = 1 THEN ss[k] ELSE f[k - 1] \o ss[k]
  <2>1. n \in 0 .. Len(ss)
    BY <1>1
  <2>2. FlatAt(S, ss, n, f)
    BY <1>2, <2>1, FlatSteps, Zenon
  <2>3. QED
    BY <2>2, Zenon DEF FlatAt
<1>5. \A k \in 1 .. n + 1 : g[k] = IF k = 1 THEN tt[k] ELSE g[k - 1] \o tt[k]
  <2>1. n + 1 \in 0 .. Len(tt)
    BY <1>1
  <2>2. FlatTo(tt, n + 1, g) /\ tt \in Seq(Seq(S))
    BY <1>1, <1>3
  <2>3. FlatAt(S, tt, n + 1, g)
    BY <2>1, <2>2, FlatSteps, Zenon
  <2>4. QED
    BY <2>3, Zenon DEF FlatAt
<1> HIDE DEF n, tt
<1>6. \A k \in 1 .. n : g[k] = f[k]
  <2> DEFINE Different == {k \in Nat : k \in 1 .. n /\ g[k] # f[k]}
  <2>1. ASSUME Different # {} PROVE FALSE
    <3>1. PICK k \in Different : \A j \in Different : k <= j
      BY <2>1, LeastNatural
    <3>2. k \in 1 .. n /\ k \in 1 .. n + 1 /\ tt[k] = ss[k]
      BY <1>1, <3>1
    <3>3. CASE k = 1
      BY <1>4, <1>5, <3>1, <3>2, <3>3
    <3>4. CASE k # 1
      <4>1. k - 1 \in 1 .. n /\ k - 1 \notin Different /\ k - 1 \in Nat
        BY <1>1, <3>1, <3>4
      <4>2. g[k - 1] = f[k - 1]
        BY <4>1
      <4>3. g[k] = g[k - 1] \o tt[k] /\ f[k] = f[k - 1] \o ss[k]
        BY <1>4, <1>5, <3>2, <3>4
      <4>4. QED
        BY <3>1, <3>2, <4>2, <4>3
    <3>5. QED
      BY <3>3, <3>4
  <2>2. QED
    BY <2>1
<1>7. CASE n = 0
  <2>1. ss = <<>> /\ \A s \in Seq(S) : <<>> \o s = s
    BY <1>7 DEF n
  <2>2. FlattenSeq(ss) = <<>> /\ <<>> \in Seq(S)
    BY <1>2, <1>7, <2>1
  <2>3. g[1] = tt[1] /\ tt[1] = x /\ FlattenSeq(tt) = g[1]
    BY <1>1, <1>3, <1>5, <1>7
  <2>4. QED
    BY <2>1, <2>2, <2>3 DEF tt
<1>8. CASE n # 0
  <2>1. n \in 1 .. n /\ n + 1 \in 1 .. n + 1 /\ n + 1 # 1 /\ (n + 1) - 1 = n
    BY <1>1, <1>8
  <2>2. g[n + 1] = g[n] \o x
    BY <1>1, <1>5, <2>1
  <2>3. g[n] = f[n] /\ f[n] \in Seq(S) /\ FlattenSeq(ss) = f[n]
    BY <1>2, <1>4, <1>6, <1>8, <2>1
  <2>4. QED
    BY <1>3, <1>8, <2>2, <2>3 DEF tt, n
<1>9. QED
  BY <1>7, <1>8

-----------------------------------------------------------------------------
(* What a string is coded as.                                              *)

LEMMA CodeOfType ==
  ASSUME NEW s \in Seq(Octet)
  PROVE  CodeOf(s) \in Seq(Bit) /\ (Len(s) = 0 => CodeOf(s) = <<>>)
<1> DEFINE codes == [k \in 1 .. Len(s) |-> Code[s[k]]]
<1>1. codes \in Seq(Seq(Bit)) /\ Len(codes) = Len(s)
  <2>1. \A k \in 1 .. Len(s) : s[k] \in Octet
    OBVIOUS
  <2>2. \A x \in Octet : Code[x] \in Seq(Bit)
    BY CodeAssumption
  <2> HIDE DEF codes
  <2>3. \A k \in 1 .. Len(s) : Code[s[k]] \in Seq(Bit)
    BY <2>1, <2>2, Zenon
  <2>4. QED
    BY <2>3 DEF codes
<1> HIDE DEF codes
<1>2. <<>> \in Seq(Bit)
  OBVIOUS
<1>3. FlattenSeq(codes) \in Seq(Bit) /\ (Len(codes) = 0 => FlattenSeq(codes) = <<>>)
  BY <1>1, <1>2, FlattenAppend, Zenon
<1>4. QED
  BY <1>1, <1>3, Zenon DEF CodeOf, codes

LEMMA CodeOfAppend ==
  ASSUME NEW s \in Seq(Octet), NEW x \in Octet
  PROVE  CodeOf(Append(s, x)) = CodeOf(s) \o Code[x]
<1> DEFINE t == Append(s, x)
           codes(u) == [k \in 1 .. Len(u) |-> Code[u[k]]]
<1>1. /\ t \in Seq(Octet) /\ Len(t) = Len(s) + 1 /\ t[Len(s) + 1] = x
      /\ \A k \in 1 .. Len(s) : t[k] = s[k]
  OBVIOUS
<1> HIDE DEF t
<1>2. ASSUME NEW u \in Seq(Octet)
      PROVE  /\ codes(u) \in Seq(Seq(Bit)) /\ Len(codes(u)) = Len(u)
             /\ \A k \in 1 .. Len(u) : codes(u)[k] = Code[u[k]]
  <2>1. \A k \in 1 .. Len(u) : u[k] \in Octet
    OBVIOUS
  <2>2. \A y \in Octet : Code[y] \in Seq(Bit)
    BY CodeAssumption
  <2>3. \A k \in 1 .. Len(u) : Code[u[k]] \in Seq(Bit)
    BY <2>1, <2>2, Zenon
  <2>4. QED
    BY <2>3
<1>3. CodeOf(s) = FlattenSeq(codes(s)) /\ CodeOf(t) = FlattenSeq(codes(t))
  BY Zenon DEF CodeOf
<1>4. Code[x] \in Seq(Bit)
  BY CodeAssumption
<1> DEFINE a == codes(s)
           b == codes(t)
           n == Len(s)
           c == Append(a, Code[x])
<1>5. /\ a \in Seq(Seq(Bit)) /\ Len(a) = n /\ b \in Seq(Seq(Bit)) /\ Len(b) = n + 1
      /\ (\A k \in 1 .. n : b[k] = a[k]) /\ b[n + 1] = Code[x] /\ n \in Nat
  <2>1. /\ a \in Seq(Seq(Bit)) /\ Len(a) = n /\ b \in Seq(Seq(Bit)) /\ Len(b) = n + 1
        /\ n \in Nat
    BY <1>1, <1>2
  <2>2. ASSUME NEW k \in 1 .. n PROVE b[k] = a[k]
    <3>1. k \in 1 .. Len(t) /\ t[k] = s[k]
      BY <1>1, <2>1
    <3>2. QED
      BY <1>1, <1>2, <3>1
  <2>3. b[n + 1] = Code[x]
    <3>1. n + 1 \in 1 .. Len(t)
      BY <1>1, <2>1
    <3>2. QED
      BY <1>1, <1>2, <3>1
  <2>4. QED
    BY <2>1, <2>2, <2>3
<1> HIDE DEF a, b, n
<1>6. /\ c \in Seq(Seq(Bit)) /\ Len(c) = n + 1 /\ c[n + 1] = Code[x]
      /\ \A k \in 1 .. n : c[k] = a[k]
  BY <1>4, <1>5, Appended
<1>7. b = c
  <2> HIDE DEF c
  <2>1. \A k \in 1 .. n + 1 : b[k] = c[k]
    BY <1>5, <1>6
  <2>2. QED
    BY <1>5, <1>6, <2>1, SameSequence
<1>8. FlattenSeq(c) = FlattenSeq(a) \o Code[x]
  BY <1>4, <1>5, FlattenAppend
<1>9. QED
  BY <1>3, <1>7, <1>8 DEF a, b, t

\* The codes of the first octets of a string come first.
LEMMA CodeOfBeginning ==
  ASSUME NEW s \in Seq(Octet), NEW n \in 0 .. Len(s)
  PROVE  /\ SubSeq(s, 1, n) \in Seq(Octet) /\ Len(SubSeq(s, 1, n)) = n
         /\ CodeOf(SubSeq(s, 1, n)) \in Seq(Bit)
         /\ n < Len(s) => /\ s[n + 1] \in Octet /\ n + 1 \in 0 .. Len(s)
                          /\ SubSeq(s, 1, n + 1) = Append(SubSeq(s, 1, n), s[n + 1])
                          /\ CodeOf(SubSeq(s, 1, n + 1)) = CodeOf(SubSeq(s, 1, n)) \o Code[s[n + 1]]
<1>1. SubSeq(s, 1, n) \in Seq(Octet) /\ Len(SubSeq(s, 1, n)) = n
  OBVIOUS
<1>2. CodeOf(SubSeq(s, 1, n)) \in Seq(Bit)
  BY <1>1, CodeOfType
<1>3. ASSUME n < Len(s)
      PROVE  /\ s[n + 1] \in Octet /\ n + 1 \in 0 .. Len(s)
             /\ SubSeq(s, 1, n + 1) = Append(SubSeq(s, 1, n), s[n + 1])
  BY <1>3
<1>4. QED
  BY <1>1, <1>2, <1>3, CodeOfAppend

LEMMA CodeOfPrefix ==
  ASSUME NEW s \in Seq(Octet), NEW n \in 0 .. Len(s)
  PROVE  /\ Len(CodeOf(SubSeq(s, 1, n))) <= Len(CodeOf(s))
         /\ \A k \in 1 .. Len(CodeOf(SubSeq(s, 1, n))) :
              CodeOf(s)[k] = CodeOf(SubSeq(s, 1, n))[k]
<1> DEFINE P(j) == CodeOf(SubSeq(s, 1, j))
           Starts(j) == /\ Len(P(j)) <= Len(CodeOf(s))
                        /\ \A k \in 1 .. Len(P(j)) : CodeOf(s)[k] = P(j)[k]
           Not == {d \in Nat : d <= Len(s) /\ ~Starts(Len(s) - d)}
<1>1. P(Len(s)) = CodeOf(s)
  <2>1. SubSeq(s, 1, Len(s)) = s
    OBVIOUS
  <2>2. QED
    BY <2>1
<1>2. Len(s) \in Nat /\ CodeOf(s) \in Seq(Bit)
  BY CodeOfType
<1>3. Starts(Len(s))
  <2>1. Len(CodeOf(s)) \in Nat
    BY <1>2
  <2>2. QED
    BY <1>1, <2>1
<1>4. ASSUME NEW j \in 0 .. Len(s), j < Len(s), Starts(j + 1) PROVE Starts(j)
  <2>1. /\ P(j) \in Seq(Bit) /\ s[j + 1] \in Octet
        /\ P(j + 1) = P(j) \o Code[s[j + 1]]
    BY <1>4, CodeOfBeginning
  <2> DEFINE p == P(j)
             q == P(j + 1)
             c == Code[s[j + 1]]
             w == CodeOf(s)
  <2>2. c \in Seq(Bit) /\ p \in Seq(Bit) /\ q = p \o c
    BY <2>1, CodeAssumption
  <2>3. Len(q) <= Len(w) /\ \A k \in 1 .. Len(q) : w[k] = q[k]
    BY <1>4
  <2> HIDE DEF p, q, c, w
  <2>4. Len(q) = Len(p) + Len(c) /\ \A k \in 1 .. Len(p) : q[k] = p[k]
    BY <2>2, Joined
  <2>5. Len(p) \in Nat /\ Len(c) \in Nat /\ Len(w) \in Nat
    BY <1>2, <2>2 DEF w
  <2>6. Len(p) <= Len(w) /\ \A k \in 1 .. Len(p) : w[k] = p[k]
    <3>1. Len(p) <= Len(w) /\ \A k \in 1 .. Len(p) : k \in 1 .. Len(q)
      BY <2>3, <2>4, <2>5
    <3>2. QED
      BY <2>3, <2>4, <3>1
  <2>7. QED
    BY <2>6, Zenon DEF p, w
<1> HIDE DEF Starts
<1>5. Not = {}
  <2>1. SUFFICES ASSUME Not # {} PROVE FALSE
    OBVIOUS
  <2>2. Not \in SUBSET Nat
    OBVIOUS
  <2>3. PICK d \in Not : \A e \in Not : d <= e
    BY <2>1, <2>2, LeastNatural
  <2>4. d \in Nat /\ d <= Len(s) /\ ~Starts(Len(s) - d)
    BY <2>3
  <2>5. d # 0
    <3>1. Len(s) - 0 = Len(s)
      BY <1>2
    <3>2. QED
      BY <1>3, <2>4, <3>1
  <2>6. d - 1 \in Nat /\ d - 1 <= Len(s) /\ ~(d <= d - 1)
    BY <1>2, <2>4, <2>5
  <2>7. Starts(Len(s) - (d - 1))
    BY <2>3, <2>6
  <2>8. Len(s) - d \in 0 .. Len(s) /\ Len(s) - d < Len(s) /\ (Len(s) - d) + 1 = Len(s) - (d - 1)
    BY <1>2, <2>4, <2>5
  <2>9. QED
    BY <1>4, <2>4, <2>7, <2>8
<1>6. Starts(n)
  <2>1. Len(s) - n \in Nat /\ Len(s) - n <= Len(s) /\ Len(s) - (Len(s) - n) = n
    BY <1>2
  <2>2. QED
    BY <1>5, <2>1
<1>7. QED
  BY <1>6 DEF Starts

-----------------------------------------------------------------------------
(* Octets and their bits.                                                  *)

LEMMA OctetsOfBits ==
  ASSUME NEW bits \in Seq(Bit), NEW n \in Nat, Len(bits) = n * Bits
  PROVE  /\ OctetsOf(bits) \in Seq(Octet) /\ Len(OctetsOf(bits)) = n
         /\ \A q \in 0 .. Len(bits) - 1 :
              OctetsOf(bits)[(q \div Bits) + 1][(q % Bits) + 1] = bits[q + 1]
<1> DEFINE octet(k) == [b \in 1 .. Bits |-> bits[(k - 1) * Bits + b]]
<1>1. Bits \in Nat \ {0}
  BY CodeAssumption
<1>2. Len(bits) \div Bits = n
  BY <1>1
<1>3. ASSUME NEW k \in 1 .. n, NEW b \in 1 .. Bits
      PROVE  (k - 1) * Bits + b \in 1 .. Len(bits)
  <2>1. (k - 1) * Bits + Bits = k * Bits /\ (k - 1) * Bits >= 0 /\ k * Bits <= n * Bits
    BY <1>1
  <2> DEFINE x == (k - 1) * Bits
             y == k * Bits
             z == n * Bits
  <2>2. x \in Int /\ y \in Int /\ z \in Int
    BY <1>1
  <2>3. x + Bits = y /\ x >= 0 /\ y <= z /\ Len(bits) = z
    BY <2>1
  <2> HIDE DEF x, y, z
  <2>4. x + b \in 1 .. Len(bits)
    BY <1>1, <2>2, <2>3
  <2>5. QED
    BY <2>4 DEF x
<1>4. ASSUME NEW k \in 1 .. n PROVE octet(k) \in Octet
  <2>1. \A b \in 1 .. Bits : bits[(k - 1) * Bits + b] \in Bit
    BY <1>3
  <2>2. QED
    BY <2>1 DEF Octet
<1>5. OctetsOf(bits) = [k \in 1 .. n |-> octet(k)]
  BY <1>2 DEF OctetsOf
<1> HIDE DEF octet
<1>6. OctetsOf(bits) \in Seq(Octet) /\ Len(OctetsOf(bits)) = n
  <2>1. [k \in 1 .. n |-> octet(k)] \in Seq(Octet) /\ Len([k \in 1 .. n |-> octet(k)]) = n
    BY <1>4
  <2>2. QED
    BY <1>5, <2>1
<1>7. ASSUME NEW q \in 0 .. Len(bits) - 1
      PROVE  OctetsOf(bits)[(q \div Bits) + 1][(q % Bits) + 1] = bits[q + 1]
  <2> DEFINE d == q \div Bits
             r == q % Bits
  <2>1. d \in 0 .. n - 1 /\ r \in 0 .. Bits - 1 /\ q = d * Bits + r
    <3>1. q \in Nat /\ q < n * Bits
      BY <1>1
    <3>2. d \in Int /\ r \in 0 .. Bits - 1 /\ q = d * Bits + r
      <4>1. q \in Int
        BY <3>1
      <4>2. QED
        BY ONLY <1>1, <4>1, Division
    <3>3. d \in 0 .. n - 1
      BY <1>1, <3>1, QuotientBelow
    <3>4. QED
      BY <3>2, <3>3
  <2> HIDE DEF d, r
  <2>2. d + 1 \in 1 .. n /\ r + 1 \in 1 .. Bits /\ (d + 1) - 1 = d
    BY <1>1, <2>1
  <2>3. OctetsOf(bits)[d + 1] = octet(d + 1)
    BY <1>5, <2>2
  <2>4. octet(d + 1)[r + 1] = bits[((d + 1) - 1) * Bits + (r + 1)]
    BY <2>2 DEF octet
  <2>5. ((d + 1) - 1) * Bits + (r + 1) = q + 1
    <3> DEFINE x == d * Bits
    <3>1. x \in Int /\ ((d + 1) - 1) * Bits = x
      BY <1>1, <2>1, <2>2
    <3> HIDE DEF x
    <3>2. q = x + r
      BY <2>1 DEF x
    <3>3. QED
      BY <1>1, <2>1, <3>1, <3>2
  <2>6. QED
    BY <2>3, <2>4, <2>5 DEF d, r
<1>8. QED
  BY <1>6, <1>7

\* The codes of a string, filled up.
Filled(s) == CodeOf(s) \o Ones((-Len(CodeOf(s))) % Bits)

LEMMA OnesType ==
  ASSUME NEW n \in Nat
  PROVE  Ones(n) \in Seq(Bit) /\ Len(Ones(n)) = n /\ \A k \in 1 .. n : Ones(n)[k] = 1
BY DEF Ones, Bit

LEMMA FilledIs ==
  ASSUME NEW s \in Seq(Octet)
  PROVE  /\ Filled(s) \in Seq(Bit)
         /\ Len(Filled(s)) - Len(CodeOf(s)) \in 0 .. Bits - 1
         /\ \A k \in 1 .. Len(CodeOf(s)) : Filled(s)[k] = CodeOf(s)[k]
         /\ \A k \in Len(CodeOf(s)) + 1 .. Len(Filled(s)) : Filled(s)[k] = 1
         /\ Coded(s) = OctetsOf(Filled(s)) /\ Coded(s) \in Seq(Octet)
         /\ Len(Filled(s)) = Len(Coded(s)) * Bits
         /\ \A q \in 0 .. Len(Filled(s)) - 1 :
              Coded(s)[(q \div Bits) + 1][(q % Bits) + 1] = Filled(s)[q + 1]
<1> DEFINE w == CodeOf(s)
           l == Len(w)
           m == (-l) % Bits
           f == Filled(s)
           n == (l + m) \div Bits
<1>1. w \in Seq(Bit) /\ l \in Nat /\ Bits \in Nat \ {0}
  BY CodeOfType, CodeAssumption
<1>2. m \in 0 .. Bits - 1 /\ n * Bits = l + m /\ n \in Nat
  BY <1>1, FilledUp
<1>3. f = w \o Ones(m)
  BY DEF Filled
<1>4. Coded(s) = OctetsOf(f)
  BY <1>3 DEF Coded
<1> HIDE DEF w, m, f, n
<1>5. m \in Nat /\ Ones(m) \in Seq(Bit) /\ Len(Ones(m)) = m
  BY <1>1, <1>2, OnesType
<1>6. /\ f \in Seq(Bit) /\ Len(f) = l + m
      /\ \A k \in 1 .. l : f[k] = w[k]
      /\ \A k \in 1 .. m : f[l + k] = 1
  <2> DEFINE o == Ones(m)
  <2>1. o \in Seq(Bit) /\ Len(o) = m /\ \A k \in 1 .. m : o[k] = 1
    BY <1>5, OnesType
  <2>2. f = w \o o
    BY <1>3
  <2> HIDE DEF o
  <2>3. /\ f \in Seq(Bit) /\ Len(f) = Len(w) + Len(o)
        /\ \A k \in 1 .. Len(w) : f[k] = w[k]
        /\ \A k \in 1 .. Len(o) : f[Len(w) + k] = o[k]
    <3>1. w \in Seq(Bit) /\ o \in Seq(Bit)
      BY <1>1, <2>1
    <3>2. QED
      BY ONLY <3>1, <2>2, Joined
  <2>4. QED
    BY <2>1, <2>3, Zenon
<1>7. \A k \in l + 1 .. l + m : f[k] = 1
  <2>1. ASSUME NEW k \in l + 1 .. l + m PROVE f[k] = 1
    <3> DEFINE x == l
    <3>1. x \in Nat /\ m \in Nat /\ k \in x + 1 .. x + m
      BY <1>1, <1>5
    <3> HIDE DEF x
    <3>2. k - x \in 1 .. m /\ x + (k - x) = k
      BY <3>1
    <3>3. QED
      BY <1>6, <3>2 DEF x
  <2>2. QED
    BY <2>1
<1>8. Len(f) = n * Bits
  BY <1>2, <1>6
<1>9. /\ OctetsOf(f) \in Seq(Octet) /\ Len(OctetsOf(f)) = n
      /\ \A q \in 0 .. Len(f) - 1 : OctetsOf(f)[(q \div Bits) + 1][(q % Bits) + 1] = f[q + 1]
  BY <1>2, <1>6, <1>8, OctetsOfBits
<1>10. Len(f) - l \in 0 .. Bits - 1
  <2> DEFINE x == l
  <2>1. x \in Nat /\ Len(f) = x + m
    BY <1>1, <1>6
  <2> HIDE DEF x
  <2>2. Len(f) - x \in 0 .. Bits - 1
    BY <1>1, <1>2, <2>1
  <2>3. QED
    BY <2>2 DEF x
<1>11. QED
  BY <1>4, <1>6, <1>7, <1>8, <1>9, <1>10 DEF w, f

-----------------------------------------------------------------------------
(* The tree.                                                               *)

LEMMA CodesAre ==
  ASSUME NEW s \in Symbols
  PROVE  Code[s] \in Seq(Bit) /\ Len(Code[s]) \in Nat \ {0}
<1>1. Code[s] \in Seq(Bit) /\ Code[s] # <<>>
  BY CodeAssumption
<1>2. QED
  BY <1>1

\* A node with a value is the code of that symbol.
LEMMA ValueIs ==
  ASSUME NEW node, Value(node) # None
  PROVE  Value(node) \in Symbols /\ Code[Value(node)] = node
BY DEF Value

\* A code is not a beginning of another, nor equal to it.
LEMMA CodesDiffer ==
  ASSUME NEW s \in Symbols, NEW t \in Symbols, Len(Code[s]) <= Len(Code[t]),
         \A k \in 1 .. Len(Code[s]) : Code[s][k] = Code[t][k]
  PROVE  s = t
<1>1. Code[s] \in Seq(Bit) /\ Code[t] \in Seq(Bit)
  BY CodesAre
<1>2. IsPrefix(Code[s], Code[t])
  BY <1>1, PrefixIs
<1>3. QED
  BY <1>2, CodeAssumption DEF PrefixFree

LEMMA ValueOfCode ==
  ASSUME NEW s \in Symbols
  PROVE  Value(Code[s]) = s /\ Code[s] \in Nodes
<1>1. Value(Code[s]) \in Symbols /\ Code[Value(Code[s])] = Code[s]
  BY DEF Value
<1>2. Len(Code[s]) \in Nat /\ Code[s] \in Seq(Bit)
  BY CodesAre
<1>3. Value(Code[s]) = s
  <2>1. Len(Code[s]) <= Len(Code[s])
    BY <1>2
  <2>2. QED
    BY <1>1, <2>1, CodesDiffer
<1>4. Code[s] = SubSeq(Code[s], 1, Len(Code[s])) /\ Len(Code[s]) \in 0 .. Len(Code[s])
  BY <1>2
<1>5. Code[s] \in Nodes
  BY <1>4 DEF Nodes
<1>6. QED
  BY <1>3, <1>5

\* A proper beginning of a code is a node without a value.
LEMMA InnerNode ==
  ASSUME NEW s \in Symbols, NEW node \in Seq(Bit), Len(node) < Len(Code[s]),
         \A k \in 1 .. Len(node) : node[k] = Code[s][k]
  PROVE  node \in Nodes /\ Value(node) = None
<1>1. Code[s] \in Seq(Bit)
  BY CodesAre
<1> DEFINE n == Len(node)
           c == Code[s]
<1>2. n \in 0 .. Len(c) /\ c \in Seq(Bit) /\ Len(node) = n
  BY <1>1
<1>3. SubSeq(c, 1, n) \in Seq(Bit) /\ Len(SubSeq(c, 1, n)) = n
      /\ \A k \in 1 .. n : SubSeq(c, 1, n)[k] = c[k]
  BY <1>2, Beginning
<1>4. node = SubSeq(c, 1, n)
  <2> DEFINE b == SubSeq(c, 1, n)
  <2>1. b \in Seq(Bit) /\ Len(node) = Len(b) /\ \A k \in 1 .. Len(node) : node[k] = b[k]
    BY <1>3
  <2> HIDE DEF b
  <2>2. node = b
    BY <2>1, SameSequence
  <2>3. QED
    BY <2>2 DEF b
<1>5. node \in Nodes
  <2>1. node \in {SubSeq(Code[s], 1, k) : k \in 0 .. Len(Code[s])}
    BY <1>2, <1>4, Zenon
  <2>2. QED
    BY <2>1, Zenon DEF Nodes
<1>6. ASSUME Value(node) # None PROVE FALSE
  <2>1. Value(node) \in Symbols /\ Code[Value(node)] = node
    BY <1>6, ValueIs
  <2>2. Len(node) <= Len(Code[s])
    BY <1>1
  <2>3. Value(node) = s
    BY <2>1, <2>2, CodesDiffer
  <2>4. QED
    BY <1>1, <2>1, <2>3
<1>7. QED
  BY <1>5, <1>6

\* Fewer ones than an octet has bits lead to a node without a value.
LEMMA OnesAreInner ==
  ASSUME NEW n \in 0 .. Bits - 1
  PROVE  Ones(n) \in Nodes /\ Value(Ones(n)) = None
<1>1. Bits \in Nat \ {0} /\ EOS \in Symbols
  BY CodeAssumption
<1>2. /\ n \in Nat /\ n < Bits
      /\ Ones(n) \in Seq(Bit) /\ Len(Ones(n)) = n /\ \A k \in 1 .. n : Ones(n)[k] = 1
      /\ Ones(Bits) \in Seq(Bit) /\ Len(Ones(Bits)) = Bits
      /\ \A k \in 1 .. Bits : Ones(Bits)[k] = 1
  BY <1>1, OnesType
<1>3. Code[EOS] \in Seq(Bit) /\ Len(Code[EOS]) \in Nat
  BY <1>1, CodesAre
<1>4. Bits <= Len(Code[EOS]) /\ \A k \in 1 .. Bits : Ones(Bits)[k] = Code[EOS][k]
  <2>1. IsPrefix(Ones(Bits), Code[EOS])
    BY CodeAssumption
  <2>2. QED
    BY <1>2, <1>3, <2>1, PrefixIs
<1>5. Len(Ones(n)) < Len(Code[EOS]) /\ \A k \in 1 .. Len(Ones(n)) : Ones(n)[k] = Code[EOS][k]
  <2>1. \A k \in 1 .. n : k \in 1 .. Bits
    BY <1>1, <1>2
  <2>2. n < Len(Code[EOS])
    BY <1>1, <1>2, <1>3, <1>4
  <2>3. QED
    BY <1>2, <1>4, <2>1, <2>2
<1>6. QED
  BY <1>1, <1>2, <1>5, InnerNode

\* Nodes are paths, and the root is one, without a value.
LEMMA NodesAre ==
  /\ Nodes \subseteq Seq(Bit)
  /\ <<>> \in Nodes /\ Value(<<>>) = None
<1>1. ASSUME NEW node \in Nodes PROVE node \in Seq(Bit)
  <2>1. PICK s \in Symbols : \E n \in 0 .. Len(Code[s]) : node = SubSeq(Code[s], 1, n)
    BY DEF Nodes
  <2>2. QED
    BY <2>1, CodesAre, Beginning
<1>2. Bits \in Nat \ {0} /\ Ones(0) = <<>>
  BY CodeAssumption DEF Ones
<1>3. 0 \in 0 .. Bits - 1
  BY <1>2
<1>4. QED
  BY <1>1, <1>2, <1>3, OnesAreInner

-----------------------------------------------------------------------------
(* Type correctness.                                                       *)

LEMMA BitwiseType ==
  ASSUME NEW c \in Octet, NEW d \in Octet, NEW n \in Nat
  PROVE  /\ And(c, d) \in Octet /\ ShiftRight(c, n) \in Octet /\ ShiftLeft(c, n) \in Octet
<1>1. Bits \in Nat \ {0} /\ 0 \in Bit /\ 1 \in Bit
  BY CodeAssumption DEF Bit
<1>2. And(c, d) \in Octet
  BY <1>1 DEF And, Octet
<1>3. ShiftRight(c, n) \in Octet
  <2>1. ASSUME NEW b \in 1 .. Bits PROVE (IF b > n THEN c[b - n] ELSE c[1]) \in Bit
    <3>1. b > n => b - n \in 1 .. Bits
      BY <1>1
    <3>2. 1 \in 1 .. Bits
      BY <1>1
    <3>3. QED
      BY <3>1, <3>2 DEF Octet
  <2>2. QED
    BY <2>1 DEF ShiftRight, Octet
<1>4. ShiftLeft(c, n) \in Octet
  <2>1. ASSUME NEW b \in 1 .. Bits PROVE (IF b + n <= Bits THEN c[b + n] ELSE 0) \in Bit
    <3>1. b + n <= Bits => b + n \in 1 .. Bits
      BY <1>1
    <3>2. QED
      BY <1>1, <3>1 DEF Octet
  <2>2. QED
    BY <2>1 DEF ShiftLeft, Octet
<1>5. QED
  BY <1>2, <1>3, <1>4

LEMMA AllOnes == Ones(Bits) \in Octet
BY DEF Ones, Octet, Bit

\* A value that is not EOS is an octet.
LEMMA ValueType ==
  ASSUME NEW node, Value(node) # None, Value(node) # EOS
  PROVE  Value(node) \in Octet
BY ValueIs, CodeAssumption

LEMMA TypeInit == Init => TypeOK
<1>1. Bits \in 1 .. Bits /\ Bits \in Nat
  BY CodeAssumption
<1> DEFINE ones == Ones(Bits)
<1>2. ones \in Octet /\ <<>> \in Nodes
  BY AllOnes, NodesAre
<1>3. ASSUME Init PROVE TypeOK
  <2>1. /\ pc = "idle" /\ input = <<>> /\ text = None /\ i = 0
        /\ cur_ch = ones /\ cur_remain = 0 /\ append_ch = ones /\ append_remain = Bits
        /\ cur = <<>> /\ target = <<>> /\ result = FALSE
    BY <1>3, Zenon DEF Init
  <2> HIDE DEF ones
  <2>2. cur \in Nodes /\ cur_ch \in Octet /\ append_ch \in Octet
    BY <1>2, <2>1, Zenon
  <2>3. input \in Seq(Octet) /\ target \in Seq(Octet) /\ text \in Seq(Octet) \union {None}
    BY <2>1
  <2>4. /\ pc \in {"idle", "encoding", "decoding", "encoded", "decoded"}
        /\ i \in Nat /\ cur_remain \in Nat /\ append_remain \in 1 .. Bits /\ result \in BOOLEAN
    BY <1>1, <2>1
  <2>5. QED
    BY <2>2, <2>3, <2>4 DEF TypeOK
<1>4. QED
  BY <1>3

LEMMA TypeStep == TypeOK /\ [Next]_vars => TypeOK'
<1> SUFFICES ASSUME TypeOK, [Next]_vars PROVE TypeOK'
  OBVIOUS
<1>0. Bits \in Nat \ {0} /\ Bits \in 1 .. Bits
  BY CodeAssumption
<1>1. ASSUME NEW s \in Texts, CallEncode(s) PROVE TypeOK'
  BY <1>1, InputAssumption DEF CallEncode, TypeOK, encodeVars
<1>2. ASSUME NEW b \in Seq(Octet), NEW s \in Seq(Octet) \union {None}, CallDecode(b, s)
      PROVE  TypeOK'
  BY <1>2 DEF CallDecode, TypeOK, encodeVars
<1>3. CASE EncodeNext
  <2>1. input[i + 1] \in Octet
    BY <1>3 DEF EncodeNext, TypeOK
  <2>2. cur_remain' \in Nat
    <3>1. cur_remain' \in LengthsFor(input[i + 1])
      BY <1>3 DEF EncodeNext
    <3>2. Len(Code[input[i + 1]]) \in Nat
      BY <2>1, CodesAre, CodeAssumption
    <3>3. QED
      BY <3>1, <3>2, InputAssumption DEF LengthsFor
  <2>3. QED
    BY <1>3, <2>1, <2>2 DEF EncodeNext, TypeOK
<1>4. CASE EncodeWhole
  <2>1. cur_remain - append_remain \in Nat
    BY <1>0, <1>4 DEF EncodeWhole, TypeOK
  <2>2. /\ And(append_ch, ShiftRight(cur_ch, cur_remain - append_remain)) \in Octet
        /\ Ones(Bits) \in Octet
    BY <2>1, BitwiseType, AllOnes DEF TypeOK
  <2> DEFINE o == And(append_ch, ShiftRight(cur_ch, cur_remain - append_remain))
             ones == Ones(Bits)
  <2>3. /\ target' = Append(target, o) /\ cur_remain' = cur_remain - append_remain
        /\ append_remain' = Bits /\ append_ch' = ones
        /\ UNCHANGED <<pc, input, text, i, cur_ch, cur, result>>
    BY <1>4 DEF EncodeWhole
  <2>4. o \in Octet /\ ones \in Octet
    BY <2>2
  <2> HIDE DEF o, ones
  <2>5. QED
    BY <1>0, <2>1, <2>3, <2>4 DEF TypeOK
<1>5. CASE EncodePart
  <2>1. append_remain - cur_remain \in Nat
    BY <1>0, <1>5 DEF EncodePart, TypeOK
  <2>2. And(append_ch, ShiftLeft(cur_ch, append_remain - cur_remain)) \in Octet
    BY <2>1, BitwiseType DEF TypeOK
  <2>3. QED
    BY <1>5, <2>2 DEF EncodePart, TypeOK
<1>6. CASE EncodeReturn
  BY <1>6 DEF EncodeReturn, TypeOK, encodeVars
<1>7. CASE DecodeBit
  <2>1. (Child \in Nodes => cur' \in Nodes) /\ (Child \notin Nodes => cur' \in Nodes)
    BY <1>7, NodesAre DEF DecodeBit, TypeOK, RestartsAt
  <2>2. target' \in Seq(Octet)
    <3> DEFINE v == Value(Child)
    <3>1. v # None /\ v # EOS => v \in Octet
      BY ValueType
    <3>2. target' = target \/ (target' = Append(target, v) /\ v # None /\ v # EOS)
      BY <1>7, Zenon DEF DecodeBit, Ends
    <3> HIDE DEF v
    <3>3. QED
      BY <3>1, <3>2 DEF TypeOK
  <2>3. pc' \in {"decoding", "decoded"} /\ result' \in BOOLEAN
    BY <1>7 DEF DecodeBit, TypeOK, Return
  <2>4. i' \in Nat /\ UNCHANGED <<input, text, encodeVars>>
    BY <1>7 DEF DecodeBit, TypeOK
  <2>5. QED
    BY <2>1, <2>2, <2>3, <2>4 DEF TypeOK, encodeVars
<1>8. CASE DecodeReturn
  BY <1>8 DEF DecodeReturn, Return, TypeOK, encodeVars
<1>9. CASE UNCHANGED vars
  BY <1>9 DEF vars, encodeVars, TypeOK
<1>10. \A s \in Texts : s \in Seq(Octet) /\ Coded(s) \in Seq(Octet)
  BY InputAssumption, FilledIs
<1>11. \A b \in Blocks : b \in Seq(Octet)
  BY InputAssumption
<1>12. QED
  BY <1>1, <1>2, <1>3, <1>4, <1>5, <1>6, <1>7, <1>8, <1>9, <1>10, <1>11 DEF Next, Routine

\* The variables of both routines keep their types, whatever is coded or decoded.
THEOREM TypeCorrect == Spec => []TypeOK
<1>1. Init => TypeOK
  BY TypeInit
<1>2. TypeOK /\ [Next]_vars => TypeOK'
  BY TypeStep
<1>3. QED
  BY <1>1, <1>2, PTL DEF Spec

-----------------------------------------------------------------------------
(* Where the routines are.                                                 *)

\* Both begin at the beginning; Decode is at a node without a value, and neither reads
\* beyond its input.
Waiting == pc = "idle" => i = 0 /\ cur = <<>> /\ target = <<>> /\ cur_remain = 0
Inside == pc \in {"idle", "encoding", "decoding"} => Value(cur) = None
Within ==
  /\ pc \in {"decoding", "decoded"} => i <= Len(input) * Bits
  /\ pc = "encoding" => i <= Len(input)

Place == TypeOK /\ Waiting /\ Inside /\ Within

LEMMA PlaceInit == Init => Place
<1>1. SUFFICES ASSUME Init PROVE Place
  OBVIOUS
<1>2. pc = "idle" /\ i = 0 /\ cur = <<>> /\ target = <<>> /\ cur_remain = 0
  BY <1>1 DEF Init
<1>3. Value(cur) = None
  BY <1>2, NodesAre
<1>4. QED
  BY <1>1, <1>2, <1>3, TypeInit DEF Place, Waiting, Inside, Within

\* The steps, each call with what it was called with.
LEMMA Steps ==
  ASSUME [Next]_vars
  PROVE  \/ \E s \in Texts : CallEncode(s)
         \/ \E s \in Texts : s \in Seq(Octet) /\ CallDecode(Coded(s), s)
         \/ \E b \in Blocks : CallDecode(b, None)
         \/ EncodeNext \/ EncodeWhole \/ EncodePart \/ EncodeReturn
         \/ DecodeBit \/ DecodeReturn \/ UNCHANGED vars
BY InputAssumption DEF Next, Routine

\* An iteration of Decode's loop ends in one of four ways.
LEMMA BitOutcomes ==
  ASSUME DecodeBit
  PROVE  /\ pc = "decoding" /\ i < Len(input) * Bits /\ i' = i + 1
         /\ input' = input /\ text' = text
         /\ \/ Child \notin Nodes /\ pc' = "decoded" /\ result' = FALSE
               /\ cur' = cur /\ target' = target
            \/ Child \in Nodes /\ Value(Child) = None /\ pc' = pc /\ result' = result
               /\ cur' = Child /\ target' = target
            \/ Child \in Nodes /\ Value(Child) = EOS /\ pc' = "decoded" /\ result' = TRUE
               /\ cur' = Child /\ target' = target
            \/ Child \in Nodes /\ Value(Child) # None /\ Value(Child) # EOS /\ pc' = pc
               /\ result' = result /\ cur' = <<>> /\ target' = Append(target, Value(Child))
BY Zenon DEF DecodeBit, Return, Ends, RestartsAt

LEMMA PlaceStep == Place /\ [Next]_vars => Place'
<1>1. SUFFICES ASSUME Place, [Next]_vars PROVE Waiting' /\ Inside' /\ Within'
  BY TypeStep DEF Place
<1>2. CASE \E s \in Texts : CallEncode(s)
  <2>1. /\ pc' = "encoding" /\ cur' = cur /\ i' = i /\ pc = "idle" /\ \E s \in Texts : input' = s
    BY <1>2 DEF CallEncode
  <2>2. i' <= Len(input')
    <3>1. input' \in Seq(Octet) /\ i' = 0
      BY <1>1, <2>1, InputAssumption DEF Place, Waiting
    <3>2. QED
      BY <3>1
  <2>3. Value(cur') = None
    BY <1>1, <2>1 DEF Place, Inside
  <2>4. QED
    BY <2>1, <2>2, <2>3 DEF Waiting, Inside, Within
<1>3. ASSUME NEW b \in Seq(Octet), NEW s, CallDecode(b, s) PROVE Waiting' /\ Inside' /\ Within'
  <2>1. /\ pc' = "decoding" /\ cur' = cur /\ i' = i /\ pc = "idle" /\ input' = b
    BY <1>3 DEF CallDecode
  <2>2. i' <= Len(input') * Bits
    <3>1. i' = 0 /\ Len(b) * Bits \in Nat
      BY <1>1, <2>1, CodeAssumption DEF Place, Waiting
    <3>2. QED
      BY <2>1, <3>1
  <2>3. Value(cur') = None
    BY <1>1, <2>1 DEF Place, Inside
  <2>4. QED
    BY <2>1, <2>2, <2>3 DEF Waiting, Inside, Within
<1>4. CASE EncodeNext \/ EncodeWhole \/ EncodePart \/ EncodeReturn
  <2>1. /\ pc = "encoding" /\ pc' \in {"encoding", "encoded"} /\ cur' = cur /\ input' = input
        /\ i' = i \/ (i' = i + 1 /\ i < Len(input))
    BY <1>4 DEF EncodeNext, EncodeWhole, EncodePart, EncodeReturn
  <2>2. i' <= Len(input')
    <3>1. i \in Nat /\ Len(input) \in Nat /\ i <= Len(input)
      BY <1>1, <2>1 DEF Place, TypeOK, Within
    <3>2. QED
      BY <2>1, <3>1
  <2>3. Value(cur') = None
    BY <1>1, <2>1 DEF Place, Inside
  <2>4. QED
    BY <2>1, <2>2, <2>3 DEF Waiting, Inside, Within
<1>5. CASE DecodeBit
  <2>1. pc = "decoding" /\ i < Len(input) * Bits /\ i' = i + 1 /\ input' = input
    BY <1>5, BitOutcomes
  <2>2. i' <= Len(input') * Bits
    <3>1. i \in Nat /\ Len(input) * Bits \in Nat
      BY <1>1, CodeAssumption DEF Place, TypeOK
    <3>2. QED
      BY <2>1, <3>1
  <2>3. pc' \in {"decoding", "decoded"} /\ (pc' = "decoding" => Value(cur') = None)
    BY <1>5, <2>1, BitOutcomes, NodesAre
  <2>4. QED
    BY <2>2, <2>3 DEF Waiting, Inside, Within
<1>6. CASE DecodeReturn
  <2>1. pc = "decoding" /\ pc' = "decoded" /\ i' = i /\ input' = input
    BY <1>6 DEF DecodeReturn, Return
  <2>2. i' <= Len(input') * Bits
    BY <1>1, <2>1 DEF Place, Within
  <2>3. QED
    BY <2>1, <2>2 DEF Waiting, Inside, Within
<1>7. CASE UNCHANGED vars
  <2>1. UNCHANGED <<pc, i, cur, target, cur_remain, input>>
    BY <1>7 DEF vars, encodeVars
  <2>2. QED
    BY <1>1, <2>1 DEF Place, Waiting, Inside, Within
<1>8. \A s \in Texts : s \in Seq(Octet) => Coded(s) \in Seq(Octet)
  BY FilledIs
<1>9. \A b \in Blocks : b \in Seq(Octet)
  BY InputAssumption
<1>10. QED
  BY <1>1, <1>2, <1>3, <1>4, <1>5, <1>6, <1>7, <1>8, <1>9, Steps

LEMMA Placed == Spec => []Place
<1>1. QED
  BY PlaceInit, PlaceStep, PTL DEF Spec

\* What Decode reads is a bit.
LEMMA BitsAre ==
  ASSUME input \in Seq(Octet), NEW k \in Nat, k < Len(input) * Bits
  PROVE  InputBit(k) \in Bit
<1>1. Bits \in Nat \ {0} /\ Len(input) \in Nat
  BY CodeAssumption
<1>2. k \div Bits \in 0 .. Len(input) - 1
  BY <1>1, QuotientBelow
<1>3. k % Bits \in 0 .. Bits - 1
  <2>1. k \in Int
    OBVIOUS
  <2>2. QED
    BY ONLY <1>1, <2>1, Division
<1> DEFINE d == k \div Bits
           r == k % Bits
<1>4. InputBit(k) = input[d + 1][r + 1]
  BY DEF InputBit
<1>5. d \in 0 .. Len(input) - 1 /\ r \in 0 .. Bits - 1
  BY <1>2, <1>3
<1> HIDE DEF d, r
<1>6. d + 1 \in 1 .. Len(input) /\ r + 1 \in 1 .. Bits
  BY <1>1, <1>5
<1>7. input[d + 1] \in Octet
  BY <1>6
<1>8. QED
  BY <1>4, <1>6, <1>7 DEF Octet

-----------------------------------------------------------------------------
(* Nothing is refused.                                                     *)

LEMMA RefusesStep == Place /\ RefusesNothing /\ [Next]_vars => RefusesNothing'
<1>1. SUFFICES ASSUME Place, RefusesNothing, [Next]_vars, pc' = "decoded", Complete
               PROVE  result' = TRUE /\ (i' = Len(input') * Bits \/ cur' = Code[EOS])
  BY DEF RefusesNothing, Complete
<1>2. CASE DecodeBit
  <2>1. pc = "decoding" /\ i < Len(input) * Bits
    BY <1>2, BitOutcomes
  <2>2. Child \in Nodes
    <3>1. InputBit(i) \in Bit
      BY <1>1, <2>1, BitsAre DEF Place, TypeOK
    <3>2. cur \in Nodes /\ Value(cur) = None
      BY <1>1, <2>1 DEF Place, TypeOK, Inside
    <3>3. QED
      BY <1>1, <3>1, <3>2 DEF Complete, Child
  <2>3. Value(Child) = EOS /\ result' = TRUE /\ cur' = Child
    BY <1>1, <1>2, <2>1, <2>2, BitOutcomes
  <2>4. Code[EOS] = Child
    <3>1. EOS # None
      BY CodeAssumption, InputAssumption
    <3>2. QED
      BY <2>3, <3>1, ValueIs
  <2>5. QED
    BY <2>3, <2>4
<1>3. CASE DecodeReturn
  BY <1>3 DEF DecodeReturn, Return
<1>4. CASE UNCHANGED vars
  BY <1>1, <1>4 DEF vars, RefusesNothing
<1>5. CASE \/ EncodeNext \/ EncodeWhole \/ EncodePart \/ EncodeReturn
           \/ \E s \in Texts : CallEncode(s)
  BY <1>1, <1>5 DEF EncodeNext, EncodeWhole, EncodePart, EncodeReturn, CallEncode
<1>6. ASSUME NEW b, NEW s, CallDecode(b, s) PROVE FALSE
  BY <1>1, <1>6 DEF CallDecode
<1>7. QED
  BY <1>1, <1>2, <1>3, <1>4, <1>5, <1>6, Steps

\* With a complete code, Decode succeeds on whatever octets it is given, and reads them
\* all unless it meets EOS.
THEOREM NothingIsRefused == Spec => []RefusesNothing
<1>1. Init => RefusesNothing
  BY DEF Init, RefusesNothing
<1>2. QED
  BY <1>1, Placed, RefusesStep, PTL DEF Spec

-----------------------------------------------------------------------------
(* Every bit is read.                                                      *)

LEMMA OneMore ==
  ASSUME NEW S, NEW n \in Nat, NEW g \in [1 .. n + 1 -> S]
  PROVE  g = Append([k \in 1 .. n |-> g[k]], g[n + 1])
<1> DEFINE u == [k \in 1 .. n |-> g[k]]
<1>1. n \in Nat /\ n + 1 \in 1 .. n + 1 /\ \A k \in 1 .. n : k \in 1 .. n + 1
  OBVIOUS
<1>2. g \in Seq(S) /\ Len(g) = n + 1 /\ g[n + 1] \in S
  BY <1>1
<1>3. u \in Seq(S) /\ Len(u) = n /\ \A k \in 1 .. n : u[k] = g[k]
  <2>1. u \in [1 .. n -> S]
    BY <1>1
  <2>2. QED
    BY <2>1
<1> HIDE DEF u
<1> DEFINE a == Append(u, g[n + 1])
<1>4. /\ a \in Seq(S) /\ Len(a) = n + 1 /\ a[n + 1] = g[n + 1]
      /\ \A k \in 1 .. n : a[k] = g[k]
  BY <1>2, <1>3, Appended
<1> HIDE DEF a
<1>5. \A k \in 1 .. n + 1 : g[k] = a[k]
  BY <1>1, <1>4
<1>6. g = a
  BY <1>2, <1>4, <1>5, SameSequence
<1>7. QED
  BY <1>6 DEF a, u

LEMMA AppendLast ==
  ASSUME NEW S, NEW u \in Seq(S), NEW v \in Seq(S), NEW x \in S
  PROVE  u \o Append(v, x) = Append(u \o v, x) /\ u \o <<>> = u
OBVIOUS

Read(n) == [k \in 1 .. n |-> InputBit(k - 1)]

LEMMA ReadMore ==
  ASSUME input \in Seq(Octet), NEW n \in Nat, n < Len(input) * Bits
  PROVE  Read(n + 1) = Append(Read(n), InputBit(n))
<1> DEFINE g == Read(n + 1)
<1>1. ASSUME NEW k \in 1 .. n + 1 PROVE InputBit(k - 1) \in Bit
  <2>1. Len(input) * Bits \in Nat
    BY CodeAssumption
  <2>2. k - 1 \in Nat /\ k - 1 < Len(input) * Bits
    BY <2>1
  <2>3. QED
    BY <2>2, BitsAre
<1>2. g \in [1 .. n + 1 -> Bit]
  BY <1>1 DEF Read
<1>3. g[n + 1] = InputBit(n) /\ Read(n) = [k \in 1 .. n |-> g[k]]
  BY DEF Read
<1> HIDE DEF g
<1>4. g = Append([k \in 1 .. n |-> g[k]], g[n + 1])
  BY <1>2, OneMore
<1>5. QED
  BY <1>3, <1>4 DEF g

LEMMA ChildIs ==
  ASSUME Place, pc = "decoding", i < Len(input) * Bits
  PROVE  /\ cur \in Seq(Bit) /\ InputBit(i) \in Bit
         /\ Child = Append(cur, InputBit(i)) /\ Child \in Seq(Bit)
<1>1. cur \in Seq(Bit)
  BY NodesAre DEF Place, TypeOK
<1>2. InputBit(i) \in Bit
  BY BitsAre DEF Place, TypeOK
<1>3. QED
  BY <1>1, <1>2 DEF Child

LEMMA ReadsStep == Place /\ ReadsEveryBit /\ [Next]_vars => ReadsEveryBit'
<1>1. SUFFICES ASSUME Place, ReadsEveryBit, [Next]_vars,
                      pc' = "decoding" \/ (pc' = "decoded" /\ result')
               PROVE  [k \in 1 .. i' |-> InputBit(k - 1)'] = CodeOf(target') \o cur'
  BY DEF ReadsEveryBit, CodeOf
<1>2. ASSUME input' = input
      PROVE  /\ \A n : [k \in 1 .. n |-> InputBit(k - 1)'] = Read(n)
  BY <1>2 DEF Read, InputBit
<1>3. CASE DecodeBit
  <2>1. /\ pc = "decoding" /\ i < Len(input) * Bits /\ i' = i + 1 /\ input' = input
    BY <1>3, BitOutcomes
  <2>2. /\ cur \in Seq(Bit) /\ InputBit(i) \in Bit
        /\ Child = Append(cur, InputBit(i)) /\ Child \in Seq(Bit)
    BY <1>1, <2>1, ChildIs
  <2>3. target \in Seq(Octet) /\ CodeOf(target) \in Seq(Bit)
    BY <1>1, CodeOfType DEF Place, TypeOK
  <2>4. Read(i) = CodeOf(target) \o cur
    BY <1>1, <2>1 DEF ReadsEveryBit, Read
  <2>5. Read(i + 1) = CodeOf(target) \o Child
    <3>1. Read(i + 1) = Append(Read(i), InputBit(i))
      BY <1>1, <2>1, ReadMore DEF Place, TypeOK
    <3>2. CodeOf(target) \o Append(cur, InputBit(i)) = Append(CodeOf(target) \o cur, InputBit(i))
      BY <2>2, <2>3, AppendLast
    <3>3. QED
      BY <2>2, <2>4, <3>1, <3>2
  <2>6. CASE cur' = Child /\ target' = target
    BY <1>2, <2>1, <2>5, <2>6
  <2>7. CASE Child \in Nodes /\ Value(Child) # None /\ Value(Child) # EOS
             /\ cur' = <<>> /\ target' = Append(target, Value(Child))
    <3>1. Value(Child) \in Octet /\ Code[Value(Child)] = Child
      BY <2>7, ValueType, ValueIs
    <3>2. CodeOf(target') = CodeOf(target) \o Child
      BY <2>3, <2>7, <3>1, CodeOfAppend
    <3>3. CodeOf(target) \o Child \in Seq(Bit)
      BY <2>2, <2>3, Joined
    <3>4. CodeOf(target') \o <<>> = CodeOf(target')
      BY <3>2, <3>3, AppendLast, <2>2
    <3>5. QED
      BY <1>2, <2>1, <2>5, <2>7, <3>2, <3>4
  <2>8. QED
    BY <1>1, <1>3, <2>1, <2>6, <2>7, BitOutcomes
<1>4. CASE DecodeReturn
  <2>1. pc = "decoding" /\ input' = input /\ i' = i /\ cur' = cur /\ target' = target
    BY <1>4 DEF DecodeReturn
  <2>2. Read(i) = CodeOf(target) \o cur
    BY <1>1, <2>1 DEF ReadsEveryBit, Read
  <2>3. QED
    BY <1>2, <2>1, <2>2
<1>5. CASE UNCHANGED vars
  <2>1. /\ input' = input /\ i' = i /\ cur' = cur /\ target' = target /\ pc' = pc
        /\ result' = result
    BY <1>5 DEF vars
  <2>2. Read(i) = CodeOf(target) \o cur
    BY <1>1, <2>1 DEF ReadsEveryBit, Read
  <2>3. QED
    BY <1>2, <2>1, <2>2
<1>6. ASSUME NEW b, NEW s, CallDecode(b, s)
      PROVE  [k \in 1 .. i' |-> InputBit(k - 1)'] = CodeOf(target') \o cur'
  <2>1. i' = 0 /\ target' = <<>> /\ cur' = <<>>
    BY <1>1, <1>6 DEF CallDecode, Place, Waiting
  <2>2. CodeOf(<<>>) = <<>>
    <3>1. <<>> \in Seq(Octet) /\ Len(<<>>) = 0
      OBVIOUS
    <3>2. QED
      BY <3>1, CodeOfType, Zenon
  <2>3. [k \in 1 .. 0 |-> InputBit(k - 1)'] = <<>> /\ <<>> \o <<>> = <<>>
    OBVIOUS
  <2>4. QED
    BY <2>1, <2>2, <2>3
<1>7. CASE \/ EncodeNext \/ EncodeWhole \/ EncodePart \/ EncodeReturn
           \/ \E s \in Texts : CallEncode(s)
  BY <1>1, <1>7 DEF EncodeNext, EncodeWhole, EncodePart, EncodeReturn, CallEncode
<1>8. QED
  BY <1>1, <1>3, <1>4, <1>5, <1>6, <1>7, Steps

\* Whatever octets arrive, what Decode has put into its target and the path to its node
\* are the bits that it has read, each of them once.
THEOREM EveryBitIsRead == Spec => []ReadsEveryBit
<1>1. Init => ReadsEveryBit
  BY DEF Init, ReadsEveryBit
<1>2. QED
  BY <1>1, Placed, ReadsStep, PTL DEF Spec

-----------------------------------------------------------------------------
(* The text is found again.                                                *)

\* While Decode reads what a text was coded as, its target is the beginning of the text
\* and its node lies on the path of the next character; behind the last one, on that of
\* the ones.
Following ==
  pc = "decoding" /\ text # None =>
    /\ text \in Seq(Octet) /\ input = Coded(text)
    /\ Len(target) <= Len(text) /\ target = SubSeq(text, 1, Len(target))
    /\ i = Len(CodeOf(target)) + Len(cur)
    /\ Len(target) < Len(text) =>
         /\ Len(cur) < Len(Code[text[Len(target) + 1]])
         /\ \A k \in 1 .. Len(cur) : cur[k] = Code[text[Len(target) + 1]][k]
    /\ Len(target) = Len(text) => Len(cur) < Bits /\ \A k \in 1 .. Len(cur) : cur[k] = 1

\* The bit that comes next is one of the next character's code, or a one.
LEMMA NextBit ==
  ASSUME Place, Following, pc = "decoding", text # None, i < Len(input) * Bits
  PROVE  /\ Len(target) < Len(text) =>
              InputBit(i) = Code[text[Len(target) + 1]][Len(cur) + 1]
         /\ Len(target) = Len(text) => InputBit(i) = 1 /\ Len(cur) + 1 < Bits
<1> DEFINE n == Len(target)
           w == CodeOf(text)
           f == Filled(text)
           p == CodeOf(target)
           m == Len(cur)
<1>1. /\ text \in Seq(Octet) /\ input = Coded(text) /\ n <= Len(text)
      /\ target = SubSeq(text, 1, n) /\ i = Len(p) + m
      /\ target \in Seq(Octet) /\ cur \in Seq(Bit) /\ i \in Nat
  BY NodesAre DEF Following, Place, TypeOK
<1>2. /\ f \in Seq(Bit) /\ Len(f) - Len(w) \in 0 .. Bits - 1
      /\ \A k \in 1 .. Len(w) : f[k] = w[k]
      /\ \A k \in Len(w) + 1 .. Len(f) : f[k] = 1
      /\ Len(f) = Len(input) * Bits
      /\ \A q \in 0 .. Len(f) - 1 : input[(q \div Bits) + 1][(q % Bits) + 1] = f[q + 1]
  BY <1>1, FilledIs
<1>3. w \in Seq(Bit) /\ p \in Seq(Bit)
  BY <1>1, CodeOfType
<1>4. /\ n \in Nat /\ m \in Nat /\ Len(w) \in Nat /\ Len(p) \in Nat /\ Len(f) \in Nat
      /\ Len(text) \in Nat
  BY <1>1, <1>2, <1>3
<1> HIDE DEF w, f, p, m
<1>5. InputBit(i) = f[i + 1] /\ i + 1 \in 1 .. Len(f)
  <2>1. i \in 0 .. Len(f) - 1 /\ i + 1 \in 1 .. Len(f)
    BY <1>1, <1>2, <1>4
  <2>2. QED
    BY <1>2, <2>1 DEF InputBit
<1>6. ASSUME n < Len(text) PROVE InputBit(i) = Code[text[n + 1]][m + 1]
  <2> DEFINE c == Code[text[n + 1]]
             q == CodeOf(SubSeq(text, 1, n + 1))
  <2>1. /\ n \in 0 .. Len(text) /\ n + 1 \in 0 .. Len(text) /\ text[n + 1] \in Octet
    BY <1>1, <1>4, <1>6
  <2>2. q = p \o c
    BY <1>1, <1>6, <2>1, CodeOfBeginning DEF p
  <2>3. c \in Seq(Bit) /\ Len(c) \in Nat
    BY <2>1, CodeAssumption
  <2>4. Len(q) <= Len(w) /\ \A k \in 1 .. Len(q) : w[k] = q[k]
    BY <1>1, <2>1, CodeOfPrefix DEF w
  <2>5. m < Len(c)
    BY <1>6 DEF Following, m
  <2> HIDE DEF c, q
  <2>6. Len(q) = Len(p) + Len(c) /\ \A k \in 1 .. Len(c) : q[Len(p) + k] = c[k]
    BY <1>3, <2>2, <2>3, Joined
  <2>7. /\ m + 1 \in 1 .. Len(c) /\ Len(p) + (m + 1) = i + 1 /\ i + 1 \in 1 .. Len(q)
        /\ i + 1 \in 1 .. Len(w)
    BY <1>1, <1>4, <2>3, <2>4, <2>5, <2>6
  <2>8. f[i + 1] = w[i + 1] /\ w[i + 1] = q[i + 1] /\ q[i + 1] = c[m + 1]
    <3>1. f[i + 1] = w[i + 1]
      BY <1>2, <2>7
    <3>2. w[i + 1] = q[i + 1]
      BY <2>4, <2>7
    <3>3. q[i + 1] = c[m + 1]
      BY <2>6, <2>7
    <3>4. QED
      BY <3>1, <3>2, <3>3
  <2>9. QED
    BY <1>5, <2>8 DEF c
<1>7. ASSUME n = Len(text) PROVE InputBit(i) = 1 /\ m + 1 < Bits
  <2>1. p = w
    <3>1. SubSeq(text, 1, Len(text)) = text
      BY <1>1
    <3>2. target = text
      BY <1>1, <1>7, <3>1
    <3>3. QED
      BY <3>2 DEF p, w
  <2>2. i + 1 \in Len(w) + 1 .. Len(f) /\ m + 1 <= Len(f) - Len(w)
    BY <1>1, <1>4, <1>5, <2>1
  <2>3. m + 1 < Bits
    BY <1>2, <1>4, <2>2, CodeAssumption
  <2>4. QED
    BY <1>2, <1>5, <2>2, <2>3
<1>8. QED
  BY <1>6, <1>7 DEF m

\* So Decode goes on along the path, to its end if there is no more of it.
LEMMA NextNode ==
  ASSUME Place, Following, pc = "decoding", text # None, i < Len(input) * Bits
  PROVE  /\ Child \in Nodes /\ Child \in Seq(Bit) /\ Len(Child) = Len(cur) + 1
         /\ Len(target) < Len(text) =>
              /\ text[Len(target) + 1] \in Octet
              /\ \A k \in 1 .. Len(Child) : Child[k] = Code[text[Len(target) + 1]][k]
              /\ Len(Child) < Len(Code[text[Len(target) + 1]]) => Value(Child) = None
              /\ Len(Child) >= Len(Code[text[Len(target) + 1]]) =>
                   Value(Child) = text[Len(target) + 1] /\ Child = Code[text[Len(target) + 1]]
         /\ Len(target) = Len(text) =>
              /\ Value(Child) = None /\ Len(Child) < Bits
              /\ \A k \in 1 .. Len(Child) : Child[k] = 1
<1>1. /\ cur \in Seq(Bit) /\ InputBit(i) \in Bit
      /\ Child = Append(cur, InputBit(i)) /\ Child \in Seq(Bit)
  BY ChildIs
<1> DEFINE n == Len(target)
           m == Len(cur)
           x == text[n + 1]
           c == Code[x]
<1>2. /\ Len(Child) = m + 1 /\ Child[m + 1] = InputBit(i)
      /\ \A k \in 1 .. m : Child[k] = cur[k]
  BY <1>1, Appended
<1>3. /\ text \in Seq(Octet) /\ n <= Len(text) /\ n \in Nat /\ Len(text) \in Nat /\ m \in Nat
  BY <1>1 DEF Following, Place, TypeOK
<1>4. ASSUME n < Len(text)
      PROVE  /\ Child \in Nodes /\ x \in Octet
             /\ \A k \in 1 .. Len(Child) : Child[k] = c[k]
             /\ Len(Child) < Len(c) => Value(Child) = None
             /\ Len(Child) >= Len(c) => Value(Child) = x /\ Child = c
  <2>1. x \in Octet /\ x \in Symbols
    <3>1. n + 1 \in 1 .. Len(text)
      BY <1>3, <1>4
    <3>2. QED
      BY <1>3, <3>1, CodeAssumption
  <2>2. c \in Seq(Bit) /\ Len(c) \in Nat
    BY <2>1, CodesAre
  <2>3. m < Len(c) /\ \A k \in 1 .. m : cur[k] = c[k]
    BY <1>4 DEF Following
  <2>4. InputBit(i) = c[m + 1]
    BY <1>4, NextBit
  <2> HIDE DEF c, x, m, n
  <2>5. \A k \in 1 .. Len(Child) : Child[k] = c[k]
    <3>1. ASSUME NEW k \in 1 .. Len(Child) PROVE Child[k] = c[k]
      <4>1. k \in 1 .. m \/ k = m + 1
        BY <1>2, <1>3
      <4>2. QED
        BY <1>2, <2>3, <2>4, <4>1
    <3>2. QED
      BY <3>1
  <2>6. Len(Child) < Len(c) => Child \in Nodes /\ Value(Child) = None
    BY <1>1, <2>1, <2>5, InnerNode DEF c
  <2>7. ASSUME Len(Child) >= Len(c) PROVE Child \in Nodes /\ Value(Child) = x /\ Child = c
    <3>1. Len(Child) = Len(c)
      BY <1>2, <1>3, <2>2, <2>3, <2>7
    <3>2. Child = c
      BY <1>1, <2>2, <2>5, <3>1, SameSequence
    <3>3. QED
      BY <2>1, <3>2, ValueOfCode DEF c
  <2>8. Len(Child) < Len(c) \/ Len(Child) >= Len(c)
    BY <1>2, <1>3, <2>2
  <2>9. QED
    BY <2>1, <2>5, <2>6, <2>7, <2>8
<1>5. ASSUME n = Len(text)
      PROVE  /\ Child \in Nodes /\ Value(Child) = None /\ Len(Child) < Bits
             /\ \A k \in 1 .. Len(Child) : Child[k] = 1
  <2>1. InputBit(i) = 1 /\ m + 1 < Bits /\ \A k \in 1 .. m : cur[k] = 1
    BY <1>5, NextBit DEF Following
  <2> HIDE DEF m, n
  <2>2. \A k \in 1 .. Len(Child) : Child[k] = 1
    <3>1. ASSUME NEW k \in 1 .. Len(Child) PROVE Child[k] = 1
      <4>1. k \in 1 .. m \/ k = m + 1
        BY <1>2, <1>3
      <4>2. QED
        BY <1>2, <2>1, <4>1
    <3>2. QED
      BY <3>1
  <2>3. m + 1 \in Nat /\ m + 1 \in 0 .. Bits - 1
    BY <1>3, <2>1, CodeAssumption
  <2>4. Child = Ones(m + 1)
    <3>1. /\ Ones(m + 1) \in Seq(Bit) /\ Len(Ones(m + 1)) = m + 1
          /\ \A k \in 1 .. m + 1 : Ones(m + 1)[k] = 1
      BY <2>3, OnesType
    <3> DEFINE o == Ones(m + 1)
    <3>2. o \in Seq(Bit) /\ Len(Child) = Len(o) /\ \A k \in 1 .. Len(Child) : Child[k] = o[k]
      BY <1>2, <2>2, <3>1
    <3> HIDE DEF o
    <3>3. Child = o
      BY <1>1, <3>2, SameSequence
    <3>4. QED
      BY <3>3 DEF o
  <2>5. QED
    BY <1>2, <2>1, <2>2, <2>3, <2>4, OnesAreInner
<1>6. QED
  BY <1>1, <1>2, <1>3, <1>4, <1>5

LEMMA FollowingStep == Place /\ Following /\ [Next]_vars => Following'
<1>1. SUFFICES ASSUME Place, Following, [Next]_vars, pc' = "decoding", text' # None
               PROVE  /\ text' \in Seq(Octet) /\ input' = Coded(text')
                      /\ Len(target') <= Len(text') /\ target' = SubSeq(text', 1, Len(target'))
                      /\ i' = Len(CodeOf(target')) + Len(cur')
                      /\ Len(target') < Len(text') =>
                           /\ Len(cur') < Len(Code[text'[Len(target') + 1]])
                           /\ \A k \in 1 .. Len(cur') : cur'[k] = Code[text'[Len(target') + 1]][k]
                      /\ Len(target') = Len(text') =>
                           Len(cur') < Bits /\ \A k \in 1 .. Len(cur') : cur'[k] = 1
  BY DEF Following, Coded, CodeOf, OctetsOf
<1>2. CASE DecodeBit
  <2>1. /\ pc = "decoding" /\ i < Len(input) * Bits /\ i' = i + 1
        /\ input' = input /\ text' = text /\ text # None
    BY <1>1, <1>2, BitOutcomes
  <2> DEFINE n == Len(target)
             x == text[n + 1]
             c == Code[x]
  <2>2. /\ text \in Seq(Octet) /\ input = Coded(text) /\ n <= Len(text)
        /\ target = SubSeq(text, 1, n) /\ i = Len(CodeOf(target)) + Len(cur)
        /\ target \in Seq(Octet) /\ CodeOf(target) \in Seq(Bit) /\ cur \in Seq(Bit)
    BY <1>1, <2>1, NodesAre, CodeOfType DEF Following, Place, TypeOK
  <2>3. /\ Child \in Nodes /\ Child \in Seq(Bit) /\ Len(Child) = Len(cur) + 1
        /\ n < Len(text) =>
             /\ x \in Octet
             /\ \A k \in 1 .. Len(Child) : Child[k] = c[k]
             /\ Len(Child) < Len(c) => Value(Child) = None
             /\ Len(Child) >= Len(c) => Value(Child) = x /\ Child = c
        /\ n = Len(text) =>
             /\ Value(Child) = None /\ Len(Child) < Bits
             /\ \A k \in 1 .. Len(Child) : Child[k] = 1
    BY <1>1, <2>1, NextNode
  <2>4. /\ n \in Nat /\ Len(text) \in Nat /\ Len(cur) \in Nat /\ Len(CodeOf(target)) \in Nat
        /\ n < Len(text) \/ n = Len(text)
    BY <2>2
  <2>5. n < Len(text) => x # None /\ x # EOS /\ c \in Seq(Bit) /\ Len(c) \in Nat /\ x \in Symbols
    BY <2>3, CodeAssumption, InputAssumption, CodesAre
  <2> HIDE DEF n, x, c
  <2>6. CASE Value(Child) = None
    <3>1. cur' = Child /\ target' = target
      BY <1>2, <2>3, <2>6, BitOutcomes
    <3>2. i' = Len(CodeOf(target')) + Len(cur')
      <4> DEFINE l == Len(CodeOf(target))
                 m == Len(cur)
      <4>1. Len(CodeOf(target')) = l /\ Len(cur') = m + 1
        BY <2>3, <3>1
      <4>2. i' = (l + m) + 1 /\ l \in Nat /\ m \in Nat
        BY <2>1, <2>2, <2>4
      <4> HIDE DEF l, m
      <4>3. QED
        BY <4>1, <4>2
    <3>3. n < Len(text) => Len(Child) < Len(c)
      BY <2>3, <2>4, <2>5, <2>6
    <3>4. /\ n < Len(text) => /\ Len(Child) < Len(Code[text[n + 1]])
                              /\ \A k \in 1 .. Len(Child) : Child[k] = Code[text[n + 1]][k]
          /\ n = Len(text) => Len(Child) < Bits /\ \A k \in 1 .. Len(Child) : Child[k] = 1
      BY <2>3, <3>3, Zenon DEF c, x
    <3>5. QED
      BY <2>1, <2>2, <3>1, <3>2, <3>4 DEF n
  <2>7. CASE Value(Child) # None
    <3>1. n < Len(text) /\ Value(Child) = x /\ Child = c
      BY <2>3, <2>4, <2>5, <2>7
    <3>2. cur' = <<>> /\ target' = Append(target, x)
      BY <1>2, <2>1, <2>3, <2>5, <2>7, <3>1, BitOutcomes
    <3>3. n \in 0 .. Len(text)
      BY <2>4, <3>1
    <3>4. /\ text[n + 1] = x /\ target' = SubSeq(text, 1, n + 1) /\ Len(target') = n + 1
          /\ CodeOf(target') = CodeOf(target) \o c /\ n + 1 \in 0 .. Len(text)
      <4>1. /\ n + 1 \in 0 .. Len(text)
            /\ SubSeq(text, 1, n + 1) = Append(SubSeq(text, 1, n), text[n + 1])
            /\ CodeOf(SubSeq(text, 1, n + 1)) = CodeOf(SubSeq(text, 1, n)) \o Code[text[n + 1]]
        BY <2>2, <3>1, <3>3, CodeOfBeginning
      <4>2. text[n + 1] = x /\ SubSeq(text, 1, n) = target
        BY <2>2 DEF x
      <4>3. target' = SubSeq(text, 1, n + 1) /\ CodeOf(target') = CodeOf(target) \o c
        BY <3>2, <4>1, <4>2 DEF c
      <4>4. Len(SubSeq(text, 1, n + 1)) = n + 1
        BY <2>2, <4>1, CodeOfBeginning
      <4>5. QED
        BY <4>1, <4>2, <4>3, <4>4
    <3>5. Len(CodeOf(target')) = Len(CodeOf(target)) + Len(c) /\ Len(<<>>) = 0
      BY <2>2, <2>5, <3>1, <3>4, Joined
    <3>6. i' = Len(CodeOf(target')) + Len(cur')
      BY <2>1, <2>2, <2>3, <2>4, <2>5, <3>1, <3>2, <3>5
    <3>7. n + 1 < Len(text) => 0 < Len(Code[text[(n + 1) + 1]])
      <4>1. SUFFICES ASSUME n + 1 < Len(text) PROVE 0 < Len(Code[text[(n + 1) + 1]])
        OBVIOUS
      <4>2. (n + 1) + 1 \in 1 .. Len(text)
        BY <2>4, <4>1
      <4>3. text[(n + 1) + 1] \in Symbols
        BY <2>2, <4>2, CodeAssumption
      <4> DEFINE y == text[(n + 1) + 1]
      <4> HIDE DEF y
      <4>4. Len(Code[y]) \in Nat \ {0}
        BY <4>3, CodesAre DEF y
      <4>5. QED
        BY <4>4 DEF y
    <3>8. Bits \in Nat \ {0}
      BY CodeAssumption
    <3>9. target' = SubSeq(text, 1, Len(target')) /\ Len(target') <= Len(text)
      BY <2>4, <3>3, <3>4
    <3>10. /\ Len(cur') = 0
           /\ Len(target') < Len(text) => Len(cur') < Len(Code[text[Len(target') + 1]])
           /\ Len(cur') < Bits
      <4>1. Len(cur') = 0 /\ Len(target') = n + 1
        BY <3>2, <3>4, <3>5
      <4>2. 0 < Bits
        BY <3>8
      <4>3. Len(target') < Len(text) => 0 < Len(Code[text[Len(target') + 1]])
        BY <3>7, <4>1
      <4>4. QED
        BY <4>1, <4>2, <4>3
    <3>11. 1 .. Len(cur') = {}
      BY <3>10
    <3>12. QED
      BY <2>1, <2>2, <3>6, <3>9, <3>10, <3>11
  <2>8. QED
    BY <2>6, <2>7
<1>3. ASSUME NEW s \in Seq(Octet), CallDecode(Coded(s), s)
      PROVE  /\ text' \in Seq(Octet) /\ input' = Coded(text')
             /\ Len(target') <= Len(text') /\ target' = SubSeq(text', 1, Len(target'))
             /\ i' = Len(CodeOf(target')) + Len(cur')
             /\ Len(target') < Len(text') =>
                  /\ Len(cur') < Len(Code[text'[Len(target') + 1]])
                  /\ \A k \in 1 .. Len(cur') : cur'[k] = Code[text'[Len(target') + 1]][k]
             /\ Len(target') = Len(text') =>
                  Len(cur') < Bits /\ \A k \in 1 .. Len(cur') : cur'[k] = 1
  <2>1. /\ text' = s /\ input' = Coded(s) /\ i' = 0 /\ target' = <<>> /\ cur' = <<>>
    BY <1>1, <1>3 DEF CallDecode, Place, Waiting
  <2>2. <<>> \in Seq(Octet) /\ Len(<<>>) = 0 /\ Len(s) \in Nat /\ <<>> = SubSeq(s, 1, 0) /\ 1 .. 0 = {}
    OBVIOUS
  <2>3. Len(CodeOf(<<>>)) = 0
    BY <2>2, CodeOfType, Zenon
  <2>4. 0 < Len(s) => 0 < Len(Code[s[0 + 1]])
    <3>1. SUFFICES ASSUME 0 < Len(s) PROVE 0 < Len(Code[s[0 + 1]])
      OBVIOUS
    <3>2. 0 + 1 \in 1 .. Len(s)
      BY <2>2, <3>1
    <3> DEFINE y == s[0 + 1]
    <3>3. y \in Symbols
      BY <3>2, CodeAssumption
    <3> HIDE DEF y
    <3>4. Len(Code[y]) \in Nat \ {0}
      BY <3>3, CodesAre
    <3>5. QED
      BY <3>4 DEF y
  <2>5. 0 < Bits
    BY CodeAssumption
  <2>6. Len(target') = 0 /\ Len(cur') = 0 /\ 1 .. Len(cur') = {}
    BY <2>1, <2>2
  <2>7. i' = Len(CodeOf(target')) + Len(cur')
    BY <2>1, <2>2, <2>3
  <2>8. Len(target') < Len(text') => Len(cur') < Len(Code[text'[Len(target') + 1]])
    BY <2>1, <2>4, <2>6
  <2>9. Len(target') <= Len(text') /\ target' = SubSeq(text', 1, Len(target')) /\ text' \in Seq(Octet)
    BY <2>1, <2>2, <2>6
  <2>10. QED
    BY <2>1, <2>5, <2>6, <2>7, <2>8, <2>9
<1>4. ASSUME NEW b, CallDecode(b, None) PROVE FALSE
  BY <1>1, <1>4 DEF CallDecode
<1>5. CASE UNCHANGED vars
  <2>1. pc' = pc /\ text' = text /\ input' = input /\ target' = target /\ i' = i /\ cur' = cur
    BY <1>5 DEF vars
  <2>2. QED
    BY <1>1, <2>1 DEF Following
<1>6. CASE \/ EncodeNext \/ EncodeWhole \/ EncodePart \/ EncodeReturn \/ DecodeReturn
           \/ \E s \in Texts : CallEncode(s)
  BY <1>1, <1>6 DEF EncodeNext, EncodeWhole, EncodePart, EncodeReturn, DecodeReturn, Return,
                    CallEncode
<1>7. QED
  BY <1>1, <1>2, <1>3, <1>4, <1>5, <1>6, Steps

LEMMA DecodesStep ==
  Place /\ Following /\ DecodesTheText /\ [Next]_vars => DecodesTheText'
<1>1. SUFFICES ASSUME Place, Following, DecodesTheText, [Next]_vars,
                      pc' = "decoded", text' # None
               PROVE  result' = TRUE /\ target' = text'
  BY DEF DecodesTheText
<1>2. CASE DecodeBit
  <2>1. pc = "decoding" /\ i < Len(input) * Bits /\ text' = text /\ text # None
    BY <1>1, <1>2, BitOutcomes
  <2>2. Child \in Nodes /\ (Value(Child) = None \/ Value(Child) \in Octet)
    <3>1. target \in Seq(Octet) /\ text \in Seq(Octet) /\ Len(target) <= Len(text)
      BY <1>1, <2>1 DEF Place, TypeOK, Following
    <3>2. Len(target) < Len(text) \/ Len(target) = Len(text)
      BY <3>1
    <3>3. Child \in Seq(Bit)
      BY <1>1, <2>1, NextNode
    <3>4. CASE Len(target) < Len(text)
      <4> DEFINE c == Code[text[Len(target) + 1]]
      <4>1. /\ Child \in Nodes /\ text[Len(target) + 1] \in Octet
            /\ Len(Child) < Len(c) => Value(Child) = None
            /\ Len(Child) >= Len(c) => Value(Child) = text[Len(target) + 1]
        BY <1>1, <2>1, <3>4, NextNode
      <4>2. c \in Seq(Bit)
        BY <4>1, CodeAssumption
      <4>3. Len(Child) < Len(c) \/ Len(Child) >= Len(c)
        BY <3>3, <4>2
      <4>4. QED
        BY <4>1, <4>3
    <3>5. CASE Len(target) = Len(text)
      BY <1>1, <2>1, <3>5, NextNode
    <3>6. QED
      BY <3>2, <3>4, <3>5
  <2>3. Value(Child) # EOS
    BY <2>2, CodeAssumption, InputAssumption
  <2>4. QED
    BY <1>1, <1>2, <2>1, <2>2, <2>3, BitOutcomes
<1>3. CASE DecodeReturn
  <2>1. /\ pc = "decoding" /\ i = Len(input) * Bits /\ result' = TRUE
        /\ text' = text /\ target' = target /\ text # None
    BY <1>1, <1>3 DEF DecodeReturn, Return
  <2> DEFINE n == Len(target)
             w == CodeOf(text)
             p == CodeOf(target)
             q == CodeOf(SubSeq(text, 1, n + 1))
             c == Code[text[n + 1]]
  <2>2. /\ text \in Seq(Octet) /\ input = Coded(text) /\ n <= Len(text)
        /\ target = SubSeq(text, 1, n) /\ i = Len(p) + Len(cur)
        /\ target \in Seq(Octet) /\ p \in Seq(Bit) /\ cur \in Seq(Bit) /\ w \in Seq(Bit)
    BY <1>1, <2>1, NodesAre, CodeOfType DEF Following, Place, TypeOK
  <2>3. Len(w) <= i
    <3> DEFINE f == Filled(text)
    <3>1. f \in Seq(Bit) /\ Len(f) - Len(w) \in 0 .. Bits - 1 /\ Len(f) = i
      BY <2>1, <2>2, FilledIs
    <3>2. Len(f) \in Nat /\ Len(w) \in Nat /\ Bits \in Nat
      BY <2>2, <3>1, CodeAssumption
    <3> HIDE DEF f, w
    <3>3. QED
      BY <3>1, <3>2
  <2>4. ASSUME n < Len(text) PROVE FALSE
    <3>1. n \in 0 .. Len(text) /\ n + 1 \in 0 .. Len(text)
      BY <2>2, <2>4
    <3>2. q = p \o c /\ text[n + 1] \in Octet
      BY <2>2, <2>4, <3>1, CodeOfBeginning
    <3>3. c \in Seq(Bit) /\ Len(cur) < Len(c)
      BY <1>1, <2>1, <2>4, <3>2, CodeAssumption DEF Following
    <3>4. Len(q) <= Len(w)
      BY <2>2, <3>1, CodeOfPrefix
    <3> HIDE DEF q, p, c, w, n
    <3>5. Len(q) = Len(p) + Len(c)
      BY <2>2, <3>2, <3>3, Joined
    <3>6. QED
      BY <2>2, <2>3, <3>3, <3>4, <3>5
  <2>5. n = Len(text)
    BY <2>2, <2>4
  <2>6. target = text
    BY <2>2, <2>5
  <2>7. QED
    BY <2>1, <2>6
<1>4. CASE UNCHANGED vars
  BY <1>1, <1>4 DEF vars, DecodesTheText
<1>5. ASSUME NEW b, NEW s, CallDecode(b, s) PROVE FALSE
  BY <1>1, <1>5 DEF CallDecode
<1>6. CASE \/ EncodeNext \/ EncodeWhole \/ EncodePart \/ EncodeReturn
           \/ \E s \in Texts : CallEncode(s)
  BY <1>1, <1>6 DEF EncodeNext, EncodeWhole, EncodePart, EncodeReturn, CallEncode
<1>7. QED
  BY <1>1, <1>2, <1>3, <1>4, <1>5, <1>6, Steps

\* Decode finds every text again from what it is coded as, whatever its length and however
\* its codes fall on octets.
THEOREM TextsAreDecoded == Spec => []DecodesTheText
<1>1. Init => Following /\ DecodesTheText
  BY DEF Init, Following, DecodesTheText
<1>2. QED
  BY <1>1, Placed, FollowingStep, DecodesStep, PTL DEF Spec

-----------------------------------------------------------------------------
(* Encode writes no more than the codes have.                              *)

\* append_remain is never less than an octet, so that every octet appended takes the bits
\* of a whole one from cur_remain, which a character has set to the length of its code.
Written ==
  /\ append_remain = Bits
  /\ pc = "encoding" /\ (\A k \in 1 .. i : input[k][1] = 0) =>
       Len(target) * Bits + cur_remain <= Len(CodeOf(SubSeq(input, 1, i)))

LEMMA WrittenStep == Place /\ Written /\ [Next]_vars => Written'
<1>0. Bits \in Nat \ {0}
  BY CodeAssumption
<1>1. SUFFICES ASSUME Place, Written, [Next]_vars PROVE Written'
  OBVIOUS
<1>2. append_remain' = Bits
  BY <1>1, Steps
    DEF Written, CallEncode, CallDecode, EncodeNext, EncodeWhole, EncodePart, EncodeReturn,
        DecodeBit, DecodeReturn, vars, encodeVars
<1>3. SUFFICES ASSUME pc' = "encoding", \A k \in 1 .. i' : input'[k][1] = 0
               PROVE  Len(target') * Bits + cur_remain' <= Len(CodeOf(SubSeq(input', 1, i')))
  BY <1>2 DEF Written, CodeOf
<1>4. input \in Seq(Octet) /\ i \in Nat /\ target \in Seq(Octet) /\ cur_remain \in Nat
  BY <1>1 DEF Place, TypeOK
<1>5. ASSUME pc = "encoding", input' = input, i' = i
      PROVE  Len(target) * Bits + cur_remain <= Len(CodeOf(SubSeq(input, 1, i)))
  BY <1>1, <1>3, <1>5 DEF Written
<1>6. ASSUME NEW s \in Texts, CallEncode(s)
      PROVE  Len(target') * Bits + cur_remain' <= Len(CodeOf(SubSeq(input', 1, i')))
  <2>1. target' = <<>> /\ cur_remain' = 0 /\ i' = 0 /\ input' \in Seq(Octet)
    BY <1>1, <1>6, InputAssumption DEF CallEncode, Place, Waiting, encodeVars
  <2>2. 0 \in 0 .. Len(input') /\ Len(<<>>) = 0
    BY <2>1
  <2>3. CodeOf(SubSeq(input', 1, 0)) \in Seq(Bit)
    BY <2>1, <2>2, CodeOfBeginning
  <2>4. Len(CodeOf(SubSeq(input', 1, 0))) >= 0
    BY <2>3
  <2>5. 0 * Bits + 0 = 0
    BY <1>0
  <2>6. Len(target') = 0
    BY <2>1, <2>2
  <2>7. QED
    BY <2>1, <2>4, <2>5, <2>6
<1>7. CASE EncodeNext
  <2>1. /\ pc = "encoding" /\ cur_remain = 0 /\ i < Len(input) /\ i' = i + 1
        /\ cur_remain' \in LengthsFor(input[i + 1]) /\ input' = input /\ target' = target
    BY <1>7 DEF EncodeNext
  <2> DEFINE x == input[i + 1]
             p == CodeOf(SubSeq(input, 1, i))
             q == CodeOf(SubSeq(input, 1, i + 1))
             c == Code[x]
             d == Len(target) * Bits
  <2>2. i \in 0 .. Len(input) /\ i + 1 \in 1 .. i' /\ \A k \in 1 .. i : k \in 1 .. i'
    BY <1>4, <2>1
  <2>3. x \in Octet /\ q = p \o c /\ p \in Seq(Bit)
    BY <1>4, <2>1, <2>2, CodeOfBeginning
  <2>4. c \in Seq(Bit)
    BY <2>3, CodeAssumption
  <2>5. cur_remain' = Len(c)
    <3>1. x[1] = 0
      BY <1>3, <2>1, <2>2
    <3>2. QED
      BY <2>1, <3>1 DEF LengthsFor
  <2>6. d + cur_remain <= Len(p)
    <3>1. \A k \in 1 .. i : input[k][1] = 0
      BY <1>3, <2>1, <2>2
    <3>2. QED
      BY <1>1, <2>1, <3>1 DEF Written
  <2>7. Len(target') * Bits = d /\ d \in Int
    BY <1>0, <1>4, <2>1
  <2>8. CodeOf(SubSeq(input', 1, i')) = q
    BY <2>1
  <2> HIDE DEF x, p, q, c, d
  <2>9. Len(q) = Len(p) + Len(c) /\ Len(p) \in Nat /\ Len(c) \in Nat
    BY <2>3, <2>4, Joined
  <2>10. QED
    BY <2>1, <2>5, <2>6, <2>7, <2>8, <2>9
<1>8. CASE EncodeWhole
  <2>1. /\ pc = "encoding" /\ input' = input /\ i' = i /\ cur_remain' = cur_remain - append_remain
        /\ \E o : target' = Append(target, o)
    BY <1>8 DEF EncodeWhole
  <2>2. Len(target') = Len(target) + 1
    BY <1>4, <2>1
  <2>3. append_remain = Bits
    BY <1>1 DEF Written
  <2> DEFINE d == Len(target) * Bits
  <2>4. Len(target') * Bits = d + Bits /\ d \in Int
    BY <1>0, <1>4, <2>2
  <2>5. d + cur_remain <= Len(CodeOf(SubSeq(input, 1, i)))
    BY <1>5, <2>1
  <2> HIDE DEF d
  <2>6. d + Bits + (cur_remain - Bits) = d + cur_remain
    BY <1>0, <1>4, <2>4
  <2>7. QED
    BY <2>1, <2>3, <2>4, <2>5, <2>6
<1>9. CASE EncodePart
  <2>1. pc = "encoding" /\ input' = input /\ i' = i /\ cur_remain' = 0 /\ target' = target
    BY <1>9 DEF EncodePart
  <2> DEFINE d == Len(target) * Bits
             l == Len(CodeOf(SubSeq(input, 1, i)))
  <2>2. d + cur_remain <= l /\ d \in Int
    BY <1>0, <1>4, <1>5, <2>1
  <2>3. l \in Int
    <3>1. i \in 0 .. Len(input)
      BY <1>1, <1>4, <2>1 DEF Place, Within
    <3>2. CodeOf(SubSeq(input, 1, i)) \in Seq(Bit)
      BY <1>4, <3>1, CodeOfBeginning
    <3>3. QED
      BY <3>2
  <2>4. Len(target') * Bits = d /\ Len(CodeOf(SubSeq(input', 1, i'))) = l
    BY <2>1
  <2> HIDE DEF d, l
  <2>5. QED
    BY <1>4, <2>1, <2>2, <2>3, <2>4
<1>10. CASE UNCHANGED vars
  <2>1. /\ pc = "encoding" /\ input' = input /\ i' = i /\ cur_remain' = cur_remain
        /\ target' = target
    BY <1>3, <1>10 DEF vars, encodeVars
  <2>2. QED
    BY <1>5, <2>1
<1>11. CASE EncodeReturn \/ DecodeBit \/ DecodeReturn \/ \E b, s : CallDecode(b, s)
  BY <1>3, <1>11 DEF EncodeReturn, DecodeBit, DecodeReturn, Return, CallDecode
<1>12. QED
  BY <1>1, <1>6, <1>7, <1>8, <1>9, <1>10, <1>11, Steps

LEMMA WrittenFits == Place /\ Written => EncodedFits
<1>1. SUFFICES ASSUME Place, Written, pc = "encoding", \A k \in 1 .. i : input[k][1] = 0
               PROVE  Len(target) <= Len(Coded(SubSeq(input, 1, i)))
  BY DEF EncodedFits
<1> DEFINE s == SubSeq(input, 1, i)
           l == Len(CodeOf(s))
           d == Len(target)
           e == Len(Coded(s))
<1>2. /\ input \in Seq(Octet) /\ i \in 0 .. Len(input) /\ d \in Nat /\ cur_remain \in Nat
      /\ Bits \in Nat \ {0}
  BY <1>1, CodeAssumption DEF Place, TypeOK, Within
<1>3. d * Bits + cur_remain <= l
  BY <1>1 DEF Written
<1>4. s \in Seq(Octet)
  BY <1>2, CodeOfBeginning
<1>5. l <= e * Bits /\ l \in Nat /\ e \in Nat
  <2>1. /\ CodeOf(s) \in Seq(Bit) /\ Filled(s) \in Seq(Bit)
        /\ Len(Filled(s)) - l \in 0 .. Bits - 1 /\ Len(Filled(s)) = e * Bits
        /\ Coded(s) \in Seq(Octet)
    BY <1>4, CodeOfType, FilledIs
  <2>2. l \in Nat /\ e \in Nat /\ Len(Filled(s)) \in Nat
    BY <2>1
  <2> DEFINE f == Len(Filled(s))
  <2>3. f - l >= 0 /\ f = e * Bits /\ f \in Nat /\ l \in Nat
    BY <1>2, <2>1, <2>2
  <2> HIDE DEF f, l, e
  <2>4. l <= f
    BY <2>3
  <2>5. QED
    BY <2>2, <2>3, <2>4
<1> HIDE DEF l, d, e, s
<1>6. d * Bits <= e * Bits
  <2> DEFINE x == d * Bits
             y == e * Bits
  <2>1. x \in Int /\ y \in Int /\ x + cur_remain <= l /\ l <= y
    BY <1>2, <1>3, <1>5
  <2> HIDE DEF x, y
  <2>2. x <= y
    BY <1>2, <1>5, <2>1
  <2>3. QED
    BY <2>2 DEF x, y
<1>7. d <= e
  BY <1>2, <1>5, <1>6
<1>8. QED
  BY <1>7 DEF d, e, s

\* Of characters up to 127, Encode never writes more octets than their codes fill.
THEOREM EncodingFits == Spec => []EncodedFits
<1>1. Init => Written
  BY DEF Init, Written
<1>2. QED
  BY <1>1, Placed, WrittenStep, WrittenFits, PTL DEF Spec

=============================================================================
