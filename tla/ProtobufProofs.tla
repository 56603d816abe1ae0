--------------------------- MODULE ProtobufProofs ---------------------------
EXTENDS Protobuf, SequenceTheorems, WellFoundedInduction, TLAPS

\* A set of naturals that is not empty has a least element.
LEMMA LeastElement ==
  ASSUME NEW S \in SUBSET Nat, S # {}
  PROVE  \E i \in S : \A j \in S : i <= j
<1> DEFINE R == {ss \in Nat \X Nat : ss[1] < ss[2]}
<1>1. OpToRel(<, Nat) = R
  BY DEF OpToRel
<1>2. IsWellFoundedOn(R, Nat)
  BY <1>1, NatLessThanWellFounded
<1>3. PICK x \in S : \A y \in S : ~(<<y, x>> \in R)
  <2> HIDE DEF R
  <2>1. QED
    BY <1>2, WFMin
<1>4. ASSUME NEW y \in S PROVE x <= y
  <2>1. x \in Nat /\ y \in Nat /\ ~(y < x)
    <3>1. <<y, x>> \in Nat \X Nat /\ <<y, x>>[1] = y /\ <<y, x>>[2] = x
      OBVIOUS
    <3>2. QED
      BY <1>3, <3>1
  <2>2. QED
    BY <2>1
<1>5. QED
  BY <1>4

\* Induction, for a set: it holds every natural once it holds those whose predecessors it holds.
LEMMA SetInduction ==
  ASSUME NEW S, \A n \in Nat : (\A k \in 0 .. n - 1 : k \in S) => n \in S
  PROVE  \A n \in Nat : n \in S
<1>1. SUFFICES ASSUME Nat \ S # {} PROVE FALSE
  OBVIOUS
<1>2. Nat \ S \in SUBSET Nat
  OBVIOUS
<1>3. PICK n \in Nat \ S : \A j \in Nat \ S : n <= j
  BY <1>1, <1>2, LeastElement
<1>4. \A k \in 0 .. n - 1 : k \in S
  BY <1>3
<1>5. QED
  BY <1>4

(***************************************************************************)
(* Recursive functions: a recursion whose value at n depends on the values *)
(* below n only has a solution.                                            *)
(***************************************************************************)
LEMMA Solution ==
  ASSUME NEW T, NEW D \in [[Nat -> T] -> [Nat -> T]], T # {},
         \A f, g \in [Nat -> T] : \A n \in Nat :
            (\A k \in 0 .. n - 1 : f[k] = g[k]) => D[f][n] = D[g][n]
  PROVE  \E f \in [Nat -> T] : D[f] = f
<1> DEFINE F == [Nat -> T]
           UpTo(g, n) == \A k \in 0 .. n - 1 : g[k] = D[g][k]
<1>1. \A n \in Nat : \E g \in F : UpTo(g, n)
  <2> DEFINE good == {n \in Nat : \E g \in F : UpTo(g, n)}
  <2>1. 0 \in good
    <3>1. PICK t \in T : TRUE
      OBVIOUS
    <3>2. [k \in Nat |-> t] \in F
      OBVIOUS
    <3>3. UpTo([k \in Nat |-> t], 0)
      OBVIOUS
    <3>4. QED
      BY <3>2, <3>3
  <2>2. ASSUME NEW n \in Nat, n # 0, n - 1 \in good PROVE n \in good
    <3>1. PICK g \in F : UpTo(g, n - 1)
      BY <2>2
    <3>2. D[g] \in F
      OBVIOUS
    <3>3. ASSUME NEW k \in 0 .. n - 1 PROVE D[g][k] = D[D[g]][k]
      <4>1. \A j \in 0 .. k - 1 : g[j] = D[g][j]
        BY <3>1
      <4>2. QED
        BY <3>2, <4>1
    <3>4. QED
      BY <3>2, <3>3
  <2>3. \A n \in Nat : n \in good
    <3> HIDE DEF good
    <3>1. \A n \in Nat : n # 0 => n - 1 \in 0 .. n - 1
      OBVIOUS
    <3>2. QED
      BY <2>1, <2>2, <3>1, SetInduction
  <2>4. QED
    BY <2>3
<1>2. ASSUME NEW m \in Nat, NEW n \in Nat, NEW g \in F, NEW h \in F, UpTo(g, m), UpTo(h, n)
      PROVE  \A k \in Nat : k < m /\ k < n => g[k] = h[k]
  <2> DEFINE good == {k \in Nat : k < m /\ k < n => g[k] = h[k]}
  <2>1. ASSUME NEW k \in Nat, \A j \in 0 .. k - 1 : j \in good PROVE k \in good
    <3>1. SUFFICES ASSUME k < m, k < n PROVE g[k] = h[k]
      OBVIOUS
    <3>2. \A j \in 0 .. k - 1 : g[j] = h[j]
      BY <2>1, <3>1
    <3>3. D[g][k] = D[h][k]
      BY <3>2
    <3>4. QED
      BY <1>2, <3>1, <3>3
  <2>2. \A k \in Nat : k \in good
    <3> HIDE DEF good
    <3>1. QED
      BY <2>1, SetInduction
  <2>3. QED
    BY <2>2
<1> DEFINE of(n) == CHOOSE g \in F : UpTo(g, n + 1)
           f == [n \in Nat |-> of(n)[n]]
<1>3. \A n \in Nat : of(n) \in F /\ UpTo(of(n), n + 1)
  <2>1. TAKE n \in Nat
  <2>2. \E g \in F : UpTo(g, n + 1)
    <3>1. n + 1 \in Nat
      OBVIOUS
    <3> HIDE DEF F, UpTo
    <3>2. QED
      BY <1>1, <3>1
  <2> HIDE DEF F, UpTo
  <2>3. QED
    BY <2>2
<1> HIDE DEF of
<1>4. f \in F
  BY <1>3
<1>5. ASSUME NEW n \in Nat PROVE D[f][n] = f[n]
  <2>1. \A k \in 0 .. n - 1 : f[k] = of(n)[k]
    <3>1. TAKE k \in 0 .. n - 1
    <3>2. k \in Nat /\ k < k + 1 /\ k < n + 1 /\ k + 1 \in Nat /\ n + 1 \in Nat
      OBVIOUS
    <3>3. of(k)[k] = of(n)[k]
      <4>1. of(k) \in F /\ UpTo(of(k), k + 1) /\ of(n) \in F /\ UpTo(of(n), n + 1)
        BY <1>3, <3>2
      <4> HIDE DEF F, UpTo
      <4>2. QED
        BY <1>2, <3>2, <4>1
    <3>4. QED
      BY <3>2, <3>3
  <2>2. D[f][n] = D[of(n)][n]
    BY <1>3, <1>4, <2>1
  <2>3. QED
    BY <1>3, <2>2
<1>6. D[f] \in F
  BY <1>4
<1>7. D[f] = f
  BY <1>4, <1>5, <1>6
<1>8. QED
  BY <1>4, <1>7

\* The powers of 128 are the positive numbers their recursion describes.
LEMMA PowerDefined ==
  /\ Power \in [Nat -> Nat \ {0}]
  /\ Power[0] = 1
  /\ \A n \in Nat : Power[n + 1] = 128 * Power[n]
<1> DEFINE T == Nat \ {0}
           Def(f) == [n \in Nat |-> IF n = 0 THEN 1 ELSE 128 * f[n - 1]]
           D == [f \in [Nat -> T] |-> Def(f)]
<1>1. D \in [[Nat -> T] -> [Nat -> T]]
  <2>1. SUFFICES ASSUME NEW f \in [Nat -> T], NEW n \in Nat
                 PROVE  (IF n = 0 THEN 1 ELSE 128 * f[n - 1]) \in T
    OBVIOUS
  <2>2. n # 0 => f[n - 1] \in T
    OBVIOUS
  <2>3. QED
    BY <2>2
<1>2. \A f, g \in [Nat -> T] : \A n \in Nat :
        (\A k \in 0 .. n - 1 : f[k] = g[k]) => D[f][n] = D[g][n]
  <2>1. TAKE f, g \in [Nat -> T]
  <2>2. TAKE n \in Nat
  <2>3. HAVE \A k \in 0 .. n - 1 : f[k] = g[k]
  <2>4. n # 0 => f[n - 1] = g[n - 1]
    BY <2>3
  <2>5. QED
    BY <2>4
<1>3. PICK f \in [Nat -> T] : D[f] = f
  <2> HIDE DEF D, T
  <2>1. T # {}
    BY DEF T
  <2>2. QED
    BY <1>1, <1>2, <2>1, Solution
<1>4. f = Def(f)
  BY <1>3
<1>5. \E g : g = Def(g)
  BY <1>4
<1>6. Power = Def(Power)
  BY <1>5 DEF Power
<1>7. \A n \in Nat : Power[n] = IF n = 0 THEN 1 ELSE 128 * Power[n - 1]
  BY <1>6
<1>8. \A n \in Nat : Power[n] \in T
  <2> DEFINE good == {n \in Nat : Power[n] \in T}
  <2>1. ASSUME NEW n \in Nat, \A k \in 0 .. n - 1 : k \in good PROVE n \in good
    <3>1. n # 0 => n - 1 \in good
      BY <2>1
    <3>2. QED
      BY <1>7, <3>1
  <2>2. \A n \in Nat : n \in good
    <3> HIDE DEF good
    <3>1. QED
      BY <2>1, SetInduction
  <2>3. QED
    BY <2>2
<1>9. Power \in [Nat -> T]
  BY <1>6, <1>8
<1>10. QED
  BY <1>7, <1>9

\* The number of values of a uint64, in terms of the powers.
LEMMA ModulusType == Power[Full] \in Nat \ {0} /\ Modulus = 2 * Power[Full] /\ Modulus \in Nat \ {0}
<1>1. PICK n \in Nat \ {0} : n = Power[Full]
  BY PowerDefined, WidthAssumption
<1>2. 2 * n \in Nat \ {0}
  OBVIOUS
<1>3. QED
  BY <1>1, <1>2 DEF Modulus

\* A conversion to int gives an integer.
LEMMA SignedType ==
  ASSUME NEW x \in Int
  PROVE  Signed(x) \in Int
<1>1. PICK p \in Nat \ {0} : p = Power[Full] /\ Modulus = 2 * p
  BY ModulusType
<1>2. PICK m \in Nat : m = x % Modulus
  <2>1. 2 * p \in Nat \ {0}
    OBVIOUS
  <2>2. x % (2 * p) \in Nat
    BY <2>1
  <2>3. QED
    BY <1>1, <2>2
<1>3. m - Modulus \in Int
  BY <1>1
<1>4. QED
  BY <1>2, <1>3 DEF Signed

\* A number below half the width is its own value as an int.
LEMMA SignedSmall ==
  ASSUME NEW x \in Nat, x < Power[Full]
  PROVE  Signed(x) = x
<1>1. PICK p \in Nat : p = Power[Full] /\ Modulus = 2 * p
  BY ModulusType
<1>2. x < p /\ x % (2 * p) = x
  BY <1>1
<1>3. x % Modulus = x /\ ~(x >= Power[Full])
  BY <1>1, <1>2
<1>4. QED
  BY <1>3, Zenon DEF Signed

\* encodeVarint's loop computes what its recursion says.
LEMMA VarintDefined ==
  /\ Varint \in [Nat -> Seq(Byte)]
  /\ \A v \in Nat : Varint[v] = IF v < 128 THEN <<v>> ELSE <<(v % 128) + 128>> \o Varint[v \div 128]
<1> DEFINE T == Seq(Byte)
           Def(f) == [v \in Nat |-> IF v < 128 THEN <<v>> ELSE <<(v % 128) + 128>> \o f[v \div 128]]
           D == [f \in [Nat -> T] |-> Def(f)]
<1>1. \A f \in [Nat -> T], v \in Nat :
        (IF v < 128 THEN <<v>> ELSE <<(v % 128) + 128>> \o f[v \div 128]) \in T
  <2>1. TAKE f \in [Nat -> T], v \in Nat
  <2>2. v < 128 => <<v>> \in T
    BY DEF Byte
  <2>3. (v % 128) + 128 \in Byte /\ v \div 128 \in Nat
    BY DEF Byte
  <2>4. <<(v % 128) + 128>> \in T /\ f[v \div 128] \in T
    BY <2>3
  <2>5. QED
    BY <2>2, <2>4
<1>2. D \in [[Nat -> T] -> [Nat -> T]]
  BY <1>1
<1>3. \A f, g \in [Nat -> T] : \A n \in Nat :
        (\A k \in 0 .. n - 1 : f[k] = g[k]) => D[f][n] = D[g][n]
  <2>1. TAKE f, g \in [Nat -> T]
  <2>2. TAKE n \in Nat
  <2>3. HAVE \A k \in 0 .. n - 1 : f[k] = g[k]
  <2>4. ~(n < 128) => n \div 128 \in 0 .. n - 1
    OBVIOUS
  <2>5. ~(n < 128) => f[n \div 128] = g[n \div 128]
    BY <2>3, <2>4
  <2>6. QED
    BY <2>5
<1>4. PICK f \in [Nat -> T] : D[f] = f
  <2>1. T # {}
    <3>1. <<>> \in T
      OBVIOUS
    <3>2. QED
      BY <3>1
  <2> HIDE DEF D, T
  <2>2. QED
    BY <1>2, <1>3, <2>1, Solution
<1>5. f = Def(f)
  BY <1>4
<1>6. \E g : g = Def(g)
  BY <1>5
<1>7. Varint = Def(Varint)
  BY <1>6 DEF Varint
<1>8. \A v \in Nat : Varint[v] = IF v < 128 THEN <<v>> ELSE <<(v % 128) + 128>> \o Varint[v \div 128]
  BY <1>7
<1>9. \A n \in Nat : Varint[n] \in T
  <2> DEFINE good == {n \in Nat : Varint[n] \in T}
  <2>1. ASSUME NEW n \in Nat, \A k \in 0 .. n - 1 : k \in good PROVE n \in good
    <3>1. n < 128 => <<n>> \in T
      BY DEF Byte
    <3>2. ~(n < 128) => n \div 128 \in 0 .. n - 1
      OBVIOUS
    <3>3. ~(n < 128) => Varint[n \div 128] \in T
      BY <2>1, <3>2
    <3>4. (n % 128) + 128 \in Byte
      BY DEF Byte
    <3>5. ~(n < 128) => <<(n % 128) + 128>> \o Varint[n \div 128] \in T
      BY <3>3, <3>4
    <3>6. QED
      BY <1>8, <3>1, <3>5
  <2>2. \A n \in Nat : n \in good
    <3> HIDE DEF good
    <3>1. QED
      BY <2>1, SetInduction
  <2>3. QED
    BY <2>2
<1>10. QED
  BY <1>7, <1>8, <1>9

\* What one iteration of the loop of decodeVarintAt makes of the rest.
Group(data, at, left, rest) ==
  IF at >= Len(data) THEN Read(0, at, TRUE)
  ELSE IF left = 0 THEN Read(0, at, FALSE)
  ELSE IF data[at + 1] < 128 THEN Read(data[at + 1], at + 1, TRUE)
  ELSE Read((data[at + 1] % 128) + 128 * rest.v, rest.pos, rest.ok)

Reads == [v : Nat, pos : Int, ok : BOOLEAN]

\* One turn of decodeVarintAt's loop keeps the type of what is read.
LEMMA GroupType ==
  ASSUME NEW data \in Seq(Byte), NEW at \in Int, NEW left \in Nat, NEW rest \in Reads, at >= 0
  PROVE  Group(data, at, left, rest) \in Reads
<1>1. Len(data) \in Nat
  OBVIOUS
<1>2. at < Len(data) => data[at + 1] \in Byte
  OBVIOUS
<1>3. rest.v \in Nat /\ rest.pos \in Int /\ rest.ok \in BOOLEAN
  BY DEF Reads
<1>4. CASE at >= Len(data)
  BY <1>4 DEF Group, Read, Reads
<1>5. CASE at < Len(data)
  <2>1. PICK b \in 0 .. 255 : b = data[at + 1]
    BY <1>2, <1>5 DEF Byte
  <2>2. b \in Nat /\ (b % 128) + 128 * rest.v \in Nat /\ at + 1 \in Int
    BY <1>3
  <2>3. QED
    BY <1>1, <1>3, <1>5, <2>1, <2>2 DEF Group, Read, Reads
<1>6. QED
  BY <1>1, <1>4, <1>5

\* The groups of the varint at pos are those of the loop's iterations.
LEMMA GroupsDefined ==
  ASSUME NEW data \in Seq(Byte), NEW pos \in Nat
  PROVE  /\ Groups(data, pos) \in [0 .. Full + 1 -> Reads]
         /\ \A left \in 0 .. Full + 1 :
              Groups(data, pos)[left] = Group(data, pos + Full + 1 - left, left, Groups(data, pos)[left - 1])
<1> DEFINE at(left) == pos + Full + 1 - left
           T == Reads
           S == 0 .. Full + 1
           none == Read(0, 0, TRUE)
           D == [f \in [Nat -> T] |->
                   [left \in Nat |-> IF left \notin S THEN none
                                     ELSE Group(data, at(left), left, IF left = 0 THEN none ELSE f[left - 1])]]
<1>1. Full \in Nat
  BY WidthAssumption
<1>2. none \in T
  BY DEF Read, Reads
<1>3. \A left \in S, rest \in T : Group(data, at(left), left, rest) \in T
  <2>1. TAKE left \in S, rest \in T
  <2>2. at(left) \in Int /\ at(left) >= 0 /\ left \in Nat
    BY <1>1
  <2>3. QED
    BY <2>2, GroupType
<1>4. D \in [[Nat -> T] -> [Nat -> T]]
  <2>1. ASSUME NEW f \in [Nat -> T], NEW left \in S
        PROVE  (IF left = 0 THEN none ELSE f[left - 1]) \in T
    <3>1. left # 0 => left - 1 \in Nat
      BY <1>1
    <3>2. left # 0 => f[left - 1] \in T
      BY <3>1
    <3>3. QED
      BY <1>2, <3>2
  <2> HIDE DEF T, at, none, S
  <2>2. QED
    BY <1>2, <1>3, <2>1
<1>5. \A f, g \in [Nat -> T] : \A n \in Nat :
        (\A k \in 0 .. n - 1 : f[k] = g[k]) => D[f][n] = D[g][n]
  <2>1. TAKE f, g \in [Nat -> T]
  <2>2. TAKE n \in Nat
  <2>3. HAVE \A k \in 0 .. n - 1 : f[k] = g[k]
  <2>4. n # 0 => f[n - 1] = g[n - 1]
    BY <2>3
  <2>5. (IF n = 0 THEN none ELSE f[n - 1]) = (IF n = 0 THEN none ELSE g[n - 1])
    BY <2>4
  <2> HIDE DEF T, at, none, S
  <2>6. QED
    BY <2>5
<1>6. PICK f \in [Nat -> T] : D[f] = f
  <2>1. T # {}
    BY <1>2
  <2> HIDE DEF D, T
  <2>2. QED
    BY <1>4, <1>5, <2>1, Solution
<1> DEFINE g == [left \in S |-> f[left]]
           Def(h) == [left \in S |->
             LET a == pos + Full + 1 - left
                 b == data[a + 1]
                 rest == h[left - 1]
             IN  IF a >= Len(data) THEN Read(0, a, TRUE)
                 ELSE IF left = 0 THEN Read(0, a, FALSE)
                 ELSE IF b < 128 THEN Read(b, a + 1, TRUE)
                 ELSE Read((b % 128) + 128 * rest.v, rest.pos, rest.ok)]
<1>7. \A left \in S : f[left] = Group(data, at(left), left, IF left = 0 THEN none ELSE f[left - 1])
  <2>1. TAKE left \in S
  <2>2. left \in Nat
    BY <1>1
  <2>3. D[f][left] = Group(data, at(left), left, IF left = 0 THEN none ELSE f[left - 1])
    <3> HIDE DEF T, at, none, S
    <3>1. QED
      BY <2>2
  <2>4. QED
    BY <1>6, <2>3
<1>8. \A left \in S : g[left] = Group(data, at(left), left, g[left - 1])
  <2>1. TAKE left \in S
  <2>2. left # 0 => left - 1 \in S
    BY <1>1
  <2>3. left = 0 => Group(data, at(left), left, none) = Group(data, at(left), left, g[left - 1])
    BY DEF Group
  <2> HIDE DEF at, none, S
  <2>4. QED
    BY <1>7, <2>2, <2>3
<1>9. g = Def(g)
  BY <1>8 DEF Group
<1>10. \E h : h = Def(h)
  BY <1>9
<1>11. Groups(data, pos) = Def(Groups(data, pos))
  BY <1>10 DEF Groups
<1>12. \A left \in S :
         Groups(data, pos)[left] = Group(data, at(left), left, Groups(data, pos)[left - 1])
  BY <1>11 DEF Group
<1>13. \A left \in S : Groups(data, pos)[left] \in T
  <2> DEFINE good == {n \in Nat : n \in S => Groups(data, pos)[n] \in T}
  <2>1. ASSUME NEW n \in Nat, \A k \in 0 .. n - 1 : k \in good PROVE n \in good
    <3>1. SUFFICES ASSUME n \in S PROVE Groups(data, pos)[n] \in T
      OBVIOUS
    <3>2. n # 0 => n - 1 \in S /\ n - 1 \in 0 .. n - 1
      BY <1>1, <3>1
    <3>3. n # 0 => Groups(data, pos)[n - 1] \in T
      BY <2>1, <3>2
    <3>4. n = 0 => Group(data, at(n), n, Groups(data, pos)[n - 1]) = Group(data, at(n), n, none)
      BY DEF Group
    <3> HIDE DEF at, none, S, T
    <3>5. QED
      BY <1>2, <1>3, <1>12, <3>1, <3>3, <3>4
  <2>2. \A n \in Nat : n \in good
    <3> HIDE DEF good
    <3>1. QED
      BY <2>1, SetInduction
  <2>3. QED
    BY <1>1, <2>2
<1>14. Groups(data, pos) = [left \in S |-> Groups(data, pos)[left]]
  BY <1>11
<1>15. Groups(data, pos) \in [S -> T]
  <2> HIDE DEF S, T
  <2>1. QED
    BY <1>13, <1>14
<1>16. QED
  BY <1>12, <1>15

(***************************************************************************)
(* Varints.                                                                *)
(***************************************************************************)
\* Reading a varint ends within the buffer, behind where it started; there is nothing to
\* read behind the end.
LEMMA VarintAt ==
  ASSUME NEW data \in Seq(Byte), NEW pos \in Nat
  PROVE  /\ DecodeVarintAt(data, pos).v \in 0 .. Modulus - 1
         /\ DecodeVarintAt(data, pos).pos \in Nat
         /\ DecodeVarintAt(data, pos).ok \in BOOLEAN
         /\ pos >= Len(data) => DecodeVarintAt(data, pos) = Read(0, pos, TRUE)
         /\ pos < Len(data) => DecodeVarintAt(data, pos).pos \in pos + 1 .. Len(data)
<1> DEFINE G == Groups(data, pos)
           at(left) == pos + Full + 1 - left
           good == {left \in Nat : left \in 0 .. Full + 1 /\ at(left) < Len(data) =>
                      G[left].pos \in (IF left = 0 THEN at(left) ELSE at(left) + 1) .. Len(data)}
<1>1. Full \in Nat /\ Len(data) \in Nat
  BY WidthAssumption
<1>2. \A left \in 0 .. Full + 1 : G[left] \in Reads
  BY GroupsDefined
<1>3. \A left \in 0 .. Full + 1 : G[left] = Group(data, at(left), left, G[left - 1])
  BY GroupsDefined
<1>4. \A left \in 0 .. Full + 1 : at(left) >= Len(data) => G[left] = Read(0, at(left), TRUE)
  BY <1>3 DEF Group
<1>5. ASSUME NEW left \in Nat, \A k \in 0 .. left - 1 : k \in good PROVE left \in good
  <2>1. SUFFICES ASSUME left \in 0 .. Full + 1, at(left) < Len(data)
                 PROVE  G[left].pos \in (IF left = 0 THEN at(left) ELSE at(left) + 1) .. Len(data)
    OBVIOUS
  <2>2. at(left) \in Nat
    BY <1>1, <2>1
  <2>3. left # 0 => left - 1 \in 0 .. Full + 1 /\ left - 1 \in 0 .. left - 1 /\ at(left - 1) = at(left) + 1
    BY <1>1, <2>1
  <2>4. left # 0 => G[left - 1].pos \in at(left) + 1 .. Len(data)
    <3>1. CASE left # 0 /\ at(left - 1) >= Len(data)
      <4>1. G[left - 1] = Read(0, at(left - 1), TRUE)
        BY <1>4, <2>3, <3>1
      <4>2. G[left - 1].pos = at(left) + 1
        BY <2>3, <3>1, <4>1 DEF Read
      <4>3. QED
        BY <1>1, <2>1, <2>2, <4>2
    <3>2. CASE left # 0 /\ at(left - 1) < Len(data)
      <4>1. left - 1 \in good
        BY <1>5, <2>3, <3>2
      <4>2. G[left - 1].pos \in at(left - 1) .. Len(data)
        BY <1>1, <2>2, <2>3, <3>2, <4>1
      <4>3. QED
        BY <2>3, <3>2, <4>2
    <3>3. QED
      BY <1>1, <2>2, <2>3, <3>1, <3>2
  <2>5. G[left] = Group(data, at(left), left, G[left - 1])
    BY <1>3, <2>1
  <2>6. G[left].pos = IF left = 0 THEN at(left) ELSE IF data[at(left) + 1] < 128 THEN at(left) + 1 ELSE G[left - 1].pos
    BY <1>1, <2>1, <2>2, <2>5 DEF Group, Read
  <2> HIDE DEF at, G
  <2>7. QED
    BY <1>1, <2>1, <2>2, <2>4, <2>6
<1>6. \A left \in Nat : left \in good
  <2> HIDE DEF good
  <2>1. QED
    BY <1>5, SetInduction
<1>7. at(Full + 1) = pos /\ Full + 1 \in 0 .. Full + 1 /\ Full + 1 # 0
  BY <1>1
<1>8. G[Full + 1] \in Reads
  BY <1>2, <1>7
<1>9. Modulus \in Nat \ {0}
  BY ModulusType
<1>10. DecodeVarintAt(data, pos) =
         Read(IF G[Full + 1].ok THEN G[Full + 1].v % Modulus ELSE 0, G[Full + 1].pos, G[Full + 1].ok)
  BY DEF DecodeVarintAt
<1>11. pos >= Len(data) => G[Full + 1] = Read(0, pos, TRUE)
  BY <1>4, <1>7
<1>12. 0 % Modulus = 0
  BY <1>9
<1>13. pos < Len(data) => G[Full + 1].pos \in pos + 1 .. Len(data)
  <2>1. Full + 1 \in good
    BY <1>1, <1>6
  <2>2. QED
    BY <1>7, <2>1
<1>14. (IF G[Full + 1].ok THEN G[Full + 1].v % Modulus ELSE 0) \in 0 .. Modulus - 1
  BY <1>8, <1>9 DEF Reads
<1>15. G[Full + 1].pos \in Nat
  BY <1>1, <1>11, <1>13 DEF Read
<1>16. QED
  <2> HIDE DEF G
  <2>1. QED
    BY <1>8, <1>10, <1>11, <1>12, <1>13, <1>14, <1>15 DEF Read, Reads

\* The bytes s stand in data from pos on.
Holds(data, pos, s) == pos + Len(s) <= Len(data) /\ \A i \in 1 .. Len(s) : data[pos + i] = s[i]

\* What encodeVarint appends, decodeVarintAt reads back, wherever it stands in a buffer
\* and whatever follows it, for every number that fits the width.
THEOREM VarintComesBack ==
  ASSUME NEW data \in Seq(Byte), NEW pos \in Nat, NEW v \in 0 .. Modulus - 1,
         Holds(data, pos, EncodeVarint(v))
  PROVE  DecodeVarintAt(data, pos) = Read(v, pos + Len(EncodeVarint(v)), TRUE)
<1> DEFINE G == Groups(data, pos)
           at(left) == pos + Full + 1 - left
           S == 1 .. Full + 1
           back(left) == \A w \in Nat : w < Power[left] /\ Holds(data, at(left), Varint[w]) =>
                           G[left] = Read(w, at(left) + Len(Varint[w]), TRUE)
           good == {left \in Nat : left \in S => back(left)}
<1>1. Full \in Nat /\ Len(data) \in Nat
  BY WidthAssumption
<1>2. \A left \in S : G[left] = Group(data, at(left), left, G[left - 1])
  <2>1. \A left \in S : left \in 0 .. Full + 1
    BY <1>1
  <2>2. QED
    BY <2>1, GroupsDefined
<1>3. ASSUME NEW left \in Nat, \A k \in 0 .. left - 1 : k \in good PROVE left \in good
  <2>1. SUFFICES ASSUME left \in S, NEW w \in Nat, w < Power[left], Holds(data, at(left), Varint[w])
                 PROVE  G[left] = Read(w, at(left) + Len(Varint[w]), TRUE)
    OBVIOUS
  <2>2. PICK a \in Nat : a = at(left)
    BY <1>1, <2>1
  <2>3. G[left] = Group(data, a, left, G[left - 1])
    BY <1>2, <2>1, <2>2
  <2>4. CASE w < 128
    <3>1. Varint[w] = <<w>>
      BY <2>4, VarintDefined
    <3>2. Len(Varint[w]) = 1 /\ Varint[w][1] = w
      BY <3>1
    <3>3. a + 1 <= Len(data) /\ data[a + 1] = w
      BY <2>1, <2>2, <3>2 DEF Holds
    <3>4. left # 0
      BY <2>1
    <3>5. Group(data, a, left, G[left - 1]) = Read(w, a + 1, TRUE)
      <4> HIDE DEF G
      <4>1. ~(a >= Len(data))
        BY <1>1, <3>3
      <4>2. QED
        BY <2>4, <3>3, <3>4, <4>1, Zenon DEF Group
    <3>6. QED
      BY <2>2, <2>3, <3>2, <3>5
  <2>5. CASE w >= 128
    <3> DEFINE u == w \div 128
               r == w % 128
    <3>1. w = 128 * u + r /\ u \in Nat /\ r \in 0 .. 127
      BY <2>1
    <3>2. Varint[w] = <<r + 128>> \o Varint[u]
      <4>1. ~(w < 128)
        BY <2>1, <2>5
      <4>2. Varint[w] = IF w < 128 THEN <<w>> ELSE <<(w % 128) + 128>> \o Varint[w \div 128]
        BY <2>1, VarintDefined
      <4>3. QED
        BY <4>1, <4>2, Zenon
    <3> HIDE DEF u, r
    <3>3. Varint[u] \in Seq(Byte)
      BY <3>1, VarintDefined
    <3>4. PICK l \in Nat : l = Len(Varint[u])
      BY <3>3
    <3>5. Len(Varint[w]) = l + 1 /\ Varint[w][1] = r + 128 /\ \A i \in 1 .. l : Varint[w][i + 1] = Varint[u][i]
      <4>1. r + 128 \in Byte
        BY <3>1 DEF Byte
      <4>2. <<r + 128>> \in Seq(Byte) /\ Len(<<r + 128>>) = 1 /\ <<r + 128>>[1] = r + 128
        BY <4>1
      <4>3. QED
        BY <3>2, <3>3, <3>4, <4>2, ConcatProperties
    <3>6. a + 1 + l <= Len(data) /\ data[a + 1] = r + 128 /\ \A i \in 1 .. l : data[a + 1 + i] = Varint[u][i]
      <4>1. a + Len(Varint[w]) <= Len(data) /\ \A i \in 1 .. Len(Varint[w]) : data[a + i] = Varint[w][i]
        BY <2>1, <2>2 DEF Holds
      <4>2. a + (l + 1) <= Len(data) /\ \A i \in 1 .. l + 1 : data[a + i] = Varint[w][i]
        BY <3>5, <4>1
      <4>3. a + 1 + l <= Len(data) /\ 1 \in 1 .. l + 1
        BY <1>1, <4>2
      <4>4. data[a + 1] = r + 128
        BY <3>5, <4>2, <4>3
      <4>5. ASSUME NEW i \in 1 .. l PROVE data[a + 1 + i] = Varint[u][i]
        <5>1. i + 1 \in 1 .. l + 1 /\ a + (i + 1) = a + 1 + i
          OBVIOUS
        <5>2. QED
          BY <3>5, <4>2, <5>1
      <4>6. QED
        BY <4>3, <4>4, <4>5
    <3>7. left - 1 \in Nat /\ left - 1 \in 0 .. left - 1
      BY <2>1
    <3>8. PICK p \in Nat : p = Power[left - 1]
      BY <3>7, PowerDefined
    <3>9. Power[left] = 128 * p
      <4>1. left = (left - 1) + 1
        BY <2>1
      <4>2. Power[(left - 1) + 1] = 128 * Power[left - 1]
        BY <3>7, PowerDefined
      <4>3. QED
        BY <3>8, <4>1, <4>2
    <3>10. u < p
      BY <2>1, <3>1, <3>8, <3>9
    <3>11. left # 1
      BY <2>5, <3>1, <3>8, <3>10, PowerDefined
    <3>12. at(left - 1) = a + 1 /\ left - 1 \in S
      BY <1>1, <2>1, <2>2, <3>11
    <3>13. Holds(data, a + 1, Varint[u])
      BY <3>4, <3>6 DEF Holds
    <3>14. back(left - 1)
      BY <1>3, <3>7, <3>12
    <3>15. G[left - 1] = Read(u, a + 1 + l, TRUE)
      <4> HIDE DEF at, G
      <4>1. u \in Nat /\ u < Power[left - 1] /\ Holds(data, at(left - 1), Varint[u])
        BY <3>1, <3>8, <3>10, <3>12, <3>13
      <4>2. G[left - 1] = Read(u, at(left - 1) + Len(Varint[u]), TRUE)
        BY <3>14, <4>1, Zenon
      <4>3. QED
        BY <3>4, <3>12, <4>2, Zenon
    <3>16. (r + 128) % 128 = r
      BY <3>1
    <3>17. Group(data, a, left, G[left - 1]) = Read(r + 128 * u, a + 1 + l, TRUE)
      <4> HIDE DEF G
      <4>1. a < Len(data) /\ left # 0
        BY <1>1, <2>1, <3>6
      <4>2. ~(r + 128 < 128)
        BY <3>1
      <4>3. G[left - 1].v = u /\ G[left - 1].pos = a + 1 + l /\ G[left - 1].ok = TRUE
        BY <3>15 DEF Read
      <4>4. Group(data, a, left, G[left - 1]) =
              Read(((r + 128) % 128) + 128 * G[left - 1].v, G[left - 1].pos, G[left - 1].ok)
        <5>1. ~(a >= Len(data))
          BY <1>1, <4>1
        <5>2. QED
          BY <3>6, <4>1, <4>2, <5>1, Zenon DEF Group
      <4>5. QED
        BY <3>16, <4>3, <4>4
    <3>18. a + 1 + l = a + Len(Varint[w]) /\ r + 128 * u = w
      BY <3>1, <3>5
    <3>19. QED
      BY <2>2, <2>3, <3>17, <3>18
  <2>6. w < 128 \/ w >= 128
    BY <2>1
  <2>7. QED
    BY <2>4, <2>5, <2>6, Zenon
<1>4. \A left \in Nat : left \in good
  <2> HIDE DEF good
  <2>1. QED
    BY <1>3, SetInduction
<1>5. back(Full + 1)
  <2>1. Full + 1 \in Nat /\ Full + 1 \in S
    BY <1>1
  <2> HIDE DEF back
  <2>2. QED
    BY <1>4, <2>1
<1>6. PICK p \in Nat : p = Power[Full] /\ Modulus = 2 * p /\ Power[Full + 1] = 128 * p
  BY <1>1, ModulusType, PowerDefined
<1>7. v \in Nat /\ v < Power[Full + 1] /\ v % Modulus = v
  <2>1. v \in 0 .. 2 * p - 1
    BY <1>6, Zenon
  <2>2. v \in Nat /\ v < 128 * p /\ v % (2 * p) = v
    BY <2>1
  <2>3. QED
    BY <1>6, <2>2, Zenon
<1>8. at(Full + 1) = pos
  BY <1>1
<1>9. G[Full + 1] = Read(v, pos + Len(Varint[v]), TRUE)
  <2> HIDE DEF at, G
  <2>1. QED
    BY <1>5, <1>7, <1>8 DEF EncodeVarint
<1>10. G[Full + 1].v = v /\ G[Full + 1].pos = pos + Len(Varint[v]) /\ G[Full + 1].ok = TRUE
  BY <1>9 DEF Read
<1>11. QED
  <2> HIDE DEF G
  <2>1. DecodeVarintAt(data, pos) =
          Read(IF G[Full + 1].ok THEN G[Full + 1].v % Modulus ELSE 0, G[Full + 1].pos, G[Full + 1].ok)
    BY DEF DecodeVarintAt, G
  <2>2. QED
    BY <1>7, <1>10, <2>1 DEF EncodeVarint

\* Reading a varint from a buffer cut off behind its first n bytes finds the same as in
\* the whole buffer, or it runs into the cut and counts as read: no byte of it is left, or
\* the last one that is left says that more follow.
LEMMA VarintCut ==
  ASSUME NEW data \in Seq(Byte), NEW pos \in Nat, NEW n \in 0 .. Len(data), pos <= n
  PROVE  LET whole == DecodeVarintAt(data, pos)
             part  == DecodeVarintAt(SubSeq(data, 1, n), pos)
         IN  \/ part = whole /\ whole.pos <= n
             \/ part.pos = n /\ part.ok /\ (pos = n \/ data[n] >= 128)
<1> DEFINE cut == SubSeq(data, 1, n)
           G == Groups(data, pos)
           H == Groups(cut, pos)
           at(left) == pos + Full + 1 - left
           S == 0 .. Full + 1
           good == {left \in Nat : left \in S /\ at(left) <= n =>
                      \/ H[left] = G[left] /\ G[left].pos <= n
                      \/ H[left].pos = n /\ H[left].ok /\ (at(left) = n \/ data[n] >= 128)}
<1>1. Full \in Nat /\ Len(data) \in Nat /\ n \in Nat /\ n <= Len(data)
  BY WidthAssumption
<1>2. cut \in Seq(Byte) /\ Len(cut) = n /\ \A i \in 1 .. n : cut[i] = data[i]
  <2>1. \A i \in 1 .. n : data[i] \in Byte
    BY <1>1
  <2>2. QED
    BY <1>1, <2>1, SubSeqProperties
<1> HIDE DEF cut
<1>3. \A left \in S : G[left] = Group(data, at(left), left, G[left - 1])
  BY GroupsDefined
<1>4. \A left \in S : H[left] = Group(cut, at(left), left, H[left - 1])
  BY <1>2, GroupsDefined
<1>5. ASSUME NEW left \in Nat, \A k \in 0 .. left - 1 : k \in good PROVE left \in good
  <2>1. SUFFICES ASSUME left \in S, at(left) <= n
                 PROVE  \/ H[left] = G[left] /\ G[left].pos <= n
                        \/ H[left].pos = n /\ H[left].ok /\ (at(left) = n \/ data[n] >= 128)
    OBVIOUS
  <2>2. PICK a \in Nat : a = at(left)
    BY <1>1, <2>1
  <2>3. H[left] = Group(cut, a, left, H[left - 1]) /\ G[left] = Group(data, a, left, G[left - 1])
    BY <1>3, <1>4, <2>1, <2>2
  <2>4. CASE a = n
    BY <1>1, <1>2, <2>2, <2>3, <2>4 DEF Group, Read
  <2>5. CASE a < n /\ (left = 0 \/ data[a + 1] < 128)
    <3>1. cut[a + 1] = data[a + 1] /\ a + 1 <= n
      BY <1>1, <1>2, <2>5
    <3>2. QED
      BY <1>1, <1>2, <2>3, <2>5, <3>1 DEF Group, Read
  <2>6. CASE a < n /\ left # 0 /\ ~(data[a + 1] < 128)
    <3>1. cut[a + 1] = data[a + 1]
      BY <1>1, <1>2, <2>6
    <3>2. left - 1 \in S /\ left - 1 \in 0 .. left - 1 /\ at(left - 1) <= n
      BY <1>1, <2>1, <2>2, <2>6
    <3>3. left - 1 \in good
      BY <1>5, <3>2
    <3>4. \/ H[left - 1] = G[left - 1] /\ G[left - 1].pos <= n
          \/ H[left - 1].pos = n /\ H[left - 1].ok /\ (at(left - 1) = n \/ data[n] >= 128)
      BY <3>2, <3>3
    <3>8. at(left - 1) = n => data[n] >= 128
      <4>1. left - 1 \in Int /\ at(left - 1) = a + 1
        BY <1>1, <2>1, <2>2
      <4>2. data[a + 1] \in Int
        <5>1. a + 1 \in 1 .. Len(data)
          BY <1>1, <2>6
        <5>2. data[a + 1] \in Byte
          BY <5>1
        <5>3. Byte \subseteq Int
          BY DEF Byte
        <5>4. QED
          BY <5>2, <5>3, Zenon
      <4>3. QED
        BY <2>6, <4>1, <4>2
    <3> HIDE DEF G, H, S
    <3>5. H[left] = Read((data[a + 1] % 128) + 128 * H[left - 1].v, H[left - 1].pos, H[left - 1].ok)
      <4>1. ~(a >= Len(cut)) /\ ~(cut[a + 1] < 128)
        BY <1>2, <2>6, <3>1
      <4>2. QED
        BY <1>2, <2>3, <2>6, <3>1, <4>1, Zenon DEF Group
    <3>6. G[left] = Read((data[a + 1] % 128) + 128 * G[left - 1].v, G[left - 1].pos, G[left - 1].ok)
      <4>1. ~(a >= Len(data))
        BY <1>1, <2>6
      <4>2. QED
        BY <2>3, <2>6, <4>1, Zenon DEF Group
    <3>7. QED
      BY <3>4, <3>5, <3>6, <3>8 DEF Read
  <2>7. QED
    BY <2>1, <2>2, <2>4, <2>5, <2>6
<1>6. \A left \in Nat : left \in good
  <2> HIDE DEF good
  <2>1. QED
    BY <1>5, SetInduction
<1>7. Full + 1 \in S /\ at(Full + 1) <= n /\ at(Full + 1) = pos
  BY <1>1
<1>8. \/ H[Full + 1] = G[Full + 1] /\ G[Full + 1].pos <= n
      \/ H[Full + 1].pos = n /\ H[Full + 1].ok /\ (pos = n \/ data[n] >= 128)
  BY <1>6, <1>7
<1>9. QED
  <2> HIDE DEF G, H
  <2>1. DecodeVarintAt(data, pos) =
          Read(IF G[Full + 1].ok THEN G[Full + 1].v % Modulus ELSE 0, G[Full + 1].pos, G[Full + 1].ok)
    BY DEF DecodeVarintAt, G
  <2>2. DecodeVarintAt(cut, pos) =
          Read(IF H[Full + 1].ok THEN H[Full + 1].v % Modulus ELSE 0, H[Full + 1].pos, H[Full + 1].ok)
    BY DEF DecodeVarintAt, H
  <2>3. QED
    BY <1>8, <2>1, <2>2 DEF Read, cut

(***************************************************************************)
(* The decoder.  Kind says what the loop does with the field at pos, and   *)
(* Turn what it returns, from what it returns for the rest of the buffer   *)
(* and for a nested one, f.                                                *)
(***************************************************************************)
TagAt(data, pos) == DecodeVarintAt(data, pos)
NumAt(data, pos) == TagAt(data, pos).v \div 8
ArgAt(data, pos) == DecodeVarintAt(data, TagAt(data, pos).pos)
LenAt(data, pos) == Signed(ArgAt(data, pos).v)
EndAt(data, pos) == Signed(ArgAt(data, pos).pos + LenAt(data, pos))
RawAt(data, pos) == SubSeq(data, ArgAt(data, pos).pos + 1, EndAt(data, pos))

Stops(data, pos) == pos >= Len(data) \/ ~TagAt(data, pos).ok \/ NumAt(data, pos) = 0

Wire(data, pos) == TagAt(data, pos).v % 8

HasData(data, pos) == ArgAt(data, pos).ok /\ Fits(ArgAt(data, pos).pos, LenAt(data, pos), Len(data))

Kind(data, pos) ==
  IF Stops(data, pos) THEN "end"
  ELSE CASE Wire(data, pos) = 0 /\ ArgAt(data, pos).ok -> "varint"
         [] Wire(data, pos) = 2 /\ HasData(data, pos) ->
              IF EndAt(data, pos) \notin ArgAt(data, pos).pos .. Len(data) THEN "panic" ELSE "data"
         [] Wire(data, pos) = 1 -> "fixed64"
         [] Wire(data, pos) = 5 -> "fixed32"
         [] OTHER -> "end"

Turn(f, data, pos, depth) ==
  CASE Kind(data, pos) = "varint" ->
         <<Field(NumAt(data, pos), "varint", ArgAt(data, pos).v)>> \o f[<<data, ArgAt(data, pos).pos, depth>>]
    [] Kind(data, pos) = "data" ->
         <<Guess(NumAt(data, pos), RawAt(data, pos),
                 IF depth < MaxDepth THEN f[<<RawAt(data, pos), 0, depth + 1>>] ELSE <<>>)>>
         \o f[<<data, EndAt(data, pos), depth>>]
    [] Kind(data, pos) = "panic"   -> <<Panic>>
    [] Kind(data, pos) = "fixed64" -> f[<<data, TagAt(data, pos).pos + 8, depth>>]
    [] Kind(data, pos) = "fixed32" -> f[<<data, TagAt(data, pos).pos + 4, depth>>]
    [] OTHER -> <<>>

\* The bytes that are left, on which the recursion is founded.
Rank(data, pos) == IF pos < Len(data) THEN Len(data) - pos ELSE 0

Depth == 0 .. MaxDepth

Calls == Seq(Byte) \X Nat \X Depth

\* The switch of decodeProtobuf without CASE.
LEMMA KindIs ==
  ASSUME NEW data, NEW pos
  PROVE  /\ Stops(data, pos) => Kind(data, pos) = "end"
         /\ ~Stops(data, pos) =>
              /\ Wire(data, pos) = 0 =>
                   Kind(data, pos) = IF ArgAt(data, pos).ok THEN "varint" ELSE "end"
              /\ Wire(data, pos) = 1 => Kind(data, pos) = "fixed64"
              /\ Wire(data, pos) = 2 =>
                   Kind(data, pos) = IF ~HasData(data, pos) THEN "end"
                                     ELSE IF EndAt(data, pos) \notin ArgAt(data, pos).pos .. Len(data)
                                     THEN "panic" ELSE "data"
              /\ Wire(data, pos) = 5 => Kind(data, pos) = "fixed32"
              /\ Wire(data, pos) \notin {0, 1, 2, 5} => Kind(data, pos) = "end"
<1> DEFINE wire == Wire(data, pos)
<1>1. CASE Stops(data, pos)
  BY <1>1, Zenon DEF Kind
<1>2. CASE ~Stops(data, pos) /\ wire = 0
  <2>1. wire # 1 /\ wire # 2 /\ wire # 5
    BY <1>2
  <2>2. QED
    BY <1>2, <2>1, Zenon DEF Kind
<1>3. CASE ~Stops(data, pos) /\ wire = 1
  <2>1. wire # 0 /\ wire # 2 /\ wire # 5
    BY <1>3
  <2>2. QED
    BY <1>3, <2>1, Zenon DEF Kind
<1>4. CASE ~Stops(data, pos) /\ wire = 2
  <2>1. wire # 0 /\ wire # 1 /\ wire # 5
    BY <1>4
  <2>2. QED
    BY <1>4, <2>1, Zenon DEF Kind
<1>5. CASE ~Stops(data, pos) /\ wire = 5
  <2>1. wire # 0 /\ wire # 1 /\ wire # 2
    BY <1>5
  <2>2. QED
    BY <1>5, <2>1, Zenon DEF Kind
<1>6. CASE ~Stops(data, pos) /\ wire \notin {0, 1, 2, 5}
  <2>1. wire # 0 /\ wire # 1 /\ wire # 2 /\ wire # 5
    BY <1>6
  <2>2. QED
    BY <1>6, <2>1, Zenon DEF Kind
<1>7. QED
  <2> HIDE DEF wire
  <2>1. wire = 0 \/ wire = 1 \/ wire = 2 \/ wire = 5 \/ wire \notin {0, 1, 2, 5}
    OBVIOUS
  <2>2. QED
    BY <1>1, <1>2, <1>3, <1>4, <1>5, <1>6, <2>1, Zenon DEF wire

\* What the loop goes on with lies behind pos, or is a shorter buffer.
LEMMA KindFacts ==
  ASSUME NEW data \in Seq(Byte), NEW pos \in Nat
  PROVE  /\ Kind(data, pos) \in {"end", "varint", "data", "panic", "fixed64", "fixed32"}
         /\ TagAt(data, pos).pos \in Nat /\ TagAt(data, pos).v \in Nat
         /\ ArgAt(data, pos).pos \in Nat /\ ArgAt(data, pos).v \in Nat
         /\ Kind(data, pos) # "end" =>
              /\ pos < Len(data)
              /\ TagAt(data, pos).pos \in pos + 1 .. Len(data)
              /\ ArgAt(data, pos).pos \in TagAt(data, pos).pos .. Len(data)
         /\ Kind(data, pos) = "data" =>
              /\ EndAt(data, pos) \in ArgAt(data, pos).pos .. Len(data)
              /\ RawAt(data, pos) \in Seq(Byte)
              /\ Len(RawAt(data, pos)) = EndAt(data, pos) - ArgAt(data, pos).pos
<1> DEFINE tag == TagAt(data, pos)
           arg == ArgAt(data, pos)
<1>1. Len(data) \in Nat
  OBVIOUS
<1>2. tag.pos \in Nat /\ tag.v \in Nat /\ (pos < Len(data) => tag.pos \in pos + 1 .. Len(data))
  <2>1. tag.v \in 0 .. Modulus - 1 /\ tag.pos \in Nat /\ (pos < Len(data) => tag.pos \in pos + 1 .. Len(data))
    BY VarintAt DEF TagAt
  <2>2. QED
    BY <2>1, ModulusType
<1>3. arg.pos \in Nat /\ arg.v \in Nat
  <2>1. arg.v \in 0 .. Modulus - 1 /\ arg.pos \in Nat
    BY <1>2, VarintAt DEF ArgAt
  <2>2. QED
    BY <2>1, ModulusType
<1>4. tag.pos <= Len(data) => arg.pos \in tag.pos .. Len(data)
  <2>1. CASE tag.pos = Len(data)
    <3>1. arg = Read(0, tag.pos, TRUE)
      <4>1. tag.pos >= Len(data) /\ tag.pos \in Nat
        BY <1>1, <1>2, <2>1
      <4>2. QED
        BY <4>1, VarintAt, Zenon DEF ArgAt
    <3>2. arg.pos = tag.pos
      BY <3>1 DEF Read
    <3>3. QED
      BY <1>2, <2>1, <3>2
  <2>2. CASE tag.pos < Len(data)
    <3>1. arg.pos \in tag.pos + 1 .. Len(data)
      BY <1>2, <2>2, VarintAt DEF ArgAt
    <3>2. QED
      BY <1>1, <1>2, <3>1
  <2>3. QED
    BY <1>1, <1>2, <2>1, <2>2
<1>5. Kind(data, pos) \in {"end", "varint", "data", "panic", "fixed64", "fixed32"}
  BY DEF Kind
<1>6. Kind(data, pos) # "end" => pos < Len(data)
  BY <1>1 DEF Kind, Stops
<1>7. Kind(data, pos) = "data" => EndAt(data, pos) \in arg.pos .. Len(data)
  BY DEF Kind
<1>8. ASSUME EndAt(data, pos) \in arg.pos .. Len(data)
      PROVE  RawAt(data, pos) \in Seq(Byte) /\ Len(RawAt(data, pos)) = EndAt(data, pos) - arg.pos
  <2>1. PICK a \in Nat, e \in Nat : a = arg.pos /\ e = EndAt(data, pos) /\ a <= e /\ e <= Len(data)
    BY <1>1, <1>3, <1>8
  <2>2. \A i \in a + 1 .. e : data[i] \in Byte
    BY <1>1, <2>1
  <2>3. SubSeq(data, a + 1, e) \in Seq(Byte) /\ Len(SubSeq(data, a + 1, e)) = IF a + 1 <= e THEN e - (a + 1) + 1 ELSE 0
    BY <2>2, SubSeqProperties
  <2>4. (IF a + 1 <= e THEN e - (a + 1) + 1 ELSE 0) = e - a
    BY <2>1
  <2>5. RawAt(data, pos) = SubSeq(data, a + 1, e)
    BY <2>1 DEF RawAt
  <2>6. QED
    BY <2>1, <2>3, <2>4, <2>5
<1>9. QED
  <2> HIDE DEF tag, arg
  <2>1. Kind(data, pos) # "end" => tag.pos \in pos + 1 .. Len(data) /\ arg.pos \in tag.pos .. Len(data)
    BY <1>1, <1>2, <1>4, <1>6
  <2>2. QED
    BY <1>2, <1>3, <1>5, <1>6, <1>7, <1>8, <2>1 DEF tag, arg

\* f and g return the same for buffers with less than n bytes left.
Agree(f, g, n) ==
  \A data \in Seq(Byte), pos \in Nat, depth \in Depth :
    Rank(data, pos) < n => f[<<data, pos, depth>>] = g[<<data, pos, depth>>]

\* One turn asks f only for buffers with fewer bytes left.
LEMMA TurnCongruence ==
  ASSUME NEW data \in Seq(Byte), NEW pos \in Nat, NEW depth \in Depth, NEW f, NEW g,
         Agree(f, g, Rank(data, pos))
  PROVE  Turn(f, data, pos, depth) = Turn(g, data, pos, depth)
<1> DEFINE tag == TagAt(data, pos)
           arg == ArgAt(data, pos)
           end == EndAt(data, pos)
           raw == RawAt(data, pos)
<1>1. Len(data) \in Nat
  OBVIOUS
<1>2. ASSUME Kind(data, pos) # "end", NEW p \in Nat, p > pos
      PROVE  f[<<data, p, depth>>] = g[<<data, p, depth>>]
  <2>1. pos < Len(data)
    BY <1>2, KindFacts
  <2>2. Rank(data, p) < Rank(data, pos)
    BY <1>1, <1>2, <2>1 DEF Rank
  <2>3. QED
    BY <1>2, <2>2 DEF Agree
<1>3. ASSUME Kind(data, pos) # "end"
      PROVE  tag.pos \in Nat /\ tag.pos > pos /\ arg.pos \in Nat /\ arg.pos > pos
  <2>1. tag.pos \in pos + 1 .. Len(data) /\ arg.pos \in tag.pos .. Len(data)
    BY <1>3, KindFacts
  <2>2. QED
    BY <1>1, <2>1
<1>4. CASE Kind(data, pos) = "varint"
  <2>1. f[<<data, arg.pos, depth>>] = g[<<data, arg.pos, depth>>]
    <3> HIDE DEF arg, tag
    <3>1. QED
      BY <1>2, <1>3, <1>4
  <2>2. QED
    BY <1>4, <2>1 DEF Turn
<1>5. CASE Kind(data, pos) = "data"
  <2>1. end \in arg.pos .. Len(data) /\ raw \in Seq(Byte) /\ Len(raw) = end - arg.pos /\ pos < Len(data)
    BY <1>5, KindFacts
  <2>2. arg.pos \in Nat /\ arg.pos > pos
    BY <1>3, <1>5
  <2> HIDE DEF arg, tag, end, raw
  <2>3. end \in Nat /\ end > pos
    BY <1>1, <2>1, <2>2
  <2>4. f[<<data, end, depth>>] = g[<<data, end, depth>>]
    BY <1>2, <1>5, <2>3
  <2>5. Rank(raw, 0) < Rank(data, pos)
    BY <1>1, <2>1, <2>2 DEF Rank
  <2>6. ASSUME depth < MaxDepth PROVE f[<<raw, 0, depth + 1>>] = g[<<raw, 0, depth + 1>>]
    <3>1. depth + 1 \in Depth
      BY <2>6 DEF Depth, MaxDepth
    <3>2. QED
      BY <2>1, <2>5, <3>1 DEF Agree
  <2>7. (IF depth < MaxDepth THEN f[<<raw, 0, depth + 1>>] ELSE <<>>)
          = (IF depth < MaxDepth THEN g[<<raw, 0, depth + 1>>] ELSE <<>>)
    BY <2>6
  <2>8. QED
    BY <1>5, <2>4, <2>7, Zenon DEF Turn, end, raw
<1>6. CASE Kind(data, pos) = "fixed64"
  <2>1. tag.pos + 8 \in Nat /\ tag.pos + 8 > pos
    BY <1>3, <1>6
  <2>2. f[<<data, tag.pos + 8, depth>>] = g[<<data, tag.pos + 8, depth>>]
    <3> HIDE DEF arg, tag
    <3>1. QED
      BY <1>2, <1>6, <2>1
  <2>3. QED
    BY <1>6, <2>2 DEF Turn
<1>7. CASE Kind(data, pos) = "fixed32"
  <2>1. tag.pos + 4 \in Nat /\ tag.pos + 4 > pos
    BY <1>3, <1>7
  <2>2. f[<<data, tag.pos + 4, depth>>] = g[<<data, tag.pos + 4, depth>>]
    <3> HIDE DEF arg, tag
    <3>1. QED
      BY <1>2, <1>7, <2>1
  <2>3. QED
    BY <1>7, <2>2 DEF Turn
<1>8. CASE Kind(data, pos) \in {"end", "panic"}
  BY <1>8 DEF Turn
<1>9. QED
  BY <1>4, <1>5, <1>6, <1>7, <1>8, KindFacts

\* f is what the decoder returns for buffers with less than n bytes left.
UpTo(f, n) ==
  \A data \in Seq(Byte), pos \in Nat, depth \in Depth :
    Rank(data, pos) < n => f[<<data, pos, depth>>] = Turn(f, data, pos, depth)

\* The bytes left are a number.
LEMMA RankType ==
  ASSUME NEW data \in Seq(Byte), NEW pos \in Nat
  PROVE  Rank(data, pos) \in Nat
<1>1. PICK n \in Nat : n = Len(data)
  OBVIOUS
<1>2. QED
  BY <1>1 DEF Rank

\* A solution up to n can be carried on by one more byte.
LEMMA OneMore ==
  ASSUME NEW n \in Nat, NEW g, UpTo(g, n)
  PROVE  UpTo([call \in Calls |-> Turn(g, call[1], call[2], call[3])], n + 1)
<1> DEFINE h == [call \in Calls |-> Turn(g, call[1], call[2], call[3])]
<1>1. \A data \in Seq(Byte), pos \in Nat, depth \in Depth : h[<<data, pos, depth>>] = Turn(g, data, pos, depth)
  <2>1. TAKE data \in Seq(Byte), pos \in Nat, depth \in Depth
  <2> DEFINE call == <<data, pos, depth>>
  <2>2. call \in Calls /\ call[1] = data /\ call[2] = pos /\ call[3] = depth
    BY DEF Calls
  <2> HIDE DEF call
  <2>3. h[call] = Turn(g, data, pos, depth)
    BY <2>2
  <2>4. QED
    BY <2>3 DEF call
<1> HIDE DEF h
<1>2. ASSUME NEW data \in Seq(Byte), NEW pos \in Nat, NEW depth \in Depth, Rank(data, pos) < n + 1
      PROVE  h[<<data, pos, depth>>] = Turn(h, data, pos, depth)
  <2>1. ASSUME NEW d \in Seq(Byte), NEW p \in Nat, NEW e \in Depth, Rank(d, p) < Rank(data, pos)
        PROVE  g[<<d, p, e>>] = h[<<d, p, e>>]
    <3>1. Rank(d, p) < n
      <4>1. PICK r \in Nat, s \in Nat : r = Rank(d, p) /\ s = Rank(data, pos)
        BY <1>2, <2>1, RankType
      <4>2. r < s /\ s < n + 1
        BY <1>2, <2>1, <4>1, Zenon
      <4>3. QED
        BY <4>1, <4>2
    <3>2. g[<<d, p, e>>] = Turn(g, d, p, e)
      BY <3>1 DEF UpTo
    <3>3. QED
      BY <1>1, <3>2
  <2>2. Turn(g, data, pos, depth) = Turn(h, data, pos, depth)
    <3>1. Agree(g, h, Rank(data, pos))
      BY <2>1 DEF Agree
    <3>2. QED
      BY <3>1, TurnCongruence
  <2>3. QED
    BY <1>1, <2>2
<1>3. QED
  BY <1>2 DEF UpTo, h

\* Two decoders that solve the equation up to n agree there.
LEMMA Unique ==
  ASSUME NEW m \in Nat, NEW n \in Nat, NEW g, NEW h, UpTo(g, m), UpTo(h, n),
         NEW data \in Seq(Byte), NEW pos \in Nat, NEW depth \in Depth,
         Rank(data, pos) < m, Rank(data, pos) < n
  PROVE  g[<<data, pos, depth>>] = h[<<data, pos, depth>>]
<1> DEFINE good == {r \in Nat : \A d \in Seq(Byte), p \in Nat, e \in Depth :
                      Rank(d, p) = r /\ r < m /\ r < n => g[<<d, p, e>>] = h[<<d, p, e>>]}
<1>1. ASSUME NEW r \in Nat, \A k \in 0 .. r - 1 : k \in good PROVE r \in good
  <2>1. SUFFICES ASSUME NEW d \in Seq(Byte), NEW p \in Nat, NEW e \in Depth, Rank(d, p) = r, r < m, r < n
                 PROVE  g[<<d, p, e>>] = h[<<d, p, e>>]
    OBVIOUS
  <2>2. ASSUME NEW dd \in Seq(Byte), NEW pp \in Nat, NEW ee \in Depth, Rank(dd, pp) < Rank(d, p)
        PROVE  g[<<dd, pp, ee>>] = h[<<dd, pp, ee>>]
    <3>1. PICK k \in Nat : k = Rank(dd, pp)
      BY RankType
    <3>2. k \in 0 .. r - 1 /\ k < m /\ k < n
      BY <2>1, <2>2, <3>1
    <3>3. k \in good
      BY <1>1, <3>2
    <3>4. QED
      BY <3>1, <3>2, <3>3
  <2>3. Turn(g, d, p, e) = Turn(h, d, p, e)
    <3>1. Agree(g, h, Rank(d, p))
      BY <2>2 DEF Agree
    <3>2. QED
      BY <2>1, <3>1, TurnCongruence
  <2>4. g[<<d, p, e>>] = Turn(g, d, p, e) /\ h[<<d, p, e>>] = Turn(h, d, p, e)
    BY <2>1 DEF UpTo
  <2>5. QED
    BY <2>3, <2>4
<1>2. \A r \in Nat : r \in good
  <2> HIDE DEF good
  <2>1. QED
    BY <1>1, SetInduction
<1>3. QED
  BY <1>2, RankType

\* The loop's body, as Decode has it.
Body(f, data, pos, depth) ==
  LET tag == DecodeVarintAt(data, pos)
      num == tag.v \div 8
      arg == DecodeVarintAt(data, tag.pos)
      len == Signed(arg.v)
      end == Signed(arg.pos + len)
      raw == SubSeq(data, arg.pos + 1, end)
      nested == IF depth < MaxDepth THEN f[<<raw, 0, depth + 1>>] ELSE <<>>
  IN  IF pos >= Len(data) \/ ~tag.ok \/ num = 0 THEN <<>>
      ELSE CASE tag.v % 8 = 0 /\ arg.ok -> <<Field(num, "varint", arg.v)>> \o f[<<data, arg.pos, depth>>]
             [] tag.v % 8 = 2 /\ arg.ok /\ Fits(arg.pos, len, Len(data)) ->
                    IF end \notin arg.pos .. Len(data) THEN <<Panic>>
                    ELSE <<Guess(num, raw, nested)>> \o f[<<data, end, depth>>]
             [] tag.v % 8 = 1 -> f[<<data, tag.pos + 8, depth>>]
             [] tag.v % 8 = 5 -> f[<<data, tag.pos + 4, depth>>]
             [] OTHER         -> <<>>

\* The body of Decode, as it is written, is Turn.
LEMMA BodyIsTurn ==
  ASSUME NEW data, NEW pos, NEW depth, NEW f
  PROVE  Body(f, data, pos, depth) = Turn(f, data, pos, depth)
<1> DEFINE tag == TagAt(data, pos)
           arg == ArgAt(data, pos)
           end == EndAt(data, pos)
           wire == Wire(data, pos)
           stop == Stops(data, pos)
           goes == ~stop /\ wire = 2 /\ HasData(data, pos)
<1>1. CASE stop
  <2>1. Kind(data, pos) = "end"
    BY <1>1, KindIs, Zenon
  <2>2. Body(f, data, pos, depth) = <<>>
    BY <1>1, Zenon DEF Body, Stops, TagAt, NumAt
  <2>3. QED
    BY <2>1, <2>2, Zenon DEF Turn
<1>2. CASE ~stop /\ wire = 0 /\ arg.ok
  <2>1. wire # 1 /\ wire # 2 /\ wire # 5
    BY <1>2
  <2>2. Kind(data, pos) = "varint"
    BY <1>2, KindIs, Zenon
  <2>3. Body(f, data, pos, depth) = <<Field(NumAt(data, pos), "varint", arg.v)>> \o f[<<data, arg.pos, depth>>]
    BY <1>2, <2>1, Zenon DEF Body, Stops, Wire, TagAt, NumAt, ArgAt
  <2>4. QED
    BY <2>2, <2>3, Zenon DEF Turn
<1>3. CASE goes /\ end \notin arg.pos .. Len(data)
  <2>1. wire # 0 /\ wire # 1 /\ wire # 5
    BY <1>3
  <2>2. Kind(data, pos) = "panic"
    BY <1>3, KindIs, Zenon
  <2>3. Body(f, data, pos, depth) = <<Panic>>
    BY <1>3, <2>1, Zenon DEF Body, Stops, Wire, HasData, TagAt, NumAt, ArgAt, LenAt, EndAt
  <2>4. QED
    BY <2>2, <2>3, Zenon DEF Turn
<1>4. CASE goes /\ end \in arg.pos .. Len(data)
  <2>1. wire # 0 /\ wire # 1 /\ wire # 5
    BY <1>4
  <2>2. Kind(data, pos) = "data"
    BY <1>4, KindIs, Zenon
  <2>3. Body(f, data, pos, depth) =
          <<Guess(NumAt(data, pos), RawAt(data, pos),
                  IF depth < MaxDepth THEN f[<<RawAt(data, pos), 0, depth + 1>>] ELSE <<>>)>>
          \o f[<<data, end, depth>>]
    BY <1>4, <2>1, Zenon DEF Body, Stops, Wire, HasData, TagAt, NumAt, ArgAt, LenAt, EndAt, RawAt
  <2>4. QED
    BY <2>2, <2>3, Zenon DEF Turn
<1>5. CASE ~stop /\ wire = 1
  <2>1. wire # 0 /\ wire # 2 /\ wire # 5
    BY <1>5
  <2>2. Kind(data, pos) = "fixed64"
    BY <1>5, KindIs, Zenon
  <2>3. Body(f, data, pos, depth) = f[<<data, tag.pos + 8, depth>>]
    BY <1>5, <2>1, Zenon DEF Body, Stops, Wire, TagAt, NumAt
  <2>4. QED
    BY <2>2, <2>3, Zenon DEF Turn
<1>6. CASE ~stop /\ wire = 5
  <2>1. wire # 0 /\ wire # 2 /\ wire # 1
    BY <1>6
  <2>2. Kind(data, pos) = "fixed32"
    BY <1>6, KindIs, Zenon
  <2>3. Body(f, data, pos, depth) = f[<<data, tag.pos + 4, depth>>]
    BY <1>6, <2>1, Zenon DEF Body, Stops, Wire, TagAt, NumAt
  <2>4. QED
    BY <2>2, <2>3, Zenon DEF Turn
<1>7. CASE ~stop /\ ~(wire = 0 /\ arg.ok) /\ ~(wire = 2 /\ HasData(data, pos)) /\ wire # 1 /\ wire # 5
  <2>1. Kind(data, pos) = "end"
    BY <1>7, Zenon DEF Kind
  <2>2. Body(f, data, pos, depth) = <<>>
    BY <1>7, Zenon DEF Body, Stops, Wire, HasData, TagAt, NumAt, ArgAt, LenAt
  <2>3. QED
    BY <2>1, <2>2, Zenon DEF Turn
<1>8. QED
  <2> HIDE DEF stop, wire
  <2>1. QED
    BY <1>1, <1>2, <1>3, <1>4, <1>5, <1>6, <1>7, Zenon

\* The recursive definition of Decode has a solution: Decode returns what the loop does.
LEMMA DecodeDefined ==
  \A data \in Seq(Byte), pos \in Nat, depth \in Depth :
    Decode[<<data, pos, depth>>] = Turn(Decode, data, pos, depth)
<1>1. \A n \in Nat : \E g : UpTo(g, n)
  <2> DEFINE good == {n \in Nat : \E g : UpTo(g, n)}
  <2>1. 0 \in good
    <3>1. UpTo(0, 0)
      BY RankType DEF UpTo
    <3>2. QED
      BY <3>1
  <2>2. ASSUME NEW n \in Nat, n # 0, n - 1 \in good PROVE n \in good
    <3>1. PICK g : UpTo(g, n - 1)
      BY <2>2
    <3>2. n - 1 \in Nat /\ (n - 1) + 1 = n
      BY <2>2
    <3>3. \E h : UpTo(h, (n - 1) + 1)
      BY <3>1, <3>2, OneMore
    <3>4. QED
      BY <3>2, <3>3
  <2>3. \A n \in Nat : n \in good
    <3> HIDE DEF good
    <3>1. \A n \in Nat : n # 0 => n - 1 \in 0 .. n - 1
      OBVIOUS
    <3>2. QED
      BY <2>1, <2>2, <3>1, SetInduction
  <2>4. QED
    BY <2>3
<1> DEFINE of(n) == CHOOSE g : UpTo(g, n + 1)
           f == [call \in Calls |-> of(Rank(call[1], call[2]))[call]]
<1>2. \A n \in Nat : UpTo(of(n), n + 1)
  <2>1. TAKE n \in Nat
  <2>2. n + 1 \in Nat
    OBVIOUS
  <2>3. \E g : UpTo(g, n + 1)
    BY <1>1, <2>2
  <2>4. QED
    BY <2>3, Zenon
<1> HIDE DEF of
<1>3. \A data \in Seq(Byte), pos \in Nat, depth \in Depth :
        f[<<data, pos, depth>>] = of(Rank(data, pos))[<<data, pos, depth>>]
  <2>1. TAKE data \in Seq(Byte), pos \in Nat, depth \in Depth
  <2> DEFINE call == <<data, pos, depth>>
  <2>2. call \in Calls /\ call[1] = data /\ call[2] = pos
    BY DEF Calls
  <2> HIDE DEF call
  <2>3. f[call] = of(Rank(data, pos))[call]
    BY <2>2
  <2>4. QED
    BY <2>3 DEF call
<1>4. f = [call \in Calls |-> f[call]]
  OBVIOUS
<1> HIDE DEF f
<1>5. ASSUME NEW data \in Seq(Byte), NEW pos \in Nat, NEW depth \in Depth
      PROVE  f[<<data, pos, depth>>] = Turn(f, data, pos, depth)
  <2>1. PICK n \in Nat : n = Rank(data, pos)
    BY RankType
  <2>2. UpTo(of(n), n + 1)
    BY <1>2
  <2>3. of(n)[<<data, pos, depth>>] = Turn(of(n), data, pos, depth)
    BY <2>1, <2>2 DEF UpTo
  <2>4. Agree(of(n), f, Rank(data, pos))
    <3>1. SUFFICES ASSUME NEW d \in Seq(Byte), NEW p \in Nat, NEW e \in Depth, Rank(d, p) < n
                   PROVE  of(n)[<<d, p, e>>] = f[<<d, p, e>>]
      BY <2>1 DEF Agree
    <3>2. PICK k \in Nat : k = Rank(d, p)
      BY <3>1, RankType
    <3>3. UpTo(of(k), k + 1)
      BY <1>2
    <3>4. k < n + 1 /\ k < k + 1 /\ n + 1 \in Nat /\ k + 1 \in Nat
      BY <3>1, <3>2
    <3>5. of(n)[<<d, p, e>>] = of(k)[<<d, p, e>>]
      BY <2>2, <3>1, <3>2, <3>3, <3>4, Unique
    <3>6. QED
      BY <1>3, <3>1, <3>2, <3>5
  <2>5. Turn(of(n), data, pos, depth) = Turn(f, data, pos, depth)
    BY <2>4, TurnCongruence
  <2>6. QED
    BY <1>3, <2>1, <2>3, <2>5
<1>6. \A call \in Calls : f[call] = Body(f, call[1], call[2], call[3])
  <2>1. TAKE call \in Calls
  <2>2. PICK data \in Seq(Byte), pos \in Nat, depth \in Depth : call = <<data, pos, depth>>
    BY DEF Calls
  <2>3. f[call] = Turn(f, data, pos, depth)
    BY <1>5, <2>2
  <2>4. call[1] = data /\ call[2] = pos /\ call[3] = depth
    BY <2>2
  <2>5. QED
    BY <2>3, <2>4, BodyIsTurn
<1> DEFINE Whole(g) == [call \in Calls |-> Body(g, call[1], call[2], call[3])]
<1>7. f = Whole(f)
  BY <1>4, <1>6
<1>8. \E g : g = Whole(g)
  BY <1>7, Zenon
<1>9. Decode = CHOOSE g : g = Whole(g)
  BY Zenon DEF Decode, Body, Calls, Depth
<1>10. Decode = Whole(Decode)
  BY <1>8, <1>9, Zenon
<1>11. QED
  <2>1. TAKE data \in Seq(Byte), pos \in Nat, depth \in Depth
  <2> DEFINE call == <<data, pos, depth>>
  <2>2. call \in Calls /\ call[1] = data /\ call[2] = pos /\ call[3] = depth
    BY DEF Calls
  <2> HIDE DEF call
  <2>3. Whole(Decode)[call] = Body(Decode, data, pos, depth)
    BY <2>2
  <2>4. Decode[call] = Body(Decode, data, pos, depth)
    <3> HIDE DEF Whole
    <3>1. QED
      BY <1>10, <2>3, Zenon
  <2>5. QED
    BY <2>4, BodyIsTurn DEF call

\* What decodeProtobuf returns at a position, by what it finds there.
LEMMA DecodeCases ==
  ASSUME NEW data \in Seq(Byte), NEW pos \in Nat, NEW depth \in Depth
  PROVE  /\ Kind(data, pos) = "varint" =>
              Decode[<<data, pos, depth>>] =
                <<Field(NumAt(data, pos), "varint", ArgAt(data, pos).v)>>
                \o Decode[<<data, ArgAt(data, pos).pos, depth>>]
         /\ Kind(data, pos) = "data" =>
              Decode[<<data, pos, depth>>] =
                <<Guess(NumAt(data, pos), RawAt(data, pos),
                        IF depth < MaxDepth THEN Decode[<<RawAt(data, pos), 0, depth + 1>>] ELSE <<>>)>>
                \o Decode[<<data, EndAt(data, pos), depth>>]
         /\ Kind(data, pos) = "panic"   => Decode[<<data, pos, depth>>] = <<Panic>>
         /\ Kind(data, pos) = "fixed64" =>
              Decode[<<data, pos, depth>>] = Decode[<<data, TagAt(data, pos).pos + 8, depth>>]
         /\ Kind(data, pos) = "fixed32" =>
              Decode[<<data, pos, depth>>] = Decode[<<data, TagAt(data, pos).pos + 4, depth>>]
         /\ Kind(data, pos) = "end"     => Decode[<<data, pos, depth>>] = <<>>
<1>1. Decode[<<data, pos, depth>>] = Turn(Decode, data, pos, depth)
  BY DecodeDefined
<1>2. CASE Kind(data, pos) = "varint"
  BY <1>1, <1>2, Zenon DEF Turn
<1>3. CASE Kind(data, pos) = "data"
  BY <1>1, <1>3, Zenon DEF Turn
<1>4. CASE Kind(data, pos) = "panic"
  BY <1>1, <1>4, Zenon DEF Turn
<1>5. CASE Kind(data, pos) = "fixed64"
  BY <1>1, <1>5, Zenon DEF Turn
<1>6. CASE Kind(data, pos) = "fixed32"
  BY <1>1, <1>6, Zenon DEF Turn
<1>7. CASE Kind(data, pos) = "end"
  BY <1>1, <1>7, Zenon DEF Turn
<1>8. QED
  BY <1>2, <1>3, <1>4, <1>5, <1>6, <1>7, Zenon

\* There is nothing behind the end.
LEMMA DecodeEnd ==
  ASSUME NEW data \in Seq(Byte), NEW pos \in Nat, NEW depth \in Depth, pos >= Len(data)
  PROVE  Decode[<<data, pos, depth>>] = <<>>
<1>1. Kind(data, pos) = "end"
  BY KindIs, Zenon DEF Stops
<1>2. QED
  BY <1>1, DecodeCases

IsFields(s) == \E T : s \in Seq(T)

\* The length and the elements of a sequence of fields with one more in front.
LEMMA Prepend ==
  ASSUME NEW x, NEW s, IsFields(s)
  PROVE  /\ IsFields(<<x>> \o s)
         /\ Len(s) \in Nat
         /\ Len(<<x>> \o s) = Len(s) + 1
         /\ (<<x>> \o s)[1] = x
         /\ \A i \in 1 .. Len(s) : (<<x>> \o s)[i + 1] = s[i]
<1>1. PICK T : s \in Seq(T)
  BY DEF IsFields
<1> DEFINE U == T \cup {x}
<1>2. s \in Seq(U) /\ <<x>> \in Seq(U) /\ Len(<<x>>) = 1 /\ <<x>>[1] = x
  <2>1. s \in Seq(U)
    BY <1>1, SeqMonotonic
  <2>2. QED
    BY <2>1
<1> HIDE DEF U
<1>3. PICK n \in Nat : n = Len(s)
  BY <1>2
<1>4. /\ <<x>> \o s \in Seq(U)
      /\ Len(<<x>> \o s) = 1 + n
      /\ \A i \in 1 .. 1 + n : (<<x>> \o s)[i] = IF i <= 1 THEN <<x>>[i] ELSE s[i - 1]
  BY <1>2, <1>3, ConcatProperties
<1>5. (<<x>> \o s)[1] = x
  BY <1>2, <1>3, <1>4
<1>6. ASSUME NEW i \in 1 .. n PROVE (<<x>> \o s)[i + 1] = s[i]
  <2>1. i + 1 \in 1 .. 1 + n /\ ~(i + 1 <= 1) /\ (i + 1) - 1 = i
    OBVIOUS
  <2>2. QED
    BY <1>4, <2>1
<1>7. QED
  BY <1>3, <1>4, <1>5, <1>6 DEF IsFields

\* The decoder returns a sequence.
LEMMA DecodeType ==
  ASSUME NEW data \in Seq(Byte), NEW pos \in Nat, NEW depth \in Depth
  PROVE  IsFields(Decode[<<data, pos, depth>>])
<1> DEFINE good == {r \in Nat : \A p \in Nat : Rank(data, p) = r => IsFields(Decode[<<data, p, depth>>])}
<1>1. IsFields(<<>>) /\ \A x : IsFields(<<x>>)
  <2>1. <<>> \in Seq({})
    OBVIOUS
  <2>2. \A x : <<x>> \in Seq({x})
    OBVIOUS
  <2>3. QED
    BY <2>1, <2>2 DEF IsFields
<1>2. ASSUME NEW r \in Nat, \A k \in 0 .. r - 1 : k \in good PROVE r \in good
  <2>1. SUFFICES ASSUME NEW p \in Nat, Rank(data, p) = r PROVE IsFields(Decode[<<data, p, depth>>])
    OBVIOUS
  <2>2. ASSUME NEW q \in Nat, q > p, p < Len(data) PROVE IsFields(Decode[<<data, q, depth>>])
    <3>1. Rank(data, q) \in 0 .. r - 1
      <4>1. PICK n \in Nat : n = Len(data)
        OBVIOUS
      <4>2. QED
        BY <2>1, <2>2, <4>1 DEF Rank
    <3>2. QED
      BY <1>2, <3>1
  <2>4. CASE Kind(data, p) = "end"
    BY <1>1, <2>1, <2>4, DecodeCases
  <2>5. CASE Kind(data, p) = "panic"
    BY <1>1, <2>1, <2>5, DecodeCases
  <2>6. CASE Kind(data, p) \notin {"end", "panic"}
    <3>1. p < Len(data) /\ TagAt(data, p).pos \in p + 1 .. Len(data) /\ ArgAt(data, p).pos \in TagAt(data, p).pos .. Len(data)
      BY <2>1, <2>6, KindFacts
    <3>2. PICK n \in Nat : n = Len(data)
      OBVIOUS
    <3>3. TagAt(data, p).pos \in Nat /\ TagAt(data, p).pos > p /\ ArgAt(data, p).pos \in Nat /\ ArgAt(data, p).pos > p
      BY <2>1, <3>1, <3>2
    <3>4. CASE Kind(data, p) = "varint"
      <4> DEFINE x == Field(NumAt(data, p), "varint", ArgAt(data, p).v)
                 rest == Decode[<<data, ArgAt(data, p).pos, depth>>]
      <4>1. IsFields(rest)
        BY <2>2, <3>1, <3>3
      <4>2. Decode[<<data, p, depth>>] = <<x>> \o rest
        BY <2>1, <3>4, DecodeCases
      <4> HIDE DEF x, rest
      <4>3. IsFields(<<x>> \o rest)
        BY <4>1, Prepend
      <4>4. QED
        BY <4>2, <4>3
    <3>5. CASE Kind(data, p) = "data"
      <4>1. EndAt(data, p) \in ArgAt(data, p).pos .. Len(data)
        BY <2>1, <3>5, KindFacts
      <4>2. EndAt(data, p) \in Nat /\ EndAt(data, p) > p
        BY <2>1, <3>2, <3>3, <4>1
      <4> DEFINE x == Guess(NumAt(data, p), RawAt(data, p),
                            IF depth < MaxDepth THEN Decode[<<RawAt(data, p), 0, depth + 1>>] ELSE <<>>)
                 rest == Decode[<<data, EndAt(data, p), depth>>]
      <4>3. IsFields(rest)
        BY <2>2, <3>1, <4>2
      <4>4. Decode[<<data, p, depth>>] = <<x>> \o rest
        BY <2>1, <3>5, DecodeCases
      <4> HIDE DEF x, rest
      <4>5. IsFields(<<x>> \o rest)
        BY <4>3, Prepend
      <4>6. QED
        BY <4>4, <4>5
    <3>6. CASE Kind(data, p) = "fixed64"
      <4>1. TagAt(data, p).pos + 8 \in Nat /\ TagAt(data, p).pos + 8 > p
        BY <2>1, <3>3
      <4>2. IsFields(Decode[<<data, TagAt(data, p).pos + 8, depth>>])
        BY <2>2, <3>1, <4>1
      <4>3. QED
        BY <2>1, <3>6, <4>2, DecodeCases
    <3>7. CASE Kind(data, p) = "fixed32"
      <4>1. TagAt(data, p).pos + 4 \in Nat /\ TagAt(data, p).pos + 4 > p
        BY <2>1, <3>3
      <4>2. IsFields(Decode[<<data, TagAt(data, p).pos + 4, depth>>])
        BY <2>2, <3>1, <4>1
      <4>3. QED
        BY <2>1, <3>7, <4>2, DecodeCases
    <3>8. QED
      BY <2>1, <2>6, <3>4, <3>5, <3>6, <3>7, KindFacts
  <2>7. QED
    BY <2>4, <2>5, <2>6
<1>3. \A r \in Nat : r \in good
  <2> HIDE DEF good
  <2>1. QED
    BY <1>2, SetInduction
<1>4. QED
  BY <1>3, RankType

(***************************************************************************)
(* A buffer that is cut off.                                               *)
(***************************************************************************)
\* Nothing left is allowed.
LEMMA CutNothing ==
  ASSUME NEW whole, IsFields(whole), NEW last
  PROVE  CutShort(<<>>, whole, last)
<1>1. Len(whole) \in Nat
  BY Prepend
<1>2. 0 \in 0 .. Len(whole) /\ Len(<<>>) = 0 /\ 1 .. 0 = {}
  BY <1>1
<1>3. QED
  BY <1>2 DEF CutShort

\* One field that the cut made is allowed.
LEMMA CutOne ==
  ASSUME NEW x, NEW whole, IsFields(whole), NEW last, MadeByCut(x, last)
  PROVE  CutShort(<<x>>, whole, last)
<1>1. Len(whole) \in Nat
  BY Prepend
<1>2. 0 \in 0 .. Len(whole) /\ Len(<<x>>) = 0 + 1 /\ 1 .. 0 = {} /\ <<x>>[0 + 1] = x
  BY <1>1
<1>3. QED
  BY <1>2 DEF CutShort

\* A buffer that lost nothing is cut short, too.
LEMMA CutSame ==
  ASSUME NEW whole, IsFields(whole), NEW last
  PROVE  CutShort(whole, whole, last)
<1>1. Len(whole) \in Nat
  BY Prepend
<1>2. Len(whole) \in 0 .. Len(whole)
  BY <1>1
<1>3. QED
  BY <1>2 DEF CutShort

\* A field in front of both changes nothing.
LEMMA CutPrepend ==
  ASSUME NEW x, NEW part, NEW whole, NEW last, IsFields(part), IsFields(whole), CutShort(part, whole, last)
  PROVE  CutShort(<<x>> \o part, <<x>> \o whole, last)
<1> DEFINE p == <<x>> \o part
           w == <<x>> \o whole
<1>1. /\ Len(part) \in Nat /\ Len(p) = Len(part) + 1 /\ p[1] = x
      /\ \A i \in 1 .. Len(part) : p[i + 1] = part[i]
  BY Prepend
<1>2. /\ Len(whole) \in Nat /\ Len(w) = Len(whole) + 1 /\ w[1] = x
      /\ \A i \in 1 .. Len(whole) : w[i + 1] = whole[i]
  BY Prepend
<1>3. PICK k \in 0 .. Len(whole) : /\ \A i \in 1 .. k : part[i] = whole[i]
                                   /\ Len(part) = k \/ (Len(part) = k + 1 /\ MadeByCut(part[k + 1], last))
  BY DEF CutShort
<1> HIDE DEF p, w
<1>4. PICK a \in Nat, b \in Nat : a = Len(part) /\ b = Len(whole)
  BY <1>1, <1>2
<1>5. k \in Nat /\ k <= a /\ k <= b /\ k + 1 \in 0 .. Len(w)
  BY <1>2, <1>3, <1>4
<1>6. ASSUME NEW i \in 1 .. k + 1 PROVE p[i] = w[i]
  <2>1. CASE i = 1
    BY <1>1, <1>2, <2>1
  <2>2. CASE i # 1
    <3>1. i - 1 \in 1 .. k /\ i - 1 \in 1 .. a /\ i - 1 \in 1 .. b /\ (i - 1) + 1 = i
      BY <1>5, <2>2
    <3>2. p[(i - 1) + 1] = part[i - 1] /\ w[(i - 1) + 1] = whole[i - 1] /\ part[i - 1] = whole[i - 1]
      BY <1>1, <1>2, <1>3, <1>4, <3>1
    <3>3. QED
      BY <3>1, <3>2
  <2>3. QED
    BY <2>1, <2>2
<1>7. Len(p) = k + 1 \/ (Len(p) = (k + 1) + 1 /\ MadeByCut(p[(k + 1) + 1], last))
  <2>1. CASE Len(part) = k
    BY <1>1, <2>1
  <2>2. CASE Len(part) = k + 1 /\ MadeByCut(part[k + 1], last)
    <3>1. k + 1 \in 1 .. Len(part)
      BY <1>5, <2>2
    <3>2. p[(k + 1) + 1] = part[k + 1]
      BY <1>1, <3>1
    <3>3. QED
      BY <1>1, <2>2, <3>2
  <2>3. QED
    BY <1>3, <2>1, <2>2
<1>8. CutShort(p, w, last)
  BY <1>5, <1>6, <1>7 DEF CutShort
<1>9. QED
  BY <1>8 DEF p, w

\* No byte at all counts as an empty text.
LEMMA GuessNothing ==
  ASSUME NEW num, NEW last
  PROVE  MadeByCut(Guess(num, <<>>, <<>>), last)
<1>1. TextOk(<<>>)
  BY DEF TextOk
<1>2. Guess(num, <<>>, <<>>) = Field(num, "string", <<>>)
  BY <1>1 DEF Guess
<1>3. QED
  BY <1>2 DEF MadeByCut, Field

\* Where the buffer ends with a tag, its number or length counts as 0.
LEMMA BareTag ==
  ASSUME NEW data \in Seq(Byte), NEW pos \in Nat, Len(data) < Power[Full], TagAt(data, pos).pos = Len(data)
  PROVE  ArgAt(data, pos).pos = Len(data) /\ Kind(data, pos) # "panic"
<1>1. PICK n \in Nat : n = Len(data) /\ n < Power[Full]
  OBVIOUS
<1>2. ArgAt(data, pos) = Read(0, n, TRUE)
  <2>1. n >= Len(data)
    BY <1>1
  <2>2. DecodeVarintAt(data, n) = Read(0, n, TRUE)
    BY <2>1, VarintAt
  <2>3. QED
    BY <1>1, <2>2 DEF ArgAt
<1>3. ArgAt(data, pos).v = 0 /\ ArgAt(data, pos).pos = n
  BY <1>2 DEF Read
<1>4. PICK p \in Nat : p = Power[Full] /\ n < p
  BY <1>1, ModulusType
<1>5. LenAt(data, pos) = 0
  <2>1. 0 < Power[Full]
    BY <1>4
  <2>2. QED
    BY <1>3, <2>1, SignedSmall DEF LenAt
<1>6. EndAt(data, pos) = n
  <2>1. n + 0 = n
    OBVIOUS
  <2>2. EndAt(data, pos) = Signed(n)
    BY <1>3, <1>5, <2>1 DEF EndAt
  <2>3. QED
    BY <1>1, <2>2, SignedSmall
<1>7. EndAt(data, pos) \in ArgAt(data, pos).pos .. Len(data)
  BY <1>1, <1>3, <1>6
<1>8. QED
  BY <1>1, <1>3, <1>7 DEF Kind

\* When the buffer ends with the second number of a field, at most one field is left.
LEMMA LastField ==
  ASSUME NEW data \in Seq(Byte), NEW pos \in Nat, NEW depth \in Depth,
         ArgAt(data, pos).pos = Len(data), Kind(data, pos) \notin {"fixed64", "fixed32"},
         NEW last, Kind(data, pos) = "panic" => last >= 128
  PROVE  \/ Decode[<<data, pos, depth>>] = <<>>
         \/ \E x : MadeByCut(x, last) /\ Decode[<<data, pos, depth>>] = <<x>>
<1> DEFINE arg == ArgAt(data, pos)
<1>1. Len(data) \in Nat
  OBVIOUS
<1>2. Decode[<<data, arg.pos, depth>>] = <<>>
  BY <1>1, DecodeEnd
<1>3. CASE Kind(data, pos) = "varint"
  <2> DEFINE x == Field(NumAt(data, pos), "varint", arg.v)
  <2>1. Decode[<<data, pos, depth>>] = <<x>> \o Decode[<<data, arg.pos, depth>>]
    BY <1>3, DecodeCases
  <2>2. MadeByCut(x, last)
    BY DEF MadeByCut, Field
  <2> HIDE DEF x, arg
  <2>3. <<x>> \o <<>> = <<x>>
    OBVIOUS
  <2>4. QED
    BY <1>2, <2>1, <2>2, <2>3
<1>4. CASE Kind(data, pos) = "data"
  <2> DEFINE end == EndAt(data, pos)
             raw == RawAt(data, pos)
             nested == IF depth < MaxDepth THEN Decode[<<raw, 0, depth + 1>>] ELSE <<>>
             x == Guess(NumAt(data, pos), raw, nested)
  <2>1. end \in arg.pos .. Len(data) /\ raw \in Seq(Byte) /\ Len(raw) = end - arg.pos
    BY <1>4, KindFacts
  <2>2. end = Len(data)
    BY <1>1, <2>1
  <2>3. raw = <<>>
    BY <1>1, <2>1, <2>2
  <2>4. nested = <<>>
    <3>1. CASE depth < MaxDepth
      <4>1. depth + 1 \in Depth
        BY <3>1 DEF Depth, MaxDepth
      <4>2. 0 >= Len(raw)
        BY <2>3
      <4>3. Decode[<<raw, 0, depth + 1>>] = <<>>
        BY <2>1, <4>1, <4>2, DecodeEnd
      <4>4. QED
        BY <4>3
    <3>2. QED
      BY <3>1
  <2>5. Decode[<<data, pos, depth>>] = <<x>> \o Decode[<<data, end, depth>>]
    BY <1>4, DecodeCases
  <2>6. MadeByCut(x, last)
    BY <2>3, <2>4, GuessNothing
  <2>7. Decode[<<data, end, depth>>] = <<>>
    BY <1>1, <2>2, DecodeEnd
  <2> HIDE DEF x, arg, end
  <2>8. <<x>> \o <<>> = <<x>>
    OBVIOUS
  <2>9. QED
    BY <2>5, <2>6, <2>7, <2>8
<1>5. CASE Kind(data, pos) = "panic"
  BY <1>5, DecodeCases DEF MadeByCut
<1>6. CASE Kind(data, pos) = "end"
  BY <1>6, DecodeCases
<1>7. QED
  BY <1>3, <1>4, <1>5, <1>6, KindFacts

\* Parts of two buffers are the same when all their bytes are.
LEMMA SameSubSeq ==
  ASSUME NEW s, NEW t, NEW m \in Int, NEW n \in Int, \A i \in m .. n : s[i] = t[i] /\ t[i] \in Byte
  PROVE  SubSeq(s, m, n) = SubSeq(t, m, n)
<1>1. \A i \in m .. n : s[i] \in Byte
  OBVIOUS
<1> DEFINE l == IF m <= n THEN n - m + 1 ELSE 0
<1>2. l \in Nat
  OBVIOUS
<1>3. /\ SubSeq(s, m, n) \in Seq(Byte) /\ Len(SubSeq(s, m, n)) = l
      /\ \A i \in 1 .. n - m + 1 : SubSeq(s, m, n)[i] = s[m + i - 1]
  BY <1>1, <1>2, SubSeqProperties
<1>4. /\ SubSeq(t, m, n) \in Seq(Byte) /\ Len(SubSeq(t, m, n)) = l
      /\ \A i \in 1 .. n - m + 1 : SubSeq(t, m, n)[i] = t[m + i - 1]
  BY <1>2, SubSeqProperties
<1>5. ASSUME NEW i \in 1 .. l PROVE SubSeq(s, m, n)[i] = SubSeq(t, m, n)[i]
  <2>1. i \in 1 .. n - m + 1 /\ m + i - 1 \in m .. n
    BY <1>2
  <2>2. QED
    BY <1>3, <1>4, <2>1
<1>6. QED
  <2> HIDE DEF l
  <2>1. QED
    BY <1>3, <1>4, <1>5, SeqEqual

\* When both buffers hold the numbers of the field at pos, they agree on the field.
LEMMA CutKind ==
  ASSUME NEW data \in Seq(Byte), NEW cut \in Seq(Byte), NEW pos \in Nat,
         Len(cut) <= Len(data), pos < Len(cut), TagAt(cut, pos) = TagAt(data, pos)
  PROVE  /\ NumAt(cut, pos) = NumAt(data, pos)
         /\ Kind(cut, pos) = "fixed64" => Kind(data, pos) = "fixed64"
         /\ Kind(cut, pos) = "fixed32" => Kind(data, pos) = "fixed32"
         /\ ArgAt(cut, pos) = ArgAt(data, pos) =>
              /\ EndAt(cut, pos) = EndAt(data, pos)
              /\ Kind(cut, pos) = "varint" => Kind(data, pos) = "varint"
              /\ Kind(cut, pos) = "data" => Kind(data, pos) = "data"
              /\ Kind(cut, pos) = "panic" => Kind(data, pos) = "panic"
<1>1. Len(cut) \in Nat /\ Len(data) \in Nat
  OBVIOUS
<1>2. NumAt(cut, pos) = NumAt(data, pos) /\ Wire(cut, pos) = Wire(data, pos)
  BY DEF NumAt, Wire
<1>3. Stops(cut, pos) <=> Stops(data, pos)
  BY <1>1, <1>2 DEF Stops
<1>4. Kind(cut, pos) # "end" => ~Stops(cut, pos)
  BY KindIs, Zenon
<1>5. Kind(cut, pos) = "fixed64" => Wire(cut, pos) = 1
  BY DEF Kind
<1>6. Kind(cut, pos) = "fixed32" => Wire(cut, pos) = 5
  BY DEF Kind
<1>7. Kind(cut, pos) = "varint" => Wire(cut, pos) = 0 /\ ArgAt(cut, pos).ok
  BY DEF Kind
<1>8. Kind(cut, pos) = "data" =>
        Wire(cut, pos) = 2 /\ HasData(cut, pos) /\ EndAt(cut, pos) \in ArgAt(cut, pos).pos .. Len(cut)
  BY DEF Kind
<1>11. Kind(cut, pos) = "panic" =>
        Wire(cut, pos) = 2 /\ HasData(cut, pos) /\ EndAt(cut, pos) \notin ArgAt(cut, pos).pos .. Len(cut)
  BY DEF Kind
<1>9. ASSUME ArgAt(cut, pos) = ArgAt(data, pos)
      PROVE  /\ EndAt(cut, pos) = EndAt(data, pos)
             /\ Kind(cut, pos) = "varint" => Kind(data, pos) = "varint"
             /\ Kind(cut, pos) = "data" => Kind(data, pos) = "data"
             /\ Kind(cut, pos) = "panic" => Kind(data, pos) = "panic"
  <2>1. LenAt(cut, pos) = LenAt(data, pos) /\ EndAt(cut, pos) = EndAt(data, pos)
    BY <1>9 DEF LenAt, EndAt
  <2>2. Kind(cut, pos) = "varint" => Kind(data, pos) = "varint"
    BY <1>2, <1>3, <1>4, <1>7, <1>9, KindIs
  <2>3. ASSUME Kind(cut, pos) = "data" PROVE Kind(data, pos) = "data"
    <3>1. ArgAt(data, pos).pos \in Nat
      BY KindFacts
    <3>2. PICK e \in Nat : e = EndAt(data, pos) /\ e >= ArgAt(data, pos).pos /\ e <= Len(cut)
      BY <1>1, <1>8, <1>9, <2>1, <2>3, <3>1
    <3>3. EndAt(data, pos) \in ArgAt(data, pos).pos .. Len(data)
      BY <1>1, <3>1, <3>2
    <3>4. HasData(data, pos)
      <4>1. ArgAt(data, pos).ok /\ LenAt(data, pos) >= 0
        BY <1>8, <1>9, <2>1, <2>3 DEF HasData, Fits
      <4>2. Signed(ArgAt(data, pos).pos + LenAt(data, pos)) <= Len(data)
        BY <1>1, <3>2 DEF EndAt
      <4>3. QED
        BY <4>1, <4>2 DEF HasData, Fits
    <3>5. QED
      BY <1>2, <1>3, <1>4, <1>8, <2>3, <3>3, <3>4, KindIs
  <2>4. ASSUME Kind(cut, pos) = "panic" PROVE Kind(data, pos) = "panic"
    <3>1. EndAt(data, pos) \in Int /\ ArgAt(data, pos).pos \in Nat
      <4>1. PICK a \in Nat, v \in Nat : a = ArgAt(data, pos).pos /\ v = ArgAt(data, pos).v
        BY KindFacts
      <4>2. LenAt(data, pos) \in Int
        BY <4>1, SignedType DEF LenAt
      <4>3. a + LenAt(data, pos) \in Int
        BY <4>2
      <4>4. QED
        BY <4>1, <4>3, SignedType DEF EndAt
    <3>2. EndAt(data, pos) <= Len(cut) /\ LenAt(data, pos) >= 0 /\ ArgAt(data, pos).ok
      BY <1>9, <1>11, <2>1, <2>4 DEF HasData, Fits, EndAt
    <3>3. EndAt(data, pos) < ArgAt(data, pos).pos
      BY <1>1, <1>9, <1>11, <2>1, <2>4, <3>1, <3>2
    <3>4. EndAt(data, pos) \notin ArgAt(data, pos).pos .. Len(data)
      BY <1>1, <3>1, <3>3
    <3>5. HasData(data, pos)
      <4>1. EndAt(data, pos) <= Len(data)
        BY <1>1, <3>1, <3>2
      <4>2. QED
        BY <3>2, <4>1 DEF HasData, Fits, EndAt
    <3>6. QED
      BY <1>2, <1>3, <1>4, <1>11, <2>4, <3>4, <3>5, KindIs
  <2>5. QED
    BY <2>1, <2>2, <2>3, <2>4
<1>10. QED
  BY <1>2, <1>3, <1>4, <1>5, <1>6, <1>9, KindIs

\* What is left of the fields of a buffer when all but its first n bytes are cut off,
\* wherever the decoder stands.
LEMMA CutFrom ==
  ASSUME NEW data \in Seq(Byte), NEW n \in 0 .. Len(data), NEW pos \in Nat, NEW depth \in Depth,
         Len(data) < Power[Full]
  PROVE  CutShort(Decode[<<SubSeq(data, 1, n), pos, depth>>], Decode[<<data, pos, depth>>], data[n])
<1> DEFINE cut == SubSeq(data, 1, n)
           P(p) == Decode[<<cut, p, depth>>]
           W(p) == Decode[<<data, p, depth>>]
           good == {r \in Nat : \A p \in Nat : Rank(data, p) = r => CutShort(P(p), W(p), data[n])}
<1>1. PICK L \in Nat : L = Len(data)
  OBVIOUS
<1>2. n \in Nat /\ n <= L
  BY <1>1
<1>3. cut \in Seq(Byte) /\ Len(cut) = n /\ \A i \in 1 .. n : cut[i] = data[i]
  <2>1. \A i \in 1 .. n : data[i] \in Byte
    BY <1>1, <1>2
  <2>2. QED
    BY <1>2, <2>1, SubSeqProperties
<1> HIDE DEF cut
<1>4. \A p \in Nat : IsFields(P(p)) /\ IsFields(W(p))
  BY <1>3, DecodeType
<1>5. ASSUME NEW r \in Nat, \A k \in 0 .. r - 1 : k \in good PROVE r \in good
  <2>1. SUFFICES ASSUME NEW p \in Nat, Rank(data, p) = r PROVE CutShort(P(p), W(p), data[n])
    OBVIOUS
  <2>2. CASE p >= n
    <3>1. P(p) = <<>>
      BY <1>3, <2>1, <2>2, DecodeEnd
    <3>2. QED
      BY <1>4, <2>1, <3>1, CutNothing
  <2>3. CASE p < n
    <3> DEFINE tag == TagAt(data, p)
               arg == ArgAt(data, p)
    <3>1. p < Len(data) /\ p <= n /\ p \in Nat
      BY <1>1, <1>2, <2>1, <2>3
    <3>2. ASSUME NEW q \in Nat, q > p PROVE CutShort(P(q), W(q), data[n])
      <4>1. Rank(data, q) \in 0 .. r - 1
        BY <1>1, <2>1, <3>1, <3>2 DEF Rank
      <4>2. Rank(data, q) \in good
        BY <1>5, <4>1
      <4>3. QED
        BY <4>2
    <3>3. tag.pos \in Nat /\ tag.pos > p
      <4>1. tag.pos \in p + 1 .. Len(data)
        BY <3>1, VarintAt DEF TagAt
      <4>2. QED
        BY <1>1, <3>1, <4>1
    <3>8. n < Power[Full]
      BY <1>1, <1>2, ModulusType
    <3>4. \/ TagAt(cut, p) = tag /\ tag.pos <= n
          \/ TagAt(cut, p).pos = n
      BY <3>1, VarintCut DEF TagAt, cut
    <3>5. ASSUME TagAt(cut, p).pos = n PROVE CutShort(P(p), W(p), data[n])
      <4>1. ArgAt(cut, p).pos = n /\ Kind(cut, p) # "panic"
        BY <1>3, <3>1, <3>5, <3>8, BareTag
      <4>2. CASE Kind(cut, p) = "fixed64"
        <5>1. P(p) = Decode[<<cut, n + 8, depth>>]
          <6>1. P(p) = P(TagAt(cut, p).pos + 8)
            BY <1>3, <3>1, <4>2, DecodeCases
          <6>2. QED
            BY <3>5, <6>1, Zenon
        <5>2. n + 8 \in Nat /\ n + 8 >= Len(cut)
          BY <1>2, <1>3
        <5>3. P(p) = <<>>
          BY <1>3, <5>1, <5>2, DecodeEnd
        <5>4. QED
          BY <1>4, <3>1, <5>3, CutNothing
      <4>3. CASE Kind(cut, p) = "fixed32"
        <5>1. P(p) = Decode[<<cut, n + 4, depth>>]
          <6>1. P(p) = P(TagAt(cut, p).pos + 4)
            BY <1>3, <3>1, <4>3, DecodeCases
          <6>2. QED
            BY <3>5, <6>1, Zenon
        <5>2. n + 4 \in Nat /\ n + 4 >= Len(cut)
          BY <1>2, <1>3
        <5>3. P(p) = <<>>
          BY <1>3, <5>1, <5>2, DecodeEnd
        <5>4. QED
          BY <1>4, <3>1, <5>3, CutNothing
      <4>4. CASE Kind(cut, p) \notin {"fixed64", "fixed32"}
        <5>3. ArgAt(cut, p).pos = Len(cut) /\ (Kind(cut, p) = "panic" => data[n] >= 128)
          BY <1>3, <4>1
        <5>4. cut \in Seq(Byte) /\ p \in Nat
          BY <1>3, <3>1
        <5>1. \/ P(p) = <<>>
              \/ \E x : MadeByCut(x, data[n]) /\ P(p) = <<x>>
          BY <4>4, <5>3, <5>4, LastField, Zenon
        <5>2. QED
          BY <1>4, <3>1, <5>1, CutNothing, CutOne
      <4>5. QED
        BY <4>2, <4>3, <4>4
    <3>6. ASSUME TagAt(cut, p) = tag, tag.pos <= n PROVE CutShort(P(p), W(p), data[n])
      <4>1. \/ ArgAt(cut, p) = arg /\ arg.pos <= n
            \/ ArgAt(cut, p).pos = n /\ (tag.pos = n \/ data[n] >= 128)
        BY <3>3, <3>6, VarintCut DEF ArgAt, cut
      <4>2. CASE Kind(cut, p) = "fixed64"
        <5>1. Kind(data, p) = "fixed64"
          BY <1>1, <1>2, <1>3, <2>3, <3>1, <3>6, <4>2, CutKind
        <5>2. P(p) = P(tag.pos + 8)
          <6>1. P(p) = P(TagAt(cut, p).pos + 8)
            BY <1>3, <3>1, <4>2, DecodeCases
          <6>2. QED
            BY <3>6, <6>1, Zenon
        <5>3. W(p) = W(tag.pos + 8)
          BY <3>1, <5>1, DecodeCases
        <5>4. tag.pos + 8 \in Nat /\ tag.pos + 8 > p
          BY <3>1, <3>3
        <5>5. CutShort(P(tag.pos + 8), W(tag.pos + 8), data[n])
          BY <3>2, <5>4
        <5>6. QED
          BY <5>2, <5>3, <5>5, Zenon
      <4>3. CASE Kind(cut, p) = "fixed32"
        <5>1. Kind(data, p) = "fixed32"
          BY <1>1, <1>2, <1>3, <2>3, <3>1, <3>6, <4>3, CutKind
        <5>2. P(p) = P(tag.pos + 4)
          <6>1. P(p) = P(TagAt(cut, p).pos + 4)
            BY <1>3, <3>1, <4>3, DecodeCases
          <6>2. QED
            BY <3>6, <6>1, Zenon
        <5>3. W(p) = W(tag.pos + 4)
          BY <3>1, <5>1, DecodeCases
        <5>4. tag.pos + 4 \in Nat /\ tag.pos + 4 > p
          BY <3>1, <3>3
        <5>5. CutShort(P(tag.pos + 4), W(tag.pos + 4), data[n])
          BY <3>2, <5>4
        <5>6. QED
          BY <5>2, <5>3, <5>5, Zenon
      <4>4. CASE /\ Kind(cut, p) \notin {"fixed64", "fixed32"}
                 /\ ArgAt(cut, p).pos = n /\ (tag.pos = n \/ data[n] >= 128)
        <5>3. Kind(cut, p) = "panic" => data[n] >= 128
          <6>1. CASE tag.pos = n
            BY <1>3, <3>1, <3>6, <3>8, <6>1, BareTag
          <6>2. QED
            BY <4>4, <6>1
        <5>1. \/ P(p) = <<>>
              \/ \E x : MadeByCut(x, data[n]) /\ P(p) = <<x>>
          <6>1. ArgAt(cut, p).pos = Len(cut) /\ Kind(cut, p) \notin {"fixed64", "fixed32"}
            BY <1>3, <4>4
          <6>2. cut \in Seq(Byte) /\ p \in Nat
            BY <1>3, <3>1
          <6>3. QED
            BY <5>3, <6>1, <6>2, LastField, Zenon
        <5>2. QED
          BY <1>4, <3>1, <5>1, CutNothing, CutOne
      <4>5. CASE Kind(cut, p) = "end"
        <5>1. P(p) = <<>>
          BY <1>3, <3>1, <4>5, DecodeCases
        <5>2. QED
          BY <1>4, <3>1, <5>1, CutNothing
      <4>8. CASE Kind(cut, p) = "panic" /\ ArgAt(cut, p) = arg
        <5>1. Kind(data, p) = "panic"
          BY <1>1, <1>2, <1>3, <2>3, <3>1, <3>6, <4>8, CutKind
        <5>2. P(p) = <<Panic>> /\ W(p) = <<Panic>>
          BY <1>3, <3>1, <4>8, <5>1, DecodeCases
        <5>3. IsFields(W(p))
          BY <1>4, <3>1
        <5>4. QED
          BY <5>2, <5>3, CutSame
      <4>6. CASE Kind(cut, p) \in {"varint", "data"} /\ ArgAt(cut, p) = arg /\ arg.pos <= n
        <5>1. arg.pos \in Nat /\ arg.pos > p /\ TagAt(data, p).pos \in Nat
          <6>1. Kind(cut, p) # "end"
            BY <4>6
          <6>2. ArgAt(cut, p).pos \in TagAt(cut, p).pos .. Len(cut)
            BY <1>3, <3>1, <6>1, KindFacts
          <6>3. QED
            BY <1>2, <1>3, <3>1, <3>3, <3>6, <4>6, <6>2
        <5> DEFINE num == NumAt(data, p)
        <5>2. NumAt(cut, p) = num
          BY <1>1, <1>2, <1>3, <2>3, <3>1, <3>6, CutKind
        <5>3. CutShort(P(arg.pos), W(arg.pos), data[n])
          BY <3>2, <5>1
        <5>4. CASE Kind(cut, p) = "varint"
          <6> DEFINE x == Field(num, "varint", arg.v)
          <6>1. Kind(data, p) = "varint"
            BY <1>1, <1>2, <1>3, <2>3, <3>1, <3>6, <4>6, <5>4, CutKind
          <6>2. W(p) = <<x>> \o W(arg.pos)
            BY <3>1, <6>1, DecodeCases
          <6>3. P(p) = <<Field(NumAt(cut, p), "varint", ArgAt(cut, p).v)>> \o P(ArgAt(cut, p).pos)
            BY <1>3, <3>1, <5>4, DecodeCases
          <6>4. P(p) = <<x>> \o P(arg.pos)
            BY <4>6, <5>2, <6>3, Zenon
          <6>5. IsFields(P(arg.pos)) /\ IsFields(W(arg.pos))
            BY <1>4, <5>1
          <6> HIDE DEF x, P, W, arg
          <6>6. CutShort(<<x>> \o P(arg.pos), <<x>> \o W(arg.pos), data[n])
            BY <5>3, <6>5, CutPrepend
          <6>7. QED
            BY <6>2, <6>4, <6>6
        <5>5. CASE Kind(cut, p) = "data"
          <6> DEFINE end == EndAt(data, p)
                     raw == RawAt(data, p)
                     nested == IF depth < MaxDepth THEN Decode[<<raw, 0, depth + 1>>] ELSE <<>>
                     x == Guess(num, raw, nested)
          <6>1. Kind(data, p) = "data" /\ EndAt(cut, p) = end
            BY <1>1, <1>2, <1>3, <2>3, <3>1, <3>6, <4>6, <5>5, CutKind
          <6>2. EndAt(cut, p) \in ArgAt(cut, p).pos .. Len(cut)
            BY <1>3, <3>1, <5>5, KindFacts
          <6>3. end \in Nat /\ end > p /\ end <= n /\ arg.pos <= end
            BY <1>2, <1>3, <3>1, <4>6, <5>1, <6>1, <6>2
          <6>4. RawAt(cut, p) = raw
            <7>1. PICK a \in Nat : a = arg.pos
              BY <5>1
            <7>2. RawAt(cut, p) = SubSeq(cut, a + 1, end) /\ raw = SubSeq(data, a + 1, end)
              BY <4>6, <6>1, <7>1 DEF RawAt
            <7>3. \A i \in a + 1 .. end : cut[i] = data[i] /\ data[i] \in Byte
              BY <1>1, <1>2, <1>3, <6>3, <7>1
            <7> HIDE DEF end, raw, arg
            <7>4. SubSeq(cut, a + 1, end) = SubSeq(data, a + 1, end)
              BY <6>3, <7>3, SameSubSeq
            <7>5. QED
              BY <7>2, <7>4
          <6>5. W(p) = <<x>> \o W(end)
            BY <3>1, <6>1, DecodeCases
          <6>6. P(p) = <<Guess(NumAt(cut, p), RawAt(cut, p),
                               IF depth < MaxDepth THEN Decode[<<RawAt(cut, p), 0, depth + 1>>] ELSE <<>>)>>
                       \o P(EndAt(cut, p))
            BY <1>3, <3>1, <5>5, DecodeCases
          <6>7. P(p) = <<x>> \o P(end)
            BY <5>2, <6>1, <6>4, <6>6, Zenon
          <6>8. CutShort(P(end), W(end), data[n])
            BY <3>2, <6>3
          <6>9. IsFields(P(end)) /\ IsFields(W(end))
            BY <1>4, <6>3
          <6> HIDE DEF x, P, W, end
          <6>10. CutShort(<<x>> \o P(end), <<x>> \o W(end), data[n])
            BY <6>8, <6>9, CutPrepend
          <6>11. QED
            BY <6>5, <6>7, <6>10
        <5>6. QED
          BY <4>6, <5>4, <5>5
      <4>7. QED
        BY <1>3, <3>1, <4>1, <4>2, <4>3, <4>4, <4>5, <4>6, <4>8, KindFacts
    <3>7. QED
      BY <3>4, <3>5, <3>6
  <2>4. QED
    BY <1>2, <2>1, <2>2, <2>3
<1>6. \A r \in Nat : r \in good
  <2> HIDE DEF good
  <2>1. QED
    BY <1>5, SetInduction
<1>7. QED
  BY <1>6, RankType DEF cut

\* A buffer that is cut off anywhere still gives the fields that came through whole, in
\* their order and with their values, and at most one more, which the cut made: the
\* number read so far, an empty text, or, if the cut goes through the length, one whose end
\* overflows.  For every buffer a machine can hold; what it says of the fields in front of the
\* last is checked on bounded buffers by CutKeepsPrefix.
THEOREM CutsAreRead == \A bytes \in Seq(Byte) : Len(bytes) < Power[Full] => ReadsUpToCut(bytes)
<1>1. SUFFICES ASSUME NEW bytes \in Seq(Byte), NEW n \in 0 .. Len(bytes), Len(bytes) < Power[Full]
               PROVE  CutShort(DecodeTop(SubSeq(bytes, 1, n)), DecodeTop(bytes), bytes[n])
  BY DEF ReadsUpToCut
<1>2. 0 \in Nat /\ 0 \in Depth
  BY DEF Depth, MaxDepth
<1>3. QED
  BY <1>1, <1>2, CutFrom DEF DecodeTop

(***************************************************************************)
(* What the encoders write, the decoder reads.                             *)
(***************************************************************************)
\* encodeVarint returns bytes, one at least.
LEMMA EncodedLen ==
  ASSUME NEW v \in Nat
  PROVE  EncodeVarint(v) \in Seq(Byte) /\ Len(EncodeVarint(v)) \in Nat \ {0}
<1>1. Varint[v] \in Seq(Byte)
  BY VarintDefined
<1>2. Varint[v] # <<>>
  <2>1. CASE v < 128
    <3>1. Varint[v] = <<v>>
      BY <2>1, VarintDefined
    <3>2. QED
      BY <3>1
  <2>2. CASE ~(v < 128)
    <3>1. v \div 128 \in Nat /\ (v % 128) + 128 \in Byte
      BY DEF Byte
    <3>2. Varint[v \div 128] \in Seq(Byte) /\ <<(v % 128) + 128>> \in Seq(Byte) /\ Len(<<(v % 128) + 128>>) = 1
      BY <3>1, VarintDefined
    <3>3. Varint[v] = <<(v % 128) + 128>> \o Varint[v \div 128]
      BY <2>2, VarintDefined
    <3>4. Len(Varint[v]) = 1 + Len(Varint[v \div 128]) /\ Len(Varint[v \div 128]) \in Nat
      BY <3>2, <3>3, ConcatProperties
    <3>5. QED
      BY <3>4
  <2>3. QED
    BY <2>1, <2>2
<1>3. QED
  BY <1>1, <1>2, EmptySeq DEF EncodeVarint

\* What stands in a buffer as a whole stands there part by part.
LEMMA HoldsParts ==
  ASSUME NEW data \in Seq(Byte), NEW pos \in Nat, NEW s \in Seq(Byte), NEW t \in Seq(Byte),
         Holds(data, pos, s \o t)
  PROVE  Holds(data, pos, s) /\ Holds(data, pos + Len(s), t) /\ Len(s \o t) = Len(s) + Len(t)
<1>1. PICK a \in Nat, b \in Nat : a = Len(s) /\ b = Len(t)
  OBVIOUS
<1>2. /\ Len(s \o t) = a + b
      /\ \A i \in 1 .. a + b : (s \o t)[i] = IF i <= a THEN s[i] ELSE t[i - a]
  BY <1>1, ConcatProperties
<1>3. pos + (a + b) <= Len(data) /\ \A i \in 1 .. a + b : data[pos + i] = (s \o t)[i]
  BY <1>2 DEF Holds
<1>4. PICK n \in Nat : n = Len(data)
  OBVIOUS
<1>5. ASSUME NEW i \in 1 .. a PROVE data[pos + i] = s[i]
  <2>1. i \in 1 .. a + b /\ i <= a
    OBVIOUS
  <2>2. QED
    BY <1>2, <1>3, <2>1
<1>6. ASSUME NEW i \in 1 .. b PROVE data[pos + a + i] = t[i]
  <2>1. a + i \in 1 .. a + b /\ ~(a + i <= a) /\ (a + i) - a = i /\ pos + (a + i) = pos + a + i
    OBVIOUS
  <2>2. QED
    BY <1>2, <1>3, <2>1
<1>7. pos + a <= n /\ pos + a + b <= n
  BY <1>3, <1>4
<1>8. QED
  BY <1>1, <1>2, <1>4, <1>5, <1>6, <1>7 DEF Holds

FieldNumber == {f \in Nat \ {0} : 8 * f + 7 < Modulus}

\* The tag that encodeTag writes is read as its field number and wire type.
LEMMA TagComesBack ==
  ASSUME NEW data \in Seq(Byte), NEW pos \in Nat, NEW f \in FieldNumber, NEW wire \in 0 .. 7,
         Holds(data, pos, EncodeTag(f, wire))
  PROVE  /\ ~Stops(data, pos)
         /\ NumAt(data, pos) = f
         /\ Wire(data, pos) = wire
         /\ TagAt(data, pos).pos = pos + Len(EncodeTag(f, wire))
<1>1. PICK m \in Nat : m = Modulus
  BY ModulusType
<1>2. f \in Nat /\ f # 0 /\ 8 * f + 7 < m
  BY <1>1 DEF FieldNumber
<1>3. PICK v \in Nat : v = 8 * f + wire
  BY <1>2
<1>4. v \in 0 .. m - 1 /\ v \div 8 = f /\ v % 8 = wire
  BY <1>2, <1>3
<1>5. v \in 0 .. Modulus - 1
  BY <1>1, <1>4
<1>6. EncodeTag(f, wire) = EncodeVarint(v)
  BY <1>3 DEF EncodeTag
<1>7. TagAt(data, pos) = Read(v, pos + Len(EncodeTag(f, wire)), TRUE)
  BY <1>5, <1>6, VarintComesBack DEF TagAt
<1>8. TagAt(data, pos).v = v /\ TagAt(data, pos).pos = pos + Len(EncodeTag(f, wire)) /\ TagAt(data, pos).ok = TRUE
  BY <1>7 DEF Read
<1>9. NumAt(data, pos) = f /\ Wire(data, pos) = wire
  BY <1>4, <1>8 DEF NumAt, Wire
<1>10. ~(pos >= Len(data))
  <2>1. PICK l \in Nat \ {0}, n \in Nat : l = Len(EncodeTag(f, wire)) /\ n = Len(data)
    BY <1>6, EncodedLen
  <2>2. pos + l <= n
    BY <2>1 DEF Holds
  <2>3. QED
    BY <2>1, <2>2
<1>11. QED
  BY <1>2, <1>8, <1>9, <1>10 DEF Stops

\* A number that encodeFieldVarint wrote, at any position of any buffer, comes back as the
\* field with its number and value, and the decoder goes on behind it.
THEOREM NumberComesBack ==
  ASSUME NEW data \in Seq(Byte), NEW pos \in Nat, NEW depth \in Depth,
         NEW f \in FieldNumber, NEW v \in 0 .. Modulus - 1,
         Holds(data, pos, EncodeFieldVarint(f, v))
  PROVE  Decode[<<data, pos, depth>>] =
           <<Field(f, "varint", v)>> \o Decode[<<data, pos + Len(EncodeFieldVarint(f, v)), depth>>]
<1> DEFINE t == EncodeTag(f, 0)
           e == EncodeVarint(v)
<1>1. v \in Nat /\ 8 * f + 0 \in Nat
  BY ModulusType DEF FieldNumber
<1>2. t \in Seq(Byte) /\ e \in Seq(Byte)
  BY <1>1, EncodedLen DEF EncodeTag
<1>3. Holds(data, pos, t \o e)
  BY DEF EncodeFieldVarint
<1> HIDE DEF t, e
<1>4. Holds(data, pos, t) /\ Holds(data, pos + Len(t), e) /\ Len(t \o e) = Len(t) + Len(e)
  BY <1>2, <1>3, HoldsParts
<1>5. PICK a \in Nat, b \in Nat : a = Len(t) /\ b = Len(e)
  BY <1>2
<1>6. ~Stops(data, pos) /\ NumAt(data, pos) = f /\ Wire(data, pos) = 0 /\ TagAt(data, pos).pos = pos + a
  BY <1>4, <1>5, TagComesBack DEF t
<1>7. ArgAt(data, pos) = Read(v, pos + a + b, TRUE)
  <2>1. pos + a \in Nat
    OBVIOUS
  <2>2. Holds(data, pos + a, EncodeVarint(v))
    BY <1>4, <1>5 DEF e
  <2>3. DecodeVarintAt(data, pos + a) = Read(v, pos + a + Len(EncodeVarint(v)), TRUE)
    BY <2>1, <2>2, VarintComesBack
  <2>4. QED
    BY <1>5, <1>6, <2>3 DEF ArgAt, e
<1>8. ArgAt(data, pos).v = v /\ ArgAt(data, pos).pos = pos + a + b /\ ArgAt(data, pos).ok = TRUE
  BY <1>7 DEF Read
<1>9. Kind(data, pos) = "varint"
  BY <1>6, <1>8, KindIs, Zenon
<1>10. pos + Len(EncodeFieldVarint(f, v)) = pos + a + b
  BY <1>4, <1>5 DEF EncodeFieldVarint, t, e
<1>11. Decode[<<data, pos, depth>>] =
          <<Field(NumAt(data, pos), "varint", ArgAt(data, pos).v)>>
          \o Decode[<<data, ArgAt(data, pos).pos, depth>>]
  BY <1>9, DecodeCases
<1>12. QED
  BY <1>6, <1>8, <1>10, <1>11, Zenon

\* Bytes that encodeLenDelim wrote, at any position of any buffer a machine can hold, come
\* back as one field with their number, whose content is guessed from exactly these bytes
\* (a text when they look like one, else a message when they decode to fields, else a
\* text or plain bytes), and the decoder goes on behind them.
THEOREM DataComesBack ==
  ASSUME NEW data \in Seq(Byte), NEW pos \in Nat, NEW depth \in Depth,
         NEW f \in FieldNumber, NEW payload \in Seq(Byte), Len(data) < Power[Full],
         Holds(data, pos, EncodeLenDelim(f, payload))
  PROVE  Decode[<<data, pos, depth>>] =
           <<Guess(f, payload, IF depth < MaxDepth THEN Decode[<<payload, 0, depth + 1>>] ELSE <<>>)>>
           \o Decode[<<data, pos + Len(EncodeLenDelim(f, payload)), depth>>]
<1> DEFINE t == EncodeTag(f, 2)
           e == EncodeVarint(Len(payload))
<1>1. PICK l \in Nat, n \in Nat : l = Len(payload) /\ n = Len(data)
  OBVIOUS
<1>2. f \in Nat /\ 8 * f + 2 \in Nat
  BY DEF FieldNumber
<1>3. t \in Seq(Byte) /\ e \in Seq(Byte)
  BY <1>1, <1>2, EncodedLen DEF EncodeTag
<1>4. EncodeLenDelim(f, payload) = (t \o e) \o payload
  <2>1. EncodeLenDelim(f, payload) = t \o e \o payload
    BY Zenon DEF EncodeLenDelim
  <2>2. QED
    BY <2>1
<1> HIDE DEF t, e
<1>5. PICK a \in Nat, b \in Nat : a = Len(t) /\ b = Len(e)
  BY <1>3
<1>6. t \o e \in Seq(Byte)
  BY <1>3
<1>7. Holds(data, pos, (t \o e) \o payload)
  BY <1>4
<1>8. /\ Holds(data, pos, t \o e)
      /\ Holds(data, pos + Len(t \o e), payload)
      /\ Len((t \o e) \o payload) = Len(t \o e) + l
  <2>1. PICK s \in Seq(Byte) : s = t \o e
    BY <1>6
  <2>2. Holds(data, pos, s \o payload)
    BY <1>7, <2>1
  <2>3. Holds(data, pos, s) /\ Holds(data, pos + Len(s), payload) /\ Len(s \o payload) = Len(s) + Len(payload)
    BY <2>2, HoldsParts
  <2>4. QED
    BY <1>1, <2>1, <2>3
<1>9. Holds(data, pos, t) /\ Holds(data, pos + a, e) /\ Len(t \o e) = a + b
  BY <1>3, <1>5, <1>8, HoldsParts
<1>10. ~Stops(data, pos) /\ NumAt(data, pos) = f /\ Wire(data, pos) = 2 /\ TagAt(data, pos).pos = pos + a
  BY <1>5, <1>9, TagComesBack DEF t
<1>11. pos + (a + b) + l <= n /\ \A i \in 1 .. l : data[pos + (a + b) + i] = payload[i]
  BY <1>1, <1>8, <1>9 DEF Holds
<1>12. PICK p \in Nat : p = Power[Full] /\ Modulus = 2 * p /\ n < p
  BY <1>1, ModulusType
<1>13. ArgAt(data, pos) = Read(l, pos + (a + b), TRUE)
  <2>1. pos + a \in Nat
    OBVIOUS
  <2>2. l \in 0 .. 2 * p - 1
    BY <1>11, <1>12
  <2>3. l \in 0 .. Modulus - 1
    BY <1>12, <2>2
  <2>4. DecodeVarintAt(data, pos + a) = Read(l, pos + a + Len(EncodeVarint(l)), TRUE)
    BY <1>1, <1>9, <2>1, <2>3, VarintComesBack DEF e
  <2>5. pos + a + b = pos + (a + b)
    OBVIOUS
  <2>6. QED
    BY <1>1, <1>5, <1>10, <2>4, <2>5 DEF ArgAt, e
<1>14. ArgAt(data, pos).v = l /\ ArgAt(data, pos).pos = pos + (a + b) /\ ArgAt(data, pos).ok = TRUE
  BY <1>13 DEF Read
<1>15. l < p /\ pos + (a + b) + l < p /\ pos + (a + b) + l \in Nat
  BY <1>11, <1>12
<1>16. LenAt(data, pos) = l
  BY <1>12, <1>14, <1>15, SignedSmall DEF LenAt
<1>17. EndAt(data, pos) = pos + (a + b) + l
  BY <1>12, <1>14, <1>15, <1>16, SignedSmall DEF EndAt
<1>18. HasData(data, pos)
  <2>1. Signed(ArgAt(data, pos).pos + LenAt(data, pos)) <= Len(data)
    BY <1>1, <1>11, <1>17 DEF EndAt
  <2>2. LenAt(data, pos) >= 0
    BY <1>16
  <2>3. QED
    BY <1>14, <2>1, <2>2 DEF HasData, Fits
<1>19. EndAt(data, pos) \in ArgAt(data, pos).pos .. Len(data)
  BY <1>1, <1>11, <1>14, <1>17
<1>20. Kind(data, pos) = "data"
  BY <1>10, <1>18, <1>19, KindIs, Zenon
<1>21. RawAt(data, pos) = payload
  <2>1. PICK m \in Nat : m = pos + (a + b)
    OBVIOUS
  <2>2. RawAt(data, pos) = SubSeq(data, m + 1, m + l)
    BY <1>14, <1>17, <2>1 DEF RawAt
  <2>3. \A i \in m + 1 .. m + l : data[i] \in Byte
    BY <1>1, <1>11, <2>1
  <2>4. (IF m + 1 <= m + l THEN m + l - (m + 1) + 1 ELSE 0) = l /\ m + l - (m + 1) + 1 = l
    OBVIOUS
  <2>5. /\ SubSeq(data, m + 1, m + l) \in Seq(Byte)
        /\ Len(SubSeq(data, m + 1, m + l)) = l
        /\ \A i \in 1 .. l : SubSeq(data, m + 1, m + l)[i] = data[(m + 1) + i - 1]
    BY <2>3, <2>4, SubSeqProperties
  <2>6. ASSUME NEW i \in 1 .. l PROVE SubSeq(data, m + 1, m + l)[i] = payload[i]
    <3>1. (m + 1) + i - 1 = m + i
      OBVIOUS
    <3>2. QED
      BY <1>11, <2>1, <2>5, <3>1
  <2>7. QED
    BY <1>1, <2>2, <2>5, <2>6, SeqEqual
<1>22. pos + Len(EncodeLenDelim(f, payload)) = pos + (a + b) + l
  BY <1>4, <1>8, <1>9
<1>23. Decode[<<data, pos, depth>>] =
          <<Guess(NumAt(data, pos), RawAt(data, pos),
                  IF depth < MaxDepth THEN Decode[<<RawAt(data, pos), 0, depth + 1>>] ELSE <<>>)>>
          \o Decode[<<data, EndAt(data, pos), depth>>]
  BY <1>20, DecodeCases
<1>24. QED
  BY <1>10, <1>17, <1>21, <1>22, <1>23, Zenon

\* A field announced with a length takes the program down, whatever the buffer it is in,
\* exactly when the length is not negative as an int and its end lies beyond the largest
\* int: the sum pos+length wraps around, passes the comparison with the end of the buffer,
\* and the slice expression is out of range.  Every other length is turned down or fits.
THEOREM PanicsOnOverflow ==
  ASSUME NEW data \in Seq(Byte), NEW pos \in Nat, Len(data) < Power[Full],
         ~Stops(data, pos), Wire(data, pos) = 2, ArgAt(data, pos).ok
  PROVE  Kind(data, pos) = "panic" <=>
           ArgAt(data, pos).v < Power[Full] /\ ArgAt(data, pos).pos + ArgAt(data, pos).v >= Power[Full]
<1> DEFINE arg == ArgAt(data, pos)
<1>1. PICK p \in Nat \ {0}, n \in Nat : p = Power[Full] /\ Modulus = 2 * p /\ n = Len(data) /\ n < p
  BY ModulusType
<1>2. PICK v \in Nat, a \in Nat : v = arg.v /\ a = arg.pos
  BY KindFacts
<1>3. v < 2 * p
  <2>1. TagAt(data, pos).pos \in Nat
    BY KindFacts
  <2>2. v \in 0 .. Modulus - 1
    BY <1>2, <2>1, VarintAt DEF ArgAt
  <2>3. v \in 0 .. 2 * p - 1
    BY <1>1, <2>2
  <2>4. QED
    BY <2>3
<1>4. a <= n
  <2>1. pos < Len(data)
    BY <1>1 DEF Stops
  <2>2. TagAt(data, pos).pos \in pos + 1 .. Len(data)
    BY <2>1, VarintAt DEF TagAt
  <2>3. PICK q \in Nat : q = TagAt(data, pos).pos /\ q <= n
    BY <1>1, <2>2
  <2>4. CASE q < n
    <3>1. arg.pos \in q + 1 .. Len(data)
      BY <1>1, <2>3, <2>4, VarintAt DEF ArgAt
    <3>2. QED
      BY <1>1, <1>2, <3>1
  <2>5. CASE q >= n
    <3>1. DecodeVarintAt(data, q) = Read(0, q, TRUE)
      BY <1>1, <2>5, VarintAt
    <3>2. arg.pos = q
      BY <2>3, <3>1 DEF ArgAt, Read
    <3>3. QED
      BY <1>2, <2>3, <3>2
  <2>6. QED
    BY <2>3, <2>4, <2>5
<1> HIDE DEF arg
<1>5. Kind(data, pos) = IF ~HasData(data, pos) THEN "end"
                        ELSE IF EndAt(data, pos) \notin arg.pos .. Len(data) THEN "panic" ELSE "data"
  BY KindIs, Zenon DEF arg
<1>6. CASE v >= p
  <2>1. v % (2 * p) = v /\ v - 2 * p < 0
    BY <1>3, <1>6
  <2>2. LenAt(data, pos) = v - 2 * p
    BY <1>1, <1>2, <1>6, <2>1 DEF LenAt, Signed, arg
  <2>3. ~HasData(data, pos)
    BY <2>1, <2>2 DEF HasData, Fits
  <2>4. QED
    BY <1>1, <1>2, <1>5, <1>6, <2>3 DEF arg
<1>7. CASE v < p
  <2>1. LenAt(data, pos) = v
    BY <1>1, <1>2, <1>7, SignedSmall DEF LenAt, arg
  <2>2. CASE a + v >= p
    <3>1. (a + v) % (2 * p) = a + v /\ a + v - 2 * p < 0 /\ a + v - 2 * p \in Int
      <4>1. PICK x \in Nat : x = a + v
        OBVIOUS
      <4>2. x < 2 * p
        BY <1>1, <1>4, <1>7, <4>1
      <4>3. x % (2 * p) = x
        BY <4>2
      <4>4. QED
        BY <4>1, <4>2, <4>3
    <3>2. EndAt(data, pos) = a + v - 2 * p
      <4>1. PICK x \in Nat : x = a + v
        OBVIOUS
      <4>2. x % Modulus = x /\ x >= Power[Full] /\ x - Modulus = a + v - 2 * p
        BY <1>1, <2>2, <3>1, <4>1
      <4>3. Signed(x) = x - Modulus
        BY <4>2, Zenon DEF Signed
      <4>4. EndAt(data, pos) = Signed(x)
        BY <1>2, <2>1, <4>1, Zenon DEF EndAt, arg
      <4>5. QED
        BY <4>2, <4>3, <4>4, Zenon
    <3>3. HasData(data, pos)
      <4>1. a + v - 2 * p <= Len(data) /\ v >= 0
        BY <1>1, <3>1
      <4>2. Signed(arg.pos + LenAt(data, pos)) <= Len(data) /\ LenAt(data, pos) >= 0
        BY <2>1, <3>2, <4>1, Zenon DEF EndAt, arg
      <4>3. QED
        BY <4>2, Zenon DEF HasData, Fits, arg
    <3>4. EndAt(data, pos) \notin arg.pos .. Len(data)
      <4>1. a + v - 2 * p \notin a .. n
        BY <3>1
      <4>2. QED
        BY <1>1, <1>2, <3>2, <4>1, Zenon
    <3>5. QED
      BY <1>1, <1>2, <1>5, <1>7, <2>2, <3>3, <3>4 DEF arg
  <2>3. CASE a + v < p
    <3>1. EndAt(data, pos) = a + v
      BY <1>1, <1>2, <2>1, <2>3, SignedSmall DEF EndAt, arg
    <3>2. HasData(data, pos) => EndAt(data, pos) \in arg.pos .. Len(data)
      BY <1>1, <1>2, <3>1 DEF HasData, Fits, EndAt, arg
    <3>3. QED
      BY <1>1, <1>2, <1>5, <2>3, <3>2 DEF arg
  <2>4. QED
    BY <1>1, <1>2, <2>2, <2>3
<1>8. QED
  BY <1>1, <1>2, <1>6, <1>7
=============================================================================
