------------------------ MODULE BankRouting_proofs ------------------------
(***************************************************************************)
(* For every input, every search space and any number of levels: the       *)
(* routing loops of BankWithHtree stay inside their arrays, route every    *)
(* level before anything reads it, and keep wire counts, address widths    *)
(* and data widths in step; they hand over what BankWithoutHtree would,    *)
(* and what passes the checks holds the capacity asked for.                *)
(***************************************************************************)
EXTENDS BankRouting, FiniteSets, FiniteSetTheorems, TLAPS

USE SMTT(20), ZenonT(20)

\* How far the routing is: the order of the loops, and which level is last.
Progress ==
    /\ pc = "first" => h = levelHorizontal /\ v = levelVertical
    /\ pc \in {"wider", "taller", "both", "below"} => h < levelHorizontal \/ levelHorizontal = 0
    /\ pc = "wider" => v = levelVertical /\ (h < levelHorizontal - 1 => v <= h)
    /\ pc = "taller" => h <= v
    /\ pc \in {"both", "below"} => h = v
    /\ pc = "below" => h > 0
    /\ pc = "divide" => ~org.input.h_tree
    /\ pc \in AfterRouting /\ org.input.h_tree => h = 0 /\ v = 0

AtRoot == address = numAddressBit(org) /\ distribute = numDataDistributeBit(org)

Current(w) == w.address = address /\ w.distribute = distribute

\* The widths of the level routed last are the widths still to route.
LastLevel ==
    /\ pc = "first" => AtRoot
    /\ pc = "wider" /\ h >= levelHorizontal - 1 => AtRoot
    /\ pc = "taller" /\ v = levelVertical /\ h < v => AtRoot
    /\ pc \in {"wider", "taller", "both"} /\ v = levelVertical /\ h < levelHorizontal =>
          Current(hWire[levelHorizontal - h - 1])
    /\ pc \in {"taller", "both"} /\ v < levelVertical => Current(vWire[levelVertical - v - 1])
    /\ pc = "below" => Current(hWire[levelHorizontal - h])

\* The laws of a routed level: the address bits used select the active wires,
\* and the active wires share the bits of one access.
Sound(o, w) ==
    /\ w.sum \in Nat /\ w.active \in Nat /\ w.address \in Int
    /\ w.sum = w.active + (numAddressBit(o) - w.address)
    /\ w.distribute = numDataDistributeBit(o) \div 2 ^ w.active

\* A level, or the root of the tree, that the next level may hang below.
Above(o, w) ==
    /\ w.sum \in Nat /\ w.active \in Nat
    /\ w.sum = w.active + (numAddressBit(o) - address)
    /\ distribute = numDataDistributeBit(o) \div 2 ^ w.active

hDone == IF pc = "below" THEN levelHorizontal - h + 1 ELSE levelHorizontal - h

\* The levels routed so far obey the law, the others are untouched; a bank that
\* was given up inside the common loop may be one horizontal level ahead.
LevelsSound ==
    /\ \A k \in 0..(levelHorizontal - 1) :
          /\ k < hDone => Sound(org, hWire[k])
          /\ k >= hDone => hWire[k] = Unrouted \/ (pc = "unroutable" /\ Sound(org, hWire[k]))
    /\ \A k \in 0..(levelVertical - 1) :
          /\ k < levelVertical - v => Sound(org, vWire[k])
          /\ k >= levelVertical - v => vWire[k] = Unrouted

IInv == TypeOK /\ Progress /\ LastLevel /\ LevelsSound

-----------------------------------------------------------------------------
(***************************************************************************)
(* Powers of two.  2^n counts the subsets of a set of n elements, which    *)
(* gives the laws of exponents without an induction.                       *)
(***************************************************************************)

\* The subsets of a set of n elements are 2^n.
LEMMA PowerOfTwo ==
    ASSUME NEW n \in Nat
    PROVE  2 ^ n \in Nat \ {0}
<1>1. IsFiniteSet(1..n) /\ Cardinality(1..n) = n
  BY FS_Interval
<1>2. IsFiniteSet(SUBSET (1..n)) /\ Cardinality(SUBSET (1..n)) = 2 ^ n
  BY <1>1, FS_SUBSET
<1>3. Cardinality(SUBSET (1..n)) \in Nat
  BY <1>2, FS_CardinalityType
<1>4. {} \in SUBSET (1..n)
  OBVIOUS
<1>5. Cardinality(SUBSET (1..n)) # 0
  BY <1>2, <1>4, FS_EmptySet
<1> QED
  BY <1>2, <1>3, <1>5

\* A subset of a disjoint union is a pair of subsets.
LEMMA PowerOfSum ==
    ASSUME NEW m \in Nat, NEW n \in Nat
    PROVE  2 ^ (m + n) = 2 ^ m * 2 ^ n
<1> DEFINE A == 1..m
           B == (m + 1)..(m + n)
           f == [p \in (SUBSET A) \X (SUBSET B) |-> p[1] \cup p[2]]
<1>1. /\ IsFiniteSet(A) /\ Cardinality(A) = m
      /\ IsFiniteSet(B) /\ Cardinality(B) = n
      /\ IsFiniteSet(1..(m + n)) /\ Cardinality(1..(m + n)) = m + n
  <2>1. IsFiniteSet(A) /\ Cardinality(A) = m
    BY FS_Interval
  <2>2. IsFiniteSet(B) /\ Cardinality(B) = IF m + 1 > m + n THEN 0 ELSE m + n - (m + 1) + 1
    BY FS_Interval
  <2>3. IsFiniteSet(1..(m + n)) /\ Cardinality(1..(m + n)) = m + n
    <3>1. \A k \in Nat : IsFiniteSet(1..k) /\ Cardinality(1..k) = k
      BY FS_Interval
    <3> QED
      BY <3>1
  <2> QED
    BY <2>1, <2>2, <2>3
<1>2. /\ IsFiniteSet(SUBSET A) /\ Cardinality(SUBSET A) = 2 ^ m
      /\ IsFiniteSet(SUBSET B) /\ Cardinality(SUBSET B) = 2 ^ n
      /\ IsFiniteSet(SUBSET (1..(m + n))) /\ Cardinality(SUBSET (1..(m + n))) = 2 ^ (m + n)
  BY <1>1, FS_SUBSET
<1>3. /\ IsFiniteSet((SUBSET A) \X (SUBSET B))
      /\ Cardinality((SUBSET A) \X (SUBSET B)) = 2 ^ m * 2 ^ n
  <2> HIDE DEF A, B
  <2>1. /\ IsFiniteSet((SUBSET A) \X (SUBSET B))
        /\ Cardinality((SUBSET A) \X (SUBSET B)) = Cardinality(SUBSET A) * Cardinality(SUBSET B)
    BY Zenon, <1>2, FS_Product
  <2> QED
    BY <1>2, <2>1
<1>4. 1..(m + n) = A \cup B /\ A \cap B = {}
  OBVIOUS
<1>5. f \in Bijection((SUBSET A) \X (SUBSET B), SUBSET (1..(m + n)))
  <2> HIDE DEF A, B
  <2>1. \A p \in (SUBSET A) \X (SUBSET B) :
           p = <<p[1], p[2]>> /\ p[1] \in SUBSET A /\ p[2] \in SUBSET B
    OBVIOUS
  <2>2. f \in [(SUBSET A) \X (SUBSET B) -> SUBSET (1..(m + n))]
    BY <1>4, <2>1
  <2>3. \A p, q \in (SUBSET A) \X (SUBSET B) : f[p] = f[q] => p = q
    <3> SUFFICES ASSUME NEW p \in (SUBSET A) \X (SUBSET B), NEW q \in (SUBSET A) \X (SUBSET B),
                        p[1] \cup p[2] = q[1] \cup q[2]
                 PROVE  p = q
      OBVIOUS
    <3>1. p[1] = q[1] /\ p[2] = q[2]
      BY <1>4, <2>1
    <3> QED
      BY <2>1, <3>1
  <2>4. \A T \in SUBSET (1..(m + n)) : \E p \in (SUBSET A) \X (SUBSET B) : f[p] = T
    <3> SUFFICES ASSUME NEW T \in SUBSET (1..(m + n))
                 PROVE  \E p \in (SUBSET A) \X (SUBSET B) : f[p] = T
      OBVIOUS
    <3> DEFINE p == <<T \cap A, T \cap B>>
    <3>1. p \in (SUBSET A) \X (SUBSET B)
      OBVIOUS
    <3>2. f[p] = T
      BY <1>4, <3>1
    <3> QED
      BY <3>1, <3>2
  <2> QED
    <3> HIDE DEF f
    <3>1. DOMAIN f = (SUBSET A) \X (SUBSET B)
      BY <2>2
    <3> QED
      BY Zenon, <2>2, <2>3, <2>4, <3>1 DEF Bijection, Injection, Surjection, IsInjective
<1>6. Cardinality(SUBSET (1..(m + n))) = Cardinality((SUBSET A) \X (SUBSET B))
  <2>1. ExistsBijection((SUBSET A) \X (SUBSET B), SUBSET (1..(m + n)))
    BY <1>5 DEF ExistsBijection
  <2> QED
    BY <1>3, <2>1, FS_Bijection
<1> QED
  BY <1>2, <1>3, <1>6

\* Dividing by two powers in turn divides by the power of the sum.
LEMMA DivideInTurn ==
    ASSUME NEW x \in Int, NEW a \in Nat, NEW b \in Nat
    PROVE  (x \div 2 ^ a) \div 2 ^ b = x \div 2 ^ (a + b)
<1>1. ASSUME NEW p \in Nat \ {0}, NEW q \in Nat \ {0}
      PROVE  (x \div p) \div q = x \div (p * q)
  <2>1. PICK y \in Int, r \in Int : x = y * p + r /\ 0 <= r /\ r < p /\ y = x \div p
    <3>1. x = (x \div p) * p + (x % p) /\ 0 <= x % p /\ x % p < p /\ x \div p \in Int /\ x % p \in Int
      OBVIOUS
    <3> QED BY <3>1
  <2>2. PICK z \in Int, s \in Int : y = z * q + s /\ 0 <= s /\ s < q /\ z = y \div q
    <3>1. y = (y \div q) * q + (y % q) /\ 0 <= y % q /\ y % q < q /\ y \div q \in Int /\ y % q \in Int
      OBVIOUS
    <3> QED BY <3>1
  <2>3. x = z * (p * q) + (s * p + r)
    <3> DEFINE u == z * q
    <3>1. u \in Int /\ y = u + s
      BY <2>2
    <3>2. u * p = z * (p * q)
      <4>1. \A i, j, k \in Int : (i * j) * k = i * (k * j)
        OBVIOUS
      <4> QED
        BY <4>1
    <3> HIDE DEF u
    <3>3. y * p = u * p + s * p
      BY <2>2, <3>1
    <3> DEFINE a1 == u * p
               a2 == s * p
               a3 == y * p
               a4 == z * (p * q)
    <3>4. a1 \in Int /\ a2 \in Int /\ a3 \in Int /\ a3 = a1 + a2 /\ a1 = a4 /\ x = a3 + r
      BY <2>1, <2>2, <3>1, <3>2, <3>3
    <3> HIDE DEF a1, a2, a3, a4
    <3>5. x = a4 + (a2 + r)
      BY <2>1, <3>4
    <3> QED
      BY <3>5 DEF a2, a4
  <2>4. 0 <= s * p + r /\ s * p + r < p * q
    <3>1. 0 <= s * p
      BY <2>2
    <3>2. s * p <= (q - 1) * p
      BY <2>2
    <3> QED BY <2>1, <2>2, <3>1, <3>2
  <2>5. p * q \in Nat /\ p * q > 0
    OBVIOUS
  <2>6. x \div (p * q) = z
    <3> DEFINE d == p * q
               t == s * p + r
    <3>1. d \in Nat /\ d > 0 /\ t \in Int /\ 0 <= t /\ t < d /\ x = z * d + t
      BY <2>1, <2>2, <2>3, <2>4, <2>5
    <3> HIDE DEF d, t
    <3>2. x \div d = z
      BY <3>1
    <3> QED BY <3>2 DEF d
  <2> QED BY <2>1, <2>2, <2>6
<1>2. (x \div 2 ^ a) \div 2 ^ b = x \div (2 ^ a * 2 ^ b)
  <2>1. 2 ^ a \in Nat \ {0} /\ 2 ^ b \in Nat \ {0}
    BY PowerOfTwo
  <2> QED
    BY Zenon, <1>1, <2>1
<1> QED
  BY <1>2, PowerOfSum
\* A multiple divided by the factor.
LEMMA DivideMultiple ==
    ASSUME NEW c \in Int, NEW q \in Nat \ {0}
    PROVE  (c * q) \div q = c
OBVIOUS

\* A power of two divided by another: their ratio, or nothing.
LEMMA PowerRatio ==
    ASSUME NEW a \in Nat, NEW b \in Nat
    PROVE  2 ^ a \div 2 ^ b = IF a >= b THEN 2 ^ (a - b) ELSE 0
<1>1. 2 ^ a \in Nat \ {0} /\ 2 ^ b \in Nat \ {0}
  BY PowerOfTwo
<1>2. CASE a >= b
  <2>1. a - b \in Nat /\ (a - b) + b = a
    BY <1>2
  <2>2. 2 ^ (a - b) \in Nat \ {0}
    BY <2>1, PowerOfTwo
  <2>3. 2 ^ a = 2 ^ (a - b) * 2 ^ b
    <3> DEFINE d == a - b
    <3>1. d \in Nat /\ d + b = a
      BY <2>1
    <3> HIDE DEF d
    <3>2. 2 ^ (d + b) = 2 ^ d * 2 ^ b
      BY <3>1, PowerOfSum
    <3> QED
      BY <3>1, <3>2 DEF d
  <2> QED
    BY <1>1, <1>2, <2>2, <2>3, DivideMultiple
<1>3. CASE a < b
  <2>1. PICK d \in Nat : b = a + (1 + d)
    <3>1. b - a - 1 \in Nat /\ b = a + (1 + (b - a - 1))
      BY <1>3
    <3> QED
      BY <3>1
  <2>2. 2 ^ (1 + d) = 2 * 2 ^ d /\ 2 ^ d \in Nat \ {0}
    <3>1. 2 ^ (1 + d) = 2 ^ 1 * 2 ^ d
      BY PowerOfSum
    <3> QED
      BY <3>1, PowerOfTwo
  <2>3. 2 ^ b = 2 ^ a * 2 ^ (1 + d)
    BY <2>1, PowerOfSum
  <2>4. 2 ^ a < 2 ^ b
    <3> DEFINE x == 2 ^ a
               y == 2 ^ (1 + d)
    <3>1. x \in Nat \ {0} /\ y \in Nat /\ y >= 2 /\ 2 ^ b = x * y
      BY <1>1, <2>2, <2>3
    <3> HIDE DEF x, y
    <3>2. x * y >= x * 2
      BY <3>1
    <3>3. x < 2 ^ b
      BY <3>1, <3>2
    <3> QED
      BY <3>3 DEF x
  <2> DEFINE x == 2 ^ a
             z == 2 ^ b
  <2>5. x \in Nat /\ z \in Nat /\ z > 0 /\ x < z
    BY <1>1, <2>4
  <2> HIDE DEF x, z
  <2>6. x \div z = 0
    BY <2>5
  <2> QED
    BY <1>3, <2>6 DEF x, z
<1> QED
  BY <1>2, <1>3

\* Rounding a positive width up gives a positive multiple.
LEMMA RoundUpIsMultiple ==
    ASSUME NEW width \in Nat \ {0}, NEW share \in Nat \ {0}
    PROVE  \E c \in Nat \ {0} : RoundUp(width, share) = c * share
<1>0. /\ width = (width \div share) * share + (width % share)
      /\ 0 <= width % share /\ width % share < share
      /\ width \div share \in Int /\ width % share \in Int
  OBVIOUS
<1> DEFINE q == width \div share
<1>1. CASE width % share = 0
  <2>1. RoundUp(width, share) = q * share /\ width = q * share /\ q \in Int
    BY <1>0, <1>1 DEF RoundUp
  <2> HIDE DEF q
  <2>2. q > 0
    BY <2>1
  <2> QED
    BY <2>1, <2>2
<1>2. CASE width % share # 0
  <2>1. RoundUp(width, share) = (q + 1) * share
    BY <1>2 DEF RoundUp
  <2>2. q \in Nat
    OBVIOUS
  <2> HIDE DEF q
  <2> QED
    BY <2>1, <2>2
<1> QED
  BY <1>1, <1>2

-----------------------------------------------------------------------------
\* The counts of a candidate are natural numbers, its widths integers.
LEMMA CandidateFacts ==
    ASSUME NEW o \in Candidates
    PROVE  /\ o.row \in Nat /\ o.column \in Nat
           /\ numAddressBit(o) \in Int /\ numDataDistributeBit(o) \in Int
<1>1. o \in Organization
  BY DEF Candidates
<1>2. /\ o.row \in Nat /\ o.column \in Nat /\ o.stack \in Nat /\ o.input \in InputType
      /\ o.activePerRow \in Nat /\ o.activePerColumn \in Nat /\ o.mats \in MatsType
  BY <1>1, RoutingAssumption DEF Organization
<1>3. o.input.blocks \in Nat /\ o.input.assoc \in Nat /\ o.input.offset \in Nat
  BY <1>2 DEF InputType
<1>4. Blocks(o) \in Int /\ Associativity(o) \in Nat
  BY <1>3 DEF Blocks, Associativity
<1>5. numAddressBit(o) \in Int
  BY <1>2, <1>4 DEF numAddressBit, IntLog2
<1>6. WordWidth(o.input) \in Int /\ 2 ^ o.input.assoc \in Int
  BY <1>3, PowerOfTwo DEF WordWidth
<1>7. o.kind = "data" => BlockSize(o) \in Int
  BY <1>6 DEF BlockSize
<1>8. 2 ^ Associativity(o) \in Int
  BY <1>4, PowerOfTwo
<1> QED
  BY <1>2, <1>5, <1>7, <1>8 DEF numDataDistributeBit

\* A level whose wires obey the law is not memory that was never written.
LEMMA SoundIsRouted ==
    ASSUME NEW o, NEW w, Sound(o, w)
    PROVE  w # Unrouted
BY DEF Sound, Unrouted

\* One more level below a sound one of the current widths is sound.
LEMMA LevelIsSound ==
    ASSUME NEW o \in Candidates, NEW above, NEW halves, address \in Int, Above(o, above)
    PROVE  Sound(o, Level(above, halves)) /\ Level(above, halves).address \in Int
<1> DEFINE w == Level(above, halves)
           D == numDataDistributeBit(o)
<1>1. numAddressBit(o) \in Int /\ D \in Int
  BY CandidateFacts
<1>2. /\ w.sum \in Nat /\ w.active \in Nat /\ w.address \in Int
      /\ w.sum = w.active + (numAddressBit(o) - w.address)
  BY <1>1 DEF Level, Above
<1>3. w.distribute = D \div 2 ^ w.active
  <2>1. CASE halves
    <3>1. w.distribute = (D \div 2 ^ above.active) \div 2 /\ w.active = above.active + 1
      BY <2>1 DEF Level, Above
    <3> HIDE DEF w, D
    <3>2. (D \div 2 ^ above.active) \div 2 ^ 1 = D \div 2 ^ (above.active + 1)
      <4>1. above.active \in Nat /\ 1 \in Nat
        BY DEF Above
      <4> QED
        BY Zenon, <1>1, <4>1, DivideInTurn
    <3>3. 2 ^ 1 = 2
      OBVIOUS
    <3> QED
      BY Zenon, <3>1, <3>2, <3>3
  <2>2. CASE ~halves
    BY <2>2 DEF Level, Above
  <2> QED
    BY <2>1, <2>2
<1> QED
  BY <1>2, <1>3 DEF Sound

\* The tree starts with all address bits and all data bits on one wire.
LEMMA RootIsAbove ==
    ASSUME org \in Candidates, AtRoot
    PROVE  Above(org, Root)
<1>1. numAddressBit(org) \in Int /\ numDataDistributeBit(org) \in Int
  BY CandidateFacts
<1>2. Root.sum = 0 /\ Root.active = 0
  BY DEF Root
<1>3. Root.sum = Root.active + (numAddressBit(org) - address)
  BY <1>1, <1>2 DEF AtRoot
<1>4. distribute = numDataDistributeBit(org) \div 2 ^ Root.active
  <2>1. \A x \in Int : x \div 1 = x
    OBVIOUS
  <2>2. 2 ^ Root.active = 1
    BY <1>2
  <2> QED
    BY Zenon, <1>1, <2>1, <2>2 DEF AtRoot
<1>5. Root.sum \in Nat /\ Root.active \in Nat
  BY <1>2
<1> QED
  BY Zenon, <1>3, <1>4, <1>5 DEF Above

\* Writing one entry leaves an array an array of the same length.
LEMMA WriteKeepsLength ==
    ASSUME NEW S, NEW f, NEW i, NEW x, f = [k \in S |-> f[k]]
    PROVE  [f EXCEPT ![i] = x] = [k \in S |-> [f EXCEPT ![i] = x][k]]
OBVIOUS

\* Routing the next level of an array: one more entry is sound, the rest untouched.
LEMMA OneMoreLevel ==
    ASSUME NEW o, NEW size \in Nat, NEW done \in Int, NEW old, NEW new, Sound(o, new[done]),
           \A k \in 0..(size - 1) : /\ k < done => Sound(o, old[k])
                                    /\ k >= done => old[k] = Unrouted,
           \A k \in 0..(size - 1) : k # done => new[k] = old[k]
    PROVE  \A k \in 0..(size - 1) : /\ k < done + 1 => Sound(o, new[k])
                                    /\ k >= done + 1 => new[k] = Unrouted
<1> SUFFICES ASSUME NEW k \in 0..(size - 1)
             PROVE  /\ k < done + 1 => Sound(o, new[k])
                    /\ k >= done + 1 => new[k] = Unrouted
  OBVIOUS
<1>1. CASE k = done
  BY <1>1
<1>2. CASE k < done
  BY <1>2
<1>3. CASE k > done
  BY <1>3
<1> QED
  BY <1>1, <1>2, <1>3

\* No level is routed when Initialize enters the loops.
LEMMA InitHolds == Init => IInv
<1> SUFFICES ASSUME Init PROVE IInv
  OBVIOUS
<1>1. org \in Candidates /\ org.row \in Nat /\ org.column \in Nat /\ numAddressBit(org) \in Int
  BY CandidateFacts DEF Init
<1>2. TypeOK
  BY <1>1 DEF Init, TypeOK, Places, AfterRouting, levelHorizontal, levelVertical
<1>3. pc \in {"first", "divide"} /\ (pc = "divide" => ~org.input.h_tree)
  BY DEF Init
<1>4. Progress
  BY <1>3 DEF Init, Progress, AfterRouting
<1>5. LastLevel
  BY <1>3 DEF Init, LastLevel, AtRoot
<1>6. hDone = 0
  BY <1>1, <1>3 DEF Init, hDone, levelHorizontal
<1>7. LevelsSound
  BY <1>1, <1>6 DEF Init, LevelsSound, levelHorizontal, levelVertical
<1> QED
  BY <1>2, <1>4, <1>5, <1>7 DEF IInv

-----------------------------------------------------------------------------
\* Every step of Initialize keeps the invariant.
LEMMA StepKeeps == IInv /\ [Next]_vars => IInv'
<1> SUFFICES ASSUME IInv, [Next]_vars PROVE IInv'
  OBVIOUS
<1>0. /\ levelHorizontal \in Nat /\ levelVertical \in Nat
      /\ h \in 0..levelHorizontal /\ v \in 0..levelVertical /\ address \in Int
      /\ pc \in Places /\ org \in Candidates
      /\ hWire = [k \in 0..(levelHorizontal - 1) |-> hWire[k]]
      /\ vWire = [k \in 0..(levelVertical - 1) |-> vWire[k]]
  BY CandidateFacts DEF IInv, TypeOK, levelHorizontal, levelVertical
<1>1. CASE RouteFirst
  <2>1. /\ pc = "first" /\ pc' = "wider" /\ h > 0 /\ h' = h - 1
        /\ h = levelHorizontal /\ v = levelVertical /\ AtRoot
        /\ UNCHANGED <<org, v, address, distribute, vWire>>
    BY <1>1 DEF RouteFirst, Goto, IInv, Progress, LastLevel
  <2>2. levelHorizontal' = levelHorizontal /\ levelVertical' = levelVertical /\ org' = org
    BY <2>1 DEF levelHorizontal, levelVertical
  <2> DEFINE root == [address |-> address, distribute |-> distribute, active |-> 0, sum |-> 0]
  <2>3. hWire' = [hWire EXCEPT ![0] = root]
    BY <1>1 DEF RouteFirst
  <2>4. TypeOK'
    <3>1. hWire' = [k \in 0..(levelHorizontal - 1) |-> hWire'[k]]
      BY <1>0, <2>1, <2>3, WriteKeepsLength
    <3>2. h' \in 0..levelHorizontal /\ v' \in 0..levelVertical /\ address' \in Int /\ pc' \in Places
      BY <1>0, <2>1, <2>2, <2>3 DEF Places
    <3> QED
      BY <1>0, <2>1, <2>2, <3>1, <3>2 DEF TypeOK
  <2>5. Progress'
    BY <1>0, <2>1, <2>2 DEF Progress, AfterRouting
  <2>6. hWire'[0] = root /\ \A k \in 0..(levelHorizontal - 1) : k # 0 => hWire'[k] = hWire[k]
    BY <1>0, <2>1, <2>3
  <2>7. LastLevel'
    BY <1>0, <2>1, <2>2, <2>6 DEF LastLevel, AtRoot, Current
  <2>8. Sound(org, root) /\ hDone = 0 /\ hDone' = 1
    BY <1>0, <2>1, <2>2, CandidateFacts DEF Sound, AtRoot, hDone
  <2>9. LevelsSound'
    BY <1>0, <2>1, <2>2, <2>6, <2>8 DEF LevelsSound, IInv
  <2> QED
    BY <2>4, <2>5, <2>7, <2>9 DEF IInv
<1>2. CASE RouteHorizontal
  <2> DEFINE above == hWire[levelHorizontal - h - 1]
             level == Level(above, columnToActive > 0)
  <2>1. /\ pc = "wider" /\ pc' = pc /\ h > v /\ h' = h - 1 /\ v = levelVertical
        /\ h < levelHorizontal /\ Current(above)
        /\ UNCHANGED <<org, v, vWire>>
        /\ hWire' = [hWire EXCEPT ![levelHorizontal - h] = level]
        /\ address' = level.address /\ distribute' = level.distribute
    BY <1>0, <1>2 DEF RouteHorizontal, AddHorizontal, IInv, Progress, LastLevel
  <2>2. levelHorizontal' = levelHorizontal /\ levelVertical' = levelVertical /\ org' = org
    BY <2>1 DEF levelHorizontal, levelVertical
  <2>3. Sound(org, above)
    BY <1>0, <2>1 DEF IInv, LevelsSound, hDone
  <2>4. Sound(org, level) /\ level.address \in Int
    <3>1. Above(org, above)
      BY <2>1, <2>3 DEF Sound, Current, Above
    <3> QED
      BY Zenon, <1>0, <3>1, LevelIsSound
  <2> HIDE DEF level, above
  <2>5. /\ hWire'[levelHorizontal - h] = level
        /\ \A k \in 0..(levelHorizontal - 1) : k # levelHorizontal - h => hWire'[k] = hWire[k]
    BY <1>0, <2>1
  <2>6. TypeOK'
    <3>1. hWire' = [k \in 0..(levelHorizontal - 1) |-> hWire'[k]]
      BY <1>0, <2>1, WriteKeepsLength
    <3>2. h' \in 0..levelHorizontal /\ v' \in 0..levelVertical /\ address' \in Int /\ pc' \in Places
      BY <1>0, <2>1, <2>2, <2>4 DEF Places
    <3> QED
      BY <1>0, <2>1, <2>2, <3>1, <3>2 DEF TypeOK
  <2>7. Progress'
    BY <1>0, <2>1, <2>2 DEF Progress, AfterRouting
  <2>8. LastLevel'
    BY <1>0, <2>1, <2>2, <2>5 DEF LastLevel, Current
  <2>9. hDone = levelHorizontal - h /\ hDone' = levelHorizontal - h + 1
    BY <1>0, <2>1, <2>2 DEF hDone
  <2>10. LevelsSound'
    <3>1. \A k \in 0..(levelHorizontal - 1) : /\ k < hDone => Sound(org, hWire[k])
                                              /\ k >= hDone => hWire[k] = Unrouted
      BY <2>1 DEF LevelsSound, IInv
    <3>2. /\ hDone \in Int /\ hDone' = hDone + 1 /\ Sound(org, hWire'[hDone])
          /\ \A k \in 0..(levelHorizontal - 1) : k # hDone => hWire'[k] = hWire[k]
      BY <1>0, <2>4, <2>5, <2>9
    <3>3. \A k \in 0..(levelHorizontal - 1) : /\ k < hDone' => Sound(org, hWire'[k])
                                              /\ k >= hDone' => hWire'[k] = Unrouted
      BY <1>0, <3>1, <3>2, OneMoreLevel
    <3>4. \A k \in 0..(levelVertical - 1) : /\ k < levelVertical - v => Sound(org, vWire[k])
                                            /\ k >= levelVertical - v => vWire[k] = Unrouted
      BY DEF LevelsSound, IInv
    <3>5. v' = v /\ vWire' = vWire
      BY <2>1
    <3> QED
      BY <2>2, <3>3, <3>4, <3>5 DEF LevelsSound
  <2> QED
    BY <2>6, <2>7, <2>8, <2>10 DEF IInv
<1>3. CASE RouteVertical
  <2> DEFINE above == IF v = levelVertical THEN Root ELSE vWire[levelVertical - v - 1]
             level == Level(above, rowToActive > 0)
  <2>1. /\ pc = "taller" /\ pc' = pc /\ v > h /\ v' = v - 1 /\ h <= v
        /\ h < levelHorizontal \/ levelHorizontal = 0
        /\ UNCHANGED <<org, h, hWire>>
        /\ vWire' = [vWire EXCEPT ![levelVertical - v] = level]
        /\ address' = level.address /\ distribute' = level.distribute
    BY <1>0, <1>3 DEF RouteVertical, AddVertical, IInv, Progress
  <2>2. levelHorizontal' = levelHorizontal /\ levelVertical' = levelVertical /\ org' = org
    BY <2>1 DEF levelHorizontal, levelVertical
  <2>4. Above(org, above)
    <3>1. CASE v = levelVertical
      <4>1. AtRoot /\ above = Root
        BY <1>0, <2>1, <3>1 DEF IInv, LastLevel
      <4> QED
        BY <1>0, <4>1, RootIsAbove
    <3>2. CASE v < levelVertical
      <4>1. above = vWire[levelVertical - v - 1] /\ Current(above)
        BY <1>0, <2>1, <3>2 DEF IInv, LastLevel
      <4>2. /\ levelVertical - v - 1 \in 0..(levelVertical - 1)
            /\ levelVertical - v - 1 < levelVertical - v
        BY <1>0, <3>2
      <4>3. Sound(org, above)
        BY <4>1, <4>2 DEF IInv, LevelsSound
      <4> QED
        BY <4>1, <4>3 DEF Sound, Current, Above
    <3> QED
      BY <1>0, <3>1, <3>2
  <2>5. Sound(org, level) /\ level.address \in Int
    BY Zenon, <1>0, <2>4, LevelIsSound
  <2> HIDE DEF level, above
  <2>6. /\ vWire'[levelVertical - v] = level
        /\ \A k \in 0..(levelVertical - 1) : k # levelVertical - v => vWire'[k] = vWire[k]
    BY <1>0, <2>1
  <2>7. TypeOK'
    <3>1. vWire' = [k \in 0..(levelVertical - 1) |-> vWire'[k]]
      BY <1>0, <2>1, WriteKeepsLength
    <3>2. h' \in 0..levelHorizontal /\ v' \in 0..levelVertical /\ address' \in Int /\ pc' \in Places
      BY <1>0, <2>1, <2>2, <2>5 DEF Places
    <3> QED
      BY <1>0, <2>1, <2>2, <3>1, <3>2 DEF TypeOK
  <2>8. Progress'
    BY <1>0, <2>1, <2>2 DEF Progress, AfterRouting
  <2>9. LastLevel'
    BY <1>0, <2>1, <2>2, <2>6 DEF LastLevel, Current
  <2>10. hDone' = hDone
    BY <2>1, <2>2 DEF hDone
  <2>11. LevelsSound'
    <3>1. \A k \in 0..(levelHorizontal - 1) : /\ k < hDone => Sound(org, hWire[k])
                                              /\ k >= hDone => hWire[k] = Unrouted
      BY <2>1 DEF LevelsSound, IInv
    <3>2. \A k \in 0..(levelVertical - 1) : /\ k < levelVertical - v => Sound(org, vWire[k])
                                            /\ k >= levelVertical - v => vWire[k] = Unrouted
      BY DEF LevelsSound, IInv
    <3>3. /\ levelVertical - v \in Int /\ levelVertical - v' = levelVertical - v + 1
          /\ Sound(org, vWire'[levelVertical - v])
      BY <1>0, <2>1, <2>5, <2>6
    <3>4. \A k \in 0..(levelVertical - 1) : /\ k < levelVertical - v' => Sound(org, vWire'[k])
                                            /\ k >= levelVertical - v' => vWire'[k] = Unrouted
      <4> DEFINE done == levelVertical - v
      <4>1. /\ done \in Int /\ levelVertical - v' = done + 1 /\ Sound(org, vWire'[done])
            /\ \A k \in 0..(levelVertical - 1) : k # done => vWire'[k] = vWire[k]
            /\ \A k \in 0..(levelVertical - 1) : k < done => Sound(org, vWire[k])
            /\ \A k \in 0..(levelVertical - 1) : k >= done => vWire[k] = Unrouted
        BY <2>6, <3>2, <3>3
      <4> HIDE DEF done
      <4> QED
        BY <1>0, <4>1, OneMoreLevel
    <3>5. hWire' = hWire
      BY <2>1
    <3> QED
      BY <2>2, <2>10, <3>1, <3>4, <3>5 DEF LevelsSound
  <2> QED
    BY <2>7, <2>8, <2>9, <2>11 DEF IInv
<1>4. CASE RouteBothHorizontal
  <2> DEFINE above == IF v = levelVertical THEN hWire[levelHorizontal - h - 1]
                                          ELSE vWire[levelVertical - v - 1]
             level == Level(above, columnToActive > 0)
  <2>1. /\ pc = "both" /\ pc' = "below" /\ h > 0 /\ h = v /\ h < levelHorizontal
        /\ UNCHANGED <<org, h, v, vWire>>
        /\ hWire' = [hWire EXCEPT ![levelHorizontal - h] = level]
        /\ address' = level.address /\ distribute' = level.distribute
    BY <1>0, <1>4 DEF RouteBothHorizontal, AddHorizontal, Goto, IInv, Progress
  <2>2. levelHorizontal' = levelHorizontal /\ levelVertical' = levelVertical /\ org' = org
    BY <2>1 DEF levelHorizontal, levelVertical
  <2>3. Sound(org, above) /\ Current(above)
    <3>1. CASE v = levelVertical
      <4>1. above = hWire[levelHorizontal - h - 1] /\ Current(above)
        BY <1>0, <2>1, <3>1 DEF IInv, LastLevel
      <4>2. levelHorizontal - h - 1 \in 0..(levelHorizontal - 1)
        BY <1>0, <2>1
      <4>3. hDone = levelHorizontal - h /\ levelHorizontal - h - 1 < hDone
        BY <1>0, <2>1 DEF hDone
      <4> QED
        BY <4>1, <4>2, <4>3 DEF IInv, LevelsSound
    <3>2. CASE v < levelVertical
      <4>1. above = vWire[levelVertical - v - 1] /\ Current(above)
        BY <1>0, <2>1, <3>2 DEF IInv, LastLevel
      <4>2. /\ levelVertical - v - 1 \in 0..(levelVertical - 1)
            /\ levelVertical - v - 1 < levelVertical - v
        BY <1>0, <3>2
      <4> QED
        BY <4>1, <4>2 DEF IInv, LevelsSound
    <3> QED
      BY <1>0, <3>1, <3>2
  <2>4. Sound(org, level) /\ level.address \in Int
    <3>1. Above(org, above)
      BY <2>3 DEF Sound, Current, Above
    <3> QED
      BY Zenon, <1>0, <3>1, LevelIsSound
  <2> HIDE DEF level, above
  <2>5. /\ hWire'[levelHorizontal - h] = level
        /\ \A k \in 0..(levelHorizontal - 1) : k # levelHorizontal - h => hWire'[k] = hWire[k]
    BY <1>0, <2>1
  <2>6. TypeOK'
    <3>1. hWire' = [k \in 0..(levelHorizontal - 1) |-> hWire'[k]]
      BY <1>0, <2>1, WriteKeepsLength
    <3>2. h' \in 0..levelHorizontal /\ v' \in 0..levelVertical /\ address' \in Int /\ pc' \in Places
      BY <1>0, <2>1, <2>2, <2>4 DEF Places
    <3> QED
      BY <1>0, <2>1, <2>2, <3>1, <3>2 DEF TypeOK
  <2>7. Progress'
    BY <1>0, <2>1, <2>2 DEF Progress, AfterRouting
  <2>8. LastLevel'
    BY <1>0, <2>1, <2>2, <2>5 DEF LastLevel, Current
  <2>9. hDone = levelHorizontal - h /\ hDone' = levelHorizontal - h + 1
    BY <1>0, <2>1, <2>2 DEF hDone
  <2>10. LevelsSound'
    <3>1. \A k \in 0..(levelHorizontal - 1) : /\ k < hDone => Sound(org, hWire[k])
                                              /\ k >= hDone => hWire[k] = Unrouted
      BY <2>1 DEF LevelsSound, IInv
    <3>2. /\ hDone \in Int /\ hDone' = hDone + 1 /\ Sound(org, hWire'[hDone])
          /\ \A k \in 0..(levelHorizontal - 1) : k # hDone => hWire'[k] = hWire[k]
      BY <1>0, <2>4, <2>5, <2>9
    <3>3. \A k \in 0..(levelHorizontal - 1) : /\ k < hDone' => Sound(org, hWire'[k])
                                              /\ k >= hDone' => hWire'[k] = Unrouted
      BY <1>0, <3>1, <3>2, OneMoreLevel
    <3>4. \A k \in 0..(levelVertical - 1) : /\ k < levelVertical - v => Sound(org, vWire[k])
                                            /\ k >= levelVertical - v => vWire[k] = Unrouted
      BY DEF LevelsSound, IInv
    <3>5. v' = v /\ vWire' = vWire
      BY <2>1
    <3> QED
      BY <2>2, <3>3, <3>4, <3>5 DEF LevelsSound
  <2> QED
    BY <2>6, <2>7, <2>8, <2>10 DEF IInv
<1>5. CASE RouteBothVertical
  <2> DEFINE above == hWire[levelHorizontal - h]
             level == Level(above, rowToActive > 0)
  <2>1. /\ pc = "below" /\ pc' = "both" /\ h > 0 /\ h = v /\ h < levelHorizontal
        /\ h' = h - 1 /\ v' = v - 1 /\ Current(above)
        /\ UNCHANGED <<org, hWire>>
        /\ vWire' = [vWire EXCEPT ![levelVertical - v] = level]
        /\ address' = level.address /\ distribute' = level.distribute
    BY <1>0, <1>5 DEF RouteBothVertical, AddVertical, Goto, IInv, Progress, LastLevel
  <2>2. levelHorizontal' = levelHorizontal /\ levelVertical' = levelVertical /\ org' = org
    BY <2>1 DEF levelHorizontal, levelVertical
  <2>3. Sound(org, above)
    BY <1>0, <2>1 DEF IInv, LevelsSound, hDone
  <2>4. Sound(org, level) /\ level.address \in Int
    <3>1. Above(org, above)
      BY <2>1, <2>3 DEF Sound, Current, Above
    <3> QED
      BY Zenon, <1>0, <3>1, LevelIsSound
  <2> HIDE DEF level, above
  <2>5. /\ vWire'[levelVertical - v] = level
        /\ \A k \in 0..(levelVertical - 1) : k # levelVertical - v => vWire'[k] = vWire[k]
    BY <1>0, <2>1
  <2>6. TypeOK'
    <3>1. vWire' = [k \in 0..(levelVertical - 1) |-> vWire'[k]]
      BY <1>0, <2>1, WriteKeepsLength
    <3>2. h' \in 0..levelHorizontal /\ v' \in 0..levelVertical /\ address' \in Int /\ pc' \in Places
      BY <1>0, <2>1, <2>2, <2>4 DEF Places
    <3> QED
      BY <1>0, <2>1, <2>2, <3>1, <3>2 DEF TypeOK
  <2>7. Progress'
    BY <1>0, <2>1, <2>2 DEF Progress, AfterRouting
  <2>8. LastLevel'
    BY <1>0, <2>1, <2>2, <2>5 DEF LastLevel, Current
  <2>9. hDone' = hDone
    BY <1>0, <2>1, <2>2 DEF hDone
  <2>10. LevelsSound'
    <3>1. \A k \in 0..(levelHorizontal - 1) : /\ k < hDone => Sound(org, hWire[k])
                                              /\ k >= hDone => hWire[k] = Unrouted
      BY <2>1 DEF LevelsSound, IInv
    <3>2. \A k \in 0..(levelVertical - 1) : /\ k < levelVertical - v => Sound(org, vWire[k])
                                            /\ k >= levelVertical - v => vWire[k] = Unrouted
      BY DEF LevelsSound, IInv
    <3>3. /\ levelVertical - v \in Int /\ levelVertical - v' = levelVertical - v + 1
          /\ Sound(org, vWire'[levelVertical - v])
      BY <1>0, <2>1, <2>4, <2>5
    <3>4. \A k \in 0..(levelVertical - 1) : /\ k < levelVertical - v' => Sound(org, vWire'[k])
                                            /\ k >= levelVertical - v' => vWire'[k] = Unrouted
      <4> DEFINE done == levelVertical - v
      <4>1. /\ done \in Int /\ levelVertical - v' = done + 1 /\ Sound(org, vWire'[done])
            /\ \A k \in 0..(levelVertical - 1) : k # done => vWire'[k] = vWire[k]
            /\ \A k \in 0..(levelVertical - 1) : k < done => Sound(org, vWire[k])
            /\ \A k \in 0..(levelVertical - 1) : k >= done => vWire[k] = Unrouted
        BY <2>5, <3>2, <3>3
      <4> HIDE DEF done
      <4> QED
        BY <1>0, <4>1, OneMoreLevel
    <3>5. hWire' = hWire
      BY <2>1
    <3> QED
      BY <2>2, <2>9, <3>1, <3>4, <3>5 DEF LevelsSound
  <2> QED
    BY <2>6, <2>7, <2>8, <2>10 DEF IInv
<1>6. ASSUME UNCHANGED <<org, routing>>, pc # "below", pc # "unroutable" \/ pc' = pc, Progress', LastLevel', pc' \in Places,
             pc' # "below"
      PROVE  IInv'
  <2>1. /\ levelHorizontal' = levelHorizontal /\ levelVertical' = levelVertical /\ org' = org
        /\ UNCHANGED <<h, v, address, distribute, hWire, vWire>>
    BY <1>6 DEF levelHorizontal, levelVertical, routing
  <2>2. TypeOK'
    BY <1>0, <1>6, <2>1 DEF TypeOK
  <2>3. hDone' = hDone
    BY <1>6, <2>1 DEF hDone
  <2>4. LevelsSound'
    BY <1>0, <1>6, <2>1, <2>3 DEF LevelsSound, IInv
  <2> QED
    BY <1>6, <2>2, <2>4 DEF IInv
<1>7. CASE LoopDone
  <2>1. pc \in {"first", "wider", "taller", "both"} /\ pc' \in {"wider", "taller", "both", "leaf"}
    BY <1>7 DEF LoopDone, Goto
  <2>2. UNCHANGED <<org, routing>> /\ UNCHANGED <<h, v, address, distribute, hWire, vWire>>
        /\ levelHorizontal' = levelHorizontal /\ levelVertical' = levelVertical /\ org' = org
    BY <1>7 DEF LoopDone, levelHorizontal, levelVertical, routing
  <2>0. Progress /\ LastLevel
    BY DEF IInv
  <2>3. Progress' /\ LastLevel'
    <3>1. CASE pc = "first" /\ h = 0 /\ pc' = "wider"
      BY <1>0, <2>0, <2>2, <3>1 DEF Progress, LastLevel, AtRoot, Current, AfterRouting
    <3>2. CASE pc = "wider" /\ h <= v /\ pc' = "taller"
      <4>1. Progress'
        BY <1>0, <2>0, <2>2, <3>2 DEF Progress, AfterRouting
      <4>2. LastLevel'
        BY <1>0, <2>0, <2>2, <3>2 DEF Progress, LastLevel, AtRoot, Current
      <4> QED BY <4>1, <4>2
    <3>3. CASE pc = "taller" /\ v <= h /\ pc' = "both"
      <4>1. Progress'
        BY <1>0, <2>0, <2>2, <3>3 DEF Progress, AfterRouting
      <4>2. LastLevel'
        BY <1>0, <2>0, <2>2, <3>3 DEF Progress, LastLevel, AtRoot, Current
      <4> QED BY <4>1, <4>2
    <3>4. CASE pc = "both" /\ h <= 0 /\ pc' = "leaf"
      BY <1>0, <2>0, <2>2, <3>4 DEF Progress, LastLevel, AtRoot, Current, AfterRouting
    <3> QED
      BY <1>7, <3>1, <3>2, <3>3, <3>4 DEF LoopDone, Goto
  <2> QED
    BY <1>6, <2>1, <2>2, <2>3 DEF Places, AfterRouting
<1>8. CASE GiveUp
  <2>1. /\ pc' = "unroutable" /\ UNCHANGED <<org, h, v, address, distribute, hWire, vWire>>
        /\ levelHorizontal' = levelHorizontal /\ levelVertical' = levelVertical /\ org' = org
    BY <1>8 DEF GiveUp, Goto, routing, levelHorizontal, levelVertical
  <2>2. TypeOK' /\ Progress' /\ LastLevel'
    BY <1>0, <2>1 DEF TypeOK, Progress, LastLevel, AtRoot, Current, Places, AfterRouting
  <2>3. hDone' \in Int /\ hDone \in Int /\ hDone' <= hDone
    BY <1>0, <2>1 DEF hDone
  <2>4. LevelsSound'
    <3>1. ASSUME NEW k \in 0..(levelHorizontal - 1)
          PROVE  /\ k < hDone => Sound(org, hWire[k])
                 /\ k >= hDone => hWire[k] = Unrouted \/ Sound(org, hWire[k])
      BY DEF IInv, LevelsSound
    <3>2. \A k \in 0..(levelHorizontal - 1) :
             /\ k < hDone' => Sound(org, hWire[k])
             /\ hWire[k] = Unrouted \/ Sound(org, hWire[k])
      BY <1>0, <2>3, <3>1
    <3> QED
      BY <2>1, <3>2 DEF LevelsSound, IInv
  <2> QED
    BY <2>2, <2>4 DEF IInv
<1>9. CASE AssignSubArray \/ Divide
  <2>1. pc \in {"leaf", "divide"} /\ pc' \in {"unroutable", "subarray"}
    BY <1>9 DEF AssignSubArray, Divide, Hand, Goto
  <2>2. UNCHANGED <<org, routing>> /\ UNCHANGED <<h, v>> /\ levelHorizontal' = levelHorizontal
    BY <1>9 DEF AssignSubArray, Divide, routing, levelHorizontal
  <2>3. Progress' /\ LastLevel'
    BY <2>1, <2>2 DEF IInv, Progress, LastLevel, AtRoot, Current, AfterRouting
  <2> QED
    BY <1>6, <2>1, <2>2, <2>3 DEF Places, AfterRouting
<1>10. CASE InitializeSubArray \/ Verify
  <2>1. pc \in {"subarray", "verify"} /\ pc' \in {"illegal", "verify", "valid", "exit"}
    BY <1>10 DEF InitializeSubArray, Verify, Goto
  <2>2. UNCHANGED <<org, routing>> /\ UNCHANGED <<h, v>>
    BY <1>10 DEF InitializeSubArray, Verify, routing
  <2>3. Progress' /\ LastLevel'
    BY <2>1, <2>2 DEF IInv, Progress, LastLevel, AtRoot, Current, AfterRouting
  <2> QED
    BY <1>6, <2>1, <2>2, <2>3 DEF Places, AfterRouting
<1>11. CASE UNCHANGED vars
  <2>1. /\ UNCHANGED <<org, pc, h, v, address, distribute, hWire, vWire>>
        /\ levelHorizontal' = levelHorizontal /\ levelVertical' = levelVertical
    BY <1>11 DEF vars, routing, levelHorizontal, levelVertical
  <2>2. hDone' = hDone
    BY <2>1 DEF hDone
  <2>3. TypeOK'
    BY <1>0, <2>1 DEF TypeOK
  <2>4. Progress'
    BY <2>1 DEF IInv, Progress
  <2>5. LastLevel'
    BY <2>1 DEF IInv, LastLevel, AtRoot, Current
  <2>6. LevelsSound'
    BY <2>1, <2>2 DEF IInv, LevelsSound
  <2> QED
    BY <2>3, <2>4, <2>5, <2>6 DEF IInv
<1> QED
  BY <1>1, <1>2, <1>3, <1>4, <1>5, <1>7, <1>8, <1>9, <1>10, <1>11 DEF Next, Returned

-----------------------------------------------------------------------------
(***************************************************************************)
(* What the loops have spent of the address and the data bits.             *)
(***************************************************************************)

Routing == {"first", "wider", "taller", "both", "below", "leaf"}

\* The decisions made so far between left and right, and between up and down.
\* The first horizontal level makes none: AssignSubArray makes the last one.
hUsed ==
    IF pc = "first" \/ levelHorizontal = 0 THEN 0
    ELSE IF pc = "below" THEN levelHorizontal - h ELSE levelHorizontal - h - 1
vUsed == levelVertical - v

Remaining(n, used) == IF used < n THEN n - used ELSE 0

Halved == (org.activePerRow - columnToActive) + (org.activePerColumn - rowToActive)

\* The first decisions keep both branches active and halve the data bits; each
\* of the others takes one address bit.
Spent ==
    /\ columnToActive = Remaining(org.activePerRow, hUsed)
    /\ rowToActive = Remaining(org.activePerColumn, vUsed)
    /\ address = numAddressBit(org) - (hUsed + vUsed - Halved)
    /\ distribute = numDataDistributeBit(org) \div 2 ^ Halved

Budget == pc \in Routing => org.input.h_tree /\ Spent

\* The numbers of a candidate, and what the search loops guarantee of them.
LEMMA LoopFacts ==
    ASSUME NEW o \in Candidates
    PROVE  /\ o.input \in Inputs /\ o.kind \in Kinds /\ o.mats \in Mats /\ o.mux \in Muxes
           /\ o.row \in Nat /\ o.column \in Nat /\ o.stack \in Nat /\ o.rowPerSet \in Nat
           /\ o.activePerRow \in Nat /\ o.activePerColumn \in Nat
           /\ o.activePerRow <= o.column /\ o.activePerColumn <= o.row
<1>1. o \in Organization /\ Looped(o)
  BY DEF Candidates
<1> QED
  BY <1>1, RoutingAssumption DEF Organization, Looped

\* Halving once more.
LEMMA HalveOnce ==
    ASSUME NEW x \in Int, NEW n \in Nat
    PROVE  (x \div 2 ^ n) \div 2 = x \div 2 ^ (n + 1)
<1>1. 2 ^ 1 = 2 /\ 1 \in Nat
  OBVIOUS
<1>2. (x \div 2 ^ n) \div 2 ^ 1 = x \div 2 ^ (n + 1)
  BY Zenon, <1>1, DivideInTurn
<1> QED
  BY Zenon, <1>1, <1>2

\* The counters of decisions are natural numbers.
LEMMA UsedTyped ==
    ASSUME IInv, pc \in Routing, org.input.h_tree
    PROVE  /\ hUsed \in Nat /\ vUsed \in Nat
           /\ hUsed <= org.column /\ vUsed <= org.row
           /\ org.row \in Nat /\ org.column \in Nat
           /\ org.activePerRow \in Nat /\ org.activePerColumn \in Nat
           /\ org.activePerRow <= org.column /\ org.activePerColumn <= org.row
           /\ numAddressBit(org) \in Int /\ numDataDistributeBit(org) \in Int
<1>1. org \in Candidates /\ h \in 0..org.column /\ v \in 0..org.row
  BY DEF IInv, TypeOK, levelHorizontal, levelVertical
<1>2. /\ org.row \in Nat /\ org.column \in Nat
      /\ org.activePerRow \in Nat /\ org.activePerColumn \in Nat
      /\ org.activePerRow <= org.column /\ org.activePerColumn <= org.row
      /\ numAddressBit(org) \in Int /\ numDataDistributeBit(org) \in Int
  BY <1>1, LoopFacts, CandidateFacts
<1>3. pc # "first" => h < org.column \/ org.column = 0
  BY <1>1, <1>2 DEF IInv, Progress, Routing, AfterRouting, levelHorizontal
<1>4. hUsed \in Nat /\ hUsed <= org.column
  BY <1>1, <1>2, <1>3 DEF hUsed, levelHorizontal
<1>5. vUsed \in Nat /\ vUsed <= org.row
  BY <1>1, <1>2 DEF vUsed, levelVertical
<1> QED
  BY <1>2, <1>4, <1>5

\* What is left to activate, and how often the data bits were halved, follow
\* from the decisions made.
LEMMA RemainingFacts ==
    ASSUME NEW n \in Nat, NEW used \in Nat
    PROVE  /\ Remaining(n, used) \in Nat /\ Remaining(n, used) <= n
           /\ Remaining(n, used) > 0 => Remaining(n, used + 1) = Remaining(n, used) - 1
           /\ ~(Remaining(n, used) > 0) => Remaining(n, used + 1) = Remaining(n, used)
BY DEF Remaining

\* A decision between left and right is charged to the data bits while more
\* columns are to be active, and to the address bits after that.
LEMMA HorizontalSpends ==
    ASSUME IInv, pc \in Routing, org.input.h_tree, Spent, NEW above, AddHorizontal(above),
           org' = org, hUsed' = hUsed + 1, vUsed' = vUsed
    PROVE  Spent'
<1> DEFINE A == numAddressBit(org)
           D == numDataDistributeBit(org)
<1>1. /\ hUsed \in Nat /\ vUsed \in Nat /\ A \in Int /\ D \in Int
      /\ org.activePerRow \in Nat /\ org.activePerColumn \in Nat
  BY UsedTyped
<1>2. /\ columnToActive = Remaining(org.activePerRow, hUsed)
      /\ rowToActive = Remaining(org.activePerColumn, vUsed)
      /\ address = A - (hUsed + vUsed - Halved)
      /\ distribute = D \div 2 ^ Halved
  BY DEF Spent
<1>3. /\ columnToActive \in Nat /\ columnToActive <= org.activePerRow
      /\ rowToActive \in Nat /\ rowToActive <= org.activePerColumn
      /\ columnToActive > 0 => Remaining(org.activePerRow, hUsed + 1) = columnToActive - 1
      /\ ~(columnToActive > 0) => Remaining(org.activePerRow, hUsed + 1) = columnToActive
  BY Zenon, <1>1, <1>2, RemainingFacts
<1>4. /\ rowToActive' = rowToActive
      /\ address' = IF columnToActive > 0 THEN address ELSE address - 1
      /\ distribute' = IF columnToActive > 0 THEN distribute \div 2 ELSE distribute
      /\ columnToActive' = IF columnToActive > 0 THEN columnToActive - 1 ELSE columnToActive
  BY DEF AddHorizontal, Level
<1>5. Halved \in Nat /\ Halved' = IF columnToActive > 0 THEN Halved + 1 ELSE Halved
  BY <1>1, <1>3, <1>4 DEF Halved
<1>6. columnToActive' = Remaining(org.activePerRow, hUsed + 1)
  BY <1>3, <1>4
<1> HIDE DEF A, D
<1>7. address' = A - (hUsed' + vUsed' - Halved')
  <2>1. CASE columnToActive > 0
    BY <1>1, <1>2, <1>4, <1>5, <2>1
  <2>2. CASE ~(columnToActive > 0)
    BY <1>1, <1>2, <1>4, <1>5, <2>2
  <2> QED
    BY <2>1, <2>2
<1>8. distribute' = D \div 2 ^ (Halved')
  <2>1. CASE columnToActive > 0
    BY Zenon, <1>1, <1>2, <1>4, <1>5, <2>1, HalveOnce
  <2>2. CASE ~(columnToActive > 0)
    BY Zenon, <1>2, <1>4, <1>5, <2>2
  <2> QED
    BY <2>1, <2>2
<1> QED
  BY <1>2, <1>4, <1>6, <1>7, <1>8 DEF Spent, A, D

\* The same for a decision between up and down.
LEMMA VerticalSpends ==
    ASSUME IInv, pc \in Routing, org.input.h_tree, Spent, NEW above, AddVertical(above),
           org' = org, hUsed' = hUsed, vUsed' = vUsed + 1
    PROVE  Spent'
<1> DEFINE A == numAddressBit(org)
           D == numDataDistributeBit(org)
<1>1. /\ hUsed \in Nat /\ vUsed \in Nat /\ A \in Int /\ D \in Int
      /\ org.activePerRow \in Nat /\ org.activePerColumn \in Nat
  BY UsedTyped
<1>2. /\ columnToActive = Remaining(org.activePerRow, hUsed)
      /\ rowToActive = Remaining(org.activePerColumn, vUsed)
      /\ address = A - (hUsed + vUsed - Halved)
      /\ distribute = D \div 2 ^ Halved
  BY DEF Spent
<1>3. /\ columnToActive \in Nat /\ columnToActive <= org.activePerRow
      /\ rowToActive \in Nat /\ rowToActive <= org.activePerColumn
      /\ rowToActive > 0 => Remaining(org.activePerColumn, vUsed + 1) = rowToActive - 1
      /\ ~(rowToActive > 0) => Remaining(org.activePerColumn, vUsed + 1) = rowToActive
  BY Zenon, <1>1, <1>2, RemainingFacts
<1>4. /\ columnToActive' = columnToActive
      /\ address' = IF rowToActive > 0 THEN address ELSE address - 1
      /\ distribute' = IF rowToActive > 0 THEN distribute \div 2 ELSE distribute
      /\ rowToActive' = IF rowToActive > 0 THEN rowToActive - 1 ELSE rowToActive
  BY DEF AddVertical, Level
<1>5. Halved \in Nat /\ Halved' = IF rowToActive > 0 THEN Halved + 1 ELSE Halved
  BY <1>1, <1>3, <1>4 DEF Halved
<1>6. rowToActive' = Remaining(org.activePerColumn, vUsed + 1)
  BY <1>3, <1>4
<1> HIDE DEF A, D
<1>7. address' = A - (hUsed' + vUsed' - Halved')
  <2>1. CASE rowToActive > 0
    BY <1>1, <1>2, <1>4, <1>5, <2>1
  <2>2. CASE ~(rowToActive > 0)
    BY <1>1, <1>2, <1>4, <1>5, <2>2
  <2> QED
    BY <2>1, <2>2
<1>8. distribute' = D \div 2 ^ (Halved')
  <2>1. CASE rowToActive > 0
    BY Zenon, <1>1, <1>2, <1>4, <1>5, <2>1, HalveOnce
  <2>2. CASE ~(rowToActive > 0)
    BY Zenon, <1>2, <1>4, <1>5, <2>2
  <2> QED
    BY <2>1, <2>2
<1> QED
  BY <1>2, <1>4, <1>6, <1>7, <1>8 DEF Spent, A, D

\* Nothing is spent when Initialize enters the loops.
LEMMA BudgetInit == Init => Budget
<1> SUFFICES ASSUME Init, pc \in Routing PROVE org.input.h_tree /\ Spent
  BY DEF Budget
<1>1. pc = "first" /\ org.input.h_tree /\ org \in Candidates
  BY DEF Init, Routing
<1>2. /\ h = levelHorizontal /\ v = levelVertical
      /\ columnToActive = org.activePerRow /\ rowToActive = org.activePerColumn /\ AtRoot
  BY DEF Init, AtRoot
<1>3. /\ org.activePerRow \in Nat /\ org.activePerColumn \in Nat /\ levelVertical \in Nat
      /\ numAddressBit(org) \in Int /\ numDataDistributeBit(org) \in Int
  BY <1>1, LoopFacts, CandidateFacts DEF levelVertical
<1>4. hUsed = 0 /\ vUsed = 0 /\ Halved = 0
  BY <1>1, <1>2, <1>3 DEF hUsed, vUsed, Halved
<1>5. distribute = numDataDistributeBit(org) \div 2 ^ Halved
  <2>1. \A x \in Int : x \div 1 = x
    OBVIOUS
  <2>2. 2 ^ Halved = 1
    BY <1>4
  <2> QED
    BY Zenon, <1>2, <1>3, <2>1, <2>2 DEF AtRoot
<1>6. /\ columnToActive = Remaining(org.activePerRow, hUsed)
      /\ rowToActive = Remaining(org.activePerColumn, vUsed)
      /\ address = numAddressBit(org) - (hUsed + vUsed - Halved)
  BY <1>2, <1>3, <1>4 DEF Remaining, AtRoot
<1> QED
  BY <1>1, <1>5, <1>6 DEF Spent

\* Every routing step keeps the accounts.
LEMMA BudgetKeeps == IInv /\ Budget /\ [Next]_vars => Budget'
<1> SUFFICES ASSUME IInv, Budget, [Next]_vars, pc' \in Routing
             PROVE  org'.input.h_tree /\ Spent'
  BY DEF Budget
<1>0. org \in Candidates /\ h \in 0..org.column /\ v \in 0..org.row /\ org.row \in Nat /\ org.column \in Nat
  BY CandidateFacts DEF IInv, TypeOK, levelHorizontal, levelVertical
<1>1. CASE RouteFirst
  <2>1. /\ pc = "first" /\ pc' = "wider" /\ h > 0 /\ h' = h - 1 /\ h = org.column
        /\ UNCHANGED <<org, v, columnToActive, rowToActive, address, distribute>>
    BY <1>1 DEF RouteFirst, Goto, IInv, Progress, levelHorizontal
  <2>2. hUsed' = hUsed /\ vUsed' = vUsed /\ Halved' = Halved
    BY <1>0, <2>1 DEF hUsed, vUsed, Halved, levelHorizontal, levelVertical
  <2>3. org.input.h_tree /\ Spent
    BY <2>1 DEF Budget, Routing
  <2> QED
    BY <2>1, <2>2, <2>3 DEF Spent
<1>2. CASE RouteHorizontal
  <2>1. /\ pc = "wider" /\ pc' = pc /\ h > v /\ h' = h - 1 /\ UNCHANGED <<org, v>>
        /\ h < org.column \/ org.column = 0
        /\ AddHorizontal(hWire[levelHorizontal - h - 1])
    BY <1>2 DEF RouteHorizontal, IInv, Progress, levelHorizontal
  <2>2. hUsed' = hUsed + 1 /\ vUsed' = vUsed
    BY <1>0, <2>1 DEF hUsed, vUsed, levelHorizontal, levelVertical
  <2>3. pc \in Routing /\ org.input.h_tree /\ Spent
    BY <2>1 DEF Budget, Routing
  <2> QED
    BY <2>1, <2>2, <2>3, HorizontalSpends
<1>3. CASE RouteVertical
  <2>1. /\ pc = "taller" /\ pc' = pc /\ v' = v - 1 /\ UNCHANGED <<org, h>>
        /\ AddVertical(IF v = levelVertical THEN Root ELSE vWire[levelVertical - v - 1])
    BY <1>3 DEF RouteVertical
  <2>2. hUsed' = hUsed /\ vUsed' = vUsed + 1
    BY <1>0, <2>1 DEF hUsed, vUsed, levelHorizontal, levelVertical
  <2>3. pc \in Routing /\ org.input.h_tree /\ Spent
    BY <2>1 DEF Budget, Routing
  <2> QED
    BY <2>1, <2>2, <2>3, VerticalSpends
<1>4. CASE RouteBothHorizontal
  <2>1. /\ pc = "both" /\ pc' = "below" /\ h > 0 /\ UNCHANGED <<org, h, v>>
        /\ AddHorizontal(IF v = levelVertical THEN hWire[levelHorizontal - h - 1]
                                              ELSE vWire[levelVertical - v - 1])
    BY <1>4 DEF RouteBothHorizontal, Goto
  <2>2. hUsed' = hUsed + 1 /\ vUsed' = vUsed
    BY <1>0, <2>1 DEF hUsed, vUsed, levelHorizontal, levelVertical
  <2>3. pc \in Routing /\ org.input.h_tree /\ Spent
    BY <2>1 DEF Budget, Routing
  <2> QED
    BY <2>1, <2>2, <2>3, HorizontalSpends
<1>5. CASE RouteBothVertical
  <2>1. /\ pc = "below" /\ pc' = "both" /\ h' = h - 1 /\ v' = v - 1 /\ org' = org
        /\ AddVertical(hWire[levelHorizontal - h])
    BY <1>5 DEF RouteBothVertical, Goto
  <2>2. hUsed' = hUsed /\ vUsed' = vUsed + 1
    BY <1>0, <2>1 DEF hUsed, vUsed, levelHorizontal, levelVertical
  <2>3. pc \in Routing /\ org.input.h_tree /\ Spent
    BY <2>1 DEF Budget, Routing
  <2> QED
    BY <2>1, <2>2, <2>3, VerticalSpends
<1>6. ASSUME pc \in Routing, UNCHANGED <<org, routing>>, hUsed' = hUsed
      PROVE  org'.input.h_tree /\ Spent'
  <2>1. org.input.h_tree /\ Spent
    BY <1>6 DEF Budget
  <2>2. UNCHANGED <<org, v, columnToActive, rowToActive, address, distribute>>
    BY <1>6 DEF routing
  <2>3. vUsed' = vUsed /\ Halved' = Halved
    BY <2>2 DEF vUsed, Halved, levelVertical
  <2> QED
    BY <1>6, <2>1, <2>2, <2>3 DEF Spent
<1>7. CASE LoopDone
  <2>1. /\ pc \in {"first", "wider", "taller", "both"} /\ pc' \in {"wider", "taller", "both", "leaf"}
        /\ pc = "first" => h = 0
        /\ UNCHANGED <<org, routing, h>>
    BY <1>7 DEF LoopDone, Goto, routing
  <2>2. pc = "first" => org.column = 0
    BY <2>1 DEF IInv, Progress, levelHorizontal
  <2>3. hUsed' = hUsed
    BY <1>0, <2>1, <2>2 DEF hUsed, levelHorizontal
  <2>4. pc \in Routing
    BY <2>1 DEF Routing
  <2> QED
    BY <1>6, <2>1, <2>3, <2>4
<1>8. CASE UNCHANGED vars
  <2>1. UNCHANGED <<org, routing, pc, h>>
    BY <1>8 DEF vars, routing
  <2>2. hUsed' = hUsed
    BY <2>1 DEF hUsed, levelHorizontal
  <2> QED
    BY <1>6, <2>1, <2>2
<1>9. CASE AssignSubArray \/ GiveUp \/ Divide \/ InitializeSubArray \/ Verify
  <2>1. pc' \in {"unroutable", "subarray", "illegal", "verify", "valid", "exit"}
    BY <1>9 DEF AssignSubArray, GiveUp, Divide, InitializeSubArray, Verify, Hand, Goto
  <2> QED
    BY <2>1 DEF Routing
<1> QED
  BY <1>1, <1>2, <1>3, <1>4, <1>5, <1>7, <1>8, <1>9 DEF Next, Returned

-----------------------------------------------------------------------------
(***************************************************************************)
(* What is handed over, and what it adds up to.                            *)
(***************************************************************************)

\* The sizes a candidate is made of: one access has at least one bit, and a
\* tag entry at least its dirty and valid bits.
LEMMA SizeFacts ==
    ASSUME NEW o \in Candidates
    PROVE  /\ Associativity(o) \in Nat /\ Blocks(o) \in Nat
           /\ o.mats \in MatsType /\ o.mux \in MuxType
           /\ o.mats.activeMatPerRow <= o.mats.columnMat
           /\ o.mats.activeMatPerColumn <= o.mats.rowMat
           /\ TagWidth(o.input) \in Nat \ {0}
           /\ o.input.offset \in Nat /\ o.input.assoc \in Nat
<1>1. o \in Organization /\ Looped(o)
  BY DEF Candidates
<1>2. o.input \in Inputs /\ o.mats \in MatsType /\ o.mux \in MuxType
  BY <1>1, RoutingAssumption DEF Organization
<1>3. /\ o.input.blocks \in Nat /\ o.input.assoc \in Nat /\ o.input.offset \in Nat
      /\ o.input.assoc <= o.input.blocks
      /\ o.input.blocks - o.input.assoc + o.input.offset <= TOTAL_ADDRESS_BIT
      /\ TOTAL_ADDRESS_BIT \in Nat
  BY <1>2, RoutingAssumption DEF InputType
<1>4. Associativity(o) \in Nat /\ Blocks(o) \in Nat
  BY <1>3 DEF Associativity, Blocks
<1>5. TagWidth(o.input) \in Nat \ {0}
  BY <1>3 DEF TagWidth, IntLog2
<1> QED
  BY <1>1, <1>2, <1>3, <1>4, <1>5 DEF Looped

\* The data word of an access is a power of two of bits.
LEMMA WordIsPower ==
    ASSUME NEW o \in Candidates, o.kind = "data"
    PROVE  \E e \in Nat : BlockSize(o) = 2 ^ e
<1>1. o.input.offset \in Nat /\ o.input.assoc \in Nat
  BY SizeFacts
<1>2. o.input.offset + 3 \in Nat /\ WordWidth(o.input) = 2 ^ (o.input.offset + 3)
  BY <1>1 DEF WordWidth
<1>3. CASE o.input.mode = "fast"
  <2> DEFINE a == o.input.offset + 3
             b == o.input.assoc
  <2>1. a \in Nat /\ b \in Nat /\ BlockSize(o) = 2 ^ a * 2 ^ b
    BY <1>1, <1>2, <1>3 DEF BlockSize
  <2> HIDE DEF a, b
  <2>2. BlockSize(o) = 2 ^ (a + b) /\ a + b \in Nat
    BY <2>1, PowerOfSum
  <2> QED
    BY Zenon, <2>2
<1>4. CASE o.input.mode # "fast"
  <2>1. BlockSize(o) = WordWidth(o.input)
    BY <1>4 DEF BlockSize
  <2> QED
    BY Zenon, <1>2, <2>1
<1> QED
  BY <1>3, <1>4

\* The bits of a tag entry are shared evenly by the mats that hold them.
LEMMA TagIsShared ==
    ASSUME NEW o \in Candidates, o.kind = "tag"
    PROVE  \E c \in Nat \ {0} : BlockSize(o) = c * 2 ^ Shares(o)
<1>1. Shares(o) \in Nat
  BY LoopFacts, SizeFacts DEF Shares, MatsType
<1>2. TagWidth(o.input) \in Nat \ {0} /\ 2 ^ Shares(o) \in Nat \ {0}
  BY <1>1, SizeFacts, PowerOfTwo
<1>3. BlockSize(o) = RoundUp(TagWidth(o.input), 2 ^ Shares(o))
  BY DEF BlockSize
<1> QED
  BY Zenon, <1>2, <1>3, RoundUpIsMultiple

\* What a bank without H-tree hands over, when its sense amplifiers are in the
\* mats.
LEMMA DividedFacts ==
    ASSUME NEW o \in Candidates, ~ExternalSensingRejected(o)
    PROVE  Divided(o) = HandedOver(o, numAddressBit(o) - (o.row + o.column - o.activePerColumn - o.activePerRow),
                                   numDataDistributeBit(o) \div 2 ^ (o.activePerColumn + o.activePerRow))
<1>1. /\ o.activePerRow \in Nat /\ o.activePerColumn \in Nat /\ numDataDistributeBit(o) \in Int
  BY LoopFacts, CandidateFacts
<1>2. (numDataDistributeBit(o) \div 2 ^ o.activePerColumn) \div 2 ^ o.activePerRow
        = numDataDistributeBit(o) \div 2 ^ (o.activePerColumn + o.activePerRow)
  BY Zenon, <1>1, DivideInTurn
<1> QED
  BY Zenon, <1>2 DEF Divided

\* The H-tree hands over what the other bank would.
LEMMA LeafAgrees ==
    ASSUME IInv, Budget, AssignSubArray
    PROVE  sub' = Divided(org) /\ pc' = (IF Divided(org).rejected THEN "unroutable" ELSE "subarray")
<1> DEFINE A == numAddressBit(org)
           D == numDataDistributeBit(org)
           bits == IF ~(columnToActive > 0) /\ levelHorizontal > 0 THEN address - 1 ELSE address
           data == IF columnToActive > 0 THEN distribute \div 2 ELSE distribute
           gating == org.row + org.column - org.activePerColumn - org.activePerRow
<1>1. /\ pc = "leaf" /\ sub' = HandedOver(org, bits, data)
      /\ pc' = (IF HandedOver(org, bits, data).rejected THEN "unroutable" ELSE "subarray")
  BY DEF AssignSubArray, Hand, Goto
<1>2. pc \in Routing /\ org.input.h_tree /\ Spent /\ org \in Candidates
  BY <1>1 DEF Budget, Routing, IInv, TypeOK
<1>3. /\ org.row \in Nat /\ org.column \in Nat
      /\ org.activePerRow \in Nat /\ org.activePerColumn \in Nat
      /\ org.activePerRow <= org.column /\ org.activePerColumn <= org.row
      /\ A \in Int /\ D \in Int
  BY <1>2, UsedTyped
<1>4. h = 0 /\ v = 0
  BY <1>1, <1>2 DEF IInv, Progress, AfterRouting
<1>5. vUsed = org.row /\ hUsed = IF org.column = 0 THEN 0 ELSE org.column - 1
  BY <1>1, <1>3, <1>4 DEF hUsed, vUsed, levelHorizontal, levelVertical
<1>6. /\ columnToActive = Remaining(org.activePerRow, hUsed) /\ rowToActive = 0
      /\ address = A - (hUsed + vUsed - Halved) /\ distribute = D \div 2 ^ Halved
  BY <1>2, <1>3, <1>5 DEF Spent, Remaining
<1>7. columnToActive = IF org.column > 0 /\ org.activePerRow = org.column THEN 1 ELSE 0
  BY <1>3, <1>5, <1>6 DEF Remaining
<1>8. Halved = (org.activePerRow - columnToActive) + org.activePerColumn
  BY <1>3, <1>6, <1>7 DEF Halved
<1>9. bits = A - gating
  <2> HIDE DEF A, D
  <2>1. CASE org.column > 0 /\ org.activePerRow = org.column
    BY <1>3, <1>5, <1>6, <1>7, <1>8, <2>1
  <2>2. CASE org.column > 0 /\ org.activePerRow # org.column
    BY <1>3, <1>5, <1>6, <1>7, <1>8, <2>2 DEF levelHorizontal
  <2>3. CASE org.column = 0
    BY <1>3, <1>5, <1>6, <1>7, <1>8, <2>3 DEF levelHorizontal
  <2> QED
    BY <1>3, <2>1, <2>2, <2>3
<1>10. data = D \div 2 ^ (org.activePerColumn + org.activePerRow)
  <2> HIDE DEF D
  <2>1. CASE columnToActive = 1
    <3>1. Halved \in Nat /\ Halved + 1 = org.activePerColumn + org.activePerRow
      BY <1>3, <1>7, <1>8, <2>1
    <3>2. data = (D \div 2 ^ Halved) \div 2
      BY <1>6, <2>1
    <3>3. (D \div 2 ^ Halved) \div 2 = D \div 2 ^ (Halved + 1)
      BY Zenon, <1>3, <3>1, HalveOnce
    <3> QED
      BY Zenon, <3>1, <3>2, <3>3
  <2>2. CASE columnToActive = 0
    <3>1. Halved = org.activePerColumn + org.activePerRow
      BY <1>3, <1>8, <2>2
    <3>2. data = D \div 2 ^ Halved
      BY <1>6, <2>2
    <3> QED
      BY Zenon, <3>1, <3>2
  <2> QED
    BY <1>7, <2>1, <2>2
<1>11. ~ExternalSensingRejected(org)
  BY <1>2, LoopFacts, RoutingAssumption DEF ExternalSensingRejected
<1> HIDE DEF bits, data, gating, A, D
<1>12. Divided(org) = HandedOver(org, A - gating, D \div 2 ^ (org.activePerColumn + org.activePerRow))
  BY Zenon, <1>2, <1>11, DividedFacts DEF A, D, gating
<1> QED
  BY Zenon, <1>1, <1>9, <1>10, <1>12

\* A decision still to be made spends no less: what the other bank ends with is
\* no more than what is left to route.
LEMMA BudgetBounds ==
    ASSUME IInv, Budget, pc \in Routing
    PROVE  /\ numAddressBit(org) - (org.row + org.column - org.activePerColumn - org.activePerRow) <= address
           /\ distribute = numDataDistributeBit(org) \div 2 ^ Halved
           /\ Halved \in Nat /\ Halved <= org.activePerColumn + org.activePerRow
<1>1. org.input.h_tree /\ Spent
  BY DEF Budget
<1>2. /\ hUsed \in Nat /\ vUsed \in Nat /\ hUsed <= org.column /\ vUsed <= org.row
      /\ org.row \in Nat /\ org.column \in Nat
      /\ org.activePerRow \in Nat /\ org.activePerColumn \in Nat
      /\ org.activePerRow <= org.column /\ org.activePerColumn <= org.row
      /\ numAddressBit(org) \in Int
  BY <1>1, UsedTyped
<1> DEFINE A == numAddressBit(org)
<1>3. /\ columnToActive = Remaining(org.activePerRow, hUsed)
      /\ rowToActive = Remaining(org.activePerColumn, vUsed)
      /\ address = A - (hUsed + vUsed - Halved)
  BY <1>1 DEF Spent
<1>4. /\ columnToActive \in Nat /\ columnToActive <= org.activePerRow
      /\ hUsed - (org.activePerRow - columnToActive) <= org.column - org.activePerRow
  BY <1>2, <1>3 DEF Remaining
<1>5. /\ rowToActive \in Nat /\ rowToActive <= org.activePerColumn
      /\ vUsed - (org.activePerColumn - rowToActive) <= org.row - org.activePerColumn
  BY <1>2, <1>3 DEF Remaining
<1>6. Halved \in Nat /\ Halved <= org.activePerColumn + org.activePerRow
  BY <1>2, <1>4, <1>5 DEF Halved
<1>7. hUsed + vUsed - Halved <= org.row + org.column - org.activePerColumn - org.activePerRow
  BY <1>2, <1>4, <1>5 DEF Halved
<1>8. A - (org.row + org.column - org.activePerColumn - org.activePerRow) <= address
  <2> HIDE DEF A
  <2> QED
    BY <1>2, <1>3, <1>6, <1>7 DEF A
<1> QED
  BY <1>1, <1>6, <1>8 DEF Spent

\* What is handed over, when it is not rejected, is what was routed.
LEMMA HandedFacts ==
    ASSUME NEW o, o.kind \in Kinds, NEW bits, NEW data, NEW s,
           s = HandedOver(o, bits, data), ~s.rejected
    PROVE  /\ s.numAddressBit = bits
           /\ o.kind = "data" => /\ s.numDataBit = data /\ s.numWay = 2 ^ Associativity(o)
                                 /\ ~(o.rowPerSet > Associativity(o))
                                 /\ s.mux = WaysMuxed(o, Associativity(o) - o.rowPerSet)
           /\ o.kind = "tag" => /\ s.numDataBit = BlockSize(o) /\ s.numWay = data /\ data # 0
                                /\ s.mux = o.mux
<1>1. CASE o.kind = "data"
  BY <1>1 DEF HandedOver, Rejected, Assigned
<1>2. CASE o.kind = "tag"
  BY <1>2 DEF HandedOver, Rejected, Assigned
<1> QED
  BY <1>1, <1>2 DEF Kinds

\* An H-tree that runs out of address or data bits belongs to a candidate the
\* other bank rejects, or whose mats would be too small.
LEMMA GivesUpRightly ==
    ASSUME IInv, Budget, pc \in Routing, NothingToRoute
    PROVE  Divided(org).rejected \/ TooSmall(org, Divided(org))
<1> DEFINE A == numAddressBit(org)
           D == numDataDistributeBit(org)
           gating == org.row + org.column - org.activePerColumn - org.activePerRow
           n == org.activePerColumn + org.activePerRow
           s == Divided(org)
<1>1. org \in Candidates /\ org.input.h_tree
  BY DEF IInv, TypeOK, Budget
<1>2. /\ org.kind \in Kinds /\ org.input \in Inputs
      /\ org.row \in Nat /\ org.column \in Nat
      /\ org.activePerRow \in Nat /\ org.activePerColumn \in Nat
      /\ A \in Int /\ D \in Int
  BY <1>1, LoopFacts, CandidateFacts
<1>3. A - gating <= address /\ distribute = D \div 2 ^ Halved /\ Halved \in Nat /\ Halved <= n
  BY BudgetBounds
<1>4. ~ExternalSensingRejected(org)
  BY <1>1, <1>2, RoutingAssumption DEF ExternalSensingRejected
<1>5. s = HandedOver(org, A - gating, D \div 2 ^ n)
  BY Zenon, <1>1, <1>4, DividedFacts
<1> HIDE DEF s
<1> SUFFICES ASSUME ~s.rejected PROVE TooSmall(org, s)
  BY DEF s
<1>6. /\ s.numAddressBit = A - gating
      /\ org.kind = "data" => s.numDataBit = D \div 2 ^ n
  <2> DEFINE bits == A - gating
             data == D \div 2 ^ n
  <2>1. s = HandedOver(org, bits, data) /\ ~s.rejected
    BY <1>5
  <2> HIDE DEF bits, data
  <2>2. s.numAddressBit = bits /\ (org.kind = "data" => s.numDataBit = data)
    <3>1. org.kind \in Kinds
      BY <1>2
    <3> HIDE DEF A, D, gating, n
    <3> QED
      BY <2>1, <3>1, HandedFacts
  <2> QED
    BY <2>2 DEF bits, data
<1>7. /\ org.mats \in MatsType
      /\ org.mats.activeMatPerRow <= org.mats.columnMat
      /\ org.mats.activeMatPerColumn <= org.mats.rowMat
      /\ Associativity(org) \in Nat
  BY <1>1, SizeFacts
<1>8. CASE address = 0
  <2>1. A - gating \in Int /\ A - gating <= 0
    BY <1>2, <1>3, <1>8
  <2> HIDE DEF A, gating
  <2>2. EffectiveAddressBit(org, s) <= 0
    BY <1>6, <1>7, <2>1 DEF EffectiveAddressBit, MatsType
  <2> QED
    BY <2>2 DEF TooSmall
<1>9. CASE distribute + numDataBroadcastBit(org) = 0
  <2> HIDE DEF A, D, gating, n
  <2>1. 2 ^ Halved \in Nat \ {0}
    BY <1>3, PowerOfTwo
  <2>2. CASE org.kind = "data"
    <3>1. PICK e \in Nat : BlockSize(org) = 2 ^ e
      BY <1>1, <2>2, WordIsPower
    <3>2. D \in Nat
      BY <2>2, <3>1, PowerOfTwo DEF D, numDataDistributeBit
    <3>3. distribute \in Nat
      BY <1>3, <2>1, <3>2
    <3>4. distribute = 0
      BY <1>7, <1>9, <2>2, <3>3 DEF numDataBroadcastBit
    <3>5. PICK k \in Nat : n = Halved + k
      <4>1. n - Halved \in Nat /\ n = Halved + (n - Halved)
        BY <1>2, <1>3 DEF n
      <4> QED
        BY <4>1
    <3>6. D \div 2 ^ n = 0
      <4>1. D \div 2 ^ n = (D \div 2 ^ Halved) \div 2 ^ k
        BY Zenon, <1>2, <1>3, <3>5, DivideInTurn
      <4>2. 2 ^ k \in Nat \ {0}
        BY PowerOfTwo
      <4>3. \A x \in Nat \ {0} : 0 \div x = 0
        OBVIOUS
      <4> QED
        BY Zenon, <1>3, <3>4, <4>1, <4>2, <4>3
    <3>7. ColumnsOfWord(org, s) = 0
      <4>1. org.mats.activeMatPerRow + org.mats.activeMatPerColumn \in Nat
        BY <1>7 DEF MatsType
      <4>2. 2 ^ (org.mats.activeMatPerRow + org.mats.activeMatPerColumn) \in Nat \ {0}
        BY Zenon, <4>1, PowerOfTwo
      <4>3. \A x \in Nat \ {0} : 0 \div x = 0
        OBVIOUS
      <4> QED
        BY Zenon, <1>6, <2>2, <3>6, <4>2, <4>3 DEF ColumnsOfWord
    <3> QED
      BY Zenon, <3>7 DEF TooSmall
  <2>3. CASE org.kind = "tag"
    <3>1. D \in Nat
      BY <1>7, <2>3, PowerOfTwo DEF D, numDataDistributeBit
    <3>2. distribute \in Nat
      BY <1>3, <2>1, <3>1
    <3>3. BlockSize(org) \in Nat \ {0}
      <4>1. PICK c \in Nat \ {0} : BlockSize(org) = c * 2 ^ Shares(org)
        BY <1>1, <2>3, TagIsShared
      <4>2. Shares(org) \in Nat
        BY <1>1, <1>2, <1>7 DEF Shares, MatsType
      <4>3. 2 ^ Shares(org) \in Nat \ {0}
        BY <4>2, PowerOfTwo
      <4> QED
        BY <4>1, <4>3
    <3>4. numDataBroadcastBit(org) = BlockSize(org)
      BY <2>3 DEF numDataBroadcastBit
    <3> QED
      BY <1>9, <3>2, <3>3, <3>4
  <2> QED
    BY <1>2, <2>2, <2>3 DEF Kinds
<1> QED
  BY <1>8, <1>9 DEF NothingToRoute

\* A multiple of a power of two, times another power.
LEMMA TimesPower ==
    ASSUME NEW c \in Int, NEW a \in Nat, NEW b \in Nat
    PROVE  (c * 2 ^ a) * 2 ^ b = c * 2 ^ (a + b)
<1> DEFINE x == 2 ^ a
           y == 2 ^ b
<1>1. x \in Int /\ y \in Int /\ 2 ^ (a + b) = x * y
  BY PowerOfTwo, PowerOfSum
<1> HIDE DEF x, y
<1>2. \A i, j, k \in Int : (i * j) * k = i * (j * k)
  OBVIOUS
<1>3. (c * x) * y = c * (x * y)
  BY Zenon, <1>1, <1>2
<1> QED
  BY Zenon, <1>1, <1>3 DEF x, y

\* The extra mux levels for the ways in a row are added to the chosen ones.
LEMMA MuxFacts ==
    ASSUME NEW o \in Candidates, NEW x \in Nat, NEW s, s.mux \in {o.mux, WaysMuxed(o, x)}
    PROVE  MuxDegree(s) \in Nat
<1>1. o.mux.senseAmp \in Nat /\ o.mux.lev1 \in Nat /\ o.mux.lev2 \in Nat /\ o.mux \in MuxType
  BY SizeFacts DEF MuxType
<1>2. CASE s.mux = o.mux
  BY <1>1, <1>2 DEF MuxDegree
<1>3. CASE s.mux = WaysMuxed(o, x) /\ o.input.dram
  <2> DEFINE l == x \div 2
  <2>1. l \in Nat /\ x - l \in Nat
    OBVIOUS
  <2>2. s.mux = [o.mux EXCEPT !.lev1 = @ + x - l, !.lev2 = @ + l]
    BY <1>3 DEF WaysMuxed
  <2> HIDE DEF l
  <2>3. /\ s.mux.senseAmp = o.mux.senseAmp
        /\ s.mux.lev1 = o.mux.lev1 + x - l /\ s.mux.lev2 = o.mux.lev2 + l
    BY <1>1, <2>2 DEF MuxType
  <2> QED
    BY <1>1, <2>1, <2>3 DEF MuxDegree
<1>4. CASE s.mux = WaysMuxed(o, x) /\ ~o.input.dram
  <2> DEFINE l == x \div 3
  <2>1. l \in Nat /\ x - 2 * l \in Nat
    OBVIOUS
  <2>2. s.mux = [senseAmp |-> o.mux.senseAmp + x - 2 * l, lev1 |-> o.mux.lev1 + l, lev2 |-> o.mux.lev2 + l]
    BY <1>4 DEF WaysMuxed
  <2> HIDE DEF l
  <2>3. /\ s.mux.senseAmp = o.mux.senseAmp + x - 2 * l
        /\ s.mux.lev1 = o.mux.lev1 + l /\ s.mux.lev2 = o.mux.lev2 + l
    BY <2>2
  <2> QED
    BY <1>1, <2>1, <2>3 DEF MuxDegree
<1> QED
  BY <1>2, <1>3, <1>4

\* The exponents of an accepted candidate: what the mats hold of the address
\* and what all levels above them select adds up to the blocks of the array.
LEMMA AcceptedFacts ==
    ASSUME NEW o \in Candidates, NEW s, s = Divided(o), ~s.rejected,
           ~TooSmall(o, s), ~NoRowAddress(o, s)
    PROVE  LET n == o.activePerColumn + o.activePerRow
               b == o.mats.activeMatPerRow + o.mats.activeMatPerColumn
           IN  /\ n \in Nat /\ b \in Nat /\ Shares(o) = n + b
               /\ MuxDegree(s) \in Nat /\ EffectiveAddressBit(o, s) \in Nat
               /\ MuxDegree(s) <= EffectiveAddressBit(o, s)
               /\ o.row + o.column + o.mats.rowMat + o.mats.columnMat + o.stack \in Nat
               /\ o.row + o.column + o.mats.rowMat + o.mats.columnMat + o.stack + EffectiveAddressBit(o, s)
                     = Blocks(o) - Associativity(o) + n + b
               /\ o.kind = "data" => /\ s.numDataBit = BlockSize(o) \div 2 ^ n
                                     /\ s.numWay = 2 ^ Associativity(o)
               /\ o.kind = "tag" => /\ s.numDataBit = BlockSize(o)
                                    /\ s.numWay = 2 ^ Associativity(o) \div 2 ^ n /\ s.numWay # 0
<1> DEFINE n == o.activePerColumn + o.activePerRow
           b == o.mats.activeMatPerRow + o.mats.activeMatPerColumn
           gating == o.row + o.column - o.activePerColumn - o.activePerRow
           bits == numAddressBit(o) - gating
           data == numDataDistributeBit(o) \div 2 ^ n
<1>1. /\ o.kind \in Kinds /\ o.row \in Nat /\ o.column \in Nat /\ o.stack \in Nat /\ o.rowPerSet \in Nat
      /\ o.activePerRow \in Nat /\ o.activePerColumn \in Nat
  BY LoopFacts
<1>2. /\ Associativity(o) \in Nat /\ Blocks(o) \in Nat
      /\ o.mats.rowMat \in Nat /\ o.mats.columnMat \in Nat
      /\ o.mats.activeMatPerRow \in Nat /\ o.mats.activeMatPerColumn \in Nat
  BY SizeFacts DEF MatsType
<1>3. n \in Nat /\ b \in Nat /\ Shares(o) = n + b
  BY <1>1, <1>2 DEF Shares
<1>4. ~ExternalSensingRejected(o)
  BY DEF Divided, Rejected
<1>5. s = HandedOver(o, bits, data)
  BY Zenon, <1>4, DividedFacts
<1> HIDE DEF n, b, bits, data
<1>6. /\ s.numAddressBit = bits
      /\ o.kind = "data" => /\ s.numDataBit = data /\ s.numWay = 2 ^ Associativity(o)
                            /\ ~(o.rowPerSet > Associativity(o))
                            /\ s.mux = WaysMuxed(o, Associativity(o) - o.rowPerSet)
      /\ o.kind = "tag" => /\ s.numDataBit = BlockSize(o) /\ s.numWay = data /\ data # 0
                           /\ s.mux = o.mux
  <2>1. o.kind \in Kinds
    BY <1>1
  <2> QED
    BY <1>5, <2>1, HandedFacts
<1>7. MuxDegree(s) \in Nat
  <2>1. CASE o.kind = "data"
    <3> DEFINE x == Associativity(o) - o.rowPerSet
    <3>1. x \in Nat /\ s.mux = WaysMuxed(o, x)
      BY <1>1, <1>2, <1>6, <2>1
    <3> HIDE DEF x
    <3> QED
      BY <3>1, MuxFacts
  <2>2. CASE o.kind = "tag"
    BY <1>6, <2>2, MuxFacts
  <2> QED
    BY <1>1, <2>1, <2>2 DEF Kinds
<1>8. EffectiveAddressBit(o, s) = bits - (o.mats.rowMat + o.mats.columnMat
                                          - o.mats.activeMatPerColumn - o.mats.activeMatPerRow)
  BY <1>6 DEF EffectiveAddressBit
<1>9. numAddressBit(o) \in Int
  BY CandidateFacts
<1>10. bits \in Int
  BY <1>1, <1>9 DEF bits
<1>11. EffectiveAddressBit(o, s) \in Nat /\ EffectiveAddressBit(o, s) > 0
  <2>1. EffectiveAddressBit(o, s) \in Int
    BY <1>2, <1>8, <1>10
  <2>2. ~(EffectiveAddressBit(o, s) <= 0)
    BY Zenon DEF TooSmall
  <2> QED
    BY <2>1, <2>2
<1>12. MuxDegree(s) <= EffectiveAddressBit(o, s)
  BY <1>7, <1>11 DEF NoRowAddress
<1>13. o.mats.activeMatPerRow <= o.mats.columnMat /\ o.mats.activeMatPerColumn <= o.mats.rowMat
       /\ o.activePerRow <= o.column /\ o.activePerColumn <= o.row
  BY SizeFacts, LoopFacts
<1>14. numAddressBit(o) > 0
  BY <1>1, <1>2, <1>8, <1>9, <1>11, <1>13 DEF bits
<1>15. numAddressBit(o) = Blocks(o) - Associativity(o) - o.stack
  BY <1>1, <1>2, <1>14 DEF numAddressBit, IntLog2
<1>16. /\ o.row + o.column + o.mats.rowMat + o.mats.columnMat + o.stack \in Nat
       /\ o.row + o.column + o.mats.rowMat + o.mats.columnMat + o.stack + EffectiveAddressBit(o, s)
             = Blocks(o) - Associativity(o) + n + b
  BY <1>1, <1>2, <1>8, <1>15 DEF bits, n, b
<1>17. /\ o.kind = "data" => data = BlockSize(o) \div 2 ^ n
       /\ o.kind = "tag" => data = 2 ^ Associativity(o) \div 2 ^ n
  BY DEF data, numDataDistributeBit
<1> QED
  BY Zenon, <1>3, <1>6, <1>7, <1>11, <1>12, <1>16, <1>17 DEF n, b

\* The mats of an accepted data array hold the capacity asked for.
LEMMA DataCapacity ==
    ASSUME NEW o \in Candidates, o.kind = "data", NEW s, s = Divided(o), ~s.rejected,
           ~TooSmall(o, s), ~NoRowAddress(o, s)
    PROVE  numColumn(o, s) * numRow(o, s)
             * 2 ^ (o.row + o.column + o.mats.rowMat + o.mats.columnMat + o.stack) = Capacity(o)
<1> DEFINE n == o.activePerColumn + o.activePerRow
           b == o.mats.activeMatPerRow + o.mats.activeMatPerColumn
           T == o.row + o.column + o.mats.rowMat + o.mats.columnMat + o.stack
           E == EffectiveAddressBit(o, s)
           M == MuxDegree(s)
           A == Associativity(o)
<1>1. /\ n \in Nat /\ b \in Nat /\ Shares(o) = n + b
      /\ M \in Nat /\ E \in Nat /\ M <= E /\ T \in Nat
      /\ T + E = Blocks(o) - A + n + b
      /\ s.numDataBit = BlockSize(o) \div 2 ^ n /\ s.numWay = 2 ^ A
  BY Zenon, AcceptedFacts
<1>2. A \in Nat /\ Blocks(o) \in Nat
  BY SizeFacts
<1> HIDE DEF n, T, E, M, A
<1>3. PICK e \in Nat : BlockSize(o) = 2 ^ e
  BY WordIsPower
<1>4. n + b <= e
  <2>1. BlockSize(o) \div 2 ^ Shares(o) # 0
    BY DEF Candidates, Skipped
  <2>2. n + b \in Nat
    BY <1>1
  <2>3. 2 ^ e \div 2 ^ (n + b) = IF e >= n + b THEN 2 ^ (e - (n + b)) ELSE 0
    BY Zenon, <2>2, PowerRatio
  <2>4. 2 ^ e \div 2 ^ (n + b) # 0
    BY Zenon, <1>1, <1>3, <2>1
  <2>5. e >= n + b
    BY Zenon, <2>3, <2>4
  <2> QED
    BY <1>1, <2>2, <2>5
<1>5. ColumnsOfWord(o, s) = 2 ^ (e - (n + b))
  <2>1. e - (n + b) \in Nat /\ n + b \in Nat /\ e >= n + b
    BY <1>1, <1>4
  <2>2. ColumnsOfWord(o, s) = (2 ^ e \div 2 ^ n) \div 2 ^ b
    BY Zenon, <1>1, <1>3 DEF ColumnsOfWord
  <2>3. 2 ^ e \in Int
    BY PowerOfTwo
  <2> HIDE DEF b
  <2>4. (2 ^ e \div 2 ^ n) \div 2 ^ b = 2 ^ e \div 2 ^ (n + b)
    BY Zenon, <1>1, <2>3, DivideInTurn
  <2>5. 2 ^ e \div 2 ^ (n + b) = 2 ^ (e - (n + b))
    BY Zenon, <2>1, PowerRatio
  <2> QED
    BY Zenon, <2>2, <2>4, <2>5
<1> HIDE DEF b
<1> DEFINE p == e - (n + b)
           q == E + A - M
<1>6. p \in Nat /\ q \in Nat
  BY <1>1, <1>2, <1>4
<1>7. numColumn(o, s) = 2 ^ (p + M)
  <2>1. numColumn(o, s) = 2 ^ p * 2 ^ M * 1
    BY Zenon, <1>5 DEF numColumn, p, M
  <2> HIDE DEF p
  <2>2. 2 ^ (p + M) = 2 ^ p * 2 ^ M
    BY Zenon, <1>1, <1>6, PowerOfSum
  <2>3. 2 ^ (p + M) \in Nat
    <3>1. p + M \in Nat
      BY <1>1, <1>6
    <3> QED
      BY Zenon, <3>1, PowerOfTwo
  <2>4. \A x \in Nat : x * 1 = x
    OBVIOUS
  <2> QED
    BY Zenon, <2>1, <2>2, <2>3, <2>4
<1>8. numRow(o, s) = 2 ^ q
  <2>1. numRow(o, s) = (2 ^ E * 2 ^ A) \div 2 ^ M
    BY Zenon, <1>1 DEF numRow, E, M
  <2>2. 2 ^ E * 2 ^ A = 2 ^ (E + A)
    BY Zenon, <1>1, <1>2, PowerOfSum
  <2>3. E + A \in Nat /\ E + A >= M
    BY <1>1, <1>2
  <2>4. 2 ^ (E + A) \div 2 ^ M = 2 ^ (E + A - M)
    <3> DEFINE x == E + A
    <3>1. x \in Nat /\ M \in Nat /\ x >= M
      BY <1>1, <2>3
    <3> HIDE DEF x
    <3>2. 2 ^ x \div 2 ^ M = 2 ^ (x - M)
      BY <3>1, PowerRatio
    <3>3. x - M = E + A - M
      BY <1>1, <1>2 DEF x
    <3> QED
      BY Zenon, <3>2, <3>3 DEF x
  <2> QED
    BY Zenon, <2>1, <2>2, <2>4
<1>9. Capacity(o) = 2 ^ (Blocks(o) + e)
  BY Zenon, <1>2, <1>3, PowerOfSum DEF Capacity
<1>10. (p + M) + q + T = Blocks(o) + e
  BY <1>1, <1>2
<1>11. numColumn(o, s) * numRow(o, s) * 2 ^ T = 2 ^ ((p + M) + q + T)
  <2> HIDE DEF p, q
  <2>1. p + M \in Nat /\ (p + M) + q \in Nat
    BY <1>1, <1>6
  <2>2. 2 ^ (p + M) * 2 ^ q = 2 ^ ((p + M) + q)
    BY Zenon, <1>6, <2>1, PowerOfSum
  <2>3. 2 ^ ((p + M) + q) * 2 ^ T = 2 ^ ((p + M) + q + T)
    BY Zenon, <1>1, <2>1, PowerOfSum
  <2> QED
    BY Zenon, <1>7, <1>8, <2>2, <2>3
<1> QED
  BY Zenon, <1>9, <1>10, <1>11 DEF T

\* The mats of an accepted tag array hold the capacity asked for.
LEMMA TagCapacity ==
    ASSUME NEW o \in Candidates, o.kind = "tag", NEW s, s = Divided(o), ~s.rejected,
           ~TooSmall(o, s), ~NoRowAddress(o, s)
    PROVE  numColumn(o, s) * numRow(o, s)
             * 2 ^ (o.row + o.column + o.mats.rowMat + o.mats.columnMat + o.stack) = Capacity(o)
<1> DEFINE n == o.activePerColumn + o.activePerRow
           b == o.mats.activeMatPerRow + o.mats.activeMatPerColumn
           T == o.row + o.column + o.mats.rowMat + o.mats.columnMat + o.stack
           E == EffectiveAddressBit(o, s)
           M == MuxDegree(s)
           A == Associativity(o)
<1>1. /\ n \in Nat /\ b \in Nat /\ Shares(o) = n + b
      /\ M \in Nat /\ E \in Nat /\ M <= E /\ T \in Nat
      /\ T + E = Blocks(o) - A + n + b
      /\ s.numDataBit = BlockSize(o) /\ s.numWay = 2 ^ A \div 2 ^ n /\ s.numWay # 0
  BY Zenon, AcceptedFacts
<1>2. A \in Nat /\ Blocks(o) \in Nat
  BY SizeFacts
<1> HIDE DEF n, T, E, M, A
<1>3. PICK c \in Nat \ {0} : BlockSize(o) = c * 2 ^ (n + b)
  BY <1>1, TagIsShared
<1>4. n <= A /\ s.numWay = 2 ^ (A - n)
  <2>1. 2 ^ A \div 2 ^ n = IF A >= n THEN 2 ^ (A - n) ELSE 0
    BY Zenon, <1>1, <1>2, PowerRatio
  <2>2. A >= n
    BY Zenon, <1>1, <2>1
  <2> QED
    BY <1>1, <1>2, <2>1, <2>2
<1>5. ColumnsOfWord(o, s) = c * 2 ^ n
  <2>1. ColumnsOfWord(o, s) = (c * 2 ^ (n + b)) \div 2 ^ b
    BY Zenon, <1>1, <1>3 DEF ColumnsOfWord
  <2> HIDE DEF b
  <2>2. (c * 2 ^ n) * 2 ^ b = c * 2 ^ (n + b)
    <3>1. c \in Int /\ n \in Nat /\ b \in Nat
      BY <1>1
    <3> QED
      BY Zenon, <3>1, TimesPower
  <2>3. c * 2 ^ n \in Int /\ 2 ^ b \in Nat \ {0}
    <3>1. 2 ^ n \in Nat \ {0} /\ 2 ^ b \in Nat \ {0}
      BY <1>1, PowerOfTwo
    <3> QED
      BY <3>1
  <2>4. ((c * 2 ^ n) * 2 ^ b) \div 2 ^ b = c * 2 ^ n
    BY Zenon, <2>3, DivideMultiple
  <2> QED
    BY Zenon, <2>1, <2>2, <2>4
<1> HIDE DEF b
<1> DEFINE p == (n + M) + (A - n)
           q == E - M
<1>6. p \in Nat /\ q \in Nat /\ A - n \in Nat /\ c \in Int
  BY <1>1, <1>2, <1>4
<1>7. numColumn(o, s) = c * 2 ^ p
  <2>1. numColumn(o, s) = (c * 2 ^ n) * 2 ^ M * 2 ^ (A - n)
    BY Zenon, <1>4, <1>5 DEF numColumn, M
  <2>2. (c * 2 ^ n) * 2 ^ M = c * 2 ^ (n + M)
    <3>1. c \in Int /\ n \in Nat /\ M \in Nat
      BY <1>1
    <3> QED
      BY Zenon, <3>1, TimesPower
  <2>3. n + M \in Nat
    BY <1>1
  <2>4. (c * 2 ^ (n + M)) * 2 ^ (A - n) = c * 2 ^ ((n + M) + (A - n))
    BY Zenon, <1>6, <2>3, TimesPower
  <2> QED
    BY Zenon, <2>1, <2>2, <2>4
<1>8. numRow(o, s) = 2 ^ q
  <2>1. numRow(o, s) = (2 ^ E * 1) \div 2 ^ M
    BY DEF numRow, E, M
  <2>2. 2 ^ E \in Nat
    BY <1>1, PowerOfTwo
  <2>3. 2 ^ E * 1 = 2 ^ E
    BY <2>2
  <2>4. E >= M
    BY <1>1
  <2>5. 2 ^ E \div 2 ^ M = 2 ^ (E - M)
    BY Zenon, <1>1, <2>4, PowerRatio
  <2> QED
    BY Zenon, <2>1, <2>3, <2>5
<1>9. Capacity(o) = c * 2 ^ (n + b + Blocks(o))
  <2>1. n + b \in Nat
    BY <1>1
  <2>2. (c * 2 ^ (n + b)) * 2 ^ Blocks(o) = c * 2 ^ (n + b + Blocks(o))
    <3> DEFINE x == n + b
    <3>1. c \in Int /\ x \in Nat /\ Blocks(o) \in Nat
      BY <1>2, <2>1
    <3> HIDE DEF x
    <3>2. (c * 2 ^ x) * 2 ^ Blocks(o) = c * 2 ^ (x + Blocks(o))
      BY Zenon, <3>1, TimesPower
    <3> QED
      BY Zenon, <3>2 DEF x
  <2>3. Capacity(o) = 2 ^ Blocks(o) * (c * 2 ^ (n + b))
    BY Zenon, <1>3 DEF Capacity
  <2>4. 2 ^ Blocks(o) \in Int /\ c * 2 ^ (n + b) \in Int
    <3>1. 2 ^ Blocks(o) \in Nat \ {0} /\ 2 ^ (n + b) \in Nat \ {0}
      BY Zenon, <1>2, <2>1, PowerOfTwo
    <3> QED
      BY <1>6, <3>1
  <2>5. \A x, y \in Int : x * y = y * x
    OBVIOUS
  <2> QED
    BY Zenon, <2>2, <2>3, <2>4, <2>5
<1>10. p + q + T = n + b + Blocks(o)
  BY <1>1, <1>2
<1>11. numColumn(o, s) * numRow(o, s) * 2 ^ T = c * 2 ^ (p + q + T)
  <2> HIDE DEF p, q
  <2>1. p + q \in Nat
    BY <1>6
  <2>2. (c * 2 ^ p) * 2 ^ q = c * 2 ^ (p + q)
    BY Zenon, <1>6, TimesPower
  <2>3. (c * 2 ^ (p + q)) * 2 ^ T = c * 2 ^ (p + q + T)
    <3> DEFINE x == p + q
    <3>1. c \in Int /\ x \in Nat /\ T \in Nat
      BY <1>1, <2>1
    <3> HIDE DEF x
    <3>2. (c * 2 ^ x) * 2 ^ T = c * 2 ^ (x + T)
      BY Zenon, <3>1, TimesPower
    <3> QED
      BY Zenon, <3>2 DEF x
  <2> QED
    BY Zenon, <1>7, <1>8, <2>2, <2>3
<1> QED
  BY Zenon, <1>9, <1>10, <1>11 DEF T

\* What Initialize has decided: a subarray is what the other bank would make of
\* the candidate, and only mats that can be addressed are verified.
Outcome ==
    /\ pc \in {"subarray", "verify"} => sub = Divided(org) /\ ~sub.rejected
    /\ pc = "unroutable" /\ org.input.h_tree => Divided(org).rejected \/ TooSmall(org, Divided(org))
    /\ pc = "verify" =>
          /\ mat = [numRow |-> numRow(org, sub), numColumn |-> numColumn(org, sub)]
          /\ ~TooSmall(org, sub) /\ ~NoRowAddress(org, sub)
    /\ pc # "exit"

\* Every step leads to an outcome the other bank agrees with, and the capacity
\* check never fails.
LEMMA OutcomeKeeps == IInv /\ Budget /\ Outcome /\ [Next]_vars => Outcome'
<1> SUFFICES ASSUME IInv, Budget, Outcome, [Next]_vars PROVE Outcome'
  OBVIOUS
<1>0. org \in Candidates
  BY DEF IInv, TypeOK
<1>1. CASE RouteFirst \/ RouteHorizontal \/ RouteVertical \/ RouteBothHorizontal \/ RouteBothVertical \/ LoopDone
  <2>1. pc' \notin {"subarray", "verify", "unroutable", "exit"}
    BY <1>1 DEF RouteFirst, RouteHorizontal, RouteVertical, RouteBothHorizontal, RouteBothVertical,
                LoopDone, Goto
  <2> QED
    BY <2>1 DEF Outcome
<1>2. CASE AssignSubArray
  <2>1. sub' = Divided(org) /\ pc' = (IF Divided(org).rejected THEN "unroutable" ELSE "subarray")
    BY <1>2, LeafAgrees
  <2>2. org' = org
    BY <1>2 DEF AssignSubArray
  <2> QED
    BY <2>1, <2>2 DEF Outcome
<1>3. CASE GiveUp
  <2>1. pc \in Routing /\ NothingToRoute /\ pc' = "unroutable" /\ org' = org
    BY <1>3 DEF GiveUp, Goto, Routing
  <2>2. Divided(org).rejected \/ TooSmall(org, Divided(org))
    BY <2>1, GivesUpRightly
  <2> QED
    BY <2>1, <2>2 DEF Outcome
<1>4. CASE Divide
  <2>1. /\ sub' = Divided(org) /\ org' = org
        /\ pc' = (IF Divided(org).rejected THEN "unroutable" ELSE "subarray")
    BY <1>4 DEF Divide, Hand, Goto
  <2> QED
    BY <2>1 DEF Outcome
<1>5. CASE InitializeSubArray
  <2>1. pc = "subarray" /\ org' = org /\ sub' = sub
    BY <1>5 DEF InitializeSubArray
  <2>2. \/ pc' = "illegal"
        \/ /\ pc' = "verify" /\ ~TooSmall(org, sub) /\ ~NoRowAddress(org, sub)
           /\ mat' = [numRow |-> numRow(org, sub), numColumn |-> numColumn(org, sub)]
    BY <1>5 DEF InitializeSubArray, Goto
  <2>3. sub = Divided(org) /\ ~sub.rejected
    BY <2>1 DEF Outcome
  <2> QED
    BY <2>1, <2>2, <2>3 DEF Outcome
<1>6. CASE Verify
  <2>1. pc = "verify" /\ pc' = (IF BankCapacity # Capacity(org) THEN "exit" ELSE "valid")
    BY <1>6 DEF Verify, Goto
  <2>2. /\ sub = Divided(org) /\ ~sub.rejected /\ ~TooSmall(org, sub) /\ ~NoRowAddress(org, sub)
        /\ mat.numRow = numRow(org, sub) /\ mat.numColumn = numColumn(org, sub)
    BY <2>1 DEF Outcome
  <2>3. numColumn(org, sub) * numRow(org, sub)
          * 2 ^ (org.row + org.column + org.mats.rowMat + org.mats.columnMat + org.stack) = Capacity(org)
    <3>1. org.kind \in Kinds
      BY <1>0, LoopFacts
    <3>2. CASE org.kind = "data"
      BY Zenon, <1>0, <2>2, <3>2, DataCapacity
    <3>3. CASE org.kind = "tag"
      BY Zenon, <1>0, <2>2, <3>3, TagCapacity
    <3> QED
      BY <3>1, <3>2, <3>3 DEF Kinds
  <2>4. BankCapacity = Capacity(org)
    BY Zenon, <2>2, <2>3 DEF BankCapacity
  <2> QED
    BY <2>1, <2>4 DEF Outcome
<1>7. CASE UNCHANGED vars
  <2>1. UNCHANGED <<org, pc, sub, mat>>
    BY <1>7 DEF vars
  <2> QED
    BY Zenon, <2>1 DEF Outcome
<1> QED
  BY <1>1, <1>2, <1>3, <1>4, <1>5, <1>6, <1>7 DEF Next, Returned

\* The accounts and the outcome hold in every reachable state.
LEMMA OutcomeHolds == Spec => [](IInv /\ Budget /\ Outcome)
<1>1. Init => Outcome
  BY DEF Init, Outcome
<1> QED
  BY <1>1, InitHolds, StepKeeps, BudgetInit, BudgetKeeps, OutcomeKeeps, PTL DEF Spec

-----------------------------------------------------------------------------
(***************************************************************************)
(* No bit is lost on the way to a subarray.                                *)
(***************************************************************************)

\* A wire carries at least what is still to route, which is not nothing once
\* the bank is handed over.
Wide ==
    /\ distribute \in Nat
    /\ \A w \in Levels : w # Unrouted => w.distribute \in Nat /\ w.distribute >= distribute
    /\ org.input.h_tree /\ pc \in Delivered => distribute > 0

\* The bits of a word, or the ways of a set, are a power of two.
LEMMA BitsArePower ==
    ASSUME NEW o \in Candidates
    PROVE  \E e \in Nat : numDataDistributeBit(o) = 2 ^ e
<1>1. CASE o.kind = "data"
  BY Zenon, <1>1, WordIsPower DEF numDataDistributeBit
<1>2. CASE o.kind # "data"
  BY Zenon, <1>2, SizeFacts DEF numDataDistributeBit
<1> QED
  BY <1>1, <1>2

\* Something is left to route when the bank is handed over: a data word has
\* more bits than there are active mats, and a tag bank with fewer ways than
\* active subarrays is rejected.
LEMMA DeliveredIsWide ==
    ASSUME IInv, Budget, distribute \in Nat, AssignSubArray, pc' = "subarray"
    PROVE  distribute > 0
<1>1. pc = "leaf" /\ pc \in Routing /\ org \in Candidates /\ org.kind \in Kinds
  BY LoopFacts DEF AssignSubArray, Routing, IInv, TypeOK
<1>2. CASE org.kind = "data"
  <2>1. PICK e \in Nat : BlockSize(org) = 2 ^ e
    BY <1>1, <1>2, WordIsPower
  <2>2. Halved \in Nat /\ distribute = 2 ^ e \div 2 ^ Halved
    BY Zenon, <1>1, <1>2, <2>1, BudgetBounds DEF numDataDistributeBit
  <2>3. Shares(org) \in Nat /\ Halved <= Shares(org)
    <3>1. /\ org.activePerRow \in Nat /\ org.activePerColumn \in Nat
          /\ org.mats.activeMatPerRow \in Nat /\ org.mats.activeMatPerColumn \in Nat
      BY <1>1, LoopFacts, SizeFacts DEF MatsType
    <3>2. Halved \in Nat /\ Halved <= org.activePerColumn + org.activePerRow
      BY <1>1, BudgetBounds
    <3> QED
      BY <3>1, <3>2 DEF Shares
  <2>4. 2 ^ e \div 2 ^ Shares(org) # 0
    BY Zenon, <1>1, <1>2, <2>1 DEF Candidates, Skipped
  <2>5. 2 ^ e \div 2 ^ Shares(org) = IF e >= Shares(org) THEN 2 ^ (e - Shares(org)) ELSE 0
    BY Zenon, <2>3, PowerRatio
  <2>6. e >= Shares(org)
    BY Zenon, <2>4, <2>5
  <2>7. e >= Halved /\ e - Halved \in Nat
    BY <2>2, <2>3, <2>6
  <2>8. distribute = 2 ^ (e - Halved)
    BY Zenon, <2>2, <2>7, PowerRatio
  <2> QED
    BY <2>7, <2>8, PowerOfTwo
<1>3. CASE org.kind = "tag"
  <2>1. PICK bits, data : /\ HandedOver(org, bits, data).rejected = FALSE
                          /\ data = IF columnToActive > 0 THEN distribute \div 2 ELSE distribute
    <3>1. \E bits, data :
             /\ pc' = (IF HandedOver(org, bits, data).rejected THEN "unroutable" ELSE "subarray")
             /\ data = IF columnToActive > 0 THEN distribute \div 2 ELSE distribute
      BY Zenon DEF AssignSubArray, Hand, Goto
    <3>2. \A bits, data : HandedOver(org, bits, data).rejected \in BOOLEAN
      BY <1>3 DEF HandedOver, Rejected, Assigned
    <3> QED
      BY <3>1, <3>2
  <2>2. data # 0
    BY <1>3, <2>1 DEF HandedOver, Rejected
  <2> QED
    BY <2>1, <2>2
<1> QED
  BY <1>1, <1>2, <1>3 DEF Kinds

\* A level more, of the current or half the current width, is the narrowest.
LEMMA NarrowestIsLast ==
    ASSUME Wide, NEW above, NEW halves, NEW L,
           L \subseteq Levels \cup {Level(above, halves)},
           NEW d, d = Level(above, halves).distribute
    PROVE  /\ d \in Nat
           /\ \A w \in L : w # Unrouted => w.distribute \in Nat /\ w.distribute >= d
<1>1. d \in Nat /\ d <= distribute
  BY DEF Level, Wide
<1>2. ASSUME NEW w \in L, w # Unrouted
      PROVE  w.distribute \in Nat /\ w.distribute >= d
  <2>1. CASE w = Level(above, halves)
    BY <1>1, <2>1
  <2>2. CASE w \in Levels
    BY <1>1, <1>2, <2>2 DEF Wide
  <2> QED
    BY <2>1, <2>2
<1> QED
  BY <1>1, <1>2

\* At the root nothing is routed yet.
LEMMA WideInit == Init => Wide
<1> SUFFICES ASSUME Init PROVE Wide
  OBVIOUS
<1>1. distribute \in Nat
  <2>1. PICK e \in Nat : numDataDistributeBit(org) = 2 ^ e
    BY BitsArePower DEF Init
  <2> QED
    BY <2>1, PowerOfTwo DEF Init
<1>2. \A w \in Levels : w = Unrouted
  BY DEF Init, Levels
<1>3. pc \notin Delivered
  BY DEF Init, Delivered
<1> QED
  BY <1>1, <1>2, <1>3 DEF Wide

\* Every step keeps it so.
LEMMA WideKeeps == IInv /\ Budget /\ Wide /\ [Next]_vars => Wide'
<1> SUFFICES ASSUME IInv, Budget, Wide, [Next]_vars PROVE Wide'
  OBVIOUS
<1>1. ASSUME NEW above, AddHorizontal(above) \/ AddVertical(above), pc' \notin Delivered
      PROVE  Wide'
  <2>1. CASE AddHorizontal(above)
    <3> DEFINE level == Level(above, columnToActive > 0)
    <3>1. distribute' = level.distribute /\ Levels' \subseteq Levels \cup {level}
      BY <2>1 DEF AddHorizontal, Levels
    <3>2. /\ distribute' \in Nat
          /\ \A w \in Levels' : w # Unrouted => w.distribute \in Nat /\ w.distribute >= distribute'
      BY Zenon, <3>1, NarrowestIsLast
    <3> QED
      BY <1>1, <3>2 DEF Wide
  <2>2. CASE AddVertical(above)
    <3> DEFINE level == Level(above, rowToActive > 0)
    <3>1. distribute' = level.distribute /\ Levels' \subseteq Levels \cup {level}
      BY <2>2 DEF AddVertical, Levels
    <3>2. /\ distribute' \in Nat
          /\ \A w \in Levels' : w # Unrouted => w.distribute \in Nat /\ w.distribute >= distribute'
      BY Zenon, <3>1, NarrowestIsLast
    <3> QED
      BY <1>1, <3>2 DEF Wide
  <2> QED
    BY <1>1, <2>1, <2>2
<1>2. CASE RouteHorizontal \/ RouteVertical \/ RouteBothHorizontal \/ RouteBothVertical
  <2>1. pc' \notin Delivered
    BY <1>2 DEF RouteHorizontal, RouteVertical, RouteBothHorizontal, RouteBothVertical, Goto, Delivered
  <2>2. \E above : AddHorizontal(above) \/ AddVertical(above)
    BY Zenon, <1>2 DEF RouteHorizontal, RouteVertical, RouteBothHorizontal, RouteBothVertical
  <2> QED
    BY <1>1, <2>1, <2>2
<1>3. CASE RouteFirst
  <2> DEFINE level == [address |-> address, distribute |-> distribute, active |-> 0, sum |-> 0]
  <2>1. distribute' = distribute /\ Levels' \subseteq Levels \cup {level} /\ pc' \notin Delivered
    BY <1>3 DEF RouteFirst, Goto, Levels, Delivered
  <2>2. level.distribute \in Nat /\ level.distribute >= distribute
    BY DEF Wide
  <2> HIDE DEF level
  <2> QED
    BY <2>1, <2>2 DEF Wide
<1>4. ASSUME UNCHANGED <<org, routing>>, org.input.h_tree /\ pc' \in Delivered => distribute > 0
      PROVE  Wide'
  <2>1. distribute' = distribute /\ Levels' = Levels
    BY <1>4 DEF routing, Levels
  <2> QED
    BY <1>4, <2>1 DEF Wide
<1>5. CASE AssignSubArray
  BY <1>4, <1>5, DeliveredIsWide DEF AssignSubArray, Hand, Goto, Delivered, Wide
<1>6. CASE Divide
  BY <1>4, <1>6 DEF Divide, IInv, Progress
<1>7. CASE LoopDone \/ GiveUp
  BY <1>4, <1>7 DEF LoopDone, GiveUp, Goto, Delivered
<1>8. CASE InitializeSubArray \/ Verify
  <2>1. pc \in Delivered /\ UNCHANGED <<org, routing>>
    BY <1>8 DEF InitializeSubArray, Verify, Delivered
  <2> QED
    BY <1>4, <2>1 DEF Wide
<1>9. CASE UNCHANGED vars
  BY <1>4, <1>9 DEF vars, Wide
<1> QED
  BY <1>2, <1>3, <1>5, <1>6, <1>7, <1>8, <1>9 DEF Next, Returned

-----------------------------------------------------------------------------
\* The levels still to route stay in their ranges, the arrays keep their sizes.
THEOREM RoutingTypeCorrect == Spec => []TypeOK
<1>1. IInv => TypeOK
  BY DEF IInv
<1> QED
  BY <1>1, InitHolds, StepKeeps, PTL DEF Spec

\* The routing loops of BankWithHtree never index outside their arrays and
\* never read a level they have not routed, for any shape of the bank.
THEOREM RoutingStaysInBounds == Spec => []LevelsInBounds
<1>1. IInv => LevelsInBounds
  <2> SUFFICES ASSUME IInv PROVE LevelsInBounds
    OBVIOUS
  <2>1. /\ levelHorizontal \in Nat /\ levelVertical \in Nat
        /\ h \in 0..levelHorizontal /\ v \in 0..levelVertical
        /\ DOMAIN hWire = 0..(levelHorizontal - 1) /\ DOMAIN vWire = 0..(levelVertical - 1)
    BY CandidateFacts DEF IInv, TypeOK, levelHorizontal, levelVertical
  <2>2. \A k \in DOMAIN hWire : k < hDone => Routed(hWire, k)
    BY <2>1, SoundIsRouted DEF IInv, LevelsSound, Routed
  <2>3. \A k \in DOMAIN vWire : k < levelVertical - v => Routed(vWire, k)
    BY <2>1, SoundIsRouted DEF IInv, LevelsSound, Routed
  <2> QED
    BY <2>1, <2>2, <2>3 DEF LevelsInBounds, IInv, Progress, hDone
<1> QED
  BY <1>1, InitHolds, StepKeeps, PTL DEF Spec

\* A bank that BankWithHtree hands over has every level of its tree routed, so
\* the area and power passes read no uninitialised level.
THEOREM TreesAreComplete == Spec => []TreeIsComplete
<1>1. IInv => TreeIsComplete
  <2> SUFFICES ASSUME IInv, org.input.h_tree,
                      pc \in {"leaf", "subarray", "illegal", "verify", "valid"}
               PROVE  /\ \A k \in DOMAIN hWire : Routed(hWire, k)
                      /\ \A k \in DOMAIN vWire : Routed(vWire, k)
    BY DEF TreeIsComplete
  <2>1. /\ levelHorizontal \in Nat /\ levelVertical \in Nat
        /\ DOMAIN hWire = 0..(levelHorizontal - 1) /\ DOMAIN vWire = 0..(levelVertical - 1)
    BY CandidateFacts DEF IInv, TypeOK, levelHorizontal, levelVertical
  <2>2. h = 0 /\ v = 0 /\ hDone = levelHorizontal
    BY <2>1 DEF IInv, Progress, AfterRouting, hDone
  <2> QED
    BY <2>1, <2>2, SoundIsRouted DEF IInv, LevelsSound, Routed
<1> QED
  BY <1>1, InitHolds, StepKeeps, PTL DEF Spec

\* The wire counts and the address widths that BankWithHtree computes for each
\* level agree, for any shape of the bank.
THEOREM WiresMatchAddresses == Spec => []AddressSelectsWires
<1>1. IInv => AddressSelectsWires
  <2> SUFFICES ASSUME IInv, NEW w \in Levels, w # Unrouted
               PROVE  w.sum = w.active + (numAddressBit(org) - w.address)
    BY DEF AddressSelectsWires
  <2>1. /\ levelHorizontal \in Nat /\ levelVertical \in Nat
        /\ h \in 0..levelHorizontal /\ v \in 0..levelVertical
        /\ DOMAIN hWire = 0..(levelHorizontal - 1) /\ DOMAIN vWire = 0..(levelVertical - 1)
    BY CandidateFacts DEF IInv, TypeOK, levelHorizontal, levelVertical
  <2>2. hDone \in Int
    BY <2>1 DEF hDone
  <2>3. CASE \E k \in DOMAIN hWire : w = hWire[k]
    BY <2>1, <2>2, <2>3 DEF IInv, LevelsSound, Sound
  <2>4. CASE \E k \in DOMAIN vWire : w = vWire[k]
    BY <2>1, <2>4 DEF IInv, LevelsSound, Sound
  <2> QED
    BY <2>3, <2>4 DEF Levels
<1> QED
  BY <1>1, InitHolds, StepKeeps, PTL DEF Spec

\* In a bank that BankWithHtree hands over, the active wires of every level
\* together carry the bits of one access, none lost, for any shape of the bank.
THEOREM BandwidthIsConserved == Spec => []BandwidthConserved
<1>1. IInv /\ Wide => BandwidthConserved
  <2> SUFFICES ASSUME IInv, Wide, org.input.h_tree, pc \in Delivered, NEW w \in Levels
               PROVE  w.distribute * 2 ^ w.active = numDataDistributeBit(org)
    BY DEF BandwidthConserved
  <2>1. /\ levelHorizontal \in Nat /\ levelVertical \in Nat /\ org \in Candidates
        /\ DOMAIN hWire = 0..(levelHorizontal - 1) /\ DOMAIN vWire = 0..(levelVertical - 1)
    BY CandidateFacts DEF IInv, TypeOK, levelHorizontal, levelVertical
  <2>2. h = 0 /\ v = 0 /\ hDone = levelHorizontal
    BY <2>1 DEF IInv, Progress, AfterRouting, Delivered, hDone
  <2>3. Sound(org, w)
    <3>1. CASE \E k \in DOMAIN hWire : w = hWire[k]
      BY <2>1, <2>2, <3>1 DEF IInv, LevelsSound
    <3>2. CASE \E k \in DOMAIN vWire : w = vWire[k]
      BY <2>1, <2>2, <3>2 DEF IInv, LevelsSound
    <3> QED
      BY <3>1, <3>2 DEF Levels
  <2>4. PICK e \in Nat : numDataDistributeBit(org) = 2 ^ e
    BY <2>1, BitsArePower
  <2>5. w.active \in Nat /\ w.distribute = 2 ^ e \div 2 ^ w.active
    BY Zenon, <2>3, <2>4 DEF Sound
  <2>6. w.distribute \in Int /\ w.distribute > 0
    <3>1. w # Unrouted
      BY <2>3, SoundIsRouted
    <3>2. 2 ^ e \in Nat \ {0} /\ 2 ^ w.active \in Nat \ {0}
      BY <2>5, PowerOfTwo
    <3>3. w.distribute \in Int
      BY <2>5, <3>2
    <3> QED
      BY <3>1, <3>3 DEF Wide
  <2> DEFINE n == w.active
  <2>7. n \in Nat /\ w.distribute = (IF e >= n THEN 2 ^ (e - n) ELSE 0)
    BY Zenon, <2>5, PowerRatio
  <2>8. e >= n /\ e - n \in Nat /\ (e - n) + n = e /\ w.distribute = 2 ^ (e - n)
    <3> HIDE DEF n
    <3> QED
      BY <2>6, <2>7
  <2>9. 2 ^ ((e - n) + n) = 2 ^ (e - n) * 2 ^ n
    BY Zenon, <2>7, <2>8, PowerOfSum
  <2> QED
    BY Zenon, <2>4, <2>8, <2>9
<1> QED
  BY <1>1, InitHolds, StepKeeps, BudgetInit, BudgetKeeps, WideInit, WideKeeps, PTL DEF Spec

\* BankWithHtree hands every subarray what BankWithoutHtree would, and gives up
\* only on candidates that BankWithoutHtree or SubArray reject, for any shape
\* of the bank.
THEOREM RoutingModesDoAgree == Spec => []RoutingModesAgree
<1>1. Outcome => RoutingModesAgree
  BY DEF Outcome, RoutingModesAgree
<1> QED
  BY <1>1, OutcomeHolds, PTL

\* The exit of the search on a capacity that does not add up is never taken:
\* the divisions of the bank, the subarray and the mat lose no bit.
THEOREM CapacityAddsUp == Spec => []CapacityIsExact
<1>1. Outcome => CapacityIsExact
  BY DEF Outcome, CapacityIsExact
<1> QED
  BY <1>1, OutcomeHolds, PTL
=============================================================================
