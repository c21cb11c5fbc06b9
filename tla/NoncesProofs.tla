---------------------------- MODULE NoncesProofs ----------------------------
(***************************************************************************)
(* Proofs about Nonces, for any base, job and number of workers and        *)
(* threads.  A lane is a residue class: its nonces are the job's first one *)
(* plus the offset of the lane plus multiples of the step, and offsets are *)
(* different and less than a step.  A lane only goes up, since a step that *)
(* would not is one that the overflow check finds; but for the first step, *)
(* for which the job must have room.                                       *)
(***************************************************************************)
EXTENDS Nonces, FiniteSetTheorems, TLAPS

\* The nonces of a job with room, from its first one to where the checks stop.
Origin == IF job.masked THEN job.part * Base + (job.start % Base) ELSE job.start
Limit  == IF job.masked THEN job.part * Base + Base ELSE W
OfLane(l, n) ==
    /\ n \in Origin .. Limit - 1
    /\ \E k \in Nat : n = Origin + Offset(l) + k * Step

TypeInv ==
    /\ kind \in Kinds /\ job \in Jobs /\ on \subseteq Lanes(kind)
    /\ again \in BOOLEAN
    /\ next \in [Lanes(kind) -> 0 .. W - 1]
    /\ kind # "cn" => input \in [Lanes(kind) -> [{0} -> 0 .. W - 1]]

\* The order of what a lane hashed, hashes and will hash.
InOrder(l) ==
    /\ OfLane(l, input[l][0]) /\ OfLane(l, next[l])
    /\ IF kind = "c29" THEN next[l] = input[l][0] + Step ELSE input[l][0] <= next[l]
    /\ \A n \in hashed : OfLane(l, n) => n < input[l][0]

LanesInv ==
    kind # "cn" /\ HasRoom =>
        /\ ~ again
        /\ hashed \subseteq Origin .. Limit - 1
        /\ \A l \in on : InOrder(l)
NInv == TypeInv /\ LanesInv


----------------------------------------------------------------------------
(* Arithmetic.                                                             *)

LEMMA Constants ==
    /\ Base \in Nat \ {0, 1} /\ Workers \in Nat \ {0} /\ Batch \in Nat \ {0}
    /\ W \in Nat \ {0} /\ W >= 2 * Base
    /\ Step \in Nat \ {0} /\ Inputs \in Nat \ {0}
<1>1. Base \in Nat \ {0, 1} /\ Workers \in Nat \ {0} /\ Batch \in Nat \ {0}
  BY NoncesAssumption
<1>2. Base * Base >= 2 * Base /\ Base * Base \in Nat \ {0} /\ Workers * Batch \in Nat \ {0}
  BY <1>1
<1> QED
  BY <1>1, <1>2 DEF W, Step, Inputs

\* Quotient and remainder of a number with two digits.
LEMMA Digits ==
    ASSUME NEW n \in Nat, NEW b \in Nat \ {0}
    PROVE  /\ n \div b \in Nat /\ n % b \in 0 .. b - 1
           /\ n = (n \div b) * b + (n % b)
  OBVIOUS

LEMMA DigitsAre ==
    ASSUME NEW b \in Nat \ {0}, NEW q \in Nat, NEW r \in 0 .. b - 1
    PROVE  (q * b + r) \div b = q /\ (q * b + r) % b = r
  OBVIOUS

\* A number with two digits is below the square of the base.
LEMMA TwoDigits ==
    ASSUME NEW b \in Nat \ {0}, NEW q \in Nat, q < b
    PROVE  q * b \in Nat /\ q * b + b <= b * b
<1>1. PICK z \in Nat : b = q + 1 + z
  <2>1. b - q - 1 \in Nat /\ b = q + 1 + (b - q - 1)
    OBVIOUS
  <2> QED
    BY <2>1
<1>2. q * b \in Nat /\ z * b \in Nat
  OBVIOUS
<1>3. b * b = q * b + b + z * b
  BY <1>1
<1> QED
  BY <1>2, <1>3

LEMMA HighDigit ==
    ASSUME NEW b \in Nat \ {0}, NEW n \in 0 .. b * b - 1
    PROVE  n \div b \in 0 .. b - 1 /\ n % b \in 0 .. b - 1
<1>1. PICK h \in Nat, r \in 0 .. b - 1 : h = n \div b /\ r = n % b /\ n = h * b + r
  <2>1. b * b \in Nat /\ n \in Nat
    OBVIOUS
  <2>2. n \div b \in Nat /\ n % b \in 0 .. b - 1 /\ n = (n \div b) * b + (n % b)
    BY <2>1, Digits
  <2> QED
    BY <2>2
<1>2. h < b
  <2>1. SUFFICES ASSUME h >= b PROVE FALSE
    OBVIOUS
  <2>2. PICK z \in Nat : h = b + z
    <3>1. h - b \in Nat /\ h = b + (h - b)
      BY <2>1
    <3> QED
      BY <3>1
  <2>3. z * b \in Nat /\ b * b \in Nat
    OBVIOUS
  <2>4. h * b = b * b + z * b
    BY <2>2
  <2> QED
    BY <1>1, <2>3, <2>4
<1> QED
  BY <1>1, <1>2

\* Numbers below the modulus stay, those beyond it go back to the start.
LEMMA ModSmall ==
    ASSUME NEW n \in Nat, NEW b \in Nat \ {0}
    PROVE  /\ n % b \in 0 .. b - 1
           /\ n < b => n % b = n
           /\ n >= b /\ n < 2 * b => n % b = n - b
  OBVIOUS

\* Two numbers below s that differ by multiples of s are the same.
LEMMA SameResidue ==
    ASSUME NEW s \in Nat \ {0}, NEW x \in 0 .. s - 1, NEW y \in 0 .. s - 1,
           NEW j \in Nat, NEW k \in Nat, x + j * s = y + k * s
    PROVE  j = k /\ x = y
<1>1. ASSUME NEW u \in Nat, NEW v \in Nat, u < v
      PROVE  v * s >= u * s + s
  <2>1. PICK z \in Nat : v = u + 1 + z
    <3>1. v - u - 1 \in Nat /\ v = u + 1 + (v - u - 1)
      BY <1>1
    <3> QED
      BY <3>1
  <2>2. v * s = u * s + s + z * s /\ z * s \in Nat
    BY <2>1
  <2> QED
    BY <2>2
<1>2. j * s \in Nat /\ k * s \in Nat
  OBVIOUS
<1>3. ~ (j < k) /\ ~ (k < j)
  BY <1>1, <1>2
<1>4. j = k
  BY <1>3
<1> QED
  BY <1>2, <1>4

----------------------------------------------------------------------------
(* Lanes.                                                                  *)

LEMMA OffsetType ==
    ASSUME NEW l \in Lanes(kind)
    PROVE  Offset(l) \in 0 .. Step - 1
<1>1. CASE kind = "rx"
  <2>1. PICK w \in 0 .. Workers - 1, t \in 0 .. Batch - 1 : l = <<w, t>>
    BY <1>1 DEF Lanes
  <2>2. PICK z \in Nat : Workers = w + 1 + z
    <3>1. Workers - w - 1 \in Nat /\ Workers = w + 1 + (Workers - w - 1)
      BY <2>1, Constants
    <3> QED
      BY <3>1
  <2>3. Workers * Batch = w * Batch + Batch + z * Batch /\ z * Batch \in Nat /\ w * Batch \in Nat
    BY <2>1, <2>2, Constants
  <2>4. Offset(l) = w * Batch + t /\ Step = Workers * Batch
    BY <1>1, <2>1 DEF Offset, Step
  <2> QED
    BY <2>1, <2>3, <2>4, Constants
<1>2. CASE kind # "rx"
  BY <1>2, Constants DEF Lanes, Offset, Step
<1> QED
  BY <1>1, <1>2

LEMMA OffsetsDiffer ==
    ASSUME NEW l \in Lanes(kind), NEW m \in Lanes(kind), Offset(l) = Offset(m)
    PROVE  l = m
<1>1. CASE kind = "rx"
  <2>1. PICK w \in 0 .. Workers - 1, t \in 0 .. Batch - 1 : l = <<w, t>>
    BY <1>1 DEF Lanes
  <2>2. PICK x \in 0 .. Workers - 1, u \in 0 .. Batch - 1 : m = <<x, u>>
    BY <1>1 DEF Lanes
  <2>3. t + w * Batch = u + x * Batch
    BY <1>1, <2>1, <2>2, Constants DEF Offset
  <2>4. w \in Nat /\ x \in Nat
    BY <2>1, <2>2, Constants
  <2>5. w = x /\ t = u
    BY <2>1, <2>2, <2>3, <2>4, SameResidue, Constants
  <2> QED
    BY <2>1, <2>2, <2>5
<1>2. CASE kind # "rx"
  BY <1>2 DEF Lanes, Offset
<1> QED
  BY <1>1, <1>2

\* No nonce is on two lanes.
LEMMA LanesDisjoint ==
    ASSUME NEW l \in Lanes(kind), NEW m \in Lanes(kind), NEW n, OfLane(l, n), OfLane(m, n),
           Origin \in Nat
    PROVE  l = m
<1>1. PICK j \in Nat : n = Origin + Offset(l) + j * Step
  BY DEF OfLane
<1>2. PICK k \in Nat : n = Origin + Offset(m) + k * Step
  BY DEF OfLane
<1>3. /\ Offset(l) \in 0 .. Step - 1 /\ Offset(m) \in 0 .. Step - 1
      /\ j * Step \in Nat /\ k * Step \in Nat /\ Step \in Nat \ {0}
  BY OffsetType, Constants
<1>4. Offset(l) + j * Step = Offset(m) + k * Step
  BY <1>1, <1>2, <1>3
<1>5. Offset(l) = Offset(m)
  BY <1>3, <1>4, SameResidue
<1> QED
  BY <1>5, OffsetsDiffer

LEMMA JobType ==
    ASSUME job \in Jobs
    PROVE  /\ job.masked \in BOOLEAN
           /\ job.start \in 0 .. W - 1 /\ job.blob \in 0 .. W - 1 /\ job.part \in 0 .. Base - 1
  BY NoncesAssumption DEF W

\* The range of the job's nonces.
LEMMA RangeType ==
    ASSUME job \in Jobs, HasRoom
    PROVE  /\ Origin \in Nat /\ Limit \in Nat /\ Limit <= W
           /\ Origin + 2 * Step - 1 < Limit
           /\ job.masked => /\ job.part * Base \in Nat /\ Origin >= job.part * Base
                            /\ Limit = job.part * Base + Base
<1>1. CASE job.masked
  <2>1. job.start % Base \in 0 .. Base - 1 /\ (job.start % Base) + 2 * Step - 1 < Base
    <3>1. job.start \in Nat /\ Base \in Nat \ {0} /\ Step \in Nat
      BY JobType, Constants
    <3>2. job.start % Base \in 0 .. Base - 1
      BY <3>1, Digits
    <3>3. (job.start % Base) + 2 * Step - 1 < Base
      BY <1>1 DEF HasRoom
    <3> QED
      BY <3>2, <3>3
  <2>3. job.part * Base \in Nat /\ job.part * Base + Base <= W
    <3>1. job.part \in Nat /\ job.part < Base /\ Base \in Nat \ {0}
      BY JobType, Constants
    <3> QED
      BY <3>1, TwoDigits DEF W
  <2>4. /\ Origin = job.part * Base + (job.start % Base)
        /\ Limit = job.part * Base + Base
    BY <1>1 DEF Origin, Limit
  <2> QED
    BY <2>1, <2>3, <2>4, JobType, Constants DEF W
<1>2. CASE ~ job.masked
  <2>1. job.start \in Nat /\ job.start < W /\ W \in Nat \ {0} /\ Step \in Nat
    BY JobType, Constants
  <2>2. job.start % W = job.start
    BY <2>1, ModSmall
  <2>3. Origin = job.start /\ Limit = W
    BY <1>2 DEF Origin, Limit
  <2> QED
    BY <1>2, <2>1, <2>2, <2>3 DEF HasRoom
<1> QED
  BY <1>1, <1>2

\* The first nonce of a lane is on it, and set_job's step to the second is safe.
LEMMA FirstIs ==
    ASSUME job \in Jobs, HasRoom, NEW l \in Lanes(kind)
    PROVE  /\ First(l) = Origin + Offset(l)
           /\ OfLane(l, First(l))
           /\ (First(l) + Step) % W = First(l) + Step
           /\ OfLane(l, First(l) + Step)
           /\ First(l) \in 0 .. W - 1
<1> DEFINE o == Offset(l)
<1>1. o \in Nat /\ o < Step /\ Step \in Nat \ {0} /\ W \in Nat \ {0} /\ Base \in Nat \ {0}
  BY OffsetType, Constants
<1>2. /\ Origin \in Nat /\ Limit \in Nat /\ Limit <= W
      /\ Origin + 2 * Step - 1 < Limit
  BY RangeType
<1>3. First(l) = Origin + o
  <2>1. CASE job.masked
    <3>1. PICK h \in Nat, r \in 0 .. Base - 1 :
             job.start = h * Base + r /\ h = job.start \div Base /\ r = job.start % Base
      <4>1. job.start \in Nat
        BY JobType, Constants
      <4>2. /\ job.start \div Base \in Nat /\ job.start % Base \in 0 .. Base - 1
            /\ job.start = (job.start \div Base) * Base + (job.start % Base)
        BY <1>1, <4>1, Digits
      <4> QED
        BY <4>2
    <3>2. r + 2 * Step - 1 < Base
      BY <2>1, <3>1 DEF HasRoom
    <3>3. r + o \in 0 .. Base - 1
      BY <1>1, <3>1, <3>2
    <3>4. h < Base
      <4>1. job.start \in 0 .. Base * Base - 1
        BY JobType DEF W
      <4>2. job.start \div Base \in 0 .. Base - 1
        BY <1>1, <4>1, HighDigit
      <4> QED
        BY <1>1, <3>1, <4>2
    <3>6. h * Base \in Nat /\ h * Base + Base <= W
      BY <1>1, <3>1, <3>4, TwoDigits DEF W
    <3>7. job.start + o = h * Base + (r + o) /\ job.start + o \in Nat /\ job.start + o < W
      <4>1. PICK x \in Nat : x = h * Base
        BY <3>6
      <4>2. job.start = x + r /\ x + Base <= W
        BY <3>1, <3>6, <4>1
      <4>3. r \in Nat /\ r + o \in Nat /\ r + o < Base
        BY <1>1, <3>3
      <4>4. job.start + o = x + (r + o)
        BY <1>1, <4>1, <4>2, <4>3
      <4> QED
        BY <1>1, <4>1, <4>2, <4>3, <4>4
    <3>8. (job.start + o) % W = h * Base + (r + o)
      BY <1>1, <3>7, ModSmall
    <3>9. High(h * Base + (r + o)) = h /\ (h * Base + (r + o)) % Base = r + o
      BY <1>1, <3>1, <3>3, DigitsAre DEF High
    <3>10. DigitOr(h, High(job.blob)) = job.part
      BY <2>1, <3>1 DEF HasRoom, High
    <3>11. First(l) = job.part * Base + (r + o)
      BY <2>1, <3>8, <3>9, <3>10 DEF First
    <3>12. Origin = job.part * Base + r /\ job.part * Base \in Nat
      BY <2>1, <3>1, RangeType DEF Origin
    <3> QED
      BY <1>1, <3>1, <3>11, <3>12
  <2>2. CASE ~ job.masked
    <3>1. Origin = job.start
      BY <2>2 DEF Origin
    <3>2. job.start + o \in Nat /\ job.start + o < W
      BY <1>1, <1>2, <3>1
    <3>3. (job.start + o) % W = job.start + o
      BY <1>1, <3>2, ModSmall
    <3> QED
      BY <2>2, <3>1, <3>3 DEF First
  <2> QED
    BY <2>1, <2>2
<1>4. First(l) + Step \in Nat /\ First(l) + Step < W
  BY <1>1, <1>2, <1>3
<1>5. (First(l) + Step) % W = First(l) + Step
  BY <1>1, <1>4, ModSmall
<1>6. First(l) = Origin + Offset(l) + 0 * Step /\ First(l) + Step = Origin + Offset(l) + 1 * Step
  BY <1>1, <1>2, <1>3
<1>7. First(l) \in Origin .. Limit - 1 /\ First(l) + Step \in Origin .. Limit - 1
  BY <1>1, <1>2, <1>3
<1>8. OfLane(l, First(l)) /\ OfLane(l, First(l) + Step)
  BY <1>6, <1>7 DEF OfLane
<1> QED
  BY <1>1, <1>2, <1>3, <1>4, <1>5, <1>8

\* A step on which the check finds no overflow stays on the lane.
LEMMA StepStaysOnLane ==
    ASSUME job \in Jobs, HasRoom, NEW l \in Lanes(kind), NEW n, OfLane(l, n),
           ~ Overflows(n, (n + Step) % W)
    PROVE  (n + Step) % W = n + Step /\ OfLane(l, n + Step)
<1>1. /\ Step \in Nat \ {0} /\ W \in Nat \ {0} /\ Base \in Nat \ {0} /\ W >= 2 * Base
      /\ Offset(l) \in Nat
  BY OffsetType, Constants
<1>2. /\ Origin \in Nat /\ Limit \in Nat /\ Limit <= W
      /\ Origin + 2 * Step - 1 < Limit
      /\ job.masked => /\ job.part * Base \in Nat /\ Origin >= job.part * Base
                       /\ Limit = job.part * Base + Base
  BY RangeType
<1>3. n \in Nat /\ n >= Origin /\ n < Limit
  BY <1>2 DEF OfLane
<1>4. PICK k \in Nat : n = Origin + Offset(l) + k * Step
  BY DEF OfLane
<1>5. /\ n + Step < W => (n + Step) % W = n + Step
      /\ n + Step >= W => (n + Step) % W = n + Step - W
      /\ (n + Step) % W \in Nat
  <2>1. n + Step \in Nat /\ n + Step < 2 * W
    BY <1>1, <1>2, <1>3
  <2> QED
    <3>1. PICK m \in Nat : m = n + Step
      BY <2>1
    <3>2. m < 2 * W /\ W \in Nat \ {0}
      BY <1>1, <2>1, <3>1
    <3>3. /\ m % W \in 0 .. W - 1
          /\ m < W => m % W = m
          /\ m >= W => m % W = m - W
      BY <3>2, ModSmall
    <3>4. m % W \in Nat
      BY <3>2, <3>3
    <3> QED
      BY <1>1, <1>3, <3>1, <3>3, <3>4
<1>6. (n + Step) % W = n + Step /\ n + Step < Limit
  <2>1. CASE job.masked
    <3>1. High(n) = job.part
      <4>1. /\ n - job.part * Base \in 0 .. Base - 1
            /\ n = job.part * Base + (n - job.part * Base)
        BY <1>1, <1>2, <1>3, <2>1
      <4>2. PICK r \in 0 .. Base - 1 : n = job.part * Base + r
        BY <4>1
      <4>3. job.part \in Nat
        BY JobType, Constants
      <4>4. (job.part * Base + r) \div Base = job.part
        BY <1>1, <4>2, <4>3, DigitsAre
      <4> QED
        BY <4>2, <4>4 DEF High
    <3>2. High((n + Step) % W) = job.part
      BY <2>1, <3>1 DEF Overflows
    <3>3. (n + Step) % W >= job.part * Base /\ (n + Step) % W < job.part * Base + Base
      <4>1. PICK m \in Nat : m = (n + Step) % W
        BY <1>5
      <4>2. PICK r \in 0 .. Base - 1 : m = job.part * Base + r
        <5>1. m \div Base = job.part
          BY <3>2, <4>1 DEF High
        <5>2. m % Base \in 0 .. Base - 1 /\ m = (m \div Base) * Base + (m % Base)
          BY <1>1, Digits
        <5> QED
          BY <5>1, <5>2
      <4> QED
        BY <1>1, <1>2, <2>1, <4>1, <4>2
    <3>4. Step < Base
      BY <1>1, <1>2, <2>1
    <3>5. ~ (n + Step >= W)
      <4>1. SUFFICES ASSUME n + Step >= W PROVE FALSE
        OBVIOUS
      <4>2. n + Step - W < Base
        BY <1>1, <1>2, <1>3, <3>4
      <4>3. (n + Step) % W = n + Step - W
        BY <1>5, <4>1
      <4>4. job.part * Base < Step
        BY <1>1, <1>2, <1>3, <2>1, <3>3, <4>3
      <4>5. job.part = 0
        <5>1. SUFFICES ASSUME job.part # 0 PROVE FALSE
          OBVIOUS
        <5>2. PICK z \in Nat : job.part = z + 1
          <6>1. job.part - 1 \in Nat /\ job.part = (job.part - 1) + 1
            BY <5>1, JobType, Constants
          <6> QED
            BY <6>1
        <5>3. job.part * Base = z * Base + Base /\ z * Base \in Nat
          BY <1>1, <5>2
        <5> QED
          BY <1>1, <3>4, <4>4, <5>3
      <4>6. Limit = Base
        BY <1>1, <1>2, <2>1, <4>5
      <4> QED
        BY <1>1, <1>2, <1>3, <3>4, <4>1, <4>6
    <3> QED
      BY <1>1, <1>2, <1>3, <1>5, <2>1, <3>3, <3>5
  <2>2. CASE ~ job.masked
    <3>1. ~ (n > (n + Step) % W)
      BY <2>2 DEF Overflows
    <3>2. Limit = W
      BY <2>2 DEF Limit
    <3> QED
      BY <1>1, <1>2, <1>3, <1>5, <3>1, <3>2
  <2> QED
    BY <2>1, <2>2
<1>7. n + Step = Origin + Offset(l) + (k + 1) * Step /\ k + 1 \in Nat
  <2>1. (k + 1) * Step = k * Step + Step /\ k * Step \in Nat
    BY <1>1
  <2> QED
    BY <1>1, <1>2, <1>4, <2>1
<1>8. n + Step \in Origin .. Limit - 1
  BY <1>1, <1>2, <1>3, <1>6
<1> QED
  BY <1>6, <1>7, <1>8 DEF OfLane

----------------------------------------------------------------------------
(* The invariant.                                                          *)

LEMMA InitHolds == Init => NInv
<1> SUFFICES ASSUME Init PROVE NInv
  OBVIOUS
<1>1. /\ kind \in Kinds /\ job \in Jobs /\ on = Lanes(kind) /\ hashed = {} /\ again = FALSE
      /\ input = [l \in on |-> [i \in 0 .. Inputs - 1 |-> (First(l) + i * Step) % W]]
      /\ next = [l \in on |-> (First(l) + Inputs * Step) % W]
  BY DEF Init
<1>2. \A l \in Lanes(kind) : First(l) \in Nat
  <2> TAKE l \in Lanes(kind)
  <2>1. job.start + Offset(l) \in Nat
    BY <1>1, OffsetType, JobType, Constants
  <2>2. PICK n \in 0 .. W - 1 : n = (job.start + Offset(l)) % W
    BY <2>1, ModSmall, Constants
  <2>3. High(n) \in 0 .. Base - 1 /\ n % Base \in 0 .. Base - 1
    BY <2>2, HighDigit, Constants DEF W, High
  <2>4. High(job.blob) \in 0 .. Base - 1
    BY <1>1, JobType, HighDigit, Constants DEF W, High
  <2>5. DigitOr(High(n), High(job.blob)) \in 0 .. Base - 1
    BY <2>3, <2>4, NoncesAssumption
  <2>6. PICK d \in Nat : d = DigitOr(High(n), High(job.blob))
    BY <2>5, Constants
  <2>7. d * Base + (n % Base) \in Nat
    BY <2>3, <2>6, Constants
  <2> QED
    BY <2>2, <2>3, <2>6, <2>7 DEF First
<1>3. \A l \in Lanes(kind), i \in Nat : (First(l) + i * Step) % W \in 0 .. W - 1
  <2> TAKE l \in Lanes(kind), i \in Nat
  <2>1. First(l) + i * Step \in Nat
    BY <1>2, Constants
  <2> QED
    BY <2>1, ModSmall, Constants
<1>4. TypeInv
  <2>1. next \in [Lanes(kind) -> 0 .. W - 1]
    BY <1>1, <1>3, Constants
  <2>2. kind # "cn" => input \in [Lanes(kind) -> [{0} -> 0 .. W - 1]]
    BY <1>1, <1>3 DEF Inputs
  <2> QED
    BY <1>1, <2>1, <2>2 DEF TypeInv
<1>5. ASSUME kind # "cn", HasRoom, NEW l \in on
      PROVE  InOrder(l)
  <2>1. /\ First(l) = Origin + Offset(l) /\ OfLane(l, First(l)) /\ OfLane(l, First(l) + Step)
        /\ (First(l) + Step) % W = First(l) + Step
        /\ First(l) \in 0 .. W - 1
    BY <1>1, <1>5, FirstIs
  <2>2. Inputs = 1 /\ 0 \in 0 .. Inputs - 1
    BY <1>5 DEF Inputs
  <2>3. First(l) + 0 * Step = First(l) /\ First(l) + 1 * Step = First(l) + Step /\ First(l) \in Nat
    BY <1>1, <1>2, Constants
  <2>4. First(l) % W = First(l)
    <3>1. \A x \in Nat : x < W => x % W = x
      BY ModSmall, Constants
    <3>2. First(l) < W
      BY <2>1, <2>3, Constants
    <3> QED
      BY <2>3, <3>1, <3>2
  <2>5. input[l][0] = First(l) /\ next[l] = First(l) + Step
    BY <1>1, <2>1, <2>2, <2>3, <2>4
  <2> QED
    BY <1>1, <2>1, <2>3, <2>5, Constants DEF InOrder
<1>6. LanesInv
  BY <1>1, <1>5 DEF LanesInv
<1> QED
  BY <1>4, <1>6 DEF NInv

\* A lane that is not "cn" has one input, and hashes what was not hashed.
LEMMA HashesAnew ==
    ASSUME NInv, kind # "cn", HasRoom, NEW l \in on, HashInputs(l)
    PROVE  /\ hashed' = hashed \cup {input[l][0]}
           /\ ~ again'
<1>1. {input[l][i] : i \in DOMAIN input[l]} = {input[l][0]}
  BY DEF NInv, TypeInv
<1>2. input[l][0] \notin hashed
  <2>1. OfLane(l, input[l][0]) /\ (\A n \in hashed : OfLane(l, n) => n < input[l][0])
    BY DEF NInv, LanesInv, InOrder
  <2>2. input[l][0] \in Int
    BY RangeType DEF NInv, TypeInv, OfLane
  <2> QED
    BY <2>1, <2>2
<1>3. Cardinality({input[l][0]}) = 1 /\ Inputs = 1
  BY FS_Singleton DEF Inputs
<1>4. ~ again
  BY DEF NInv, LanesInv
<1>5. {input[l][0]} \cap hashed = {}
  BY <1>2
<1>6. /\ hashed' = hashed \cup {input[l][0]}
      /\ again' = (again \/ {input[l][0]} \cap hashed # {} \/ Cardinality({input[l][0]}) < Inputs)
  BY <1>1 DEF HashInputs
<1>7. ~ (Cardinality({input[l][0]}) < Inputs)
  BY <1>3
<1> QED
  BY <1>4, <1>5, <1>6, <1>7

\* What one lane hashes leaves the order of the others alone.
LEMMA OthersKeep ==
    ASSUME NInv, kind # "cn", HasRoom, NEW l \in on, NEW m \in on, l # m,
           NEW S, S \subseteq hashed \cup {input[l][0]}
    PROVE  \A n \in S : OfLane(m, n) => n < input[m][0]
<1>1. OfLane(l, input[l][0]) /\ (\A n \in hashed : OfLane(m, n) => n < input[m][0])
  BY DEF NInv, LanesInv, InOrder
<1>2. l \in Lanes(kind) /\ m \in Lanes(kind) /\ Origin \in Nat
  BY RangeType DEF NInv, TypeInv
<1>3. ~ OfLane(m, input[l][0])
  BY <1>1, <1>2, LanesDisjoint
<1> QED
  BY <1>1, <1>3

\* The range and the lanes are those of the job.
LEMMA SameJob ==
    ASSUME UNCHANGED <<kind, job>>
    PROVE  /\ Origin' = Origin /\ Limit' = Limit /\ (HasRoom' <=> HasRoom)
           /\ Step' = Step /\ Lanes(kind)' = Lanes(kind)
           /\ \A l, n : OfLane(l, n)' <=> OfLane(l, n)
  BY DEF Origin, Limit, HasRoom, Step, Lanes, OfLane, Offset, High

\* A lane whose input and next nonce stay keeps its order, whatever another hashes.
LEMMA OtherKeepsOrder ==
    ASSUME NInv, kind # "cn", HasRoom, UNCHANGED <<kind, job>>,
           NEW l \in on, NEW m \in on, l # m,
           input'[m] = input[m], next'[m] = next[m],
           hashed' \subseteq hashed \cup {input[l][0]}
    PROVE  InOrder(m)'
<1>1. InOrder(m)
  BY DEF NInv, LanesInv
<1>2. \A n \in hashed' : OfLane(m, n) => n < input[m][0]
  BY OthersKeep
<1>3. \A n : OfLane(m, n)' <=> OfLane(m, n)
  BY SameJob
<1>4. Step' = Step
  BY SameJob
<1> QED
  BY <1>1, <1>2, <1>3, <1>4 DEF InOrder

\* The nonce of a lane, its input and its place on the lane.
LEMMA LaneFacts ==
    ASSUME NInv, kind # "cn", HasRoom, NEW l \in on
    PROVE  /\ l \in Lanes(kind) /\ InOrder(l)
           /\ input[l][0] \in Nat /\ next[l] \in Nat /\ Step \in Nat \ {0}
           /\ input[l][0] <= next[l]
           /\ input[l][0] \in Origin .. Limit - 1
           /\ \A n \in hashed : n \in Nat
<1>1. l \in Lanes(kind) /\ InOrder(l) /\ job \in Jobs /\ hashed \subseteq Origin .. Limit - 1
  BY DEF NInv, TypeInv, LanesInv
<1>2. Origin \in Nat /\ Limit \in Nat /\ Step \in Nat \ {0}
  BY <1>1, RangeType, Constants
<1>3. input[l][0] \in Origin .. Limit - 1 /\ next[l] \in Origin .. Limit - 1
  BY <1>1 DEF InOrder, OfLane
<1>4. input[l][0] <= next[l]
  BY <1>1, <1>2, <1>3 DEF InOrder
<1> QED
  BY <1>1, <1>2, <1>3, <1>4

\* The step of a nonce keeps its type.
LEMMA NextType ==
    ASSUME TypeInv, NEW l \in on, NEW k \in Nat
    PROVE  (next[l] + k) % W \in 0 .. W - 1
<1>1. next[l] + k \in Nat
  BY Constants DEF TypeInv
<1> QED
  BY <1>1, ModSmall, Constants

LEMMA ExecuteC29Step ==
    ASSUME NInv, NEW l \in on, ExecuteC29(l)
    PROVE  NInv'
<1>1. kind = "c29" /\ UNCHANGED <<kind, job>> /\ HashInputs(l) /\ Inputs = 1
  BY DEF ExecuteC29, Round, Inputs
<1>2. /\ next' = [next EXCEPT ![l] = (next[l] + Step) % W]
      /\ on' = IF Overflows(next[l], next'[l]) THEN on \ {l} ELSE on
      /\ input' = [input EXCEPT ![l] = [i \in {0} |-> next[l]]]
  <2>1. 1 * Step = Step
    BY Constants
  <2> QED
    BY <1>1, <2>1 DEF ExecuteC29, Round
<1>3. l \in Lanes(kind) /\ next[l] \in 0 .. W - 1 /\ (next[l] + Step) % W \in 0 .. W - 1
  BY NextType, Constants DEF NInv, TypeInv
<1>4. TypeInv'
  <2>1. next' \in [Lanes(kind) -> 0 .. W - 1]
    BY <1>2, <1>3 DEF NInv, TypeInv
  <2>2. input' \in [Lanes(kind) -> [{0} -> 0 .. W - 1]]
    BY <1>1, <1>2, <1>3 DEF NInv, TypeInv
  <2>3. again' \in BOOLEAN /\ on' \subseteq on
    BY <1>1, <1>2 DEF HashInputs, NInv, TypeInv
  <2>4. Lanes(kind)' = Lanes(kind)
    BY <1>1, SameJob
  <2> QED
    BY <1>1, <2>1, <2>2, <2>3, <2>4 DEF NInv, TypeInv, W
<1>5. ASSUME HasRoom
      PROVE  ~ again' /\ hashed' \subseteq Origin .. Limit - 1 /\ \A m \in on' : InOrder(m)'
  <2>1. hashed' = hashed \cup {input[l][0]} /\ ~ again'
    BY <1>1, <1>5, HashesAnew
  <2>2. hashed' \subseteq Origin .. Limit - 1
    BY <1>1, <1>5, <2>1, LaneFacts DEF NInv, LanesInv
  <2>3. ASSUME NEW m \in on', m # l
        PROVE  InOrder(m)'
    <3>1. m \in on /\ input'[m] = input[m] /\ next'[m] = next[m]
      BY <1>1, <1>2, <2>3 DEF NInv, TypeInv
    <3> QED
      BY <1>1, <1>5, <2>1, <2>3, <3>1, OtherKeepsOrder
  <2>4. ASSUME l \in on'
        PROVE  InOrder(l)'
    <3>1. next'[l] = (next[l] + Step) % W /\ input'[l][0] = next[l]
      BY <1>1, <1>2, <1>3 DEF NInv, TypeInv
    <3>2. ~ Overflows(next[l], (next[l] + Step) % W)
      BY <1>2, <2>4, <3>1
    <3>3. job \in Jobs /\ OfLane(l, next[l]) /\ next[l] = input[l][0] + Step
      BY <1>1, <1>5, LaneFacts DEF NInv, TypeInv, InOrder
    <3>4. next'[l] = next[l] + Step /\ OfLane(l, next'[l])
      BY <1>3, <1>5, <3>1, <3>2, <3>3, StepStaysOnLane
    <3>5. \A n \in hashed' : OfLane(l, n) => n < input'[l][0]
      <4>1. \A n \in hashed : OfLane(l, n) => n < input[l][0]
        BY <1>1, <1>5, LaneFacts DEF InOrder
      <4>2. /\ input[l][0] \in Nat /\ Step \in Nat \ {0} /\ \A n \in hashed : n \in Nat
        BY <1>1, <1>5, LaneFacts
      <4> QED
        BY <2>1, <3>1, <3>3, <4>1, <4>2
    <3>6. \A n : OfLane(l, n)' <=> OfLane(l, n)
      BY <1>1, SameJob
    <3>7. Step' = Step /\ kind' = "c29"
      BY <1>1, SameJob
    <3> QED
      BY <3>1, <3>3, <3>4, <3>5, <3>6, <3>7 DEF InOrder
  <2> QED
    BY <2>1, <2>2, <2>3, <2>4
<1>6. Origin' = Origin /\ Limit' = Limit /\ (HasRoom' <=> HasRoom)
  BY <1>1, SameJob
<1>7. LanesInv'
  BY <1>5, <1>6 DEF LanesInv
<1> QED
  BY <1>4, <1>7 DEF NInv

LEMMA RxLoopStep ==
    ASSUME NInv, NEW l \in on, RxLoop(l)
    PROVE  NInv'
<1>1. kind = "rx" /\ UNCHANGED <<kind, job>>
      /\ next' = [next EXCEPT ![l] = (next[l] + Step) % W]
  BY DEF RxLoop
<1>2. l \in Lanes(kind) /\ next[l] \in 0 .. W - 1 /\ (next[l] + Step) % W \in 0 .. W - 1
  BY NextType, Constants DEF NInv, TypeInv
<1>3. next' \in [Lanes(kind) -> 0 .. W - 1] /\ next'[l] = (next[l] + Step) % W
  BY <1>1, <1>2 DEF NInv, TypeInv
<1>4. /\ Lanes(kind)' = Lanes(kind) /\ Origin' = Origin /\ Limit' = Limit
      /\ (HasRoom' <=> HasRoom)
  BY <1>1, SameJob
<1>5. CASE on' = on \ {l} /\ UNCHANGED <<input, hashed, again>>
  <2>1. TypeInv'
    BY <1>1, <1>3, <1>4, <1>5 DEF NInv, TypeInv, W
  <2>2. ASSUME HasRoom, NEW m \in on'
        PROVE  InOrder(m)'
    <3>1. m \in on /\ m # l /\ input'[m] = input[m] /\ next'[m] = next[m]
      BY <1>1, <1>5, <2>2 DEF NInv, TypeInv
    <3>2. hashed' \subseteq hashed \cup {input[l][0]}
      BY <1>5
    <3> QED
      BY <1>1, <2>2, <3>1, <3>2, OtherKeepsOrder
  <2>3. LanesInv'
    BY <1>1, <1>4, <1>5, <2>2 DEF NInv, LanesInv
  <2> QED
    BY <2>1, <2>3 DEF NInv
<1>6. CASE /\ ~ Overflows(next[l], next'[l]) /\ HashInputs(l) /\ UNCHANGED on
           /\ input' = [input EXCEPT ![l] = [i \in {0} |-> next'[l]]]
  <2>1. TypeInv'
    <3>1. input' \in [Lanes(kind) -> [{0} -> 0 .. W - 1]]
      BY <1>1, <1>2, <1>3, <1>6 DEF NInv, TypeInv
    <3>2. again' \in BOOLEAN
      BY <1>6 DEF HashInputs, NInv, TypeInv
    <3> QED
      BY <1>1, <1>3, <1>4, <1>6, <3>1, <3>2 DEF NInv, TypeInv, W
  <2>2. ASSUME HasRoom
        PROVE  ~ again' /\ hashed' \subseteq Origin .. Limit - 1 /\ \A m \in on' : InOrder(m)'
    <3>1. hashed' = hashed \cup {input[l][0]} /\ ~ again'
      BY <1>1, <1>6, <2>2, HashesAnew
    <3>2. hashed' \subseteq Origin .. Limit - 1
      BY <1>1, <2>2, <3>1, LaneFacts DEF NInv, LanesInv
    <3>3. ASSUME NEW m \in on, m # l
          PROVE  InOrder(m)'
      <4>1. input'[m] = input[m] /\ next'[m] = next[m]
        BY <1>1, <1>6, <3>3 DEF NInv, TypeInv
      <4> QED
        BY <1>1, <2>2, <3>1, <3>3, <4>1, OtherKeepsOrder
    <3>4. InOrder(l)'
      <4>1. input'[l][0] = next'[l]
        BY <1>1, <1>2, <1>6 DEF NInv, TypeInv
      <4>2. job \in Jobs /\ OfLane(l, next[l])
        BY <1>1, <2>2, LaneFacts DEF NInv, TypeInv, InOrder
      <4>3. next'[l] = next[l] + Step /\ OfLane(l, next'[l])
        BY <1>2, <1>3, <1>6, <2>2, <4>2, StepStaysOnLane
      <4>4. \A n \in hashed' : OfLane(l, n) => n < input'[l][0]
        <5>1. \A n \in hashed : OfLane(l, n) => n < input[l][0]
          BY <1>1, <2>2, LaneFacts DEF InOrder
        <5>2. /\ input[l][0] \in Nat /\ next[l] \in Nat /\ Step \in Nat \ {0}
              /\ input[l][0] <= next[l] /\ \A n \in hashed : n \in Nat
          BY <1>1, <2>2, LaneFacts
        <5>3. input[l][0] < next'[l]
          BY <4>3, <5>2
        <5>4. \A n \in hashed : OfLane(l, n) => n < next'[l]
          BY <4>3, <5>1, <5>2
        <5> QED
          BY <3>1, <4>1, <5>3, <5>4
      <4>5. \A n : OfLane(l, n)' <=> OfLane(l, n)
        BY <1>1, SameJob
      <4>6. kind' = "rx" /\ next'[l] \in Int
        BY <1>1, <1>2, <1>3
      <4> QED
        BY <4>1, <4>3, <4>4, <4>5, <4>6 DEF InOrder
    <3> QED
      BY <1>6, <3>1, <3>2, <3>3, <3>4
  <2>3. LanesInv'
    BY <1>4, <2>2 DEF LanesInv
  <2> QED
    BY <2>1, <2>3 DEF NInv
<1> QED
  BY <1>5, <1>6 DEF RxLoop

LEMMA ExecuteCnStep ==
    ASSUME NInv, NEW l \in on, ExecuteCn(l)
    PROVE  NInv'
<1>1. kind = "cn" /\ UNCHANGED <<kind, job>> /\ HashInputs(l)
      /\ next' = [next EXCEPT ![l] = (next[l] + Inputs * Step) % W] /\ on' \subseteq on
  BY DEF ExecuteCn, Round
<1>2. (next[l] + Inputs * Step) % W \in 0 .. W - 1
  BY NextType, Constants DEF NInv
<1>3. TypeInv'
  <2>1. next' \in [Lanes(kind) -> 0 .. W - 1]
    BY <1>1, <1>2 DEF NInv, TypeInv
  <2>2. again' \in BOOLEAN /\ Lanes(kind)' = Lanes(kind)
    BY <1>1, SameJob DEF HashInputs, NInv, TypeInv
  <2> QED
    BY <1>1, <2>1, <2>2 DEF NInv, TypeInv, W
<1>4. LanesInv'
  BY <1>1 DEF LanesInv
<1> QED
  BY <1>3, <1>4 DEF NInv

LEMMA StutterKeeps ==
    ASSUME NInv, UNCHANGED vars
    PROVE  NInv'
<1>1. UNCHANGED <<kind, job>> /\ UNCHANGED <<on, next, input, hashed, again>>
  BY DEF vars
<1>2. TypeInv'
  BY <1>1 DEF NInv, TypeInv, Lanes, W
<1>3. /\ Origin' = Origin /\ Limit' = Limit /\ (HasRoom' <=> HasRoom) /\ Step' = Step
      /\ \A l, n : OfLane(l, n)' <=> OfLane(l, n)
  BY <1>1, SameJob
<1>4. ASSUME kind # "cn", HasRoom, NEW l \in on
      PROVE  InOrder(l)'
  BY <1>1, <1>3, <1>4 DEF NInv, LanesInv, InOrder
<1>5. LanesInv'
  BY <1>1, <1>3, <1>4 DEF NInv, LanesInv
<1> QED
  BY <1>2, <1>5 DEF NInv

LEMMA NInvHolds == Spec => []NInv
<1>1. ASSUME NInv, [Next]_vars
      PROVE  NInv'
  <2>1. CASE Next
    BY <1>1, <2>1, ExecuteCnStep, ExecuteC29Step, RxLoopStep DEF Next
  <2> QED
    BY <1>1, <2>1, StutterKeeps
<1> QED
  BY <1>1, InitHolds, PTL DEF Spec

----------------------------------------------------------------------------
(* What results are named after.                                           *)

\* A RandomX thread is at its first hash, or beyond the nonce that it steps over.
Skips(l) ==
    \/ input[l][0] = First(l) /\ next[l] = First(l) + Step
    \/ input[l][0] = next[l] /\ next[l] > First(l) + Step

NamesInv ==
    /\ kind # "rx" => \A r \in named : \E n : r = Result(n, n)
    /\ kind = "rx" /\ HasRoom =>
          /\ \A r \in named : \/ \E n \in hashed : r = Result(n, n)
                              \/ \E l \in Lanes(kind) : r = Result(First(l) + Step, First(l))
          /\ \A l \in Lanes(kind) : First(l) + Step \notin hashed
          /\ \A l \in on : Skips(l)

\* The first nonces are those of the job.
LEMMA SameFirst ==
    ASSUME UNCHANGED <<kind, job>>
    PROVE  \A l : First(l)' = First(l)
  BY DEF First, Offset, High, W

LEMMA NamesStart == Init => NamesInv
<1> SUFFICES ASSUME Init PROVE NamesInv
  OBVIOUS
<1>1. named = {} /\ hashed = {} /\ on = Lanes(kind) /\ job \in Jobs
  BY DEF Init
<1>2. ASSUME kind = "rx", HasRoom, NEW l \in on
      PROVE  Skips(l)
  <2>1. /\ First(l) = Origin + Offset(l) /\ (First(l) + Step) % W = First(l) + Step
        /\ First(l) \in 0 .. W - 1
    BY <1>1, <1>2, FirstIs
  <2>2. First(l) + 0 * Step = First(l) /\ First(l) + 1 * Step = First(l) + Step /\ First(l) \in Nat
    BY <2>1, Constants
  <2>3. First(l) % W = First(l)
    <3>1. \A x \in Nat : x < W => x % W = x
      BY ModSmall, Constants
    <3>2. First(l) < W
      BY <2>1, <2>2, Constants
    <3> QED
      BY <2>2, <3>1, <3>2
  <2>4. Inputs = 1 /\ 0 \in 0 .. Inputs - 1
    BY <1>2 DEF Inputs
  <2>5. input[l][0] = First(l) /\ next[l] = First(l) + Step
    BY <2>1, <2>2, <2>3, <2>4 DEF Init
  <2> QED
    BY <2>5 DEF Skips
<1> QED
  BY <1>1, <1>2 DEF NamesInv

\* No thread is at the nonce that a thread steps over.
LEMMA NotStepped ==
    ASSUME NInv, NamesInv, kind = "rx", HasRoom, NEW l \in on, NEW m \in Lanes(kind)
    PROVE  input[l][0] # First(m) + Step
<1>1. l \in Lanes(kind) /\ OfLane(l, input[l][0]) /\ job \in Jobs /\ Skips(l)
  BY DEF NInv, TypeInv, LanesInv, InOrder, NamesInv
<1>2. Origin \in Nat /\ Step \in Nat \ {0} /\ W \in Nat
  BY <1>1, RangeType, Constants
<1>3. OfLane(m, First(m) + Step) /\ First(m) \in 0 .. W - 1
  BY <1>1, FirstIs
<1>4. CASE l = m
  <2>1. First(l) \in Nat /\ First(l) # First(l) + Step
    BY <1>2, <1>3, <1>4
  <2>2. CASE input[l][0] = First(l)
    BY <1>4, <2>1, <2>2
  <2>3. CASE input[l][0] = next[l] /\ next[l] > First(l) + Step
    <3>1. input[l][0] \in Nat /\ First(l) + Step \in Nat
      BY <1>2, <2>1, LaneFacts
    <3> QED
      BY <1>4, <2>3, <3>1
  <2> QED
    BY <1>1, <2>2, <2>3 DEF Skips
<1>5. CASE l # m
  BY <1>1, <1>2, <1>3, <1>5, LanesDisjoint
<1> QED
  BY <1>4, <1>5

\* The kinds whose results bear the nonce of the input.
LEMMA NamesExecute ==
    ASSUME NInv, NamesInv, NEW l \in on, ExecuteCn(l) \/ ExecuteC29(l)
    PROVE  NamesInv'
<1>1. kind \in {"cn", "c29"} /\ kind' = kind
  BY DEF ExecuteCn, ExecuteC29, Round
<1>2. \A r \in named' : r \in named \/ \E n : r = Result(n, n)
  BY DEF ExecuteCn, ExecuteC29
<1>3. \A r \in named : \E n : r = Result(n, n)
  BY <1>1 DEF NamesInv
<1> QED
  BY <1>1, <1>2, <1>3 DEF NamesInv, Result

\* A RandomX thread names its first hash after the nonce that it steps over, and the
\* others after themselves.
LEMMA NamesRxLoop ==
    ASSUME NInv, NamesInv, NEW l \in on, RxLoop(l)
    PROVE  NamesInv'
<1>1. kind = "rx" /\ UNCHANGED <<kind, job>>
      /\ next' = [next EXCEPT ![l] = (next[l] + Step) % W]
  BY DEF RxLoop
<1>2. /\ Lanes(kind)' = Lanes(kind) /\ Step' = Step /\ (HasRoom' <=> HasRoom)
      /\ \A m : First(m)' = First(m)
  BY <1>1, SameJob, SameFirst
<1>3. SUFFICES ASSUME HasRoom
               PROVE  /\ \A r \in named' : \/ \E n \in hashed' : r = Result(n, n)
                                           \/ \E m \in Lanes(kind) : r = Result(First(m) + Step, First(m))
                      /\ \A m \in Lanes(kind) : First(m) + Step \notin hashed'
                      /\ \A m \in on' : Skips(m)'
  BY <1>1, <1>2 DEF NamesInv, Result
<1>4. /\ \A r \in named : \/ \E n \in hashed : r = Result(n, n)
                          \/ \E m \in Lanes(kind) : r = Result(First(m) + Step, First(m))
      /\ \A m \in Lanes(kind) : First(m) + Step \notin hashed
      /\ \A m \in on : Skips(m)
  BY <1>1, <1>3 DEF NamesInv
<1>5. l \in Lanes(kind) /\ next \in [Lanes(kind) -> 0 .. W - 1] /\ on \subseteq Lanes(kind)
      /\ input \in [Lanes(kind) -> [{0} -> 0 .. W - 1]]
  BY <1>1 DEF NInv, TypeInv
<1>6. ASSUME NEW m \in on, m # l, input'[m] = input[m]
      PROVE  Skips(m)'
  <2>1. next'[m] = next[m]
    BY <1>1, <1>5, <1>6
  <2> QED
    BY <1>2, <1>4, <1>6, <2>1 DEF Skips
<1>7. CASE on' = on \ {l} /\ UNCHANGED <<input, hashed, again, named>>
  BY <1>4, <1>6, <1>7
<1>8. CASE /\ ~ Overflows(next[l], next'[l]) /\ HashInputs(l) /\ UNCHANGED on
           /\ named' = named \cup {Result((next'[l] - Step) % W, input[l][0])}
           /\ input' = [input EXCEPT ![l] = [i \in {0} |-> next'[l]]]
  <2>1. hashed' = hashed \cup {input[l][0]}
    BY <1>1, <1>3, <1>8, HashesAnew
  <2>2. next'[l] = (next[l] + Step) % W
    BY <1>1, <1>5
  <2>3. job \in Jobs /\ OfLane(l, next[l])
    BY <1>1, <1>3, LaneFacts DEF NInv, TypeInv, InOrder
  <2>4. next'[l] = next[l] + Step
    BY <1>3, <1>5, <1>8, <2>2, <2>3, StepStaysOnLane
  <2>5. (next'[l] - Step) % W = next[l]
    <3>1. \A x \in Nat : x < W => x % W = x
      BY ModSmall, Constants
    <3>2. next[l] \in Nat /\ next[l] < W /\ next'[l] - Step = next[l]
      BY <1>5, <2>4, Constants
    <3> QED
      BY <3>1, <3>2
  <2>6. Skips(l) /\ input[l][0] \in Nat /\ next[l] \in Nat /\ Step \in Nat \ {0}
    BY <1>1, <1>3, <1>4, LaneFacts
  <2>7. ASSUME NEW r \in named'
        PROVE  \/ \E n \in hashed' : r = Result(n, n)
               \/ \E m \in Lanes(kind) : r = Result(First(m) + Step, First(m))
    <3>1. CASE r \in named
      BY <1>4, <2>1, <3>1
    <3>2. CASE r = Result(next[l], input[l][0])
      <4>1. CASE input[l][0] = First(l) /\ next[l] = First(l) + Step
        BY <1>5, <3>2, <4>1
      <4>2. CASE input[l][0] = next[l]
        BY <2>1, <3>2, <4>2
      <4> QED
        BY <2>6, <4>1, <4>2 DEF Skips
    <3> QED
      BY <1>8, <2>5, <2>7, <3>1, <3>2
  <2>8. \A m \in Lanes(kind) : First(m) + Step \notin hashed'
    BY <1>1, <1>3, <1>4, <2>1, NotStepped
  <2>9. Skips(l)'
    <3>1. First(l) \in Nat
      <4>1. First(l) \in 0 .. W - 1
        BY <1>3, <1>5, <2>3, FirstIs
      <4> QED
        BY <4>1, Constants
    <3>2. next[l] >= First(l) + Step
      BY <2>6, <3>1 DEF Skips
    <3>3. input'[l][0] = next'[l]
      BY <1>5, <1>8
    <3>4. next'[l] > First(l) + Step
      BY <2>4, <2>6, <3>1, <3>2
    <3> QED
      BY <1>2, <3>3, <3>4 DEF Skips
  <2>10. ASSUME NEW m \in on', m # l
         PROVE  Skips(m)'
    <3>1. m \in on /\ input'[m] = input[m]
      BY <1>5, <1>8, <2>10
    <3> QED
      BY <1>6, <2>10, <3>1
  <2> QED
    BY <2>7, <2>8, <2>9, <2>10
<1> QED
  BY <1>7, <1>8 DEF RxLoop

LEMMA NamesInvHolds == Spec => [](NInv /\ NamesInv)
<1>1. ASSUME NInv, NamesInv, [Next]_vars
      PROVE  NamesInv'
  <2>1. CASE UNCHANGED vars
    <3>1. UNCHANGED <<kind, job>> /\ UNCHANGED <<on, next, input, hashed, named>>
      BY <2>1 DEF vars
    <3>2. /\ Lanes(kind)' = Lanes(kind) /\ Step' = Step /\ (HasRoom' <=> HasRoom)
          /\ \A l : First(l)' = First(l)
      BY <3>1, SameJob, SameFirst
    <3> QED
      BY <1>1, <3>1, <3>2 DEF NamesInv, Skips, Result
  <2> QED
    BY <1>1, <2>1, NamesExecute, NamesRxLoop DEF Next
<1> QED
  BY <1>1, NamesStart, NInvHolds, PTL DEF Spec

----------------------------------------------------------------------------
(* Theorems.                                                               *)

\* A job that has room shares out its nonces: whatever the numbers of workers and
\* threads, none is hashed twice, and each has the pool's part, until the checks
\* of the lanes stop them (mominer-job.cpp:343-383, mominer-core.cpp:519-529).
THEOREM LanesStayApart == Spec => []LanesKeepApart
<1>1. NInv => LanesKeepApart
  <2> SUFFICES ASSUME NInv, kind # "cn", HasRoom
               PROVE  PoolPartKept /\ ~ again
    BY DEF LanesKeepApart
  <2>1. ~ again /\ job \in Jobs /\ hashed \subseteq Origin .. Limit - 1
    BY DEF NInv, TypeInv, LanesInv
  <2>2. ASSUME job.masked, NEW n \in hashed
        PROVE  High(n) = job.part
    <3>1. job.part * Base \in Nat /\ Origin >= job.part * Base
          /\ Limit = job.part * Base + Base /\ Origin \in Nat
      BY <2>1, <2>2, RangeType
    <3>2. n \in Origin .. Limit - 1 /\ job.part \in Nat /\ Base \in Nat \ {0}
      BY <2>1, <2>2, JobType, Constants
    <3>3. /\ n - job.part * Base \in 0 .. Base - 1
          /\ n = job.part * Base + (n - job.part * Base)
      BY <3>1, <3>2
    <3>4. PICK r \in 0 .. Base - 1 : n = job.part * Base + r
      BY <3>3
    <3> QED
      BY <3>2, <3>4, DigitsAre DEF High
  <2> QED
    BY <2>1, <2>2 DEF PoolPartKept
<1> QED
  BY <1>1, NInvHolds, PTL

\* Results name the nonces that were hashed, but for the first of each RandomX
\* thread, and the hashes of two nonces are never named alike, whatever the numbers
\* of workers and threads (mominer-job.cpp:348-350, 382, mominer-core.cpp:511-524).
THEOREM ResultsAreNamedOnce == Spec => []NamedOnce
<1>1. NInv /\ NamesInv => NamedOnce
  <2> SUFFICES ASSUME NInv, NamesInv, HasRoom, NEW r \in named
               PROVE  /\ r.nonce # r.of => kind = "rx" /\ \E l \in Lanes(kind) : r.of = First(l)
                      /\ \A q \in named : q.nonce = r.nonce => q = r
    BY DEF NamedOnce
  <2>1. \A n, k : Result(n, k).nonce = n /\ Result(n, k).of = k
    BY DEF Result
  <2>2. CASE kind # "rx"
    <3>1. \A q \in named : \E n : q = Result(n, n)
      BY <2>2 DEF NamesInv
    <3> QED
      BY <2>1, <3>1
  <2>3. CASE kind = "rx"
    <3>1. /\ \A q \in named : \/ \E n \in hashed : q = Result(n, n)
                              \/ \E l \in Lanes(kind) : q = Result(First(l) + Step, First(l))
          /\ \A l \in Lanes(kind) : First(l) + Step \notin hashed
      BY <2>3 DEF NamesInv
    <3>2. ASSUME NEW l \in Lanes(kind), NEW m \in Lanes(kind), First(l) + Step = First(m) + Step
          PROVE  l = m
      <4>1. job \in Jobs
        BY DEF NInv, TypeInv
      <4>2. OfLane(l, First(l) + Step) /\ OfLane(m, First(m) + Step) /\ Origin \in Nat
        BY <4>1, FirstIs, RangeType
      <4> QED
        BY <3>2, <4>2, LanesDisjoint
    <3>3. ASSUME NEW q \in named, q.nonce = r.nonce
          PROVE  q = r
      <4>1. CASE \E n \in hashed : r = Result(n, n)
        BY <2>1, <3>1, <3>3, <4>1
      <4>2. CASE \E l \in Lanes(kind) : r = Result(First(l) + Step, First(l))
        <5>1. PICK l \in Lanes(kind) : r = Result(First(l) + Step, First(l))
          BY <4>2
        <5>2. PICK m \in Lanes(kind) : q = Result(First(m) + Step, First(m))
          BY <2>1, <3>1, <3>3, <5>1
        <5>3. l = m
          BY <2>1, <3>2, <3>3, <5>1, <5>2
        <5> QED
          BY <5>1, <5>2, <5>3
      <4> QED
        BY <3>1, <4>1, <4>2
    <3>4. r.nonce # r.of => \E l \in Lanes(kind) : r.of = First(l)
      BY <2>1, <3>1
    <3> QED
      BY <2>3, <3>3, <3>4
  <2> QED
    BY <2>2, <2>3
<1> QED
  BY <1>1, NamesInvHolds, PTL
=============================================================================
