----------------------------- MODULE PitProofs -----------------------------
(***************************************************************************)
(* Theorems about module Pit, for every width of a byte, every rate of the *)
(* counter, and whatever the guest writes.                                 *)
(*                                                                         *)
(* Words stay whole because of what the flip-flops say about the histories *)
(* (Held, Given).  That ticks follow time needs the value of the counter   *)
(* in a form that sums up: the difference of pit_get_count is              *)
(*     count - ticks = Width * turn + count * lap + value,                 *)
(* and both the turn and the lap only go down.  A look that finds a larger *)
(* value has seen one of them change, so the interrupts are at most Most;  *)
(* a look that comes soon enough after the last sees no two changes at     *)
(* once, and misses one only where a turn ends inside a lap, so they are   *)
(* at least Fewest.                                                        *)
(***************************************************************************)
EXTENDS Pit, TLAPS, SequenceTheorems

----------------------------------------------------------------------------
(* Numbers.                                                                *)

\* Division by a positive number, of a negative one too.
LEMMA Divides ==
  ASSUME NEW a \in Int, NEW n \in Nat \ {0}
  PROVE  /\ a \div n \in Int /\ a % n \in Nat /\ a % n < n
         /\ a = n * (a \div n) + (a % n)
         /\ a \in Nat => a \div n \in Nat
  OBVIOUS

\* A product grows with its factor.
LEMMA TimesGrows ==
  ASSUME NEW n \in Nat, NEW x \in Int, NEW y \in Int, x <= y
  PROVE  n * x \in Int /\ n * y \in Int /\ n * x <= n * y
  OBVIOUS

\* A quotient is what its multiple says.
LEMMA QuotientIs ==
  ASSUME NEW a \in Int, NEW n \in Nat \ {0}, NEW q \in Int
  PROVE  /\ n * q <= a => q <= a \div n
         /\ a < n * q => a \div n < q
  <1>1. /\ a \div n \in Int /\ a % n \in Nat /\ a % n < n
        /\ a = n * (a \div n) + (a % n)
      BY Divides
  <1>2. PICK k \in Int : k = a \div n
      BY <1>1
  <1>3. ASSUME k + 1 <= q PROVE n * k + n <= n * q
    <2>1. n * (k + 1) <= n * q
        BY <1>3, TimesGrows
    <2>2. n * (k + 1) = n * k + n
        OBVIOUS
    <2> QED BY <2>1, <2>2
  <1>4. ASSUME q <= k PROVE n * q <= n * k
      BY <1>4, TimesGrows
  <1>5. n * k \in Int /\ n * q \in Int
      OBVIOUS
  <1> QED BY <1>1, <1>2, <1>3, <1>4, <1>5

\* A quotient does not go down when its number goes up.
LEMMA DivGrows ==
  ASSUME NEW a \in Int, NEW b \in Int, NEW n \in Nat \ {0}, a <= b
  PROVE  a \div n <= b \div n
  <1>1. a \div n \in Int /\ n * (a \div n) <= a
      BY Divides
  <1>2. n * (a \div n) \in Int
      BY <1>1
  <1> QED BY <1>1, <1>2, QuotientIs

\* Dividing twice.
LEMMA DivDiv ==
  \A a \in Nat, m \in Nat \ {0}, n \in Nat \ {0} : (a \div m) \div n = a \div (m * n)
  <1> TAKE a \in Nat, m \in Nat \ {0}, n \in Nat \ {0}
  <1>1. m * n \in Nat \ {0}
      OBVIOUS
  <1>2. /\ a \div m \in Int /\ a % m \in Nat /\ a % m < m
        /\ a = m * (a \div m) + (a % m)
      BY Divides
  <1>3. PICK x \in Int : x = a \div m
      BY <1>2
  <1>4. /\ x \div n \in Int /\ x % n \in Nat /\ x % n < n
        /\ x = n * (x \div n) + (x % n)
      BY Divides
  <1>5. PICK y \in Int : y = x \div n
      BY <1>4
  <1>6. n * y <= x /\ x < n * y + n
      BY <1>4, <1>5
  <1>7. (m * n) * y <= a
    <2>1. m * (n * y) <= m * x
        BY <1>6, TimesGrows
    <2>2. m * (n * y) = (m * n) * y
        OBVIOUS
    <2> QED BY <1>2, <1>3, <2>1, <2>2
  <1>8. a < (m * n) * (y + 1)
    <2>1. m * (x + 1) <= m * (n * y + n)
        BY <1>6, TimesGrows
    <2>2. m * (x + 1) = m * x + m /\ m * (n * y + n) = (m * n) * (y + 1)
        OBVIOUS
    <2> QED BY <1>2, <1>3, <2>1, <2>2
  <1>9. y <= a \div (m * n) /\ a \div (m * n) < y + 1 /\ a \div (m * n) \in Int
      BY <1>1, <1>7, <1>8, QuotientIs, Divides
  <1> QED BY <1>1, <1>3, <1>5, <1>9

\* A word of two bytes fits in the difference several times.
LEMMA WidthIs ==
  /\ Byte \in Nat \ {0, 1} /\ Scale \in Nat \ {0}
  /\ Byte * Byte \in Nat \ {0} /\ Width \in Nat \ {0} /\ Byte * Byte < Width
  <1>1. Byte \in Nat \ {0, 1} /\ Scale \in Nat \ {0}
      BY ByteOK
  <1>2. PICK w \in Nat : w = Byte * Byte
      BY <1>1
  <1>3. w >= 2
    <2>1. Byte * 2 <= Byte * Byte
        BY <1>1, TimesGrows
    <2> QED BY <1>1, <1>2, <2>1
  <1>4. Width = w * w
      BY <1>1, <1>2 DEF Width
  <1>5. w * 2 <= w * w
      BY <1>3, TimesGrows
  <1> QED BY <1>1, <1>2, <1>3, <1>4, <1>5

----------------------------------------------------------------------------
(* The counter, s ticks after a load of c.                                 *)

Value(c, s) == ((c - s) % Width) % c
Turn(c, s) == (c - s) \div Width
Lap(c, s) == ((c - s) % Width) \div c

\* Interrupts since the load: as many as the changes of turn and lap, or one
\* less for every turn that ends inside a lap.
Most(c, s) == 1 - Lap(c, s) - ((Width - 1) \div c + 1) * Turn(c, s)
Fewest(c, s) == 1 - Lap(c, s) - (Width \div c) * Turn(c, s)

\* The difference taken apart.
LEMMA Apart ==
  ASSUME NEW c \in Nat \ {0}, NEW s \in Nat
  PROVE  \E q \in Int, p \in Nat, v \in Nat :
           /\ q = Turn(c, s) /\ p = Lap(c, s) /\ v = Value(c, s)
           /\ v < c /\ c * p \in Nat /\ Width * q \in Int
           /\ c * p + v < Width
           /\ c - s = Width * q + c * p + v
           /\ p <= (Width - 1) \div c
  <1>1. Width \in Nat \ {0} /\ c - s \in Int
      BY WidthIs
  <1>2. PICK u \in Nat : u = (c - s) % Width
      BY <1>1, Divides
  <1>3. PICK q \in Int : q = (c - s) \div Width
      BY <1>1, Divides
  <1>4. u < Width /\ c - s = Width * q + u /\ Width * q \in Int
      BY <1>1, <1>2, <1>3, Divides
  <1>5. PICK v \in Nat : v = u % c
      BY Divides
  <1>6. PICK p \in Int : p = u \div c
      BY Divides
  <1>7. v < c /\ u = c * p + v /\ c * p \in Int
      BY <1>5, <1>6, Divides
  <1>8. p \in Nat
    <2>1. ASSUME p <= -1 PROVE c * p <= c * (-1)
        BY <2>1, TimesGrows
    <2> QED BY <1>7, <2>1
  <1>9. p <= (Width - 1) \div c
      BY <1>1, <1>4, <1>6, DivGrows
  <1>10. c * p \in Nat
      BY <1>8
  <1>11. q = Turn(c, s) /\ p = Lap(c, s) /\ v = Value(c, s)
      BY <1>2, <1>3, <1>5, <1>6 DEF Turn, Lap, Value
  <1>12. c * p + v < Width /\ c - s = Width * q + c * p + v
      BY <1>1, <1>4, <1>7, <1>10
  <1> WITNESS q \in Int, p \in Nat, v \in Nat
  <1> QED BY <1>4, <1>7, <1>9, <1>10, <1>11, <1>12

\* As time passes the most does not go down, and it goes up when the value
\* is larger than it was.
LEMMA MostRises ==
  ASSUME NEW c \in Nat \ {0}, NEW s \in Nat, NEW t \in Nat, s <= t
  PROVE  /\ Most(c, s) \in Int /\ Most(c, t) \in Int /\ Most(c, s) <= Most(c, t)
         /\ Value(c, s) < Value(c, t) => Most(c, s) + 1 <= Most(c, t)
  <1>1. Width \in Nat \ {0} /\ Width - 1 \in Nat
      BY WidthIs
  <1>2. PICK g \in Nat : g = (Width - 1) \div c
      BY <1>1
  <1>3. PICK q1 \in Int, p1 \in Nat, v1 \in Nat :
          /\ q1 = Turn(c, s) /\ p1 = Lap(c, s) /\ v1 = Value(c, s)
          /\ v1 < c /\ c * p1 \in Nat /\ Width * q1 \in Int /\ c * p1 + v1 < Width
          /\ c - s = Width * q1 + c * p1 + v1 /\ p1 <= g
      BY <1>2, Apart
  <1>4. PICK q2 \in Int, p2 \in Nat, v2 \in Nat :
          /\ q2 = Turn(c, t) /\ p2 = Lap(c, t) /\ v2 = Value(c, t)
          /\ v2 < c /\ c * p2 \in Nat /\ Width * q2 \in Int /\ c * p2 + v2 < Width
          /\ c - t = Width * q2 + c * p2 + v2 /\ p2 <= g
      BY <1>2, Apart
  <1>5. q2 <= q1
      BY <1>1, <1>3, <1>4, DivGrows DEF Turn
  <1>6. Most(c, s) = 1 - p1 - (g + 1) * q1 /\ Most(c, t) = 1 - p2 - (g + 1) * q2
      BY <1>2, <1>3, <1>4 DEF Most
  <1>7. (g + 1) * q1 \in Int /\ (g + 1) * q2 \in Int
      OBVIOUS
  <1>8. CASE q1 = q2
    <2>1. c * p2 + v2 <= c * p1 + v1
        BY <1>3, <1>4, <1>8
    <2>2. p2 <= p1
      <3>1. ASSUME p1 + 1 <= p2 PROVE c * p1 + c <= c * p2
        <4>1. c * (p1 + 1) <= c * p2
            BY <3>1, TimesGrows
        <4> QED BY <4>1
      <3> QED BY <1>3, <1>4, <2>1, <3>1
    <2>3. v1 < v2 => p2 # p1
        BY <1>3, <1>4, <2>1
    <2> QED BY <1>3, <1>4, <1>6, <1>7, <1>8, <2>2, <2>3
  <1>9. CASE q1 # q2
    <2>1. (g + 1) * (q2 + 1) <= (g + 1) * q1
        BY <1>5, <1>9, TimesGrows
    <2>2. (g + 1) * (q2 + 1) = (g + 1) * q2 + g + 1
        OBVIOUS
    <2> QED BY <1>3, <1>4, <1>6, <1>7, <2>1, <2>2
  <1> QED BY <1>8, <1>9

\* Between two looks less than a count apart the fewest goes up by one at
\* most, and if it does the value is larger than it was.
LEMMA FewestRises ==
  ASSUME NEW c \in Nat \ {0}, c < Width, NEW s \in Nat, NEW t \in Nat, s <= t, t < s + c
  PROVE  /\ Fewest(c, s) \in Int /\ Fewest(c, t) \in Int
         /\ Fewest(c, t) <= Fewest(c, s) + 1
         /\ Fewest(c, t) = Fewest(c, s) + 1 => Value(c, s) < Value(c, t)
  <1>1. Width \in Nat \ {0}
      BY WidthIs
  <1>2. PICK f \in Nat : f = Width \div c
      BY <1>1, Divides
  <1>2r. PICK r \in Nat : r < c /\ c * f \in Nat /\ Width = c * f + r
    <2>1. PICK r \in Nat : r = Width % c
        BY <1>1, Divides
    <2>2. c * f \in Nat
        OBVIOUS
    <2>3. r < c /\ Width = c * f + r
        BY <1>1, <1>2, <2>1, Divides
    <2> QED BY <2>2, <2>3
  <1>3. PICK q1 \in Int, p1 \in Nat, v1 \in Nat :
          /\ q1 = Turn(c, s) /\ p1 = Lap(c, s) /\ v1 = Value(c, s)
          /\ v1 < c /\ c * p1 \in Nat /\ Width * q1 \in Int /\ c * p1 + v1 < Width
          /\ c - s = Width * q1 + c * p1 + v1 /\ p1 <= (Width - 1) \div c
      BY Apart
  <1>4. PICK q2 \in Int, p2 \in Nat, v2 \in Nat :
          /\ q2 = Turn(c, t) /\ p2 = Lap(c, t) /\ v2 = Value(c, t)
          /\ v2 < c /\ c * p2 \in Nat /\ Width * q2 \in Int /\ c * p2 + v2 < Width
          /\ c - t = Width * q2 + c * p2 + v2 /\ p2 <= (Width - 1) \div c
      BY Apart
  <1>5. q2 <= q1
      BY <1>1, <1>3, <1>4, DivGrows DEF Turn
  <1>6. Fewest(c, s) = 1 - p1 - f * q1 /\ Fewest(c, t) = 1 - p2 - f * q2
      BY <1>2, <1>3, <1>4 DEF Fewest
  <1>7. f * q1 \in Int /\ f * q2 \in Int
      OBVIOUS
  <1>8. CASE q1 = q2
    <2>1. /\ c * p2 + v2 <= c * p1 + v1
          /\ c * p1 + v1 < c * p2 + v2 + c
        BY <1>3, <1>4, <1>8
    <2>2. p1 <= p2 + 1
      <3>1. ASSUME p2 + 2 <= p1 PROVE c * p2 + c + c <= c * p1
        <4>1. c * (p2 + 2) <= c * p1
            BY <3>1, TimesGrows
        <4> QED BY <4>1
      <3> QED BY <1>3, <1>4, <2>1, <3>1
    <2>3. ASSUME p1 = p2 + 1 PROVE v1 < v2
      <3>1. c * p1 = c * p2 + c
          BY <2>3
      <3> QED BY <1>3, <1>4, <2>1, <3>1
    <2> QED BY <1>3, <1>4, <1>6, <1>7, <1>8, <2>2, <2>3
  <1>9. CASE q1 # q2
    <2>1. q2 = q1 - 1
      <3>1. ASSUME q2 + 2 <= q1 PROVE Width * q2 + Width + Width <= Width * q1
        <4>1. Width * (q2 + 2) <= Width * q1
            BY <1>1, <3>1, TimesGrows
        <4>2. Width * (q2 + 2) = Width * q2 + Width + Width
            BY <1>1
        <4> QED BY <4>1, <4>2
      <3>2. ~ (Width * q2 + Width + Width <= Width * q1)
          BY <1>1, <1>3, <1>4
      <3> QED BY <1>5, <1>9, <3>1, <3>2
    <2>2. Width * q1 = Width * q2 + Width
        BY <1>1, <2>1
    <2>3. f * q1 = f * q2 + f
        BY <2>1
    <2>4. c * p2 + v2 = c * p1 + v1 + Width - (t - s)
      <3>1. PICK x \in Int, y1 \in Nat, y2 \in Nat : x = Width * q2 /\ y1 = c * p1 /\ y2 = c * p2
          BY <1>3, <1>4
      <3>2. c - s = x + Width + y1 + v1 /\ c - t = x + y2 + v2
          BY <1>3, <1>4, <2>2, <3>1
      <3> QED BY <1>1, <3>1, <3>2
    <2>5. c * p1 + v1 < t - s /\ t - s < c
        BY <1>1, <1>3, <1>4, <2>4
    <2>6. p1 = 0 /\ v1 < t - s
      <3>1. ASSUME 1 <= p1 PROVE c <= c * p1
        <4>1. c * 1 <= c * p1
            BY <3>1, TimesGrows
        <4> QED BY <4>1
      <3>2. p1 = 0
          BY <1>3, <2>5, <3>1
      <3> QED BY <1>3, <2>5, <3>2
    <2>7. c * p2 + v2 = v1 + c * f + r - (t - s)
        BY <1>2r, <1>3, <2>4, <2>6
    <2>8. f <= p2 + 1
      <3>1. ASSUME p2 + 2 <= f PROVE c * p2 + c + c <= c * f
        <4>1. c * (p2 + 2) <= c * f
            BY <3>1, TimesGrows
        <4> QED BY <4>1
      <3> QED BY <1>2r, <1>3, <1>4, <2>5, <2>6, <2>7, <3>1
    <2>9. ASSUME f = p2 + 1 PROVE v1 < v2
      <3>1. c * f = c * p2 + c
          BY <2>9
      <3> QED BY <1>2r, <1>3, <1>4, <2>5, <2>7, <3>1
    <2> QED BY <1>3, <1>4, <1>6, <1>7, <2>3, <2>6, <2>8, <2>9
  <1> QED BY <1>8, <1>9

\* What the two come to, in periods and overflows.
LEMMA InPeriods ==
  ASSUME NEW c \in Nat \ {0}, NEW s \in Nat
  PROVE  /\ Most(c, s) \in Int /\ Most(c, s) <= s \div c + 2 + s \div Width
         /\ Fewest(c, s) \in Int /\ s \div c <= Fewest(c, s) + s \div Width
  <1>1. Width \in Nat \ {0} /\ Width - 1 \in Nat
      BY WidthIs
  <1>2. PICK f \in Nat, r \in Nat : f = Width \div c /\ r < c /\ c * f \in Nat /\ Width = c * f + r
    <2>1. PICK f \in Nat : f = Width \div c
        BY <1>1, Divides
    <2>2. PICK r \in Nat : r = Width % c
        BY <1>1, Divides
    <2>3. c * f \in Nat
        OBVIOUS
    <2>4. r < c /\ Width = c * f + r
        BY <1>1, <2>1, <2>2, Divides
    <2> QED BY <2>1, <2>3, <2>4
  <1>3. PICK g \in Nat : /\ g = (Width - 1) \div c + 1 /\ c * g \in Nat
                         /\ c * g <= Width + c - 1
    <2>1. PICK k \in Nat : k = (Width - 1) \div c
        BY <1>1
    <2>2. c * k \in Nat /\ c * k <= Width - 1
        BY <1>1, <2>1, Divides
    <2>3. c * (k + 1) = c * k + c
        OBVIOUS
    <2> QED BY <1>1, <2>1, <2>2, <2>3
  <1>4. PICK q \in Int, p \in Nat, v \in Nat :
          /\ q = Turn(c, s) /\ p = Lap(c, s) /\ v = Value(c, s)
          /\ v < c /\ c * p \in Nat /\ Width * q \in Int /\ c * p + v < Width
          /\ c - s = Width * q + c * p + v /\ p <= (Width - 1) \div c
      BY Apart
  <1>5. PICK a \in Nat, b \in Nat : a = s \div c /\ b = s \div Width
      BY <1>1
  <1>6. c * a \in Nat /\ c * a <= s /\ s < c * a + c /\ Width * b \in Nat /\ s < Width * b + Width
      BY <1>1, <1>5, Divides
  <1>7. Most(c, s) = 1 - p - g * q /\ Fewest(c, s) = 1 - p - f * q
      BY <1>2, <1>3, <1>4 DEF Most, Fewest
  <1>8. PICK k \in Int : k = -q
      BY <1>4
  <1>9. /\ Width * k = - (Width * q) /\ g * k = -(g * q) /\ f * k = -(f * q)
        /\ Width * k \in Int /\ g * k \in Int /\ f * k \in Int
      BY <1>1, <1>8
  \* A turn has ended only when the difference has run through its type.
  <1>10. k <= b + 1
    <2>1. ASSUME b + 2 <= k PROVE Width * b + Width + Width <= Width * k
      <3>1. Width * (b + 2) <= Width * k
          BY <1>1, <2>1, TimesGrows
      <3>2. Width * (b + 2) = Width * b + Width + Width
          BY <1>1
      <3> QED BY <3>1, <3>2
    <2> QED BY <1>1, <1>4, <1>6, <1>8, <1>9, <2>1
  <1>11. s < c * (a + 1) /\ c * (a + 1) = c * a + c
      BY <1>6
  <1> DEFINE M == 1 - p + g * k
             F == 1 - p + f * k
  <1>12. M \in Int /\ F \in Int /\ M = Most(c, s) /\ F = Fewest(c, s)
      BY <1>7, <1>9
  <1>13. M <= a + 2 + b
    <2>1. c * M = c - c * p + c * (g * k) /\ c * (g * k) \in Int
      <3>1. PICK e \in Int : e = g * k
          BY <1>9
      <3>2. c * (1 - p + e) = c - c * p + c * e /\ c * e \in Int
          OBVIOUS
      <3> QED BY <3>1, <3>2
    <2>2. CASE k <= 0
      <3>1. g * k <= 0
        <4>1. g * k <= g * 0
            BY <2>2, TimesGrows
        <4> QED BY <4>1, <1>9
      <3> QED BY <1>5, <1>9, <3>1
    <2>3. CASE k > 0
      <3>0. k \in Nat
          BY <2>3
      <3>1. c * (g * k) = k * (c * g) /\ k * (c * g) <= k * (Width + c - 1)
          BY <1>1, <1>3, <3>0, TimesGrows
      <3>2. k * (Width + c - 1) = Width * k + c * k - k
          BY <1>1
      <3>3. c * k \in Nat
          BY <3>0
      <3>4. c * M <= c * a + c + c - 2 + c * k
          BY <1>1, <1>4, <1>6, <1>8, <1>9, <2>1, <2>3, <3>1, <3>2, <3>3
      <3>5. c * (a + 2 + k) = c * a + c + c + c * k
          OBVIOUS
      <3>6. M <= a + 1 + k
        <4>1. ASSUME a + 2 + k <= M PROVE c * (a + 2 + k) <= c * M
            BY <1>12, <4>1, TimesGrows
        <4>2. c * M \in Int /\ c * (a + 2 + k) \in Int
            BY <1>12
        <4> QED BY <1>6, <1>12, <3>3, <3>4, <3>5, <4>1, <4>2
      <3> QED BY <1>10, <1>12, <3>6
    <2> QED BY <2>2, <2>3
  <1>14. a <= F + b
    <2>1. c * F = c - c * p + c * (f * k) /\ c * (f * k) \in Int
      <3>1. PICK e \in Int : e = f * k
          BY <1>9
      <3>2. c * (1 - p + e) = c - c * p + c * e /\ c * e \in Int
          OBVIOUS
      <3> QED BY <3>1, <3>2
    <2>2. c * (f * k) = Width * k - r * k /\ r * k \in Int
      <3>1. c * (f * k) = (c * f) * k
          OBVIOUS
      <3>2. (c * f + r) * k = (c * f) * k + r * k
          BY <1>2
      <3> QED BY <1>2, <3>1, <3>2
    <2>3. s - r * k <= c * F
        BY <1>1, <1>4, <1>8, <1>9, <2>1, <2>2
    <2>4. CASE k > 0
      <3>1. r * k <= c * k - k
        <4>1. k * r <= k * (c - 1)
            BY <1>2, <2>4, TimesGrows
        <4>2. k * (c - 1) = c * k - k /\ k * r = r * k
            OBVIOUS
        <4> QED BY <4>1, <4>2
      <3>2. c * a - c * k < c * F
          BY <1>2, <1>6, <2>2, <2>3, <2>4, <3>1, <1>12
      <3>3. a - k < F
        <4>1. ASSUME F <= a - k PROVE c * F <= c * (a - k)
            BY <1>12, <4>1, TimesGrows
        <4>2. c * (a - k) = c * a - c * k /\ c * F \in Int
            BY <1>12
        <4> QED BY <1>12, <3>2, <4>1, <4>2
      <3> QED BY <1>10, <1>12, <3>3
    <2>5. CASE k <= 0
      <3>1. r * k <= 0
        <4>1. r * k <= r * 0
            BY <2>5, TimesGrows
        <4> QED BY <4>1, <2>2
      <3>2. c * a <= c * F
          BY <1>6, <1>12, <2>2, <2>3, <3>1
      <3>3. a <= F
        <4>1. ASSUME F + 1 <= a PROVE c * F + c <= c * a
          <5>1. c * (F + 1) <= c * a
              BY <1>12, <4>1, TimesGrows
          <5>2. c * (F + 1) = c * F + c
              BY <1>12
          <5> QED BY <5>1, <5>2
        <4>2. c * F \in Int
            BY <1>12
        <4> QED BY <1>6, <1>12, <3>2, <4>1, <4>2
      <3> QED BY <1>12, <3>3
    <2> QED BY <2>4, <2>5
  <1> QED BY <1>5, <1>12, <1>13, <1>14

----------------------------------------------------------------------------
(* The invariant.                                                          *)

Channels ==
  [count : Counts, load : Nat, last : Nat, periodic : BOOLEAN, running : BOOLEAN,
   rw : 0..3, rmode : 0..3, wmode : 0..3, interim : 0 .. Byte - 1,
   latched : 0..3, latch : Nat, status : BOOLEAN, line : BOOLEAN]

TypeOK ==
  /\ now \in Nat /\ chan \in Channels /\ chan.load <= now
  /\ snap \in Nat /\ out \in Seq(Nat) /\ word \in Seq(Nat)
  /\ irqs \in Nat /\ early \in Nat /\ wraps \in Int

\* What is left of the latch and what was read of it make the word.
Held ==
  /\ chan.latched = 3 => out = <<>> /\ chan.latch = snap /\ snap < Byte * Byte
  /\ chan.latched = 2 => \/ out = <<>>
                         \/ Len(out) = 1 /\ chan.latch < Byte /\ out[1] + Byte * chan.latch = snap
  /\ chan.latched = 1 => out = <<>>
  /\ chan.latched = 0 /\ Len(out) = 2 => out[1] + Byte * out[2] = snap

\* The byte that waits is the first of the word being written.
Given ==
  /\ chan.rw = 3 => /\ chan.wmode \in 2..3
                    /\ chan.wmode = 3 => word = <<chan.interim>>
                    /\ chan.wmode = 2 => Len(word) # 1
  /\ chan.rw = 3 /\ Len(word) = 2 =>
       chan.count = (IF word = <<0, 0>> THEN Byte * Byte ELSE word[1] + Byte * word[2])

Ticks == (now - chan.load) \div Scale
Soon == \A g \in Gaps : g < Scale * (chan.count - 1)

\* The last value seen is that of now, and the interrupts lie between the
\* fewest and the most.
Timed ==
  /\ chan.running \/ wraps >= 0 => chan.count # 0
  /\ chan.count # 0 =>
       /\ chan.running => chan.last = Value(chan.count, Ticks)
       /\ irqs <= Most(chan.count, Ticks)
       /\ wraps >= 0 =>
            /\ chan.running /\ chan.periodic /\ wraps <= Ticks \div chan.count
            /\ Soon => Fewest(chan.count, Ticks) <= irqs

\* A control word raises the line once: no step leaves it low afterwards.
Once == early <= IF chan.line THEN 1 ELSE 0

Inv == TypeOK /\ Held /\ Given /\ Timed /\ Once

----------------------------------------------------------------------------
(* The functions of PitChannel.                                            *)

\* The count is a number, and the value of the ticks since the load.
LEMMA CountIs ==
  ASSUME NEW c \in Channels, NEW t \in Nat, c.load <= t
  PROVE  /\ GetCount(c, t) \in Nat
         /\ (t - c.load) \div Scale \in Nat
         /\ c.count # 0 => /\ c.count \in Nat \ {0} /\ c.count < Width
                           /\ GetCount(c, t) = Value(c.count, (t - c.load) \div Scale)
  <1>1. /\ c.count \in Nat /\ c.load \in Nat /\ t - c.load \in Nat
        /\ c.count <= Byte * Byte
      BY WidthIs DEF Channels, Counts
  <1>2. PICK s \in Nat : s = (t - c.load) \div Scale
      BY <1>1, WidthIs, Divides
  <1>3. (c.count - s) % Width \in Nat
      BY <1>1, WidthIs, Divides
  <1>4. c.count # 0 => ((c.count - s) % Width) % c.count \in Nat
      BY <1>1, <1>3, Divides
  <1>5. c.count < Width
      BY <1>1, WidthIs
  <1> QED BY <1>1, <1>2, <1>4, <1>5 DEF GetCount, Value

\* At a load the counter reads 0, and nothing has happened yet.
LEMMA AtLoad ==
  ASSUME NEW c \in Nat \ {0}, c < Width
  PROVE  Value(c, 0) = 0 /\ Most(c, 0) = 0 /\ Fewest(c, 0) = 0
  <1>1. Width \in Nat \ {0} /\ Width - 1 \in Nat
      BY WidthIs
  <1>2. (c - 0) % Width = c /\ (c - 0) \div Width = 0
    <2>1. PICK q \in Int, u \in Nat : /\ q = c \div Width /\ u = c % Width /\ u < Width
                                      /\ c = Width * q + u
        BY <1>1, Divides
    <2>2. q = 0
      <3>1. Width * 0 <= c /\ c < Width * 1
          BY <1>1
      <3>2. 0 <= c \div Width /\ c \div Width < 1
          BY <1>1, <3>1, QuotientIs
      <3> QED BY <2>1, <3>2
    <2> QED BY <1>1, <2>1, <2>2
  <1>3. c % c = 0 /\ c \div c = 1
    <2>1. c * 1 <= c /\ c < c * 2
        OBVIOUS
    <2>2. 1 <= c \div c /\ c \div c < 2 /\ c \div c \in Int
        BY <2>1, QuotientIs, Divides
    <2>3. c \div c = 1
        BY <2>2
    <2>4. PICK k \in Int, r \in Nat : k = c \div c /\ r = c % c
        BY Divides
    <2>5. c = c * k + r
        BY <2>4, Divides
    <2> QED BY <2>3, <2>4, <2>5
  <1>4. Turn(c, 0) = 0 /\ Lap(c, 0) = 1 /\ Value(c, 0) = 0
      BY <1>2, <1>3 DEF Turn, Lap, Value
  <1>5. PICK f \in Int, g \in Int : f = Width \div c /\ g = (Width - 1) \div c
      BY <1>1, Divides
  <1> QED BY <1>4, <1>5 DEF Most, Fewest

\* A channel with another count is a channel.
LEMMA LoadedIs ==
  ASSUME NEW c \in Channels, NEW n \in Counts, NEW t \in Nat, NEW l \in Nat, NEW r \in BOOLEAN
  PROVE  [c EXCEPT !.count = n, !.load = t, !.last = l, !.running = r] \in Channels
  BY DEF Channels

\* The channel d is c with a count v loaded at t.
Loaded(c, v, t, d) ==
  /\ d \in Channels /\ d.count \in Nat \ {0}
  /\ d.count = (IF v = 0 THEN Byte * Byte ELSE v)
  /\ d.load = t /\ d.last = 0 /\ d.running = TRUE
  /\ d.periodic = c.periodic /\ d.rw = c.rw /\ d.wmode = c.wmode /\ d.interim = c.interim
  /\ d.latched = c.latched /\ d.latch = c.latch /\ d.line = c.line

\* What pit_set_count does.
LEMMA Loads ==
  ASSUME NEW c \in Channels, NEW v \in 0 .. Byte * Byte - 1, NEW t \in Nat
  PROVE  Loaded(c, v, t, SetCount(c, v, t))
  <1> DEFINE d == SetCount(c, v, t)
  <1>0. PICK w \in Nat \ {0} : w = Byte * Byte
      BY WidthIs
  <1>1. PICK n \in Counts : n = (IF v = 0 THEN Byte * Byte ELSE v)
      BY <1>0 DEF Counts
  <1>2. d = [c EXCEPT !.count = n, !.load = t, !.last = 0, !.running = TRUE]
      BY <1>1 DEF SetCount
  <1>3. n \in Nat \ {0}
      BY <1>0, <1>1 DEF Counts
  <1>4. d \in Channels
    <2>1. PICK r \in BOOLEAN, z \in Nat : r = TRUE /\ z = 0
        OBVIOUS
    <2>2. d = [c EXCEPT !.count = n, !.load = t, !.last = z, !.running = r]
        BY <1>2, <2>1
    <2>3. [c EXCEPT !.count = n, !.load = t, !.last = z, !.running = r] \in Channels
        BY LoadedIs, Zenon
    <2> QED BY <2>2, <2>3, Zenon
  <1>5. /\ d.count = n /\ d.load = t /\ d.last = 0 /\ d.running = TRUE
        /\ d.periodic = c.periodic /\ d.rw = c.rw /\ d.wmode = c.wmode /\ d.interim = c.interim
        /\ d.latched = c.latched /\ d.latch = c.latch /\ d.line = c.line
      BY <1>2 DEF Channels
  <1> HIDE DEF d
  <1>6. Loaded(c, v, t, d)
      BY <1>1, <1>3, <1>4, <1>5 DEF Loaded
  <1> QED BY <1>6 DEF d

\* The fields a latch and a read leave alone.
SameTimer(c, d) ==
  /\ d.count = c.count /\ d.load = c.load /\ d.last = c.last
  /\ d.periodic = c.periodic /\ d.running = c.running /\ d.line = c.line
SameWriter(c, d) == d.rw = c.rw /\ d.wmode = c.wmode /\ d.interim = c.interim

\* A latch takes the word or its byte, as the access mode says, and drops the
\* status.
LEMMA Latches ==
  ASSUME NEW c \in Channels, c.rw # 0, NEW t \in Nat, c.load <= t, NEW d, d = Latch(c, t)
  PROVE  /\ d \in Channels /\ SameTimer(c, d) /\ SameWriter(c, d)
         /\ c.latched # 0 => d = c
         /\ c.latched = 0 => /\ d.latched = c.rw
                             /\ c.rw = 3 => d.latch = GetCount(c, t) % (Byte * Byte)
  <1>1. PICK g \in Nat : g = GetCount(c, t)
      BY CountIs
  <1>2. PICK v \in Nat : v = g % (Byte * Byte)
      BY <1>1, WidthIs, Divides
  <1>3. v % Byte \in Nat /\ v \div Byte \in Nat /\ (v \div Byte) % Byte \in Nat
    <2>1. v % Byte \in Nat /\ v \div Byte \in Nat
        BY WidthIs, Divides
    <2> QED BY <2>1, WidthIs, Divides
  <1>4. PICK l \in Nat : l = (CASE c.rw = 1 -> v % Byte
                                [] c.rw = 2 -> (v \div Byte) % Byte
                                [] OTHER -> v)
      BY <1>3
  <1>5. c.rw \in 1..3
      BY DEF Channels
  <1>6. CASE c.latched # 0
    <2>1. d = c
        BY <1>6 DEF Latch
    <2> QED BY <1>6, <2>1 DEF SameTimer, SameWriter
  <1>7. CASE c.latched = 0
    <2>0. PICK f \in BOOLEAN : f = FALSE
        OBVIOUS
    <2>1. d = [c EXCEPT !.latched = c.rw, !.status = f, !.latch = l]
        BY <1>1, <1>2, <1>4, <1>7, <2>0 DEF Latch
    <2>2. c.rw = 3 => l = v
        BY <1>4
    <2> QED BY <1>1, <1>2, <1>5, <1>7, <2>1, <2>2 DEF Channels, SameTimer, SameWriter
  <1> QED BY <1>6, <1>7

\* A read takes the status, or the next byte of the latch, or passes it by.
LEMMA Reads ==
  ASSUME NEW c \in Channels, NEW t \in Nat, c.load <= t,
         NEW d, NEW b, ReadByte(c, t) = [byte |-> b, chan |-> d]
  PROVE  /\ d \in Channels /\ SameTimer(c, d) /\ SameWriter(c, d)
         /\ c.status \/ c.latched = 0 => d.latched = c.latched /\ d.latch = c.latch
         /\ ~c.status /\ c.latched # 0 =>
              /\ b = c.latch % Byte /\ b \in Nat
              /\ d.latched = (IF c.latched = 3 THEN 2 ELSE 0)
              /\ c.latched = 3 => d.latch = c.latch \div Byte
  <1>0. c.latched \in 0..3 /\ c.rmode \in 0..3 /\ c.latch \in Nat /\ c.status \in BOOLEAN
      BY DEF Channels
  <1>1. PICK l \in Nat, m \in Nat : l = c.latch \div Byte /\ m = c.latch % Byte
      BY <1>0, WidthIs, Divides
  <1>2. CASE c.status
    <2>1. PICK f \in BOOLEAN : f = FALSE
        OBVIOUS
    <2>2. d = [c EXCEPT !.status = f]
        BY <1>2, <2>1 DEF ReadByte
    <2> QED BY <1>2, <2>2 DEF Channels, SameTimer, SameWriter
  <1>3. CASE ~c.status /\ c.latched \in 1..2
    <2>1. d = [c EXCEPT !.latched = 0] /\ b = m
        BY <1>1, <1>3 DEF ReadByte
    <2> QED BY <1>1, <1>3, <2>1 DEF Channels, SameTimer, SameWriter
  <1>4. CASE ~c.status /\ c.latched = 3
    <2>0. ~ (c.latched \in 1..2)
        BY <1>4
    <2>1. d = [c EXCEPT !.latched = 2, !.latch = l] /\ b = m
        BY <1>1, <1>4, <2>0 DEF ReadByte
    <2>2. d \in Channels
      <3>1. PICK k \in 0..3 : k = 2
          OBVIOUS
      <3>2. d = [c EXCEPT !.latched = k, !.latch = l]
          BY <2>1, <3>1
      <3> QED BY <3>2 DEF Channels
    <2>3. SameTimer(c, d) /\ SameWriter(c, d) /\ d.latched = 2 /\ d.latch = l
        BY <2>1 DEF Channels, SameTimer, SameWriter
    <2> QED BY <1>1, <1>4, <2>1, <2>2, <2>3
  <1>5. CASE ~c.status /\ c.latched = 0
    <2>1. PICK r \in 0..3 : r = (IF c.rmode < 2 THEN c.rmode ELSE 5 - c.rmode)
        BY <1>0
    <2>2. ~ (c.latched \in 1..2) /\ c.latched # 3
        BY <1>5
    <2>3. d = [c EXCEPT !.rmode = IF @ < 2 THEN @ ELSE 5 - @]
        BY <1>5, <2>2 DEF ReadByte
    <2>4. d = [c EXCEPT !.rmode = r]
        BY <2>1, <2>3
    <2> QED BY <1>5, <2>4 DEF Channels, SameTimer, SameWriter
  <1> QED BY <1>0, <1>2, <1>3, <1>4, <1>5

\* A look asks for an interrupt when the value is larger than the last, and
\* stops a timer that is not periodic.
LEMMA LooksAt ==
  ASSUME NEW c \in Channels, NEW t \in Nat, c.load <= t,
         NEW d, NEW i, Next0(c, t) = [irq |-> i, chan |-> d]
  PROVE  /\ d \in Channels /\ SameWriter(c, d) /\ d.latched = c.latched /\ d.latch = c.latch
         /\ d.count = c.count /\ d.load = c.load /\ d.periodic = c.periodic
         /\ i <=> c.running /\ GetCount(c, t) > c.last
         /\ d.running => c.running /\ d.last = GetCount(c, t)
         /\ c.running /\ c.periodic => d.running
         /\ c.line => d.line
  <1>1. PICK v \in Nat : v = GetCount(c, t)
      BY CountIs
  <1>2. c.running \in BOOLEAN /\ c.periodic \in BOOLEAN /\ c.line \in BOOLEAN /\ c.last \in Nat
      BY DEF Channels
  <1>3. i <=> c.running /\ v > c.last
      BY <1>1 DEF Next0
  <1>4. CASE i /\ ~c.periodic
    <2>1. PICK f \in BOOLEAN, u \in BOOLEAN : f = FALSE /\ u = TRUE
        OBVIOUS
    <2>2. d = [c EXCEPT !.running = f, !.line = u]
        BY <1>1, <1>3, <1>4, <2>1 DEF Next0
    <2> QED BY <1>1, <1>3, <1>4, <2>1, <2>2 DEF Channels, SameWriter
  <1>5. CASE ~ (i /\ ~c.periodic) /\ c.running
    <2>0. PICK u \in BOOLEAN : u = (c.line \/ (c.running /\ v > c.last))
        BY Zenon
    <2>1. d = [c EXCEPT !.last = v, !.line = u]
        BY <1>1, <1>3, <1>5, <2>0 DEF Next0
    <2>2. c.line => u
        BY <2>0
    <2> QED BY <1>1, <1>3, <1>5, <2>1, <2>2 DEF Channels, SameWriter
  <1>6. CASE ~ (i /\ ~c.periodic) /\ ~c.running
    <2>1. d = c
        BY <1>1, <1>3, <1>6 DEF Next0
    <2> QED BY <1>1, <1>3, <1>6, <2>1 DEF SameWriter
  <1> QED BY <1>4, <1>5, <1>6

----------------------------------------------------------------------------
(* The steps.                                                              *)

\* What leaves the timer alone keeps its part of the invariant.
LEMMA TimedStays ==
  ASSUME Timed, SameTimer(chan, chan'), UNCHANGED <<now, irqs, wraps>>
  PROVE  Timed'
  BY DEF Timed, Ticks, Soon, SameTimer

\* What leaves the bytes written alone keeps theirs.
LEMMA GivenStays ==
  ASSUME Given, SameWriter(chan, chan'), chan'.count = chan.count, UNCHANGED word
  PROVE  Given'
  BY DEF Given, SameWriter

\* What leaves the latch alone keeps its.
LEMMA HeldStays ==
  ASSUME Held, chan'.latched = chan.latched, chan'.latch = chan.latch, UNCHANGED <<snap, out>>
  PROVE  Held'
  BY DEF Held

\* What does not lower the line keeps the one interrupt of a control word.
LEMMA OnceStays ==
  ASSUME TypeOK, Once, chan'.line \in BOOLEAN, chan.line => chan'.line, UNCHANGED early
  PROVE  Once'
  <1>1. chan.line \in BOOLEAN /\ early \in Nat
      BY DEF TypeOK, Channels
  <1> QED BY <1>1 DEF Once

\* A latch command, or the count's part of a read-back.
LEMMA LatchKeeps ==
  ASSUME Inv, chan.rw # 0, NEW d, d = Latch(chan, now), NEW s \in BOOLEAN,
         chan' = [d EXCEPT !.status = s],
         IF chan.latched = 0
         THEN snap' = GetCount(chan, now) % (Byte * Byte) /\ out' = <<>>
         ELSE UNCHANGED <<snap, out>>,
         UNCHANGED <<now, word, irqs, early, wraps>>
  PROVE  Inv'
  <1>1. /\ d \in Channels /\ SameTimer(chan, d) /\ SameWriter(chan, d)
        /\ chan.latched # 0 => d = chan
        /\ chan.latched = 0 => /\ d.latched = chan.rw
                               /\ chan.rw = 3 => d.latch = GetCount(chan, now) % (Byte * Byte)
      BY Latches DEF Inv, TypeOK
  <1>2. /\ chan' \in Channels /\ chan'.latched = d.latched /\ chan'.latch = d.latch
        /\ SameTimer(chan, chan') /\ SameWriter(chan, chan')
    <2>1. chan' \in Channels
        BY <1>1 DEF Channels
    <2>2. /\ chan'.latched = d.latched /\ chan'.latch = d.latch
          /\ SameTimer(d, chan') /\ SameWriter(d, chan')
        BY <1>1 DEF Channels, SameTimer, SameWriter
    <2> QED BY <1>1, <2>1, <2>2 DEF SameTimer, SameWriter
  <1>3. PICK g \in Nat : g = GetCount(chan, now)
      BY CountIs DEF Inv, TypeOK
  <1>4. PICK v \in Nat : v = g % (Byte * Byte) /\ v < Byte * Byte
      BY <1>3, WidthIs, Divides
  <1>5. chan.latched \in 0..3 /\ chan.rw \in 1..3
      BY DEF Inv, TypeOK, Channels
  <1>6. TypeOK'
    <2>1. CASE chan.latched = 0
      <3>1. snap' = v /\ out' = <<>>
          BY <1>3, <1>4, <2>1
      <3> QED BY <1>2, <3>1 DEF Inv, TypeOK, SameTimer
    <2>2. CASE chan.latched # 0
        BY <1>2, <2>2 DEF Inv, TypeOK, SameTimer
    <2> QED BY <2>1, <2>2
  <1>7. Timed'
      BY <1>2, TimedStays DEF Inv
  <1>8. Given'
      BY <1>2, GivenStays DEF Inv, SameTimer
  <1>9. Held'
    <2>1. CASE chan.latched # 0
      <3>1. chan'.latched = chan.latched /\ chan'.latch = chan.latch /\ UNCHANGED <<snap, out>>
          BY <1>1, <1>2, <2>1
      <3> QED BY <3>1, HeldStays DEF Inv
    <2>2. CASE chan.latched = 0
      <3>1. /\ chan'.latched = chan.rw /\ snap' = v /\ out' = <<>>
            /\ chan.rw = 3 => chan'.latch = v
          BY <1>1, <1>2, <1>3, <1>4, <2>2
      <3> QED BY <1>4, <1>5, <3>1 DEF Held
    <2> QED BY <2>1, <2>2
  <1>10. Once'
      BY <1>2, <1>6, OnceStays DEF Inv, TypeOK, Channels, SameTimer
  <1> QED BY <1>6, <1>7, <1>8, <1>9, <1>10 DEF Inv


\* The bytes of a word.
LEMMA TwoBytes ==
  ASSUME NEW n \in Nat, n < Byte * Byte
  PROVE  /\ n \div Byte \in Nat /\ n % Byte \in Nat /\ n \div Byte < Byte
         /\ (n % Byte) + Byte * (n \div Byte) = n
  <1>1. Byte \in Nat \ {0}
      BY WidthIs
  <1>2. PICK q \in Nat, r \in Nat : q = n \div Byte /\ r = n % Byte
      BY <1>1, Divides
  <1>3. q < Byte
      BY <1>1, <1>2, QuotientIs
  <1>4. n = Byte * q + r /\ Byte * q \in Nat
      BY <1>1, <1>2, Divides
  <1> QED BY <1>2, <1>3, <1>4

\* A byte below the base is itself.
LEMMA OneByte ==
  ASSUME NEW n \in Nat, n < Byte
  PROVE  n % Byte = n
  <1>1. Byte \in Nat \ {0}
      BY WidthIs
  <1>2. PICK q \in Nat, r \in Nat : q = n \div Byte /\ r = n % Byte
    <2>1. n \div Byte \in Nat /\ n % Byte \in Nat
        BY <1>1, Divides
    <2> QED BY <2>1
  <1>3. Byte * 1 = Byte /\ q < 1
    <2>1. n < Byte * 1
        BY <1>1
    <2> QED BY <1>1, <1>2, <2>1, QuotientIs
  <1>4. n = Byte * q + r /\ Byte * 0 = 0
      BY <1>1, <1>2, Divides
  <1>5. q = 0
      BY <1>3
  <1> QED BY <1>2, <1>4, <1>5

\* A byte read.
LEMMA ReadKeeps ==
  ASSUME Inv, Read
  PROVE  Inv'
  <1>1. chan \in Channels /\ now \in Nat /\ chan.load <= now /\ out \in Seq(Nat) /\ snap \in Nat
      BY DEF Inv, TypeOK
  <1>2. PICK d, b : /\ ReadByte(chan, now) = [byte |-> b, chan |-> d]
                    /\ chan' = d
                    /\ out' = IF ~chan.status /\ chan.latched # 0 THEN Append(out, b) ELSE out
    <2>1. \E d, b : ReadByte(chan, now) = [byte |-> b, chan |-> d]
        BY Zenon DEF ReadByte
    <2>2. PICK d, b : ReadByte(chan, now) = [byte |-> b, chan |-> d]
        BY <2>1
    <2>3. ReadByte(chan, now).chan = d /\ ReadByte(chan, now).byte = b
        BY <2>2
    <2> QED BY <2>2, <2>3 DEF Read
  <1>3. UNCHANGED <<now, snap, word, irqs, early, wraps>>
      BY DEF Read
  <1>4. /\ chan' \in Channels /\ SameTimer(chan, chan') /\ SameWriter(chan, chan')
        /\ chan.status \/ chan.latched = 0 => chan'.latched = chan.latched /\ chan'.latch = chan.latch
        /\ ~chan.status /\ chan.latched # 0 =>
              /\ b = chan.latch % Byte /\ b \in Nat
              /\ chan'.latched = (IF chan.latched = 3 THEN 2 ELSE 0)
              /\ chan.latched = 3 => chan'.latch = chan.latch \div Byte
      BY <1>1, <1>2, Reads
  <1>5. Timed'
      BY <1>3, <1>4, TimedStays DEF Inv
  <1>6. Given'
      BY <1>3, <1>4, GivenStays DEF Inv, SameTimer
  <1>6o. Once'
      BY <1>3, <1>4, OnceStays DEF Inv, Channels, SameTimer
  <1>7. CASE chan.status \/ chan.latched = 0
    <2>1. out' = out
        BY <1>2, <1>7
    <2>2. TypeOK'
        BY <1>3, <1>4, <2>1 DEF Inv, TypeOK, SameTimer
    <2>3. Held'
        BY <1>3, <1>4, <1>7, <2>1, HeldStays DEF Inv
    <2> QED BY <1>5, <1>6, <1>6o, <2>2, <2>3 DEF Inv
  <1>8. CASE ~chan.status /\ chan.latched # 0
    <2>1. out' = Append(out, b) /\ b \in Nat /\ b = chan.latch % Byte
        BY <1>2, <1>4, <1>8
    <2>2. out' \in Seq(Nat)
        BY <1>1, <2>1
    <2>3. TypeOK'
        BY <1>3, <1>4, <2>2 DEF Inv, TypeOK, SameTimer
    <2>4. chan.latched \in 1..3 /\ chan.latch \in Nat
        BY <1>1, <1>8 DEF Channels
    <2>5. CASE chan.latched = 3
      <3>1. out = <<>> /\ chan.latch = snap /\ snap < Byte * Byte
          BY <2>5 DEF Inv, Held
      <3>2. chan'.latched = 2 /\ chan'.latch = snap \div Byte
          BY <1>4, <1>8, <2>5, <3>1
      <3>3. out' = <<b>> /\ Len(out') = 1 /\ out'[1] = b
          BY <2>1, <3>1
      <3>4. /\ snap \div Byte \in Nat /\ snap \div Byte < Byte
            /\ (snap % Byte) + Byte * (snap \div Byte) = snap
          BY <1>1, <3>1, TwoBytes
      <3>5. Held'
          BY <1>3, <2>1, <3>1, <3>2, <3>3, <3>4 DEF Held
      <3> QED BY <1>5, <1>6, <1>6o, <2>3, <3>5 DEF Inv
    <2>6. CASE chan.latched \in 1..2
      <3>1. chan'.latched = 0
          BY <1>4, <1>8, <2>6
      <3>2. CASE out = <<>>
        <4>1. Len(out') = 1
            BY <2>1, <3>2
        <4>2. Held'
            BY <3>1, <4>1 DEF Held
        <4> QED BY <1>5, <1>6, <1>6o, <2>3, <4>2 DEF Inv
      <3>3. CASE out # <<>>
        <4>1. /\ chan.latched = 2 /\ Len(out) = 1 /\ chan.latch < Byte
              /\ out[1] + Byte * chan.latch = snap
            BY <2>6, <3>3 DEF Inv, Held
        <4>2. b = chan.latch
            BY <2>1, <2>4, <4>1, OneByte
        <4>3. out'[1] = out[1] /\ out'[2] = b
          <5>1. /\ \A i \in 1 .. Len(out) : Append(out, b)[i] = out[i]
                /\ Append(out, b)[Len(out) + 1] = b
              BY <1>1, <2>1, AppendProperties
          <5> QED BY <2>1, <4>1, <5>1
        <4>4. Held'
            BY <1>3, <3>1, <4>1, <4>2, <4>3 DEF Held
        <4> QED BY <1>5, <1>6, <1>6o, <2>3, <4>4 DEF Inv
      <3> QED BY <3>2, <3>3
    <2> QED BY <2>4, <2>5, <2>6
  <1>9. chan.status \in BOOLEAN
      BY <1>1 DEF Channels
  <1> QED BY <1>7, <1>8, <1>9

\* A control word.
LEMMA ControlKeeps ==
  ASSUME Inv, NEW a \in Accesses, NEW m \in Modes, Control(a, m)
  PROVE  Inv'
  <1>0. a \in 1..3 /\ a - 1 \in 0..2 /\ chan \in Channels /\ chan.line \in BOOLEAN
      BY PitConstants DEF Inv, TypeOK, Channels
  <1>1p. PICK p \in BOOLEAN : p = (m = 2 \/ m = 3)
      BY Zenon
  <1>1u. PICK u \in BOOLEAN : u = (chan.line \/ m = 2)
      BY Zenon
  <1>1. p = (m \in {2, 3}) /\ u = (chan.line \/ m = 2)
      BY <1>1p, <1>1u
  <1>2. chan' = [chan EXCEPT !.rw = a, !.rmode = a - 1, !.wmode = a - 1, !.periodic = p, !.line = u]
      BY <1>1 DEF Control, SetMode
  <1>3. /\ word' = <<>> /\ UNCHANGED <<now, snap, out, irqs>>
        /\ wraps' = (IF chan'.periodic THEN wraps ELSE -1)
        /\ early' = (IF chan'.line /\ ~chan.line THEN early + 1 ELSE early)
      BY DEF Control
  <1>4. /\ chan' \in Channels /\ chan'.count = chan.count /\ chan'.load = chan.load
        /\ chan'.last = chan.last /\ chan'.running = chan.running /\ chan'.periodic = p
        /\ chan'.rw = a /\ chan'.wmode = a - 1 /\ chan'.latched = chan.latched
        /\ chan'.latch = chan.latch /\ chan'.line = u
    <2>1. PICK k \in 0..3 : k = a - 1
        BY <1>0
    <2>2. PICK l \in 0..3 : l = a
        BY <1>0
    <2>3. chan' = [chan EXCEPT !.rw = l, !.rmode = k, !.wmode = k, !.periodic = p, !.line = u]
        BY <1>2, <2>1, <2>2
    <2>4. chan' \in Channels
        BY <1>0, <1>1, <2>3 DEF Channels
    <2>5. /\ chan'.count = chan.count /\ chan'.load = chan.load
          /\ chan'.last = chan.last /\ chan'.running = chan.running /\ chan'.periodic = p
          /\ chan'.rw = l /\ chan'.wmode = k /\ chan'.latched = chan.latched
          /\ chan'.latch = chan.latch /\ chan'.line = u
        BY <1>0, <2>3 DEF Channels
    <2> QED BY <2>1, <2>2, <2>4, <2>5
  <1>5. wraps' \in Int /\ word' \in Seq(Nat) /\ early' \in Nat
      BY <1>3 DEF Inv, TypeOK
  <1>6. TypeOK'
      BY <1>3, <1>4, <1>5 DEF Inv, TypeOK
  <1>7. Held'
      BY <1>3, <1>4, HeldStays DEF Inv
  <1>8. Given'
    <2>1. Len(word') = 0
        BY <1>3
    <2> QED BY <1>0, <1>4, <2>1 DEF Given
  <1>9. Timed'
    <2>1. CASE p
      <3>1. wraps' = wraps
          BY <1>3, <1>4, <2>1
      <3> QED BY <1>3, <1>4, <2>1, <3>1 DEF Inv, Timed, Ticks, Soon
    <2>2. CASE ~p
      <3>1. ~ (wraps' >= 0)
          BY <1>3, <1>4, <2>2
      <3> QED BY <1>3, <1>4, <3>1 DEF Inv, Timed, Ticks, Soon
    <2> QED BY <1>1, <2>1, <2>2
  <1>10. Once'
    <2>1. chan.line => u
        BY <1>1
    <2>2. early \in Nat /\ early <= IF chan.line THEN 1 ELSE 0
        BY DEF Inv, TypeOK, Once
    <2>3. CASE u /\ ~chan.line
      <3>1. early' = 1
          BY <1>3, <1>4, <2>2, <2>3
      <3> QED BY <1>4, <2>3, <3>1 DEF Once
    <2>4. CASE ~ (u /\ ~chan.line)
      <3>1. early' = early
          BY <1>3, <1>4, <2>4
      <3> QED BY <1>4, <2>1, <2>2, <2>4, <3>1 DEF Once
    <2> QED BY <2>3, <2>4
  <1> QED BY <1>6, <1>7, <1>8, <1>9, <1>10 DEF Inv

\* The part of a read-back that is for the status.
LEMMA StatusKeeps ==
  ASSUME Inv, NEW s \in BOOLEAN, chan' = [chan EXCEPT !.status = s],
         UNCHANGED <<now, snap, out, word, irqs, early, wraps>>
  PROVE  Inv'
  <1>1. chan \in Channels
      BY DEF Inv, TypeOK
  <1>2. /\ chan' \in Channels /\ SameTimer(chan, chan') /\ SameWriter(chan, chan')
        /\ chan'.latched = chan.latched /\ chan'.latch = chan.latch
      BY <1>1 DEF Channels, SameTimer, SameWriter
  <1>3. TypeOK'
      BY <1>2 DEF Inv, TypeOK, SameTimer
  <1>4. Once'
      BY <1>2, OnceStays DEF Inv, Channels, SameTimer
  <1> QED BY <1>2, <1>3, <1>4, TimedStays, GivenStays, HeldStays DEF Inv, SameTimer


\* After a load.
LEMMA LoadKeeps ==
  ASSUME Inv, chan'.count \in Nat \ {0}, chan'.count < Width, chan'.load = now, chan'.last = 0,
         chan'.running = TRUE, chan'.periodic = chan.periodic, now' = now, irqs' = 0,
         wraps' = (IF chan.periodic THEN 0 ELSE -1)
  PROVE  Timed'
  <1>1. PICK c \in Nat \ {0} : c = chan'.count /\ c < Width
      OBVIOUS
  <1>2. Ticks' = 0
    <2>1. now' - chan'.load = 0
        BY DEF Inv, TypeOK
    <2>2. 0 \div Scale = 0
        BY WidthIs
    <2> QED BY <2>1, <2>2 DEF Ticks
  <1>3. Value(c, 0) = 0 /\ Most(c, 0) = 0 /\ Fewest(c, 0) = 0
      BY <1>1, AtLoad
  <1>4. 0 \div c = 0
    <2>1. c * 0 <= 0 /\ 0 < c * 1
        OBVIOUS
    <2>2. 0 <= 0 \div c /\ 0 \div c < 1 /\ 0 \div c \in Int
        BY <2>1, QuotientIs, Divides
    <2> QED BY <2>2
  <1>5. wraps' >= 0 => chan'.periodic /\ wraps' = 0
      OBVIOUS
  <1> QED BY <1>1, <1>2, <1>3, <1>4, <1>5 DEF Timed

\* The count two bytes make.
LEMMA WordOf ==
  ASSUME NEW l \in 0 .. Byte - 1, NEW h \in 0 .. Byte - 1
  PROVE  /\ h * Byte \in 0 .. Byte * Byte - 1 /\ h \in 0 .. Byte * Byte - 1
         /\ h * Byte + l \in 0 .. Byte * Byte - 1
         /\ h * Byte + l = l + Byte * h
         /\ h * Byte + l = 0 <=> h = 0 /\ l = 0
  <1>1. Byte \in Nat \ {0} /\ h \in Nat /\ l \in Nat
      BY WidthIs
  <1>2. PICK w \in Nat : w = h * Byte
      BY <1>1
  <1>3. w <= Byte * Byte - Byte
    <2>1. Byte * h <= Byte * (Byte - 1)
        BY <1>1, TimesGrows
    <2>2. Byte * (Byte - 1) = Byte * Byte - Byte /\ Byte * h = h * Byte
        BY <1>1
    <2> QED BY <1>2, <2>1, <2>2
  <1>4. h <= w
    <2>1. h * 1 <= h * Byte
        BY <1>1, TimesGrows
    <2> QED BY <1>1, <1>2, <2>1
  <1>5. Byte * Byte \in Nat
      BY <1>1
  <1>6. w \in 0 .. Byte * Byte - 1 /\ h \in 0 .. Byte * Byte - 1 /\ w + l \in 0 .. Byte * Byte - 1
      BY <1>1, <1>2, <1>3, <1>4, <1>5
  <1>7. w + l = 0 <=> h = 0 /\ l = 0
    <2>1. h = 0 => w = 0
        BY <1>1, <1>2
    <2> QED BY <1>1, <1>2, <1>4, <2>1
  <1>8. w = Byte * h
      BY <1>1, <1>2
  <1> QED BY <1>1, <1>2, <1>6, <1>7, <1>8

\* A sequence of two.
LEMMA PairIs ==
  ASSUME NEW x \in Nat, NEW y \in Nat
  PROVE  Len(<<x>>) = 1 /\ Append(<<x>>, y) = <<x, y>>
  <1>1. <<x>> \in Seq(Nat) /\ Len(<<x>>) = 1
      OBVIOUS
  <1>2. PICK s \in Seq(Nat) : s = Append(<<x>>, y)
      BY <1>1, AppendProperties
  <1>3. Len(s) = 2 /\ s[1] = x /\ s[2] = y
      BY <1>1, <1>2, AppendProperties
  <1>4. s = <<x, y>>
      BY <1>3
  <1> QED BY <1>1, <1>2, <1>4

\* A byte written.
LEMMA WriteKeeps ==
  ASSUME Inv, NEW b \in Bytes, Write(b)
  PROVE  Inv'
  <1>1. /\ b \in 0 .. Byte - 1 /\ b \in Nat
        /\ chan \in Channels /\ chan.interim \in 0 .. Byte - 1 /\ chan.interim \in Nat
        /\ chan.wmode \in 0..3 /\ chan.rw \in 0..3 /\ now \in Nat /\ word \in Seq(Nat)
      BY PitConstants, WidthIs DEF Inv, TypeOK, Channels
  <1>2. /\ chan' = WriteByte(chan, b, now) /\ UNCHANGED <<now, snap, out, early>>
        /\ word' = IF chan.rw = 3 /\ Len(word) = 1 THEN Append(word, b) ELSE <<b>>
        /\ chan.wmode = 2 => irqs' = irqs /\ wraps' = wraps
        /\ chan.wmode # 2 => irqs' = 0 /\ wraps' = (IF chan.periodic THEN 0 ELSE -1)
      BY DEF Write
  <1>3. word' \in Seq(Nat)
      BY <1>1, <1>2
  <1>4. CASE chan.wmode = 2
    <2>1. chan' = [chan EXCEPT !.interim = b, !.wmode = 3]
        BY <1>2, <1>4 DEF WriteByte
    <2>2. chan' \in Channels
      <3>1. \A k \in 0..3 : [chan EXCEPT !.interim = b, !.wmode = k] \in Channels
          BY <1>1 DEF Channels
      <3> QED BY <2>1, <3>1
    <2>3. /\ SameTimer(chan, chan') /\ chan'.rw = chan.rw /\ chan'.interim = b /\ chan'.wmode = 3
          /\ chan'.latched = chan.latched /\ chan'.latch = chan.latch
        BY <1>1, <2>1 DEF Channels, SameTimer
    <2>4. TypeOK'
        BY <1>2, <1>3, <1>4, <2>2, <2>3 DEF Inv, TypeOK, SameTimer
    <2>5. Held' /\ Timed'
        BY <1>2, <1>4, <2>3, HeldStays, TimedStays DEF Inv
    <2>5o. Once'
        BY <1>2, <2>2, <2>3, OnceStays DEF Inv, Channels, SameTimer
    <2>6. Given'
      <3>1. CASE chan.rw = 3
        <4>1. word' = <<b>>
            BY <1>2, <1>4, <3>1 DEF Inv, Given
        <4> QED BY <2>3, <4>1 DEF Given
      <3>2. CASE chan.rw # 3
          BY <2>3, <3>2 DEF Given
      <3> QED BY <3>1, <3>2
    <2> QED BY <2>4, <2>5, <2>5o, <2>6 DEF Inv
  <1>5. ASSUME NEW v \in 0 .. Byte * Byte - 1, NEW k \in 0..3, NEW d, d = SetCount(chan, v, now),
               chan' = [d EXCEPT !.wmode = k], chan.wmode # 2,
               chan.rw = 3 => /\ chan.wmode = 3 /\ k = 2
                              /\ v = b * Byte + chan.interim
        PROVE  Inv'
    <2>1. /\ d \in Channels /\ d.count \in Nat \ {0}
          /\ d.count = (IF v = 0 THEN Byte * Byte ELSE v)
          /\ d.load = now /\ d.last = 0 /\ d.running = TRUE
          /\ d.periodic = chan.periodic /\ d.rw = chan.rw /\ d.wmode = chan.wmode
          /\ d.interim = chan.interim
          /\ d.latched = chan.latched /\ d.latch = chan.latch /\ d.line = chan.line
      <3>1. Loaded(chan, v, now, d)
          BY <1>1, <1>5, Loads, Zenon
      <3> QED BY <3>1 DEF Loaded
    <2>2. chan' \in Channels
      <3> HIDE DEF Channels
      <3>1. \A e \in Channels : [e EXCEPT !.wmode = k] \in Channels
          BY <1>5 DEF Channels
      <3> QED BY <1>5, <2>1, <3>1
    <2>3. /\ chan'.count = d.count
          /\ chan'.load = now /\ chan'.last = 0 /\ chan'.running = TRUE
          /\ chan'.periodic = chan.periodic /\ chan'.rw = chan.rw /\ chan'.wmode = k
          /\ chan'.latched = chan.latched /\ chan'.latch = chan.latch /\ chan'.line = chan.line
      <3>1. /\ chan'.count = d.count
            /\ chan'.load = d.load /\ chan'.last = d.last /\ chan'.running = d.running
            /\ chan'.periodic = d.periodic /\ chan'.rw = d.rw /\ chan'.wmode = k
            /\ chan'.latched = d.latched /\ chan'.latch = d.latch /\ chan'.line = d.line
          BY <1>5, <2>1 DEF Channels
      <3> QED BY <2>1, <3>1
    <2>4. chan'.count \in Nat \ {0} /\ chan'.count < Width
        BY <2>1, <2>2, <2>3, WidthIs DEF Channels, Counts
    <2>5. irqs' = 0 /\ wraps' = (IF chan.periodic THEN 0 ELSE -1)
        BY <1>2, <1>5
    <2>6. TypeOK'
        BY <1>1, <1>2, <1>3, <2>2, <2>3, <2>5 DEF Inv, TypeOK
    <2>7. Held'
        BY <1>2, <2>3, HeldStays DEF Inv
    <2>8. Timed'
        BY <1>2, <2>3, <2>4, <2>5, LoadKeeps
    <2>9. Given'
      <3>1. CASE chan.rw = 3
        <4>1. word = <<chan.interim>>
            BY <1>5, <3>1 DEF Inv, Given
        <4>2. word' = <<chan.interim, b>>
          <5>1. PICK i \in Nat : i = chan.interim
              BY <1>1
          <5>2. Len(<<i>>) = 1 /\ Append(<<i>>, b) = <<i, b>>
              BY <1>1, PairIs, Zenon
          <5>3. word = <<i>>
              BY <4>1, <5>1
          <5>4. Len(word) = 1
              BY <5>2, <5>3
          <5>5. word' = Append(word, b)
              BY <1>2, <3>1, <5>4
          <5> QED BY <5>1, <5>2, <5>3, <5>5
        <4>3. Len(word') = 2 /\ word'[1] = chan.interim /\ word'[2] = b
            BY <4>2
        <4>4. v = chan.interim + Byte * b /\ (v = 0 <=> word' = <<0, 0>>)
          <5>1. v = b * Byte + chan.interim
              BY <1>5, <3>1
          <5>2. v = chan.interim + Byte * b /\ (v = 0 <=> b = 0 /\ chan.interim = 0)
              BY <1>1, <5>1, WordOf
          <5>3. b = 0 /\ chan.interim = 0 <=> word' = <<0, 0>>
              BY <4>2
          <5> QED BY <5>2, <5>3
        <4>5. chan'.count = (IF word' = <<0, 0>> THEN Byte * Byte ELSE word'[1] + Byte * word'[2])
            BY <2>1, <2>3, <4>3, <4>4
        <4>6. chan'.wmode = 2
            BY <1>5, <2>3, <3>1
        <4> QED BY <4>3, <4>5, <4>6 DEF Given
      <3>2. CASE chan.rw # 3
          BY <2>3, <3>2 DEF Given
      <3> QED BY <3>1, <3>2
    <2>10. Once'
        BY <1>2, <2>2, <2>3, OnceStays DEF Inv, Channels
    <2> QED BY <2>6, <2>7, <2>8, <2>9, <2>10 DEF Inv
  <1>6. chan.rw = 3 => chan.wmode \in 2..3
      BY DEF Inv, Given
  <1>7. ASSUME NEW v \in 0 .. Byte * Byte - 1, NEW d, d = SetCount(chan, v, now)
        PROVE  d = [d EXCEPT !.wmode = chan.wmode]
    <2>1. d \in Channels /\ d.wmode = chan.wmode
      <3>1. Loaded(chan, v, now, d)
          BY <1>1, <1>7, Loads, Zenon
      <3> QED BY <3>1 DEF Loaded
    <2> QED BY <2>1 DEF Channels
  <1>8. CASE chan.wmode = 0
    <2>1. PICK v \in 0 .. Byte * Byte - 1 : v = b
        BY <1>1, WordOf
    <2>2. chan' = SetCount(chan, v, now)
        BY <1>2, <1>8, <2>1 DEF WriteByte
    <2>3. chan.rw # 3
        BY <1>6, <1>8
    <2>4. PICK d : d = SetCount(chan, v, now)
        OBVIOUS
    <2>5. chan' = [d EXCEPT !.wmode = chan.wmode]
        BY <1>7, <2>2, <2>4
    <2> QED BY <1>1, <1>5, <1>8, <2>3, <2>4, <2>5
  <1>9. CASE chan.wmode = 1
    <2>1. PICK v \in 0 .. Byte * Byte - 1 : v = b * Byte
        BY <1>1, WordOf
    <2>2. chan' = SetCount(chan, v, now)
        BY <1>2, <1>9, <2>1 DEF WriteByte
    <2>3. chan.rw # 3
        BY <1>6, <1>9
    <2>4. PICK d : d = SetCount(chan, v, now)
        OBVIOUS
    <2>5. chan' = [d EXCEPT !.wmode = chan.wmode]
        BY <1>7, <2>2, <2>4
    <2> QED BY <1>1, <1>5, <1>9, <2>3, <2>4, <2>5
  <1>10. CASE chan.wmode = 3
    <2>1. PICK v \in 0 .. Byte * Byte - 1 : v = b * Byte + chan.interim
        BY <1>1, WordOf
    <2>2. PICK d : d = SetCount(chan, v, now)
        OBVIOUS
    <2>3. chan' = [d EXCEPT !.wmode = 2]
        BY <1>2, <1>10, <2>1, <2>2 DEF WriteByte
    <2> QED BY <1>5, <1>10, <2>1, <2>2, <2>3
  <1> QED BY <1>1, <1>4, <1>8, <1>9, <1>10


\* The periods a look compares are the laps of the ticks.
LEMMA PeriodsAre ==
  ASSUME NEW c \in Nat \ {0}, NEW t \in Nat, NEW l \in Nat, l <= t
  PROVE  (t - l) \div (Scale * c) = ((t - l) \div Scale) \div c
  <1>1. PICK a \in Nat : a = t - l
      OBVIOUS
  <1>2. PICK m \in Nat \ {0} : m = Scale
      BY WidthIs
  <1>3. (a \div m) \div c = a \div (m * c)
      BY DivDiv
  <1> QED BY <1>1, <1>2, <1>3

\* A number is below the next multiple.
LEMMA BelowNext ==
  ASSUME NEW p \in Nat
  PROVE  p < Scale * (p \div Scale + 1)
  <1>1. PICK m \in Nat \ {0} : m = Scale
      BY WidthIs
  <1>2. PICK q \in Int : q = p \div m
      BY Divides
  <1>3. p = m * q + (p % m) /\ p % m < m /\ p % m \in Nat
      BY <1>2, Divides
  <1>4. m * (q + 1) = m * q + m /\ m * q \in Int
      OBVIOUS
  <1> QED BY <1>1, <1>2, <1>3, <1>4

\* The loop comes round.
LEMMA LookKeeps ==
  ASSUME Inv, NEW n \in Gaps, Look(n)
  PROVE  Inv'
  <1>1. /\ n \in Nat /\ now \in Nat /\ chan \in Channels /\ chan.load \in Nat /\ chan.load <= now
        /\ irqs \in Nat /\ wraps \in Int
      BY PitConstants DEF Inv, TypeOK, Channels
  <1>2. now' = now + n /\ now' \in Nat /\ now <= now' /\ UNCHANGED <<snap, out, word, early>>
      BY <1>1 DEF Look
  <1>3. PICK d, i : Next0(chan, now') = [irq |-> i, chan |-> d] /\ i \in BOOLEAN
    <2>1. \E d, i : Next0(chan, now') = [irq |-> i, chan |-> d]
        BY Zenon DEF Next0
    <2>2. PICK d, i : Next0(chan, now') = [irq |-> i, chan |-> d]
        BY <2>1
    <2>3. i \in BOOLEAN
      <3>1. i = Next0(chan, now').irq
          BY <2>2
      <3>2. Next0(chan, now').irq \in BOOLEAN
        <4>1. PICK x \in BOOLEAN : x = (chan.running /\ GetCount(chan, now') > chan.last)
            BY Zenon
        <4> QED BY <4>1 DEF Next0
      <3> QED BY <3>1, <3>2
    <2> QED BY <2>2, <2>3
  <1>4. /\ chan' = d /\ irqs' = irqs + (IF i THEN 1 ELSE 0)
    <2>1. Next0(chan, now').irq = i /\ Next0(chan, now').chan = d
        BY <1>3
    <2> QED BY <2>1 DEF Look
  <1>5. wraps' = IF wraps >= 0 /\ chan.count # 0
                    /\ (now' - chan.load) \div (Scale * chan.count) # (now - chan.load) \div (Scale * chan.count)
                 THEN wraps + 1 ELSE wraps
      BY DEF Look
  <1>6. /\ chan' \in Channels /\ SameWriter(chan, chan')
        /\ chan'.latched = chan.latched /\ chan'.latch = chan.latch
        /\ chan'.count = chan.count /\ chan'.load = chan.load /\ chan'.periodic = chan.periodic
        /\ i <=> chan.running /\ GetCount(chan, now') > chan.last
        /\ chan'.running => chan.running /\ chan'.last = GetCount(chan, now')
        /\ chan.running /\ chan.periodic => chan'.running
        /\ chan.line => chan'.line
    <2>1. chan.load <= now'
        BY <1>1, <1>2
    <2> QED BY <1>1, <1>2, <1>3, <1>4, <2>1, LooksAt
  <1>7. irqs' \in Nat /\ wraps' \in Int
      BY <1>1, <1>3, <1>4, <1>5
  <1>8. TypeOK'
    <2>1. chan'.load <= now'
        BY <1>1, <1>2, <1>6
    <2> QED BY <1>2, <1>6, <1>7, <2>1 DEF Inv, TypeOK
  <1>9. Held' /\ Given'
      BY <1>2, <1>6, HeldStays, GivenStays DEF Inv
  <1>9o. Once'
      BY <1>2, <1>6, OnceStays DEF Inv, Channels
  <1>10. CASE chan.count = 0
    <2>1. chan'.count = 0 /\ ~chan.running /\ ~chan'.running /\ wraps' = wraps /\ ~ (wraps >= 0)
        BY <1>5, <1>6, <1>10 DEF Inv, Timed
    <2>2. Timed'
        BY <2>1 DEF Timed
    <2> QED BY <1>8, <1>9, <1>9o, <2>2 DEF Inv
  <1>11. CASE chan.count # 0
    <2>1. PICK c \in Nat \ {0} : c = chan.count /\ c < Width
        BY <1>1, <1>11, CountIs
    <2>2. PICK s \in Nat, t \in Nat :
            /\ s = (now - chan.load) \div Scale /\ t = (now' - chan.load) \div Scale
            /\ s <= t /\ GetCount(chan, now') = Value(c, t)
      <3>1. now - chan.load \in Nat /\ now' - chan.load \in Nat /\ now - chan.load <= now' - chan.load
          BY <1>1, <1>2
      <3>2. chan.load <= now'
          BY <1>1, <1>2
      <3>3. PICK s \in Nat : s = (now - chan.load) \div Scale
          BY <3>1, WidthIs, Divides
      <3>4. PICK t \in Nat : t = (now' - chan.load) \div Scale
          BY <3>1, WidthIs, Divides
      <3>5. s <= t
          BY <3>1, <3>3, <3>4, WidthIs, DivGrows
      <3>6. GetCount(chan, now') = Value(c, t)
          BY <1>1, <1>2, <1>11, <2>1, <3>2, <3>4, CountIs
      <3> QED BY <3>3, <3>4, <3>5, <3>6
    <2>3. Ticks = s /\ Ticks' = t
        BY <1>6, <2>2 DEF Ticks
    <2>4. /\ chan.running => chan.last = Value(c, s)
          /\ irqs <= Most(c, s)
          /\ wraps >= 0 =>
               /\ chan.running /\ chan.periodic /\ wraps <= s \div c
               /\ Soon => Fewest(c, s) <= irqs
        BY <1>11, <2>1, <2>3 DEF Inv, Timed
    <2>5. i <=> chan.running /\ Value(c, t) > Value(c, s)
        BY <1>6, <2>2, <2>4
    <2>6. PICK x \in Nat, y \in Nat : x = Value(c, s) /\ y = Value(c, t)
      <3>1. \E v \in Nat : v = Value(c, s)
          BY Apart
      <3>2. \E v \in Nat : v = Value(c, t)
          BY Apart
      <3> QED BY <3>1, <3>2
    <2>7. irqs' <= Most(c, t)
      <3>1. /\ Most(c, s) \in Int /\ Most(c, t) \in Int /\ Most(c, s) <= Most(c, t)
            /\ x < y => Most(c, s) + 1 <= Most(c, t)
          BY <2>2, <2>6, MostRises
      <3>2. i => x < y
          BY <2>5, <2>6
      <3> QED BY <1>1, <1>3, <1>4, <2>4, <3>1, <3>2
    <2>8. ASSUME wraps' >= 0
          PROVE  /\ chan'.running /\ chan'.periodic /\ wraps' <= t \div c
                 /\ Soon' => Fewest(c, t) <= irqs'
      <3>1. wraps >= 0
          BY <1>1, <1>5, <2>8
      <3>2. chan.running /\ chan.periodic
          BY <2>4, <3>1
      <3>3. chan'.running /\ chan'.periodic
          BY <1>6, <3>2
      <3>4. PICK a \in Nat, b \in Nat : a = s \div c /\ b = t \div c
        <4>1. s \div c \in Nat /\ t \div c \in Nat
            BY Divides
        <4> QED BY <4>1
      <3>5. wraps' <= t \div c
        <4>1. a <= b
            BY <2>2, <3>4, DivGrows
        <4>2. /\ (now - chan.load) \div (Scale * c) = a
              /\ (now' - chan.load) \div (Scale * c) = b
          <5>1. (now - chan.load) \div (Scale * c) = ((now - chan.load) \div Scale) \div c
              BY <1>1, PeriodsAre
          <5>2. (now' - chan.load) \div (Scale * c) = ((now' - chan.load) \div Scale) \div c
            <6>1. chan.load <= now'
                BY <1>1, <1>2
            <6> QED BY <1>1, <1>2, <6>1, PeriodsAre
          <5> QED BY <2>2, <3>4, <5>1, <5>2
        <4>3. wraps' = IF a # b THEN wraps + 1 ELSE wraps
            BY <1>5, <1>11, <2>1, <3>1, <4>2
        <4>4. wraps <= a
            BY <2>4, <3>1, <3>4
        <4> QED BY <1>1, <3>4, <4>1, <4>3, <4>4
      <3>6. ASSUME Soon' PROVE Fewest(c, t) <= irqs'
        <4>1. Soon /\ n < Scale * (c - 1)
            BY <1>6, <2>1, <3>6 DEF Soon
        <4>2. t < s + c
          <5>1. PICK p \in Nat : p = now - chan.load /\ now' - chan.load = p + n
              BY <1>1, <1>2
          <5>2. p < Scale * (s + 1)
              BY <2>2, <5>1, BelowNext
          <5>3. Scale * (s + 1) + Scale * (c - 1) = Scale * (s + c)
              BY WidthIs
          <5>4. Scale * (s + 1) \in Nat /\ Scale * (c - 1) \in Nat
              BY WidthIs
          <5>5. p + n < Scale * (s + c)
              BY <1>1, <4>1, <5>2, <5>3, <5>4
          <5> QED BY <1>1, <2>2, <5>1, <5>5, WidthIs, QuotientIs
        <4>3. /\ Fewest(c, s) \in Int /\ Fewest(c, t) \in Int
              /\ Fewest(c, t) <= Fewest(c, s) + 1
              /\ Fewest(c, t) = Fewest(c, s) + 1 => x < y
            BY <2>1, <2>2, <2>6, <4>2, FewestRises
        <4>4. i <=> x < y
            BY <2>5, <2>6, <3>2
        <4>5. Fewest(c, s) <= irqs
            BY <2>4, <3>1, <4>1
        <4> QED BY <1>1, <1>4, <4>3, <4>4, <4>5
      <3> QED BY <3>3, <3>5, <3>6
    <2>9. chan'.running => chan'.last = Value(c, t)
        BY <1>6, <2>2
    <2>10. Timed'
        BY <1>6, <1>11, <2>1, <2>3, <2>7, <2>8, <2>9 DEF Timed
    <2> QED BY <1>8, <1>9, <1>9o, <2>10 DEF Inv
  <1> QED BY <1>10, <1>11

\* Every step keeps the invariant.
LEMMA InvStep ==
  ASSUME Inv, [Next]_vars
  PROVE  Inv'
  <1>1. CASE UNCHANGED vars
      BY <1>1 DEF vars, Inv, TypeOK, Held, Given, Timed, Once, Ticks, Soon
  <1>2. ASSUME NEW a \in Accesses, NEW m \in Modes, Control(a, m) PROVE Inv'
      BY <1>2, ControlKeeps
  <1>3. ASSUME LatchCount PROVE Inv'
    <2>1. PICK d : d = Latch(chan, now)
        OBVIOUS
    <2>2. chan \in Channels /\ chan.rw # 0 /\ now \in Nat /\ chan.load <= now
        BY <1>3 DEF LatchCount, Inv, TypeOK
    <2>3. d \in Channels
        BY <2>1, <2>2, Latches
    <2>4. PICK s \in BOOLEAN : s = d.status
        BY <2>3 DEF Channels
    <2>5. d = [d EXCEPT !.status = s]
        BY <2>3, <2>4 DEF Channels
    <2>6. chan' = [d EXCEPT !.status = s]
        BY <1>3, <2>1, <2>5 DEF LatchCount
    <2> QED BY <1>3, <2>1, <2>2, <2>6, LatchKeeps DEF LatchCount
  <1>4. ASSUME NEW c \in BOOLEAN, NEW s \in BOOLEAN, ReadBack(c, s) PROVE Inv'
    <2>1. chan \in Channels /\ chan.rw # 0 /\ now \in Nat /\ chan.load <= now
        BY <1>4 DEF ReadBack, Inv, TypeOK
    <2>2. CASE c
      <3>1. PICK d : d = Latch(chan, now)
          OBVIOUS
      <3>2. d \in Channels
          BY <2>1, <3>1, Latches
      <3>3. PICK z \in BOOLEAN : z = (d.status \/ s)
          BY Zenon
      <3>4. chan' = [d EXCEPT !.status = z]
          BY <1>4, <2>2, <3>1, <3>3, Zenon DEF ReadBack
      <3> QED BY <1>4, <2>1, <2>2, <3>1, <3>4, LatchKeeps DEF ReadBack
    <2>3. CASE ~c
      <3>1. PICK z \in BOOLEAN : z = (chan.status \/ s)
          BY Zenon
      <3>2. chan' = [chan EXCEPT !.status = z]
          BY <1>4, <2>3, <3>1, Zenon DEF ReadBack
      <3>3. UNCHANGED <<now, snap, out, word, irqs, early, wraps>>
          BY <1>4, <2>3 DEF ReadBack
      <3> QED BY <3>2, <3>3, StatusKeeps
    <2> QED BY <2>2, <2>3
  <1>5. ASSUME NEW b \in Bytes, Write(b) PROVE Inv'
      BY <1>5, WriteKeeps
  <1>6. ASSUME Read PROVE Inv'
      BY <1>6, ReadKeeps
  <1>7. ASSUME NEW n \in Gaps, Look(n) PROVE Inv'
      BY <1>7, LookKeeps
  <1> QED BY <1>1, <1>2, <1>3, <1>4, <1>5, <1>6, <1>7 DEF Next

\* A channel that has been reset holds nothing.
LEMMA InitIsInv == Init => Inv
  <1> SUFFICES ASSUME Init PROVE Inv
      OBVIOUS
  <1>1. /\ chan = Reset /\ now = 0 /\ snap = 0 /\ out = <<>> /\ word = <<>> /\ irqs = 0
        /\ early = 0 /\ wraps = -1
      BY DEF Init
  <1>2. Reset \in Channels
    <2>1. 0 \in Counts /\ 0 \in 0 .. Byte - 1
        BY WidthIs DEF Counts
    <2>2. PICK f \in BOOLEAN : f = FALSE
        OBVIOUS
    <2>3. Reset = [count |-> 0, load |-> 0, last |-> 0, periodic |-> f, running |-> f,
                   rw |-> 0, rmode |-> 0, wmode |-> 0, interim |-> 0,
                   latched |-> 0, latch |-> 0, status |-> f, line |-> f]
        BY <2>2 DEF Reset
    <2> QED BY <2>1, <2>3 DEF Channels
  <1>3. /\ chan.load = 0 /\ chan.latched = 0 /\ chan.rw = 0 /\ chan.count = 0 /\ ~chan.running
      BY <1>1 DEF Reset
  <1>4. TypeOK
      BY <1>1, <1>2, <1>3 DEF TypeOK
  <1>5. Held /\ Given
      BY <1>1, <1>3 DEF Held, Given
  <1>6. Timed
      BY <1>1, <1>3 DEF Timed
  <1>7. Once
      BY <1>1 DEF Once
  <1> QED BY <1>4, <1>5, <1>6, <1>7 DEF Inv

\* The invariant holds throughout.
LEMMA SpecInv == Spec => []Inv
  BY InitIsInv, InvStep, PTL DEF Spec

\* A latched word is read back as it was and a count is loaded from the bytes
\* written for it, whatever comes between, a status latched and read or dropped
\* too (pit_channel_latch_counter, pit_writeb, pit_readb).
THEOREM SafetyWordsAreWhole == Spec => []WordsAreWhole
  <1>1. Inv => WordsAreWhole
      BY DEF Inv, Held, Given, WordsAreWhole
  <1> QED BY <1>1, SpecInv, PTL

\* Timer interrupts are those of the time that has passed: two more at most,
\* and none less if the loop comes round soon enough, but for one with each
\* overflow of the difference (pit_get_count, pit_next).  Control words raise
\* the line once in all besides (pit_writeb).
THEOREM SafetyTicksFollowTime == Spec => []TicksFollowTime
  <1>1. ASSUME Inv PROVE TicksFollowTime
    <2>1. /\ now \in Nat /\ chan \in Channels /\ chan.load \in Nat /\ chan.load <= now
          /\ irqs \in Nat /\ wraps \in Int /\ Width \in Nat \ {0}
        BY <1>1, WidthIs DEF Inv, TypeOK, Channels
    <2>2. PICK s \in Nat : s = Ticks
        BY <2>1, CountIs DEF Ticks
    <2>3. PICK o \in Nat : o = s \div Width
      <3>1. s \div Width \in Nat
          BY <2>1, Divides
      <3> QED BY <3>1
    <2>4. Overflows = o
        BY <2>1, <2>2, <2>3, PeriodsAre DEF Overflows, Ticks
    <2>4o. early <= IF chan.line THEN 1 ELSE 0
        BY <1>1 DEF Inv, Once
    <2>5. CASE chan.count = 0
      <3>1. ~ (wraps >= 0)
          BY <1>1, <2>5 DEF Inv, Timed
      <3> QED BY <2>1, <2>3, <2>4, <2>4o, <2>5, <3>1 DEF TicksFollowTime
    <2>6. CASE chan.count # 0
      <3>1. PICK c \in Nat \ {0} : c = chan.count
          BY <2>1, <2>6, CountIs
      <3>2. PICK a \in Nat : a = s \div c
        <4>1. s \div c \in Nat
            BY Divides
        <4> QED BY <4>1
      <3>3. (now - chan.load) \div (Scale * c) = a
          BY <2>1, <2>2, <3>2, PeriodsAre DEF Ticks
      <3>4. /\ Most(c, s) \in Int /\ Most(c, s) <= a + 2 + o
            /\ Fewest(c, s) \in Int /\ a <= Fewest(c, s) + o
          BY <2>3, <3>2, InPeriods
      <3>5. /\ irqs <= Most(c, s)
            /\ wraps >= 0 => wraps <= a /\ (Soon => Fewest(c, s) <= irqs)
          BY <1>1, <2>2, <2>6, <3>1, <3>2 DEF Inv, Timed
      <3>6. irqs <= a + 2 + o
          BY <2>1, <3>4, <3>5
      <3>7. ASSUME Soon PROVE irqs + o >= wraps
          BY <2>1, <3>4, <3>5, <3>7
      <3> QED BY <2>4, <2>4o, <3>1, <3>3, <3>6, <3>7 DEF TicksFollowTime, Soon
    <2> QED BY <2>5, <2>6
  <1> QED BY <1>1, SpecInv, PTL

=============================================================================
