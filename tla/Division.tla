------------------------------- MODULE Division -------------------------------
(***************************************************************************)
(* Quotients and remainders, as needed for counters that are brought up to *)
(* date late: whole ticks are taken off and the fraction of one is kept.   *)
(***************************************************************************)
EXTENDS Integers, TLAPS

(* A counter at x that wraps at n, a ticks later. *)
Moved(x, a, n) == (x + a) % n
Whole(e, d) == e \div d
Rest(e, d) == e % d

(* The two parts of a division. *)
LEMMA DivisionParts ==
  ASSUME NEW x \in Int, NEW d \in Nat \ {0}
  PROVE  x \div d \in Int /\ x % d \in 0..(d - 1) /\ x = d * (x \div d) + (x % d)
  OBVIOUS

(* A quotient is the only number that leaves a remainder below the divisor. *)
LEMMA Quotient ==
  ASSUME NEW d \in Nat \ {0}, NEW q \in Int, NEW r \in 0..(d - 1), NEW k \in Int, NEW s \in 0..(d - 1),
         d * q + r = d * k + s
  PROVE  q = k /\ r = s
<1>1. d * (q - k) = s - r
  OBVIOUS
<1>2. ASSUME q - k >= 1
      PROVE  FALSE
  <2>1. d * (q - k) >= d
    BY <1>2
  <2> QED BY <2>1, <1>1
<1>3. ASSUME q - k <= -1
      PROVE  FALSE
  <2>1. d * (k - q) >= d
    BY <1>3
  <2> QED BY <2>1, <1>1
<1> QED BY <1>1, <1>2, <1>3

(* Taking off whole multiples lowers the quotient and keeps the remainder. *)
LEMMA LessMultiple ==
  ASSUME NEW x \in Int, NEW d \in Nat \ {0}, NEW k \in Int
  PROVE  (x - d * k) \div d = (x \div d) - k /\ (x - d * k) % d = x % d
<1> DEFINE y == x - d * k
<1>1. y \in Int
  OBVIOUS
<1>2. y = d * (y \div d) + (y % d) /\ y \div d \in Int /\ y % d \in 0..(d - 1)
  BY <1>1, DivisionParts
<1>3. x = d * (x \div d) + (x % d) /\ x \div d \in Int /\ x % d \in 0..(d - 1)
  BY DivisionParts
<1>4. d * ((x \div d) - k) = d * (x \div d) - d * k
  BY <1>3
<1>5. d * (y \div d) + (y % d) = d * ((x \div d) - k) + (x % d)
  BY <1>2, <1>3, <1>4
<1> QED BY <1>2, <1>3, <1>5, Quotient

(* Adding in two steps, reducing in between, is adding at once. *)
LEMMA AddTwice ==
  ASSUME NEW x \in Int, NEW a \in Int, NEW b \in Int, NEW n \in Nat \ {0}
  PROVE  Moved(x, a, n) \in Int /\ Moved(Moved(x, a, n), b, n) = Moved(x, a + b, n)
<1> DEFINE y == x + a
           k == y \div n
<1>1. y \in Int /\ k \in Int /\ y % n \in Int /\ y = n * k + (y % n) /\ n * k \in Int
  BY DivisionParts
<1>2. y + b \in Int /\ x + (a + b) = y + b
  OBVIOUS
<1> HIDE DEF y, k
<1>3. (y % n) + b = (y + b) - n * k
  <2> DEFINE rest == y % n
             whole == n * k
  <2>1. y \in Int /\ rest \in Int /\ whole \in Int /\ y = whole + rest
    BY <1>1
  <2> HIDE DEF rest, whole
  <2>2. rest + b = (y + b) - whole
    BY <2>1
  <2> QED BY <2>2 DEF rest, whole
<1>4. ((y + b) - n * k) % n = (y + b) % n
  BY <1>1, <1>2, LessMultiple
<1>5. ((y % n) + b) % n = (x + (a + b)) % n
  BY <1>2, <1>3, <1>4
<1> QED BY <1>1, <1>5 DEF y, Moved

(* Less than a whole is no whole. *)
LEMMA SmallDivision ==
  ASSUME NEW d \in Nat \ {0}, NEW x \in 0..(d - 1)
  PROVE  x \div d = 0 /\ x % d = x
<1>1. d * (x \div d) + (x % d) = d * 0 + x /\ x \div d \in Int /\ x % d \in 0..(d - 1)
  BY DivisionParts
<1> QED BY <1>1, Quotient

(* Reducing twice is reducing once. *)
LEMMA ReduceTwice ==
  ASSUME NEW x \in Int, NEW n \in Nat \ {0}
  PROVE  (x % n) % n = x % n
BY DivisionParts, SmallDivision

(* Time in two pieces: the fraction left by the first goes into the second. *)
LEMMA AddFraction ==
  ASSUME NEW x \in Int, NEW c \in Int, NEW d \in Nat \ {0}
  PROVE  /\ (x + c) \div d = (x \div d) + (((x % d) + c) \div d)
         /\ (x + c) % d = ((x % d) + c) % d
<1> DEFINE k == x \div d
           r == x % d
           whole == d * k
<1>1. k \in Int /\ r \in Int /\ whole \in Int /\ x = whole + r
  BY DivisionParts
<1> HIDE DEF k, r, whole
<1>2. x + c \in Int /\ r + c \in Int /\ (x + c) - whole = r + c
  BY <1>1
<1>3. /\ ((x + c) - d * k) \div d = ((x + c) \div d) - k
      /\ ((x + c) - d * k) % d = (x + c) % d
  BY <1>1, <1>2, LessMultiple
<1>4. (x + c) \div d \in Int /\ (r + c) \div d \in Int
  BY <1>2, DivisionParts
<1>5. (r + c) \div d = ((x + c) \div d) - k /\ (r + c) % d = (x + c) % d
  BY <1>2, <1>3 DEF whole
<1>6. (x + c) \div d = k + ((r + c) \div d)
  BY <1>1, <1>4, <1>5
<1> QED BY <1>5, <1>6 DEF k, r

(* A counter x that divides by d and wraps at n, read with e cycles not in it, *)
(* moves on by c cycles as one that is up to date, with its fraction e % d.    *)
LEMMA CountLater ==
  ASSUME NEW x \in Int, NEW e \in Int, NEW c \in Int, NEW d \in Nat \ {0}, NEW n \in Nat \ {0},
         NEW later, later = e + c, NEW now, now = Rest(e, d) + c
  PROVE  /\ Moved(x, Whole(later, d), n) = Moved(Moved(x, Whole(e, d), n), Whole(now, d), n)
         /\ Rest(later, d) = Rest(now, d)
<1>1. Rest(e, d) \in Int /\ Whole(e, d) \in Int
  BY DivisionParts DEF Rest, Whole
<1>2. later \in Int /\ now \in Int
  BY <1>1
<1>3. Whole(later, d) \in Int /\ Whole(now, d) \in Int
  BY <1>2, DivisionParts DEF Whole
<1>4. Whole(later, d) = Whole(e, d) + Whole(now, d) /\ Rest(later, d) = Rest(now, d)
  BY AddFraction DEF Whole, Rest
<1>5. ASSUME NEW a \in Int, NEW b \in Int
      PROVE  Moved(x, a + b, n) = Moved(Moved(x, a, n), b, n)
  BY AddTwice
<1>6. Moved(x, Whole(e, d) + Whole(now, d), n) = Moved(Moved(x, Whole(e, d), n), Whole(now, d), n)
  BY <1>1, <1>3, <1>5
<1> QED BY <1>4, <1>6

(* More ticks take more cycles. *)
LEMMA MoreTicks ==
  ASSUME NEW m \in Int, NEW j \in Int, NEW d \in Nat \ {0}, m <= j
  PROVE  m * d <= j * d
<1>1. (j - m) * d >= 0
  OBVIOUS
<1>2. (j - m) * d = j * d - m * d
  OBVIOUS
<1> QED BY <1>1, <1>2

(* A sum of two numbers below n wraps at most once. *)
LEMMA WrapsOnce ==
  ASSUME NEW n \in Nat \ {0}, NEW x \in 0..(2 * n - 1)
  PROVE  x % n = IF x < n THEN x ELSE x - n
<1>1. CASE x < n
  BY <1>1, SmallDivision
<1>2. CASE ~(x < n)
  <2> DEFINE k == 1
  <2>1. k \in Int /\ x \in Int /\ x - n * k = x - n /\ x - n \in 0..(n - 1)
    BY <1>2
  <2> HIDE DEF k
  <2>2. (x - n * k) % n = x % n
    BY <2>1, LessMultiple
  <2>3. (x - n) % n = x - n
    BY <2>1, SmallDivision
  <2> QED BY <1>2, <2>1, <2>2, <2>3
<1> QED BY <1>1, <1>2

(* From a, the first tick that can reach target is their distance round the *)
(* counter; the first that can reach 0 is the one that wraps.                *)
LEMMA NotBefore ==
  ASSUME NEW n \in Nat \ {0}, NEW a \in 0..(n - 1), NEW target \in 0..(n - 1), NEW j \in Nat,
         (a + j) % n = target
  PROVE  /\ (target - a) % n <= j
         /\ target = 0 /\ j # 0 => n - a <= j
<1> DEFINE q == (a + j) \div n
           p == (target - a) \div n
           m == (target - a) % n
<1>1. a + j = n * q + target /\ q \in Int
  <2>1. a + j \in Int
    OBVIOUS
  <2> QED BY <2>1, DivisionParts
<1>2. target - a = n * p + m /\ p \in Int /\ m \in 0..(n - 1)
  <2>1. target - a \in Int
    OBVIOUS
  <2> QED BY <2>1, DivisionParts
<1> HIDE DEF q, p, m
<1>3. n * (p + q) = n * p + n * q
  BY <1>1, <1>2
<1>4. j = n * (p + q) + m
  <2> DEFINE x == n * p
             y == n * q
             z == n * (p + q)
  <2>1. x \in Int /\ y \in Int /\ z = x + y
    BY <1>1, <1>2, <1>3
  <2>2. a + j = y + target /\ target - a = x + m
    BY <1>1, <1>2
  <2> HIDE DEF x, y, z
  <2>3. j = z + m
    BY <1>2, <2>1, <2>2
  <2> QED BY <2>3 DEF z
<1>5. p + q >= 0
  <2> SUFFICES ASSUME p + q <= -1 PROVE FALSE
    BY <1>1, <1>2
  <2>1. (p + q) * n <= -1 * n
    BY <1>1, <1>2, MoreTicks
  <2>2. n * (p + q) = (p + q) * n
    BY <1>1, <1>2
  <2>3. n * (p + q) <= -n
    BY <2>1, <2>2
  <2> DEFINE z == n * (p + q)
  <2>4. z \in Int /\ z <= -n /\ j = z + m
    BY <1>1, <1>2, <1>4, <2>3
  <2> HIDE DEF z
  <2> QED BY <1>2, <2>4
<1>6. n * (p + q) \in Nat
  BY <1>1, <1>2, <1>5
<1>7. m <= j
  <2> DEFINE z == n * (p + q)
  <2>1. z \in Nat /\ j = z + m
    BY <1>4, <1>6
  <2> HIDE DEF z
  <2> QED BY <1>2, <2>1
<1>8. ASSUME target = 0, j # 0
      PROVE  n - a <= j
  <2>1. q >= 1
    <3> SUFFICES ASSUME q <= 0 PROVE FALSE
      BY <1>1
    <3>1. q * n <= 0 * n
      BY <1>1, MoreTicks
    <3>2. n * q = q * n
      BY <1>1
    <3>3. a + j <= 0
      BY <1>1, <1>8, <3>1, <3>2
    <3> QED BY <1>8, <3>3
  <2>2. 1 * n <= q * n /\ n * q = q * n
    BY <1>1, <2>1, MoreTicks
  <2> DEFINE y == n * q
  <2>3. y \in Int /\ n <= y /\ a + j = y
    BY <1>1, <1>8, <2>2
  <2> HIDE DEF y
  <2> QED BY <2>3
<1> QED BY <1>7, <1>8 DEF m

(* A timer at a whose e cycles have not been put into it, which divides by d *)
(* and wraps at n, touches target at tick k from now: it does so at tick     *)
(* e \div d + k from a, within the next c cycles and no sooner than it can.  *)
LEMMA Hit ==
  ASSUME NEW n \in Nat \ {0}, NEW d \in Nat \ {0}, NEW a \in 0..(n - 1), NEW e \in Nat,
         NEW c \in Nat, NEW target \in 0..(n - 1),
         NEW k \in 1..((Rest(e, d) + c) \div d),
         Moved(Moved(a, Whole(e, d), n), k, n) = target
  PROVE  /\ Whole(e, d) + k \in 1..Whole(e + c, d) /\ Whole(e, d) \in Nat
         /\ (a + (Whole(e, d) + k)) % n = target
         /\ k * d - Rest(e, d) \in 1..c
         /\ ((target - a) % n) * d - e <= k * d - Rest(e, d)
         /\ target = 0 => (n - a) * d - e <= k * d - Rest(e, d)
<1> DEFINE w == Whole(e, d)
           r == Rest(e, d)
           q == (r + c) \div d
           j == w + k
<1>0. e \in Int /\ c \in Int
  OBVIOUS
<1>1. w \in Int /\ r \in 0..(d - 1) /\ e = d * w + r
  BY <1>0, DivisionParts DEF Whole, Rest
<1>2. w \in Nat
  <2> SUFFICES ASSUME w <= -1 PROVE FALSE
    BY <1>1
  <2>1. w * d <= -1 * d /\ w * d = d * w
    BY <1>1, MoreTicks
  <2> DEFINE z == d * w
  <2>2. z \in Int /\ z <= -d /\ e = z + r
    BY <1>1, <2>1
  <2> HIDE DEF z, w, r
  <2> QED BY <1>1, <2>2
<1>3. q \in Int /\ r + c = d * q + ((r + c) % d) /\ (r + c) % d \in 0..(d - 1)
  <2>1. r + c \in Int
    BY <1>1
  <2> QED BY <2>1, DivisionParts
<1>4. Whole(e + c, d) = w + q
  BY <1>0, AddFraction DEF Whole, Rest
<1>5. k \in Int /\ 1 <= k /\ k <= q
  BY <1>3
<1>6. j \in 1..Whole(e + c, d)
  <2> HIDE DEF w, q
  <2> QED BY <1>2, <1>3, <1>4, <1>5
<1>7. (a + j) % n = target
  <2>1. a \in Int
    OBVIOUS
  <2> HIDE DEF w
  <2>2. Moved(Moved(a, w, n), k, n) = Moved(a, w + k, n)
    BY <1>1, <1>5, <2>1, AddTwice
  <2> QED BY <2>2 DEF Moved, w
<1>8. k * d - r \in 1..c
  <2>1. 1 * d <= k * d
    BY <1>5, MoreTicks
  <2>2. k * d <= q * d /\ q * d = d * q
    <3> HIDE DEF q
    <3> QED BY <1>3, <1>5, MoreTicks
  <2> DEFINE x == k * d
             y == d * q
             s == (r + c) % d
  <2>3. x \in Int /\ y \in Int /\ d <= x /\ x <= y /\ r + c = y + s /\ s \in 0..(d - 1)
    BY <1>3, <1>5, <2>1, <2>2
  <2> HIDE DEF x, y, s, r
  <2>4. x - r \in 1..c
    BY <1>1, <2>3
  <2> QED BY <2>4 DEF x, r
<1>9. j * d - e = k * d - r
  <2>1. (w + k) * d = w * d + k * d /\ w * d = d * w
    BY <1>1, <1>5
  <2> DEFINE x == k * d
             y == d * w
             z == j * d
  <2>2. x \in Int /\ y \in Int /\ z = y + x /\ e = y + r
    BY <1>1, <1>5, <2>1
  <2> HIDE DEF x, y, z, r
  <2>3. z - e = x - r
    BY <1>1, <2>2
  <2> QED BY <2>3 DEF x, z, r
<1>10. (target - a) % n <= j /\ (target = 0 => n - a <= j) /\ j \in Nat
  <2>1. j \in Nat /\ j # 0
    BY <1>2, <1>5
  <2> HIDE DEF j
  <2> QED BY <1>7, <2>1, NotBefore
<1>11. ASSUME NEW m \in Int, m <= j
       PROVE  m * d - e <= k * d - r
  <2>1. m * d <= j * d
    BY <1>10, <1>11, MoreTicks
  <2> DEFINE x == m * d
             z == j * d
             y == k * d - r
  <2>2. x \in Int /\ z \in Int /\ x <= z /\ z - e = y
    BY <1>9, <1>10, <1>11, <2>1
  <2> HIDE DEF x, z, y
  <2>3. x - e <= y
    BY <2>2
  <2> QED BY <2>3 DEF x, y
<1>12. (target - a) % n \in Int /\ n - a \in Int
  <2>1. target - a \in Int
    OBVIOUS
  <2> QED BY <2>1, DivisionParts
<1> QED BY <1>2, <1>6, <1>7, <1>8, <1>10, <1>11, <1>12

(* Whole ticks only grow. *)
LEMMA WholeGrows ==
  ASSUME NEW e \in Nat, NEW c \in Nat, NEW d \in Nat \ {0}
  PROVE  e \div d \in Nat /\ e \div d <= (e + c) \div d
<1>1. ASSUME NEW x \in Nat
      PROVE  x \div d \in Nat
  <2>1. x \in Int
    OBVIOUS
  <2>2. x \div d \in Int /\ x % d \in 0..(d - 1) /\ x = d * (x \div d) + (x % d)
    BY <2>1, DivisionParts
  <2> DEFINE w == x \div d
             r == x % d
  <2> SUFFICES ASSUME w <= -1 PROVE FALSE
    BY <2>2
  <2>3. w \in Int /\ r \in 0..(d - 1) /\ x = d * w + r
    BY <2>2
  <2> HIDE DEF w, r
  <2>4. w * d <= -1 * d /\ w * d = d * w
    BY <2>3, MoreTicks
  <2> DEFINE z == d * w
  <2>5. z \in Int /\ z <= -d /\ x = z + r
    BY <2>3, <2>4
  <2> HIDE DEF z
  <2> QED BY <2>3, <2>5
<1>2. e \in Int /\ c \in Int
  OBVIOUS
<1>3. e \div d \in Nat
  BY <1>1
<1>4. (e % d) + c \in Nat
  BY <1>2, DivisionParts
<1>5. ((e % d) + c) \div d \in Nat
  BY <1>1, <1>4
<1>6. (e + c) \div d = (e \div d) + (((e % d) + c) \div d)
  BY <1>2, AddFraction
<1> QED BY <1>3, <1>5, <1>6

(* A counter is at no distance from where it stands, and from there only. *)
LEMMA NoDistance ==
  ASSUME NEW n \in Nat \ {0}, NEW a \in 0..(n - 1), NEW b \in 0..(n - 1)
  PROVE  (b - a) % n \in Nat /\ ((b - a) % n = 0 => a = b)
<1>1. CASE b >= a
  BY <1>1, SmallDivision
<1>2. CASE ~(b >= a)
  <2> DEFINE y == b - a
             k == -1
  <2>1. y \in Int /\ k \in Int /\ y - n * k = y + n /\ y + n \in 1..(n - 1) /\ y + n \in 0..(n - 1)
    BY <1>2
  <2> HIDE DEF y, k
  <2>2. (y - n * k) % n = y % n
    BY <2>1, LessMultiple
  <2>3. (y + n) % n = y + n
    BY <2>1, SmallDivision
  <2>4. y % n \in 1..(n - 1)
    BY <2>1, <2>2, <2>3
  <2> QED BY <2>4 DEF y
<1> QED BY <1>1, <1>2
===============================================================================
