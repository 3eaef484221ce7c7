----------------------------- MODULE AddrProofs -----------------------------
(* Proofs about AddrTranslation: the arithmetic on two words is that on whole *)
(* numbers for every size of a word, of a table and of an entry.              *)
EXTENDS AddrTranslation, DivModProofs, TLAPS

-----------------------------------------------------------------------------
(* The constants.                                                           *)

\* How the sizes divide each other.
LEMMA Sizes ==
  /\ Slot \in Nat \ {0} /\ Radix \in Nat \ {0} /\ Page \in Nat \ {0}
  /\ PudUp \in Nat \ {0} /\ PgdDown \in Nat \ {0}
  /\ HighFrame \in Nat \ {0} /\ Word \in Nat \ {0} /\ Top \in 1..Word
  /\ HighFrame + Top <= Word
  /\ Radix * Radix \in Nat \ {0} /\ Radix * Radix * Radix \in Nat \ {0}
  /\ Page = Slot * Radix
  /\ Nibble \in Nat \ {0} /\ Word = 16 * Nibble
  /\ Word \div 2 = 8 * Nibble /\ Word \div 4 = 4 * Nibble
<1>1. /\ Slot \in Nat \ {0} /\ Radix \in Nat \ {0}
      /\ PudUp \in Nat \ {0} /\ PgdDown \in Nat \ {0}
      /\ HighFrame \in Nat \ {0} /\ Word \in Nat \ {0} /\ Top \in 1..Word
      /\ HighFrame + Top <= Word /\ Word % 16 = 0
  BY WordAssumption
<1>2. Page \in Nat \ {0} /\ Page = Slot * Radix
  BY <1>1 DEF Page
<1>3. Radix * Radix \in Nat \ {0}
  BY <1>1
<1>4. (Radix * Radix) * Radix \in Nat \ {0}
  <2> DEFINE s == Radix * Radix
  <2>1. s \in Nat \ {0}
    BY <1>3
  <2> HIDE DEF s
  <2>2. s * Radix \in Nat \ {0}
    BY <1>1, <2>1
  <2> QED
    BY <2>2 DEF s
<1>5. Nibble \in Nat \ {0} /\ Word = 16 * Nibble
  BY <1>1 DEF Nibble
<1>6. Word \div 2 = 8 * Nibble /\ Word \div 4 = 4 * Nibble
  BY <1>1, <1>5
<1> QED
  BY <1>1, <1>2, <1>3, <1>4, <1>5, <1>6

\* A word is a whole number of tables of tables of pages.
LEMMA WordFactors ==
  \E k \in Nat \ {0} :
    /\ Word = Page * ((Radix * Radix) * k)
    /\ Word = (Radix * Radix) * (Page * k)
    /\ Word = Radix * (Page * (Radix * k))
<1> DEFINE s == Radix * Radix
           u == s * Page
           k == Word \div u
<1>1. s \in Nat \ {0} /\ Page \in Nat \ {0} /\ Word \in Nat \ {0} /\ Radix \in Nat \ {0}
  BY Sizes
<1>2. Word % u = 0
  BY WordAssumption
<1> HIDE DEF s
<1>3. u \in Nat \ {0}
  BY <1>1
<1> HIDE DEF u
<1>4. k \in Nat /\ Word = u * k
  BY <1>1, <1>2, <1>3, DivMod
<1> HIDE DEF k
<1>5. k \in Nat \ {0}
  BY <1>1, <1>3, <1>4
<1>6. u * k = Page * (s * k) /\ u * k = s * (Page * k)
  BY <1>1, <1>5 DEF u
<1>7. s * (Page * k) = Radix * (Page * (Radix * k))
  <2> DEFINE p == Page * k
  <2>1. p \in Nat
    BY <1>1, <1>5
  <2>2. s * p = Radix * (Radix * p)
    BY <1>1, <2>1 DEF s
  <2>3. Radix * p = Page * (Radix * k)
    BY <1>1, <1>5
  <2> QED
    BY <2>2, <2>3
<1> QED
  BY <1>4, <1>5, <1>6, <1>7 DEF s

-----------------------------------------------------------------------------
(* The indices of a page walk.                                              *)

\* bit_and with 0xff8 is the offset of the entry with index n \div Slot.
LEMMA InPageIndex ==
  ASSUME NEW n \in Nat
  PROVE  InPage(n) = Slot * ((n \div Slot) % Radix)
<1> DEFINE m == n % Page
<1>1. Slot \in Nat \ {0} /\ Radix \in Nat \ {0} /\ Page \in Nat \ {0} /\ Page = Slot * Radix /\ n \in Int
  BY Sizes
<1>2. m % Slot = n % Slot /\ m \div Slot = (n \div Slot) % Radix
  BY <1>1, ModOfProduct
<1>3. m \in Nat
  BY <1>1, DivMod
<1> HIDE DEF m
<1>4. m = Slot * (m \div Slot) + (m % Slot)
  BY <1>1, <1>3, DivMod
<1>5. m \div Slot \in Nat /\ m % Slot \in Nat
  BY <1>1, <1>3, DivMod
<1>6. m - (m % Slot) = Slot * (m \div Slot)
  <2> DEFINE p == Slot * (m \div Slot)
  <2>1. p \in Nat
    BY <1>1, <1>5
  <2>2. m = p + (m % Slot)
    BY <1>4
  <2> HIDE DEF p
  <2>3. m - (m % Slot) = p
    BY <1>3, <1>5, <2>1, <2>2
  <2> QED
    BY <2>3 DEF p
<1> QED
  BY <1>2, <1>6 DEF InPage, m

\* It sees nothing of what is above the page.
LEMMA InPageMod ==
  ASSUME NEW n \in Nat, NEW k \in Nat \ {0}
  PROVE  InPage(n % (Page * k)) = InPage(n)
<1>1. Slot \in Nat \ {0} /\ Radix \in Nat \ {0} /\ Page \in Nat \ {0} /\ Page = Slot * Radix /\ n \in Int
  BY Sizes
<1>2. (n % (Page * k)) % Page = n % Page
  BY <1>1, ModOfProduct
<1>3. Page * k = Slot * (Radix * k) /\ Radix * k \in Nat \ {0}
  BY <1>1
<1>4. (n % (Slot * (Radix * k))) % Slot = n % Slot
  BY <1>1, <1>3, ModOfProduct
<1> QED
  BY <1>2, <1>3, <1>4 DEF InPage

\* It stays in the page, at the start of an entry.
LEMMA InPageBound ==
  ASSUME NEW n \in Nat
  PROVE  InPage(n) \in 0..(Page - 1)
<1> DEFINE i == (n \div Slot) % Radix
<1>1. Slot \in Nat \ {0} /\ Radix \in Nat \ {0} /\ Page \in Nat \ {0} /\ Page = Slot * Radix
  BY Sizes
<1>2. i \in Nat /\ i + 1 <= Radix
  BY <1>1, DivMod
<1> HIDE DEF i
<1>3. Slot * (i + 1) <= Slot * Radix /\ Slot * (i + 1) = Slot * i + Slot /\ Slot * i \in Nat
  BY <1>1, <1>2, MulMono
<1>4. Slot * i \in 0..(Page - 1)
  <2> DEFINE p == Slot * i
  <2>1. p \in Nat /\ p + Slot <= Page
    BY <1>1, <1>3
  <2> HIDE DEF p
  <2>2. p \in 0..(Page - 1)
    BY <1>1, <2>1
  <2> QED
    BY <2>2 DEF p
<1> QED
  BY <1>4, InPageIndex DEF i

\* After a shift by a it is the index for entries of a * Slot bytes.
LEMMA Shifted ==
  ASSUME NEW n \in Nat, NEW a \in Nat \ {0}
  PROVE  InPage(n \div a) = Slot * Index(n, a * Slot)
<1>1. Slot \in Nat \ {0} /\ n \in Int
  BY Sizes
<1>2. n \div (a * Slot) = (n \div a) \div Slot
  BY <1>1, DivDiv
<1>3. n \div a \in Nat
  BY DivMod
<1> QED
  BY <1>2, <1>3, InPageIndex DEF Index

\* The two words of an address.
LEMMA SplitWords ==
  ASSUME NEW n \in 0..(Word * Word - 1)
  PROVE  /\ Split(n) \in Pair
         /\ n = Word * Split(n).h + Split(n).l
         /\ Split(n).h = n \div Word /\ Split(n).l = n % Word
<1> DEFINE h == n \div Word
           l == n % Word
<1>1. Word \in Nat \ {0} /\ Word * Word \in Nat /\ n \in Nat /\ n < Word * Word
  BY Sizes
<1>2. /\ h \in Nat /\ l \in Nat /\ l < Word /\ n = Word * h + l
  BY <1>1, DivMod
<1>3. Split(n).h = h /\ Split(n).l = l /\ Split(n) = [h |-> h, l |-> l]
  BY DEF Split
<1> HIDE DEF h, l
<1>4. h < Word
  <2>1. SUFFICES ASSUME Word <= h PROVE FALSE
    BY <1>1, <1>2
  <2>2. Word * Word <= Word * h
    BY <1>1, <1>2, <2>1, MulMono
  <2>3. Word * h \in Nat
    BY <1>1, <1>2
  <2> QED
    BY <1>1, <1>2, <2>2, <2>3
<1> QED
  BY <1>1, <1>2, <1>3, <1>4 DEF Pair, Half, h, l

\* calc_pgd_offset: the index in the top table is in the upper word.
LEMMA PgdIndex ==
  ASSUME NEW n \in 0..(Word * Word - 1)
  PROVE  PgdOffset(Split(n)) = Slot * Index(n, Page * Radix * Radix * Radix)
<1> DEFINE a == Word * PgdDown
<1>1. /\ Word \in Nat \ {0} /\ PgdDown \in Nat \ {0} /\ Radix \in Nat \ {0}
      /\ Slot \in Nat \ {0} /\ Page = Slot * Radix /\ n \in Nat /\ n \in Int
  BY Sizes
<1>2. a \in Nat \ {0}
  BY <1>1
<1>3. a = Radix * Radix * Radix * Radix
  BY <1>1, WordAssumption
<1>4. n \div a = (n \div Word) \div PgdDown
  BY <1>1, DivDiv
<1>5. Page * Radix * Radix * Radix = (Radix * Radix * Radix * Radix) * Slot
  BY <1>1
<1> HIDE DEF a
<1>6. InPage(n \div a) = Slot * Index(n, a * Slot)
  BY <1>1, <1>2, Shifted
<1> QED
  BY <1>3, <1>4, <1>5, <1>6, SplitWords DEF PgdOffset

\* calc_pud_offset: the index in the next table straddles the two words.
LEMMA PudIndex ==
  ASSUME NEW n \in 0..(Word * Word - 1)
  PROVE  PudOffset(Split(n)) = Slot * Index(n, Page * Radix * Radix)
<1> DEFINE a == Radix * Radix * Radix
           h == Split(n).h
           l == Split(n).l
           x == h * PudUp
           c == l \div a
<1>1. /\ Word \in Nat \ {0} /\ PudUp \in Nat \ {0} /\ Radix \in Nat \ {0} /\ a \in Nat \ {0}
      /\ Slot \in Nat \ {0} /\ Page = Slot * Radix /\ Page \in Nat \ {0} /\ n \in Nat
  BY Sizes
<1>2. PudUp * a = Word
  BY WordAssumption
<1>3. h \in Nat /\ l \in Nat /\ n = Word * h + l
  BY SplitWords DEF Pair, Half
<1>4. Page * Radix * Radix = a * Slot
  BY <1>1
<1>5. PudOffset(Split(n)) = InPage(((x % Word) + c) % Word)
  BY DEF PudOffset
<1> HIDE DEF a, h, l
<1>6. x \in Nat /\ c \in Nat
  BY <1>1, <1>3, DivMod
<1>7. n \div a = x + c
  <2> DEFINE r == l % a
  <2>1. r \in Nat /\ r < a /\ l = a * c + r
    BY <1>1, <1>3, DivMod
  <2>2. Word * h = a * x
    BY <1>1, <1>2, <1>3
  <2> HIDE DEF x, c, r
  <2>3. a * (x + c) = a * x + a * c
    BY <1>1, <1>6
  <2> DEFINE q == x + c
  <2>4. q \in Nat /\ n = a * q + r
    <3>1. a * x \in Nat /\ a * c \in Nat
      BY <1>1, <1>6
    <3> QED
      BY <1>3, <1>6, <2>1, <2>2, <2>3, <3>1
  <2> HIDE DEF q
  <2>5. n \div a = q
    BY <1>1, <2>1, <2>4, DivUnique
  <2> QED
    BY <2>5 DEF q
<1> HIDE DEF x, c
<1>8. ((x % Word) + c) % Word = (x + c) % Word
  <2>1. Word \in Nat \ {0} /\ x \in Int /\ c \in Int
    BY <1>1, <1>6
  <2> QED
    BY <2>1, ModAdd
<1>9. InPage((x + c) % Word) = InPage(x + c)
  <2>1. PICK k \in Nat \ {0} : Word = Page * ((Radix * Radix) * k)
    BY WordFactors
  <2> DEFINE j == (Radix * Radix) * k
             y == x + c
  <2>2. j \in Nat \ {0} /\ y \in Nat /\ Word = Page * j
    BY <1>6, <2>1, Sizes
  <2> HIDE DEF j, y
  <2>3. InPage(y % (Page * j)) = InPage(y)
    BY <2>2, InPageMod
  <2> QED
    BY <2>2, <2>3 DEF y
<1>10. InPage(n \div a) = Slot * Index(n, a * Slot)
  BY <1>1, Shifted
<1> QED
  BY <1>4, <1>5, <1>7, <1>8, <1>9, <1>10

\* calc_pmd_offset, calc_pte_offset and calc_page_offset need the lower word only.
LEMMA LowerIndex ==
  ASSUME NEW n \in 0..(Word * Word - 1)
  PROVE  /\ PmdOffset(Split(n)) = Slot * Index(n, Page * Radix)
         /\ PteOffset(Split(n)) = Slot * Index(n, Page)
         /\ PageOffset(Split(n)) = n % Page
<1> DEFINE s == Radix * Radix
<1>1. /\ Word \in Nat \ {0} /\ Radix \in Nat \ {0} /\ s \in Nat \ {0} /\ Slot \in Nat \ {0}
      /\ Page = Slot * Radix /\ Page \in Nat \ {0} /\ n \in Nat
  BY Sizes
<1>2. PICK k \in Nat \ {0} : /\ Word = Page * (s * k)
                             /\ Word = s * (Page * k)
                             /\ Word = Radix * (Page * (Radix * k))
  BY WordFactors
<1>3. Page * Radix = s * Slot /\ Page = Radix * Slot
  BY <1>1
<1>4. PmdOffset(Split(n)) = InPage((n % Word) \div s)
  BY SplitWords DEF PmdOffset
<1>5. PteOffset(Split(n)) = InPage((n % Word) \div Radix)
  BY SplitWords DEF PteOffset
<1>6. PageOffset(Split(n)) = (n % Word) % Page
  BY SplitWords DEF PageOffset
<1> HIDE DEF s
<1>7. Page * k \in Nat \ {0} /\ Radix * k \in Nat \ {0} /\ s * k \in Nat \ {0}
  BY <1>1
<1>8. Page * (Radix * k) \in Nat \ {0}
  BY <1>1, <1>7
<1>9. (n % Word) \div s = (n \div s) % (Page * k)
  <2> DEFINE b == Page * k
  <2>1. s \in Nat \ {0} /\ b \in Nat \ {0} /\ n \in Int /\ Word = s * b
    BY <1>1, <1>2, <1>7
  <2> HIDE DEF b
  <2>2. (n % (s * b)) \div s = (n \div s) % b
    BY <2>1, ModOfProduct
  <2> QED
    BY <2>1, <2>2 DEF b
<1>10. (n % Word) \div Radix = (n \div Radix) % (Page * (Radix * k))
  <2> DEFINE b == Page * (Radix * k)
  <2>1. Radix \in Nat \ {0} /\ b \in Nat \ {0} /\ n \in Int /\ Word = Radix * b
    BY <1>1, <1>2, <1>8
  <2> HIDE DEF b
  <2>2. (n % (Radix * b)) \div Radix = (n \div Radix) % b
    BY <2>1, ModOfProduct
  <2> QED
    BY <2>1, <2>2 DEF b
<1>11. (n % Word) % Page = n % Page
  <2> DEFINE b == s * k
  <2>1. Page \in Nat \ {0} /\ b \in Nat \ {0} /\ n \in Int /\ Word = Page * b
    BY <1>1, <1>2, <1>7
  <2> HIDE DEF b
  <2>2. (n % (Page * b)) % Page = n % Page
    BY <2>1, ModOfProduct
  <2> QED
    BY <2>1, <2>2
<1>12. n \div s \in Nat /\ n \div Radix \in Nat
  BY <1>1, DivMod
<1>13. InPage((n \div s) % (Page * k)) = InPage(n \div s)
  BY <1>12, InPageMod
<1>14. InPage((n \div Radix) % (Page * (Radix * k))) = InPage(n \div Radix)
  BY <1>7, <1>12, InPageMod
<1>15. InPage(n \div s) = Slot * Index(n, s * Slot)
  BY <1>1, Shifted
<1>16. InPage(n \div Radix) = Slot * Index(n, Radix * Slot)
  BY <1>1, Shifted
<1> QED
  BY <1>3, <1>4, <1>5, <1>6, <1>9, <1>10, <1>11, <1>13, <1>14, <1>15, <1>16

-----------------------------------------------------------------------------
(* Adding to the lower word.                                                *)

\* An address that is neither canonical nor the image's is left as it is.
LEMMA LinearLow ==
  ASSUME NEW a \in Pair, NEW c, a.h < Word - Top
  PROVE  Linear(a, c) = a
<1>1. a.h \in Nat /\ a.h < Word - Top /\ Word \in Nat \ {0} /\ Top \in 1..Word
  BY Sizes DEF Pair, Half
<1>2. a.h # Word - 1 /\ ~ a.h >= Word - Top
  BY <1>1
<1>3. TransMode(a) = 0
  BY <1>2 DEF TransMode
<1> QED
  BY <1>3 DEF Linear, LinearFrom

\* The start of a page has room for an offset: no carry to the upper word.
LEMMA NoCarry ==
  ASSUME NEW p \in Half, NEW n \in 0..(Page - 1), p % Page = 0
  PROVE  p + n \in Half /\ (p + n) % Word = p + n
<1> DEFINE q == p \div Page
<1>1. Page \in Nat \ {0} /\ Word \in Nat \ {0} /\ p \in Nat /\ p < Word
  BY Sizes DEF Half
<1>2. q \in Nat /\ p = Page * q
  BY <1>1, DivMod
<1> HIDE DEF q
<1>3. PICK k \in Nat \ {0} : Word = Page * ((Radix * Radix) * k)
  BY WordFactors
<1> DEFINE j == (Radix * Radix) * k
<1>4. j \in Nat /\ Word = Page * j
  BY <1>3, Sizes
<1> HIDE DEF j
<1>5. q + 1 <= j
  <2>1. SUFFICES ASSUME j <= q PROVE FALSE
    BY <1>2, <1>4
  <2>2. Page * j <= Page * q
    BY <1>1, <1>2, <1>4, <2>1, MulMono
  <2> QED
    BY <1>1, <1>2, <1>4, <2>2
<1>6. Page * (q + 1) <= Page * j /\ Page * (q + 1) = Page * q + Page
  BY <1>1, <1>2, <1>4, <1>5, MulMono
<1>7. p + n \in 0..(Word - 1)
  BY <1>1, <1>2, <1>4, <1>6
<1> DEFINE y == p + n
<1>8. y \in Nat /\ y < Word /\ y = Word * 0 + y
  BY <1>1, <1>7
<1> HIDE DEF y
<1>9. y % Word = y
  BY <1>1, <1>8, DivUnique
<1> QED
  BY <1>7, <1>9 DEF Half, y

\* make_up_addr on a page-aligned address below the canonical ones.
LEMMA MakeUpExact ==
  ASSUME NEW a \in Pair, NEW n \in 0..(Page - 1), NEW c,
         a.l % Page = 0, a.h < Word - Top
  PROVE  /\ Linear(MakeUp(a, n), c) \in Pair
         /\ Whole(Linear(MakeUp(a, n), c)) = Whole(a) + n
<1>1. a.h \in Half /\ a.l \in Half
  BY DEF Pair
<1>2. a.l + n \in Half /\ (a.l + n) % Word = a.l + n
  BY <1>1, NoCarry
<1>3. MakeUp(a, n) = [h |-> a.h, l |-> a.l + n]
  BY <1>2 DEF MakeUp, Pair
<1>4. MakeUp(a, n) \in Pair /\ MakeUp(a, n).h = a.h /\ MakeUp(a, n).l = a.l + n
  BY <1>1, <1>2, <1>3 DEF Pair
<1>5. Linear(MakeUp(a, n), c) = MakeUp(a, n)
  BY <1>4, LinearLow
<1>6. a.h * Word + (a.l + n) = (a.h * Word + a.l) + n
  BY <1>1, Sizes DEF Half
<1> QED
  BY <1>4, <1>5, <1>6 DEF Whole

\* mask_base_addr leaves the frame of an entry.
LEMMA MaskFrame ==
  ASSUME NEW e \in Pair
  PROVE  /\ Mask(e) \in Pair /\ Mask(e).h < Word - Top /\ Mask(e).l % Page = 0
         /\ Whole(Mask(e)) = FrameOf(e)
<1> DEFINE h == e.h
           l == e.l
           q == h \div HighFrame
           r == h % HighFrame
           u == l \div Page
           v == l % Page
<1>1. /\ Page \in Nat \ {0} /\ Word \in Nat \ {0} /\ HighFrame \in Nat \ {0}
      /\ Top \in 1..Word /\ HighFrame + Top <= Word
  BY Sizes
<1>2. h \in Nat /\ l \in Nat /\ h < Word /\ l < Word
  BY <1>1 DEF Pair, Half
<1>3. Mask(e) = [h |-> r, l |-> l - v] /\ FrameOf(e) = ((h * Word + l) % (HighFrame * Word)) - ((h * Word + l) % Page)
  BY DEF Mask, FrameOf, Whole
<1>4. Whole(Mask(e)) = r * Word + (l - v) /\ Mask(e).h = r /\ Mask(e).l = l - v
  BY <1>3 DEF Whole
<1> HIDE DEF h, l
<1>5. q \in Nat /\ r \in Nat /\ r < HighFrame /\ h = HighFrame * q + r
  BY <1>1, <1>2, DivMod
<1>6. u \in Nat /\ v \in Nat /\ v < Page /\ l = Page * u + v
  BY <1>1, <1>2, DivMod
<1> HIDE DEF q, r, u, v
<1>7. l - v \in Half /\ r \in Half /\ r < Word - Top
  <2>1. Page * u \in Nat
    BY <1>1, <1>6
  <2> QED
    BY <1>1, <1>2, <1>5, <1>6, <2>1 DEF Half
<1>8. (l - v) % Page = 0
  <2> DEFINE y == l - v
  <2>1. y \in Nat /\ y = Page * u + 0
    BY <1>1, <1>6
  <2> HIDE DEF y
  <2>2. y % Page = 0
    BY <1>1, <1>6, <2>1, DivUnique
  <2> QED
    BY <2>2 DEF y
<1> DEFINE w == h * Word + l
<1>9. w \in Nat
  BY <1>1, <1>2
<1>10. w % (HighFrame * Word) = r * Word + l
  <2> DEFINE m == HighFrame * Word
             y == r * Word + l
  <2>1. w = m * q + y
    <3>1. h * Word = m * q + r * Word
      BY <1>1, <1>5
    <3> QED
      BY <1>1, <1>2, <1>5, <3>1
  <2>2. m \in Nat \ {0} /\ y \in Nat
    BY <1>1, <1>2, <1>5
  <2>3. y < m
    <3>1. Word * (r + 1) <= Word * HighFrame
      BY <1>1, <1>5, MulMono
    <3>2. Word * (r + 1) = r * Word + Word /\ r * Word \in Nat
      BY <1>1, <1>5
    <3> QED
      BY <1>1, <1>2, <3>1, <3>2
  <2> HIDE DEF m, y, w
  <2>4. w % m = y
    BY <1>5, <1>9, <2>1, <2>2, <2>3, DivUnique
  <2> QED
    BY <2>4 DEF m, y
<1>11. w % Page = v
  <2>1. PICK k \in Nat \ {0} : Word = Page * ((Radix * Radix) * k)
    BY WordFactors
  <2> DEFINE j == (Radix * Radix) * k
             y == h * j + u
  <2>2. j \in Nat /\ Word = Page * j
    BY <2>1, Sizes
  <2> HIDE DEF j
  <2>3. h * Word = Page * (h * j)
    BY <1>1, <1>2, <2>2
  <2>4. h * j \in Nat /\ y \in Nat
    BY <1>2, <1>6, <2>2
  <2>5. Page * y = Page * (h * j) + Page * u
    BY <1>1, <1>6, <2>4
  <2>6. w = Page * y + v
    <3>1. Page * (h * j) \in Nat /\ Page * u \in Nat
      BY <1>1, <1>6, <2>4
    <3> QED
      BY <1>2, <1>6, <2>3, <2>5, <3>1
  <2> HIDE DEF y, w
  <2> QED
    BY <1>1, <1>6, <1>9, <2>4, <2>6, DivUnique
<1>12. FrameOf(e) = (r * Word + l) - v
  BY <1>3, <1>10, <1>11
<1>13. (r * Word + l) - v = r * Word + (l - v)
  <2>1. r * Word \in Nat
    BY <1>1, <1>5
  <2> QED
    BY <1>2, <1>6, <2>1
<1> QED
  BY <1>3, <1>4, <1>7, <1>8, <1>12, <1>13 DEF Pair

-----------------------------------------------------------------------------
(* Linear translation.                                                      *)

\* The parameters of a coherent row are words.
LEMMA RowWords ==
  ASSUME NEW c, Coherent(c)
  PROVE  /\ c.addr1 \in Half /\ c.addr2 \in Half /\ c.addr3 \in Half
         /\ c.addr4 \in Half /\ c.addr5 \in Half /\ c.addr6 \in Half
BY DEF Coherent

\* The translation leaves two words.
LEMMA LinearType ==
  ASSUME NEW a \in Pair, NEW c, Coherent(c)
  PROVE  Linear(a, c) \in Pair
<1>1. Word \in Nat \ {0} /\ a.h \in Int /\ a.l \in Int
  BY Sizes DEF Pair, Half
<1>2. /\ c.addr1 \in Int /\ c.addr2 \in Int /\ c.addr3 \in Int
      /\ c.addr4 \in Int /\ c.addr5 \in Int /\ c.addr6 \in Half
  BY RowWords, Sizes DEF Half
<1>3. \A x \in Int : x % Word \in Half
  BY <1>1 DEF Half
<1>4. PageOffset1(a, c) \in Pair
  <2>1. a.h - c.addr1 \in Int /\ a.l - c.addr2 \in Int
    BY <1>1, <1>2
  <2> QED
    BY <1>3, <2>1 DEF PageOffset1, Pair
<1>5. PageOffset2(a, c) \in Pair
  <2>1. a.h - c.addr3 \in Int /\ a.l + c.addr5 \in Int
    BY <1>1, <1>2
  <2> QED
    BY <1>3, <2>1 DEF PageOffset2, Pair
<1>6. PhysOffset(a, c) \in Pair
  <2>1. a.l + c.addr4 \in Int
    BY <1>1, <1>2
  <2> QED
    BY <1>2, <1>3, <2>1 DEF PhysOffset, Pair
<1> QED
  BY <1>4, <1>5, <1>6 DEF Linear, LinearFrom

\* A number below a word is its own remainder.
LEMMA SmallMod ==
  ASSUME NEW x \in Half
  PROVE  x % Word = x
<1>1. Word \in Nat \ {0} /\ x \in Nat /\ x < Word
  BY Sizes DEF Half
<1>2. x = Word * 0 + x
  BY <1>1
<1> QED
  BY <1>1, <1>2, DivUnique

\* The order of two addresses is that of their words.
LEMMA WordOrder ==
  ASSUME NEW h \in Nat, NEW l \in Half, NEW g \in Nat, NEW m \in Nat,
         g * Word + m <= Word * h + l
  PROVE  /\ g <= h
         /\ l < m => g + 1 <= h
<1>1. Word \in Nat \ {0} /\ l \in Nat /\ l < Word
  BY Sizes DEF Half
<1>2. g <= h
  <2>1. SUFFICES ASSUME h + 1 <= g PROVE FALSE
    OBVIOUS
  <2>2. Word * (h + 1) <= Word * g /\ Word * (h + 1) = Word * h + Word /\ Word * g = g * Word
    BY <1>1, <2>1, MulMono
  <2>3. Word * h \in Nat /\ Word * g \in Nat
    BY <1>1
  <2> QED
    BY <1>1, <2>2, <2>3
<1>3. ASSUME l < m, g = h PROVE FALSE
  <2>1. Word * h \in Nat /\ g * Word = Word * h
    BY <1>1, <1>3
  <2> QED
    BY <1>1, <1>3, <2>1
<1> QED
  BY <1>2, <1>3

\* Which row of trans_mode_tab an address of the direct map or the image meets.
LEMMA Modes ==
  ASSUME NEW n \in 0..(Word * Word - 1), NEW c
  PROVE  /\ n < (Word - 1) * Word /\ n >= (Word - Top) * Word => TransMode(Split(n)) = 1
         /\ n >= (Word - 1) * Word => TransMode(Split(n)) = 2
<1> DEFINE h == Split(n).h
           l == Split(n).l
<1>1. Word \in Nat \ {0} /\ Top \in 1..Word
  BY Sizes
<1>2. h \in Nat /\ h < Word /\ l \in Half /\ n = Word * h + l
  <2>1. Split(n) \in Pair /\ n = Word * h + l
    BY SplitWords
  <2> QED
    BY <1>1, <2>1 DEF Pair, Half
<1>3. TransMode(Split(n)) = IF h = Word - 1 THEN 2 ELSE IF h >= Word - Top THEN 1 ELSE 0
  BY DEF TransMode
<1> HIDE DEF h, l
<1>4. ASSUME n >= (Word - Top) * Word PROVE h >= Word - Top
  <2>1. Word - Top \in Nat
    BY <1>1
  <2> DEFINE g == Word - Top
  <2>2. g \in Nat /\ g * Word + 0 <= Word * h + l
    BY <1>1, <1>2, <1>4, <2>1
  <2> HIDE DEF g
  <2>3. g <= h
    BY <1>2, <2>2, WordOrder
  <2> QED
    BY <1>1, <1>2, <2>3 DEF g
<1>5. ASSUME n >= (Word - 1) * Word PROVE h = Word - 1
  <2> DEFINE g == Word - 1
  <2>1. g \in Nat /\ g * Word + 0 <= Word * h + l
    BY <1>1, <1>2, <1>5
  <2> HIDE DEF g
  <2>2. g <= h
    BY <1>2, <2>1, WordOrder
  <2> QED
    BY <1>1, <1>2, <2>2 DEF g
<1>6. ASSUME n < (Word - 1) * Word PROVE h # Word - 1
  <2>1. SUFFICES ASSUME h = Word - 1 PROVE FALSE
    OBVIOUS
  <2>2. Word * h = (Word - 1) * Word /\ Word * h \in Nat
    BY <1>1, <2>1
  <2> QED
    BY <1>1, <1>2, <1>6, <2>2 DEF Half
<1> QED
  BY <1>3, <1>4, <1>5, <1>6

\* An address of the direct map becomes its distance from PAGE_OFFSET.
LEMMA DirectExact ==
  ASSUME NEW n \in 0..(Word * Word - 1), NEW c, Coherent(c),
         DirectMap(n, c), n >= (Word - Top) * Word
  PROVE  Whole(Linear(Split(n), c)) = n - PageOffsetOf(c)
<1> DEFINE a == Split(n)
           h == a.h
           l == a.l
           g == c.addr1
           m == c.addr2
<1>1. Word \in Nat \ {0} /\ Nibble \in Nat \ {0} /\ Word = 16 * Nibble
  BY Sizes
<1>2. h \in Half /\ l \in Half /\ n = Word * h + l
  <2>1. a \in Pair /\ n = Word * h + l
    BY SplitWords
  <2> QED
    BY <2>1 DEF Pair
<1>3. g \in Half /\ m \in Half
  BY RowWords
<1>4. g * Word + m <= Word * h + l /\ n < (Word - 1) * Word
  BY <1>2 DEF DirectMap, PageOffsetOf
<1>5. TransMode(a) = 1
  BY <1>4, Modes
<1>6. Linear(a, c) = IF l \div Nibble >= 4 THEN PageOffset1(a, c) ELSE PageOffset2(a, c)
  BY <1>5 DEF Linear, LinearFrom
<1>7. /\ PageOffset1(a, c) = [h |-> (h - g) % Word, l |-> (l - m) % Word]
      /\ PageOffset2(a, c) = [h |-> (h - c.addr3) % Word, l |-> (l + c.addr5) % Word]
  BY DEF PageOffset1, PageOffset2
<1>8. \/ m = 0 /\ c.addr3 = g /\ c.addr5 = 0
      \/ m = 4 * Nibble /\ c.addr3 = g + 1 /\ c.addr5 = Word - m
  BY DEF Coherent
<1>9. PageOffsetOf(c) = g * Word + m
  BY DEF PageOffsetOf
<1> HIDE DEF a, h, l, g, m
<1>10. h \in Nat /\ h < Word /\ l \in Nat /\ l < Word /\ g \in Nat /\ g < Word /\ m \in Nat /\ m < Word
  BY <1>1, <1>2, <1>3 DEF Half
<1>11. g <= h /\ (l < m => g + 1 <= h)
  BY <1>2, <1>4, <1>10, WordOrder
<1>12. l \div Nibble >= 4 <=> l >= 4 * Nibble
  <2> DEFINE q == l \div Nibble
             r == l % Nibble
  <2>1. q \in Nat /\ r \in Nat /\ r < Nibble /\ l = Nibble * q + r
    BY <1>1, <1>10, DivMod
  <2> HIDE DEF q, r
  <2>2. ASSUME q >= 4 PROVE l >= 4 * Nibble
    <3>1. Nibble * 4 <= Nibble * q
      BY <1>1, <2>1, <2>2, MulMono
    <3> QED
      BY <1>1, <2>1, <3>1
  <2>3. ASSUME q + 1 <= 4 PROVE l < 4 * Nibble
    <3>1. Nibble * (q + 1) <= Nibble * 4 /\ Nibble * (q + 1) = Nibble * q + Nibble
      BY <1>1, <2>1, <2>3, MulMono
    <3> QED
      BY <1>1, <2>1, <3>1
  <2>4. l \div Nibble = q
    BY DEF q
  <2> QED
    BY <1>1, <1>10, <2>1, <2>2, <2>3, <2>4
<1>13. (h - g) \in Nat /\ (h - g) * Word = Word * h - g * Word
  BY <1>1, <1>10, <1>11
<1>14. g * Word \in Nat /\ Word * h \in Nat
  BY <1>1, <1>10
<1>15. ASSUME l >= m, Linear(a, c) = PageOffset1(a, c)
       PROVE  Whole(Linear(a, c)) = n - (g * Word + m)
  <2>1. h - g \in Half /\ l - m \in Half
    BY <1>1, <1>10, <1>11, <1>15 DEF Half
  <2>2. (h - g) % Word = h - g /\ (l - m) % Word = l - m
    BY <2>1, SmallMod
  <2>3. Whole(Linear(a, c)) = (h - g) * Word + (l - m)
    BY <1>7, <1>15, <2>2 DEF Whole
  <2> QED
    BY <1>2, <1>10, <1>13, <1>14, <2>3
<1>16. CASE m = 0 /\ c.addr3 = g /\ c.addr5 = 0
  <2>1. l - m = l /\ l + c.addr5 = l /\ l >= m
    BY <1>10, <1>16
  <2>2. PageOffset2(a, c) = PageOffset1(a, c)
    BY <1>7, <1>16, <2>1
  <2> QED
    BY <1>6, <1>9, <1>15, <2>1, <2>2 DEF a
<1>17. CASE m = 4 * Nibble /\ c.addr3 = g + 1 /\ c.addr5 = Word - m
  <2>1. CASE l >= m
    BY <1>6, <1>9, <1>12, <1>15, <1>17, <2>1 DEF a
  <2>2. CASE l < m
    <3>1. Linear(a, c) = PageOffset2(a, c)
      BY <1>1, <1>6, <1>10, <1>12, <1>17, <2>2
    <3>2. h - (g + 1) \in Half /\ l + (Word - m) \in Half
      BY <1>1, <1>10, <1>11, <2>2 DEF Half
    <3>3. (h - (g + 1)) % Word = h - (g + 1) /\ (l + (Word - m)) % Word = l + (Word - m)
      BY <3>2, SmallMod
    <3>4. Whole(Linear(a, c)) = (h - (g + 1)) * Word + (l + (Word - m))
      BY <1>7, <1>17, <3>1, <3>3 DEF Whole
    <3>5. (h - (g + 1)) * Word = (h - g) * Word - Word
      BY <1>1, <1>10
    <3>6. (h - g) * Word \in Nat
      BY <1>1, <1>13
    <3>7. Whole(Linear(a, c)) = n - (g * Word + m)
      BY <1>1, <1>2, <1>10, <1>13, <1>14, <3>4, <3>5, <3>6
    <3> QED
      BY <1>9, <3>7 DEF a
  <2> QED
    BY <1>10, <2>1, <2>2
<1> QED
  BY <1>8, <1>16, <1>17

\* An address of the image becomes its distance from __START_KERNEL_map on top of
\* the image's physical address.
LEMMA ImageExact ==
  ASSUME NEW n \in 0..(Word * Word - 1), NEW c, Coherent(c), Image(n, c)
  PROVE  Whole(Linear(Split(n), c)) = n - KernelMap(c) + PhysBase(c)
<1> DEFINE a == Split(n)
           h == a.h
           l == a.l
           d == l - 8 * Nibble
           b == c.addr4 + 8 * Nibble
           p == b % Word
<1>1. /\ Word \in Nat \ {0} /\ Nibble \in Nat \ {0} /\ Word = 16 * Nibble
      /\ Word \div 2 = 8 * Nibble /\ Word \div 4 = 4 * Nibble
  BY Sizes
<1>2. h \in Half /\ l \in Half /\ n = Word * h + l
  <2>1. a \in Pair /\ n = Word * h + l
    BY SplitWords
  <2> QED
    BY <2>1 DEF Pair
<1>3. c.addr4 \in Half /\ c.addr6 \in Half
  BY RowWords
<1>4. KernelMap(c) = (Word - 1) * Word + 8 * Nibble /\ PhysBase(c) = c.addr6 * Word + p
  BY <1>1 DEF KernelMap, PhysBase, PhysLow
<1>5. p + 4 * Nibble <= Word
  BY <1>1 DEF Coherent, PhysLow
<1>6. KernelMap(c) <= n /\ n < KernelMap(c) + 4 * Nibble
  BY <1>1 DEF Image
<1>7. (Word - 1) * Word \in Nat
  BY <1>1
<1>8. n >= (Word - 1) * Word
  BY <1>1, <1>4, <1>6, <1>7
<1>9. TransMode(a) = 2
  BY <1>8, Modes
<1>10. Linear(a, c) = [h |-> c.addr6, l |-> (l + c.addr4) % Word]
  BY <1>9 DEF Linear, LinearFrom, PhysOffset
<1>11. h = Word - 1
  BY <1>9, <1>1, <1>2 DEF TransMode, Half
<1> HIDE DEF a, h, l
<1>12. l \in Nat /\ l < Word /\ c.addr4 \in Nat /\ c.addr6 \in Nat
  BY <1>1, <1>2, <1>3 DEF Half
<1>13. n = (Word - 1) * Word + l
  BY <1>1, <1>2, <1>11
<1>14. d \in Nat /\ d < 4 * Nibble /\ l = d + 8 * Nibble
  BY <1>1, <1>4, <1>6, <1>7, <1>12, <1>13
<1>15. l + c.addr4 = b + d /\ b \in Nat /\ b \in Int /\ d \in Int
  BY <1>1, <1>12, <1>14
<1> HIDE DEF d, b
<1>16. p \in Nat /\ p < Word
  BY <1>1, <1>15, DivMod
<1>17. (b + d) % Word = p + d
  <2>1. (p + d) % Word = (b + d) % Word
    BY <1>1, <1>14, <1>15, ModAdd
  <2>2. p + d \in Half
    BY <1>1, <1>5, <1>14, <1>16 DEF Half
  <2> QED
    BY <2>1, <2>2, SmallMod
<1>18. Whole(Linear(a, c)) = c.addr6 * Word + (p + d)
  BY <1>10, <1>15, <1>17 DEF Whole
<1> HIDE DEF p
<1>19. c.addr6 * Word \in Nat
  BY <1>1, <1>12
<1> QED
  BY <1>1, <1>4, <1>7, <1>13, <1>14, <1>16, <1>18, <1>19 DEF a

-----------------------------------------------------------------------------
(* The invariant.                                                           *)

\* What the registers process_page_addr hold for the later levels of a walk, and
\* the request of the first: the pointer itself.
Kept ==
  /\ at = "pointer" => addr = Split(va)
  /\ at \in {"pgd", "pud", "pmd", "pte", "page"} => cached = Split(va)

IInv == TypeOK /\ LinearExact /\ WalkExact /\ Kept

\* What the sets the variables come from consist of.
LEMMA Inputs ==
  ASSUME TypeOK
  PROVE  /\ va \in 0..(Word * Word - 1)
         /\ Coherent(row)
         /\ pgd \in Pair /\ pgd.l % Page = 0 /\ pgd.h < Word - Top
         /\ Entries \subseteq Pair
BY RowAssumption, InputAssumption DEF TypeOK

\* A packet starts with its pointer.
LEMMA InitIInv == Init => IInv
<1> SUFFICES ASSUME Init PROVE IInv
  OBVIOUS
<1>1. /\ row \in Rows /\ pgd \in Tops /\ va \in Addresses /\ at = "pointer"
      /\ cached = [h |-> 0, l |-> 0] /\ entry = [h |-> 0, l |-> 0] /\ addr = Split(va)
  BY DEF Init
<1>2. va \in 0..(Word * Word - 1)
  BY <1>1, InputAssumption
<1>3. [h |-> 0, l |-> 0] \in Pair
  BY Sizes DEF Pair, Half
<1>4. Split(va) \in Pair
  BY <1>2, SplitWords
<1>5. TypeOK
  BY <1>1, <1>3, <1>4 DEF TypeOK
<1> QED
  BY <1>1, <1>5 DEF IInv, LinearExact, WalkExact, Kept

\* Every index of the walk fits in a page.
LEMMA OffsetBounds ==
  ASSUME NEW a \in Pair
  PROVE  /\ PgdOffset(a) \in 0..(Page - 1) /\ PudOffset(a) \in 0..(Page - 1)
         /\ PmdOffset(a) \in 0..(Page - 1) /\ PteOffset(a) \in 0..(Page - 1)
         /\ PageOffset(a) \in 0..(Page - 1)
<1>1. /\ Page \in Nat \ {0} /\ Word \in Nat \ {0} /\ Radix \in Nat \ {0}
      /\ PgdDown \in Nat \ {0} /\ PudUp \in Nat \ {0}
      /\ Radix * Radix \in Nat \ {0} /\ Radix * Radix * Radix \in Nat \ {0}
  BY Sizes
<1>2. a.h \in Nat /\ a.l \in Nat
  BY <1>1 DEF Pair, Half
<1>3. /\ a.h \div PgdDown \in Nat
      /\ a.l \div Radix \in Nat
  BY <1>1, <1>2, DivMod
<1>4. a.l \div (Radix * Radix) \in Nat /\ a.l \div (Radix * Radix * Radix) \in Nat
  <2> DEFINE s == Radix * Radix
             t == Radix * Radix * Radix
  <2>1. s \in Nat \ {0} /\ t \in Nat \ {0}
    BY <1>1
  <2> HIDE DEF s, t
  <2>2. a.l \div s \in Nat /\ a.l \div t \in Nat
    BY <1>2, <2>1, DivMod
  <2> QED
    BY <2>2 DEF s, t
<1>5. (((a.h * PudUp) % Word) + (a.l \div (Radix * Radix * Radix))) % Word \in Nat
  <2> DEFINE c == a.l \div (Radix * Radix * Radix)
             x == a.h * PudUp
  <2>1. c \in Nat /\ x \in Nat
    BY <1>1, <1>2, <1>4
  <2> HIDE DEF c, x
  <2>2. x % Word \in Nat
    BY <1>1, <2>1, DivMod
  <2>3. (x % Word) + c \in Nat
    BY <2>1, <2>2
  <2>4. ((x % Word) + c) % Word \in Nat
    BY <1>1, <2>3, DivMod
  <2> QED
    BY <2>4 DEF c, x
<1>6. a.l % Page \in 0..(Page - 1)
  BY <1>1, <1>2, DivMod
<1> QED
  BY <1>3, <1>4, <1>5, <1>6, InPageBound
     DEF PgdOffset, PudOffset, PmdOffset, PteOffset, PageOffset

\* One level: the request goes into the frame of the entry, at the offset.
LEMMA DescendExact ==
  ASSUME TypeOK, NEW from, NEW to, NEW n \in 0..(Page - 1), NEW e \in Entries,
         to \in {"pud", "pmd", "pte", "page"},
         Descend(from, to, n, e)
  PROVE  /\ TypeOK' /\ at = from /\ at' = to /\ entry' = e
         /\ va' = va /\ cached' = cached
         /\ Whole(addr') = FrameOf(e) + n
<1>1. e \in Pair
  BY Inputs
<1>2. /\ Mask(e) \in Pair /\ Mask(e).h < Word - Top /\ Mask(e).l % Page = 0
      /\ Whole(Mask(e)) = FrameOf(e)
  BY <1>1, MaskFrame
<1>3. /\ addr' = Linear(MakeUp(Mask(e), n), row) /\ at = from /\ at' = to /\ entry' = e
      /\ row' = row /\ pgd' = pgd /\ va' = va /\ cached' = cached
  BY DEF Descend
<1>4. addr' \in Pair /\ Whole(addr') = FrameOf(e) + n
  BY <1>2, <1>3, MakeUpExact
<1> QED
  BY <1>1, <1>3, <1>4 DEF TypeOK

\* A step of the packet keeps the arithmetic exact.
LEMMA NextIInv == IInv /\ [Next]_vars => IInv'
<1> SUFFICES ASSUME IInv, [Next]_vars PROVE IInv'
  OBVIOUS
<1>0. TypeOK /\ Kept
  BY DEF IInv
<1>1. CASE UNCHANGED vars
  <2>1. TypeOK' /\ LinearExact' /\ WalkExact' /\ Kept'
    BY <1>1 DEF IInv, vars, TypeOK, LinearExact, WalkExact, Kept
  <2> QED
    BY <2>1 DEF IInv
<1>2. CASE Translate
  <2>1. /\ at = "pointer" /\ at' = "linear" /\ addr' = Linear(addr, row)
        /\ row' = row /\ pgd' = pgd /\ va' = va /\ cached' = cached /\ entry' = entry
    BY <1>2 DEF Translate
  <2>2. addr = Split(va) /\ va \in 0..(Word * Word - 1) /\ Coherent(row)
    BY <1>0, <2>1, Inputs DEF Kept
  <2>3. addr' \in Pair
    BY <2>1, <2>2, SplitWords, LinearType
  <2>4. TypeOK'
    BY <1>0, <2>1, <2>3 DEF TypeOK
  <2>5. DirectMap(va, row) /\ va >= (Word - Top) * Word => Whole(addr') = va - PageOffsetOf(row)
    BY <2>1, <2>2, DirectExact
  <2>6. Image(va, row) => Whole(addr') = va - KernelMap(row) + PhysBase(row)
    BY <2>1, <2>2, ImageExact
  <2>7. LinearExact'
    BY <2>1, <2>5, <2>6 DEF LinearExact
  <2>8. WalkExact' /\ Kept'
    BY <2>1 DEF WalkExact, Kept
  <2> QED
    BY <2>4, <2>7, <2>8 DEF IInv
<1>3. CASE Enter
  <2>1. /\ at = "pointer" /\ at' = "pgd" /\ addr' = Linear(MakeUp(pgd, PgdOffset(addr)), row)
        /\ row' = row /\ pgd' = pgd /\ va' = va /\ cached' = addr /\ entry' = entry
    BY <1>3 DEF Enter
  <2>2. addr = Split(va) /\ va \in 0..(Word * Word - 1) /\ addr \in Pair
    BY <1>0, <2>1, Inputs DEF Kept, TypeOK
  <2>3. PgdOffset(addr) \in 0..(Page - 1)
    BY <2>2, OffsetBounds
  <2>4. pgd \in Pair /\ pgd.l % Page = 0 /\ pgd.h < Word - Top
    BY <1>0, Inputs
  <2>5. addr' \in Pair /\ Whole(addr') = Whole(pgd) + PgdOffset(addr)
    BY <2>1, <2>3, <2>4, MakeUpExact
  <2>6. PgdOffset(addr) = Slot * Index(va, Page * Radix * Radix * Radix)
    BY <2>2, PgdIndex
  <2>7. TypeOK'
    BY <1>0, <2>1, <2>2, <2>5 DEF TypeOK
  <2>8. WalkExact'
    BY <2>1, <2>5, <2>6 DEF WalkExact
  <2>9. LinearExact' /\ Kept'
    BY <2>1, <2>2 DEF LinearExact, Kept
  <2> QED
    BY <2>7, <2>8, <2>9 DEF IInv
<1>4. ASSUME NEW e \in Entries, Pud(e) \/ Pmd(e) \/ Pte(e) \/ Last(e)
      PROVE  IInv'
  <2>1. va \in 0..(Word * Word - 1) /\ cached \in Pair
    BY <1>0, Inputs DEF TypeOK
  <2>2. at \in {"pgd", "pud", "pmd", "pte"} => cached = Split(va)
    BY <1>0 DEF Kept
  <2>3. CASE Pud(e)
    <3>1. Descend("pgd", "pud", PudOffset(cached), e) /\ PudOffset(cached) \in 0..(Page - 1)
      BY <2>1, <2>3, OffsetBounds DEF Pud
    <3>2. /\ TypeOK' /\ at = "pgd" /\ at' = "pud" /\ entry' = e /\ va' = va /\ cached' = cached
          /\ Whole(addr') = FrameOf(e) + PudOffset(cached)
      BY <1>0, <3>1, DescendExact
    <3>3. PudOffset(cached) = Slot * Index(va, Page * Radix * Radix)
      BY <2>1, <2>2, <3>2, PudIndex
    <3> QED
      BY <2>2, <3>2, <3>3 DEF IInv, LinearExact, WalkExact, Kept
  <2>4. CASE Pmd(e)
    <3>1. Descend("pud", "pmd", PmdOffset(cached), e) /\ PmdOffset(cached) \in 0..(Page - 1)
      BY <2>1, <2>4, OffsetBounds DEF Pmd
    <3>2. /\ TypeOK' /\ at = "pud" /\ at' = "pmd" /\ entry' = e /\ va' = va /\ cached' = cached
          /\ Whole(addr') = FrameOf(e) + PmdOffset(cached)
      BY <1>0, <3>1, DescendExact
    <3>3. PmdOffset(cached) = Slot * Index(va, Page * Radix)
      BY <2>1, <2>2, <3>2, LowerIndex
    <3> QED
      BY <2>2, <3>2, <3>3 DEF IInv, LinearExact, WalkExact, Kept
  <2>5. CASE Pte(e)
    <3>1. Descend("pmd", "pte", PteOffset(cached), e) /\ PteOffset(cached) \in 0..(Page - 1)
      BY <2>1, <2>5, OffsetBounds DEF Pte
    <3>2. /\ TypeOK' /\ at = "pmd" /\ at' = "pte" /\ entry' = e /\ va' = va /\ cached' = cached
          /\ Whole(addr') = FrameOf(e) + PteOffset(cached)
      BY <1>0, <3>1, DescendExact
    <3>3. PteOffset(cached) = Slot * Index(va, Page)
      BY <2>1, <2>2, <3>2, LowerIndex
    <3> QED
      BY <2>2, <3>2, <3>3 DEF IInv, LinearExact, WalkExact, Kept
  <2>6. CASE Last(e)
    <3>1. Descend("pte", "page", PageOffset(cached), e) /\ PageOffset(cached) \in 0..(Page - 1)
      BY <2>1, <2>6, OffsetBounds DEF Last
    <3>2. /\ TypeOK' /\ at = "pte" /\ at' = "page" /\ entry' = e /\ va' = va /\ cached' = cached
          /\ Whole(addr') = FrameOf(e) + PageOffset(cached)
      BY <1>0, <3>1, DescendExact
    <3>3. PageOffset(cached) = va % Page
      BY <2>1, <2>2, <3>2, LowerIndex
    <3> QED
      BY <2>2, <3>2, <3>3 DEF IInv, LinearExact, WalkExact, Kept
  <2> QED
    BY <1>4, <2>3, <2>4, <2>5, <2>6
<1> QED
  BY <1>1, <1>2, <1>3, <1>4 DEF Next

\* The invariant holds in every state.
THEOREM Invariant == Spec => []IInv
BY InitIInv, NextIInv, PTL DEF Spec

\* Types, for every word, table and entry size the assumptions allow.
THEOREM AddrTypeCorrect == Spec => []TypeOK
<1>1. IInv => TypeOK
  BY DEF IInv
<1> QED
  BY <1>1, Invariant, PTL

\* The linear translation of master.p4 on two words is the subtraction on whole
\* addresses, for every coherent row.
THEOREM LinearTranslation == Spec => []LinearExact
<1>1. IInv => LinearExact
  BY DEF IInv
<1> QED
  BY <1>1, Invariant, PTL

\* A page walk of master.p4 reads the entries the x86 page tables have for the
\* pointer, whatever the entries it is given.
THEOREM PageWalk == Spec => []WalkExact
<1>1. IInv => WalkExact
  BY DEF IInv
<1> QED
  BY <1>1, Invariant, PTL
=============================================================================
