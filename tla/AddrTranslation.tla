--------------------------- MODULE AddrTranslation ---------------------------
(***************************************************************************)
(* Addresses as switch/master/master.p4 has them: two fields md.aeth_addr_h *)
(* and md.aeth_addr_l of one word each, and arithmetic that knows no carry  *)
(* between them. A step is the egress pipeline for one response; whether a  *)
(* pointer is walked is Switch's matter, so here both happen to every one.  *)
(* Switch uses whole numbers for the same; the properties say that this is  *)
(* right, for which rows of setup_qpn_ts.cmd, and that the indices of the   *)
(* walk are those of the x86 page tables.                                   *)
(***************************************************************************)
EXTENDS Integers

CONSTANTS
  Word,       \* 2^32: an address is h * Word + l
  Top,        \* 2^16: h is in 0xffff0000 .. 0xffffffff for a canonical kernel address
  Slot,       \* 2^3: bytes of a table entry
  Radix,      \* 2^9: entries of a table
  PudUp,      \* 2^5: shift_left of calc_pud_offset_1
  PgdDown,    \* 2^4: shift_right of calc_pgd_offset_2
  HighFrame,  \* 2^14: bits of an entry's upper word that mask_base_addr keeps
  Rows,       \* parameters of a cache_offset_into_meta row: addr1 .. addr6
  Tops,       \* page-aligned addresses of the top table: [h, l]
  Entries,    \* what a response to the READ of a table entry may carry: [h, l]
  Addresses   \* pointers, as whole numbers

VARIABLES
  row,        \* the row of cache_offset_into_meta_tab, fixed by setup
  pgd,        \* the top table, fixed by setup (gen_add_offset_1_tab)
  va,         \* the pointer being followed, as a whole number
  cached,     \* process_page_addr_h, process_page_addr_l
  entry,      \* the entry the last response carried
  addr,       \* md.aeth_addr_h, md.aeth_addr_l when the request is built
  at          \* how far the packet is

vars == <<row, pgd, va, cached, entry, addr, at>>

Page    == Slot * Radix
Nibble  == Word \div 16
Half    == 0..(Word - 1)
Pair    == [h : Half, l : Half]
Whole(a) == a.h * Word + a.l
Split(n) == [h |-> n \div Word, l |-> n % Word]

-----------------------------------------------------------------------------
(* Linear translation.                                                     *)

\* trans_mode_tab, the row of the image (0xffffffff) before the one of the rest.
TransMode(a) ==
  IF a.h = Word - 1 THEN 2 ELSE IF a.h >= Word - Top THEN 1 ELSE 0

\* The actions addr_translation_page_offset_1, _2 and addr_translation_phys_offset,
\* by md.greater_4, the top four bits of the low word.
PageOffset1(a, c) == [h |-> (a.h - c.addr1) % Word, l |-> (a.l - c.addr2) % Word]
PageOffset2(a, c) == [h |-> (a.h - c.addr3) % Word, l |-> (a.l + c.addr5) % Word]
PhysOffsetWide(a, c) == [h |-> c.addr6, l |-> a.l + c.addr4] \* mutant
PhysOffset(a, c)  == [h |-> c.addr6, l |-> (a.l + c.addr4) % Word]
LinearFrom(a, c, n) ==
  IF TransMode(a) = 2 THEN PhysOffset(a, c)
  ELSE IF TransMode(a) = 0 THEN a
  ELSE IF a.l \div Nibble >= n THEN PageOffset1(a, c) ELSE PageOffset2(a, c)
LinearFromFive(a, c) == LinearFrom(a, c, 5)                 \* mutant
Linear(a, c) == LinearFrom(a, c, 4)

-----------------------------------------------------------------------------
(* Page walk. bit_and with 0xff8 keeps the place in a page of an entry.    *)

InPage(n) == (n % Page) - (n % Slot)

PgdOffset(a) == InPage(a.h \div PgdDown)
PudOffsetLow(a) == InPage(a.l \div (Radix * Radix * Radix)) \* mutant
PudOffset(a) ==
  InPage((((a.h * PudUp) % Word) + (a.l \div (Radix * Radix * Radix))) % Word)
PmdOffset(a) == InPage(a.l \div (Radix * Radix))
PteOffset(a) == InPage(a.l \div Radix)
PageOffset(a) == a.l % Page

\* mask_base_addr and make_up_addr; the latter adds to the low word only.
Mask(e) == [h |-> e.h % HighFrame, l |-> e.l - (e.l % Page)]
MakeUp(a, n) == [a EXCEPT !.l = (@ + n) % Word]

-----------------------------------------------------------------------------
Init ==
  /\ row \in Rows
  /\ pgd \in Tops
  /\ va \in Addresses
  /\ cached = [h |-> 0, l |-> 0]
  /\ entry = [h |-> 0, l |-> 0]
  /\ addr = Split(va)
  /\ at = "pointer"

\* A pointer into the direct map or the image.
Translate ==
  /\ at = "pointer"
  /\ addr' = Linear(addr, row)
  /\ at' = "linear"
  /\ UNCHANGED <<row, pgd, va, cached, entry>>

\* A pointer into vmalloc space: keep it and start at the top table.
Enter ==
  /\ at = "pointer"
  /\ cached' = addr
  /\ addr' = Linear(MakeUp(pgd, PgdOffset(addr)), row)
  /\ at' = "pgd"
  /\ UNCHANGED <<row, pgd, va, entry>>

\* The response e to the READ of one level gives the base of the next; the tables
\* of the linear translation see the sum too.
Descend(from, to, n, e) ==
  /\ at = from
  /\ entry' = e
  /\ addr' = Linear(MakeUp(Mask(e), n), row)
  /\ at' = to
  /\ UNCHANGED <<row, pgd, va, cached>>

Pud(e)  == Descend("pgd", "pud", PudOffset(cached), e)
Pmd(e)  == Descend("pud", "pmd", PmdOffset(cached), e)
Pte(e)  == Descend("pmd", "pte", PteOffset(cached), e)
Last(e) == Descend("pte", "page", PageOffset(cached), e)

Next ==
  \/ Translate
  \/ Enter
  \/ \E e \in Entries : Pud(e) \/ Pmd(e) \/ Pte(e) \/ Last(e)

Spec == Init /\ [][Next]_vars

-----------------------------------------------------------------------------
(* What the arithmetic is for.                                             *)

\* A row is coherent when addr3 and addr5 are addr1 and addr2 with the borrow
\* taken, which the comparison with 4 decides (the low word of PAGE_OFFSET is 0
\* or 0x40000000), and the image of a quarter word does not cross a word.
KernelMap(c)  == (Word - 1) * Word + Word \div 2
PageOffsetOf(c) == c.addr1 * Word + c.addr2
PhysLow(c)    == (c.addr4 + Word \div 2) % Word
PhysBase(c)   == c.addr6 * Word + PhysLow(c)
Coherent(c) ==
  /\ {c.addr1, c.addr2, c.addr3, c.addr4, c.addr5, c.addr6} \subseteq Half
  /\ \/ c.addr2 = 0 /\ c.addr3 = c.addr1 /\ c.addr5 = 0
     \/ c.addr2 = 4 * Nibble /\ c.addr3 = c.addr1 + 1 /\ c.addr5 = Word - c.addr2
  /\ PhysLow(c) + Word \div 4 <= Word

ASSUME WordAssumption ==
  /\ Slot \in Nat \ {0} /\ Radix \in Nat \ {0}
  /\ PudUp \in Nat \ {0} /\ PgdDown \in Nat \ {0} /\ HighFrame \in Nat \ {0}
  /\ Word \in Nat \ {0} /\ Top \in 1..Word
  /\ Word % 16 = 0
  /\ Word % (Radix * Radix * Page) = 0
  /\ HighFrame + Top <= Word
  /\ PudUp * (Radix * Radix * Radix) = Word
  /\ PgdDown * Word = Radix * Radix * Radix * Radix
ASSUME RowAssumption == \A c \in Rows : Coherent(c)
ASSUME InputAssumption ==
  /\ Addresses \subseteq 0..(Word * Word - 1)
  /\ Entries \subseteq Pair
  /\ Tops \subseteq {a \in Pair : a.l % Page = 0 /\ a.h < Word - Top}

TypeOK ==
  /\ row \in Rows /\ pgd \in Tops /\ va \in Addresses
  /\ cached \in Pair /\ entry \in Pair /\ addr \in Pair
  /\ at \in {"pointer", "linear", "pgd", "pud", "pmd", "pte", "page"}

\* trans_mode_tab and addr_translation_page_offset_tab: on two words without a
\* borrow between them, with an approximate comparison, an address of the direct
\* map still becomes its distance from PAGE_OFFSET, and one of the image its
\* distance from __START_KERNEL_map on top of the image's physical address.
DirectMap(n, c) == PageOffsetOf(c) <= n /\ n < (Word - 1) * Word
Image(n, c) == KernelMap(c) <= n /\ n < KernelMap(c) + Word \div 4
LinearExact ==
  at = "linear" =>
    /\ DirectMap(va, row) /\ va >= (Word - Top) * Word =>
         Whole(addr) = va - PageOffsetOf(row)
    /\ Image(va, row) => Whole(addr) = va - KernelMap(row) + PhysBase(row)

\* calc_pgd_offset to calc_page_offset, mask_base_addr and make_up_addr: the READ
\* of every level goes to the entry the x86 page tables have for the pointer, in
\* the frame that the entry of the level above points to. No bit of the pointer
\* gets lost where an index straddles the words (pud), and no carry in make_up.
Index(n, size) == (n \div size) % Radix
FrameOf(e) == (Whole(e) % (HighFrame * Word)) - (Whole(e) % Page)
WalkExact ==
  /\ at = "pgd"  => Whole(addr) = Whole(pgd) + Slot * Index(va, Page * Radix * Radix * Radix)
  /\ at = "pud"  => Whole(addr) = FrameOf(entry) + Slot * Index(va, Page * Radix * Radix)
  /\ at = "pmd"  => Whole(addr) = FrameOf(entry) + Slot * Index(va, Page * Radix)
  /\ at = "pte"  => Whole(addr) = FrameOf(entry) + Slot * Index(va, Page)
  /\ at = "page" => Whole(addr) = FrameOf(entry) + (va % Page)
=============================================================================
