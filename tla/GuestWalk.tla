------------------------------ MODULE GuestWalk ------------------------------
(***************************************************************************)
(* The guest, and the walk a program like those of libvmi_baseline makes   *)
(* of its memory for a policy: the reference the switch is compared with.  *)
(* Memory is given by virtual address; the page tables that the switch has *)
(* to walk are built from the same mapping but never used here.            *)
(***************************************************************************)
EXTENDS Integers, Sequences, SequencesExt, FiniteSets

CONSTANTS DirectBase, VmallocBase, ImageBase, ModuleBase, PhysBase, Page, Radix, Nx, Half,
          Pgd               \* physical address of the top page table

Unmapped == -1

\* Virtual to physical, as the kernel defines it (__pa of rdmatry_client.cpp for
\* the linear regions; vmap maps the pages of vmalloc and module space).
Phys(vmap, a) ==
  IF a >= ModuleBase \/ (a >= VmallocBase /\ a < ImageBase)
  THEN IF a - (a % Page) \in DOMAIN vmap THEN vmap[a - (a % Page)] + (a % Page) ELSE Unmapped
  ELSE IF a >= ImageBase THEN a - ImageBase + PhysBase
  ELSE IF a >= DirectBase THEN a - DirectBase ELSE Unmapped

\* Four levels of tables for vmap, one page each, laid out from Pgd on.
Level(n) == Pgd + Page * (CASE n = 1 -> 0 [] n = 2 -> 1 [] n = 3 -> 1 + Radix
                            [] n = 4 -> 1 + Radix + Radix * Radix)
Entry(a) == Nx + a + 1          \* present and no-execute bits around the address
Index(a, n) ==                  \* the path to the level-n table and its entry
  (a \div (Page * (CASE n = 1 -> Radix * Radix * Radix [] n = 2 -> Radix * Radix
                     [] n = 3 -> Radix [] n = 4 -> 1)))
    % (CASE n = 1 -> Radix [] n = 2 -> Radix * Radix [] n = 3 -> Radix * Radix * Radix
         [] n = 4 -> Radix * Radix * Radix * Radix)
EntryAddr(a, n) == Level(n) + Page * (Index(a, n) \div Radix) + (Index(a, n) % Radix)
PageTables(vmap) ==
  LET addrs == {EntryAddr(a, n) : a \in DOMAIN vmap, n \in 1..4}
      value(x) ==
        LET n == CHOOSE m \in 1..4 : \E a \in DOMAIN vmap : EntryAddr(a, m) = x
            a == CHOOSE b \in DOMAIN vmap : EntryAddr(b, n) = x
        IN  IF n = 4 THEN Entry(vmap[a]) ELSE Entry(Level(n + 1) + Page * Index(a, n))
  IN  [x \in addrs |-> value(x)]

\* Physical memory holding the words of cells (by virtual address).
Memory(vmap, cells) ==
  [x \in {Phys(vmap, a) : a \in DOMAIN cells} |->
     cells[CHOOSE a \in DOMAIN cells : Phys(vmap, a) = x]]
  @@ PageTables(vmap)

-----------------------------------------------------------------------------
\* Number of a field among the fields of all .values of a policy.
FieldNo(ops, i, j) ==
  LET before[k \in 1..i] ==
        IF k = 1 THEN 0
        ELSE before[k-1] + IF ops[k-1].op = "values" THEN Len(ops[k-1].fields) ELSE 0
  IN  j + before[i]

\* The words observed by ops[i..] with the pointer at base, pos words into its
\* structure; num is the value of the last named field. Loops are do-while.
RECURSIVE Walk(_, _, _, _, _, _, _)
Walk(cells, ops, i, base, pos, num, fuel) ==
  LET op == ops[i]
      Read(off) == cells[base + off - pos]
  IN
  IF fuel = 0 THEN <<"endless">>
  ELSE IF op.op = "end" THEN <<>>
  ELSE IF op.op = "values"
  THEN [j \in 1..Len(op.fields) |-> <<FieldNo(ops, i, j), Read(op.fields[j])>>]
       \o Walk(cells, ops, i + 1, base, pos, IF op.name = "" THEN num ELSE Read(op.fields[1]), fuel)
  ELSE IF op.op = "in"
  THEN IF Read(op.off) = 0 THEN <<>>
       ELSE Walk(cells, ops, i + 1, Read(op.off), op.var, num, fuel)
  ELSE IF op.op = "iter"
  THEN FlattenSeq([k \in 1..(IF op.dyn = 1 THEN num ELSE op.num) |->
         Walk(cells, ops, i + 1, base + op.off - pos + (k - 1) * op.size, 0, num, fuel)])
  ELSE IF op.op = "traverse"
  THEN LET here == base + op.type - pos
           next == cells[here + op.off - op.type]
       IN  Walk(cells, ops, i + 1, here, op.type, num, fuel)
           \o (IF next = op.end THEN <<>>
               ELSE Walk(cells, ops, i, next, op.type, num, fuel - 1))
  ELSE Walk(cells, ops, i + 1, base, pos, num, fuel)     \* kgraph, assert

\* The bounds every field of a policy is asserted to lie in, or <<>>.
Bounds(ops, f) ==
  LET hit == {i \in 1..(Len(ops) - 1) :
                /\ ops[i].op = "values" /\ ops[i+1].op = "assert"
                /\ f > FieldNo(ops, i, 0) /\ f <= FieldNo(ops, i, Len(ops[i].fields))}
  IN  IF hit = {} THEN <<>> ELSE LET i == (CHOOSE i \in hit : TRUE) + 1 IN <<ops[i].low, ops[i].high>>

Asserts(ops) == [f \in 1..FieldNo(ops, Len(ops), 0) |-> Bounds(ops, f)]

\* The assert is on the low word of the value.
Violates(asserts, ob) ==
  LET b == asserts[ob[1]]
      w == ob[2] % (Half * Half)
  IN  b # <<>> /\ ~(b[1] <= w /\ w <= b[2])
=============================================================================
