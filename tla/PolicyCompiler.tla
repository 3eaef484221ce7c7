--------------------------- MODULE PolicyCompiler ---------------------------
(***************************************************************************)
(* The compiler of compiler/policy.cc: a policy, a sequence of operators   *)
(* of the introspection DSL, becomes a sequence of abstract introspection  *)
(* instructions (AIMs), and the AIMs become rows of the match-action       *)
(* tables of switch/master/master.p4.                                      *)
(*                                                                         *)
(* An operator is a record whose "op" is                                   *)
(*   kgraph                     KernelGraph(root)                          *)
(*   traverse off, end, type    .traverse(off, end, type)                  *)
(*   iter     off, num, dyn, size   .iter(off, num, size); dyn = 1 when    *)
(*            num is the name of an earlier .values(@num, f)               *)
(*   in       off, var          .in(off) (var = 0), .in(off, @t, var)      *)
(*   values   fields, name      .values(f, ...), .values(@name, f)         *)
(*   assert   high, low         .assert(high, low)                         *)
(*   end                        End                                        *)
(* Offsets are in words. A row is a record [t, k, act, arg]: the table,    *)
(* its key, the action and the action's parameters, all numbers. The       *)
(* tables over the _h and _l halves of an address are one table here.      *)
(***************************************************************************)
EXTENDS Integers, Sequences, SequencesExt

None == -1                      \* qpn_null, tran_qpn, reg_index when not set

\* r with a field more.
With(r, name, value) ==
  [x \in (DOMAIN r) \union {name} |-> IF x = name THEN value ELSE r[x]]

-----------------------------------------------------------------------------
(* The passes over the operators, before any AIM exists.                   *)

\* mark_iter: number the max_entry register of every .iter, and of the named
\* .values one or two operators before a dynamic .iter.
Source(s, i) ==                 \* the operator a dynamic .iter takes num from
  IF i > 1 /\ s[i-1].op = "values" THEN i-1
  ELSE IF i > 2 /\ s[i-2].op = "values" THEN i-2 ELSE 0
Mark(ops, s, i) ==
  LET v == Source(s.ops, i) IN
  IF ops[i].op # "iter" THEN s
  ELSE IF ops[i].dyn = 0
  THEN [s EXCEPT !.ops[i].seq = s.seq, !.seq = @ + 1]
  ELSE IF v = 0 THEN [s EXCEPT !.ok = FALSE]
  ELSE IF s.ops[v].name # ops[i].num THEN s
  ELSE [s EXCEPT !.ops[i].seq = s.seq, !.ops[v].seq = s.seq, !.seq = @ + 1]
MarkIterFrom(ops, first) ==
  LET start == [ops |-> [i \in DOMAIN ops |-> With(ops[i], "seq", None)],
                seq |-> first, ok |-> TRUE]
  IN  FoldLeft(LAMBDA s, i : Mark(ops, s, i), start, [i \in DOMAIN ops |-> i])
MarkIterShared(ops, task) == MarkIterFrom(ops, 0)           \* mutant
MarkIter(ops, task) == MarkIterFrom(ops, 3 * task)

\* mark_assert: an .assert puts its bounds on the .values just before it.
BoundsAt(ops, j) ==
  IF j \in DOMAIN ops /\ ops[j].op = "assert" THEN <<ops[j].high, ops[j].low>> ELSE <<>>
MarkAssert(ops) == [i \in DOMAIN ops |-> With(ops[i], "chk", BoundsAt(ops, i + 1))]

AssertsOk(ops) ==
  \A i \in DOMAIN ops : ops[i].op = "assert" => i > 1 /\ ops[i-1].op = "values"

-----------------------------------------------------------------------------
(* The state of a compilation (class Policy): the next free QPN and fake   *)
(* state, the state to leave the innermost loop with, the states the next  *)
(* AIM is entered from, the offset base points at, and the AIMs so far.    *)

NewPolicy(qpn_s, qpn_r, num, base) ==
  [avail |-> qpn_s, base |-> base + 1, coef |-> qpn_r - qpn_s,
   fake  |-> 20 * num, end |-> <<998 - num, 999 - num>>, task |-> num,
   last  |-> <<>>, pos |-> 0, head |-> <<>>, tail |-> <<>>, pgt |-> <<>>,
   ok    |-> TRUE]

\* qpn_tran: the client's QPN of the connection whose server QPN is q. A READ
\* is addressed to q and its response comes back addressed to Tran(c, q).
Tran(c, q) == q + c.coef

Move(off, prev, post)   == [aim |-> "ConstMove", off |-> off, prev |-> prev, post |-> post]
Load(off, prev, post, tran, index, chk) ==
  [aim |-> "ReadLoad", off |-> off, prev |-> prev, post |-> post,
   tran |-> tran, reg |-> index, chk |-> chk]
Follow(off, prev, post, null) ==
  [aim |-> "ReadMove", off |-> off, prev |-> prev, post |-> post, null |-> null]
NoTran == <<None, None>>

GenKGraphReuse(c, op) ==                                    \* mutant
  LET init == Tran(c, c.avail) IN
  [c EXCEPT !.last = <<init>>, !.head = Append(@, [aim |-> "Init", init |-> init])]
GenKGraph(c, op) ==
  LET init == Tran(c, c.avail) IN
  [c EXCEPT !.pos = 0, !.last = <<init>>, !.avail = @ + 1,
            !.head = Append(@, [aim |-> "Init", init |-> init])]

\* A do-while over a linked structure: move to the next field (Move), mark the
\* loop (Push), run the body, then follow the field (ReadMove), and go back or,
\* when the address read is END, issue one more load that leaves the loop.
GenTraverse(c, op) ==
  LET fake == c.fake
      next == c.avail
      rec  == c.avail + 1
      new  == c.avail + 2       \* the body's first state, not consumed here
      from == Append(c.last, Tran(c, next))
  IN  [c EXCEPT
        !.fake  = @ + 1, !.avail = @ + 2, !.pos = op.type,
        !.last  = from, !.end = <<fake, 0>>,
        !.head  = @ \o << Move(op.type - c.pos, c.last, new),
                          [aim |-> "Push", prev |-> from, post |-> new] >>,
        !.tail  = << [aim |-> "Pop", prev |-> <<fake>>, post |-> next],
                     Follow(op.off - op.type, <<fake>>, next, NoTran),
                     [aim |-> "NegJump", at |-> Tran(c, next), yes |-> new,
                      no |-> rec, fake |-> fake, stop |-> op.end],
                     Load(0, <<Tran(c, next)>>, rec, c.end, None, <<>>) >> \o @]

\* A counted do-while over an array.
GenIter(c, op) ==
  LET fake == c.fake
      rec  == c.avail
      new  == c.avail + 1
      from == Append(c.last, fake)
      const == [aim |-> "ConstLoad", seq |-> op.seq, value |-> op.num, prev |-> c.last]
  IN  [c EXCEPT
        !.fake  = @ + 1, !.avail = @ + 1, !.last = from, !.end = <<fake, 0>>,
        !.head  = @ \o (IF op.dyn = 0 THEN <<const>> ELSE <<>>)
                    \o << Move(op.off - c.pos, c.last, new),
                          [aim |-> "Push", prev |-> from, post |-> new] >>,
        !.tail  = << [aim |-> "Pop", prev |-> <<fake>>, post |-> new],
                     Move(op.size, <<fake>>, new),
                     [aim |-> "DecJump", at |-> fake, seq |-> op.seq,
                      yes |-> new, no |-> rec],
                     Load(0, <<fake>>, rec, c.end, None, <<>>) >> \o @]

GenIn(c, op) ==
  LET mov == c.avail IN
  [c EXCEPT !.avail = @ + 1, !.last = <<Tran(c, mov)>>, !.pos = op.var,
            !.head = Append(@, Follow(op.off - c.pos, c.last, mov, c.end))]

\* One READ per field, chained; a named .values is a single READ whose value
\* also goes to the max_entry register of the .iter that uses it.
Field(op, c, f) ==
  [c EXCEPT !.avail = @ + 1, !.last = <<Tran(c, c.avail)>>,
            !.head = Append(@, Load(f - c.pos, c.last, c.avail, NoTran,
                                    op.seq, IF op.seq = None THEN op.chk ELSE <<>>))]
GenValues(c, op) ==
  FoldLeft(LAMBDA d, f : Field(op, d, f), c,
           IF op.seq = None THEN op.fields ELSE <<op.fields[1]>>)

\* End: the last READ of the policy leaves through the innermost loop.
GenEndFake(c, op) ==                                        \* mutant
  LET n == Len(c.head) IN
  IF c.head[n].aim # "ReadLoad" THEN [c EXCEPT !.ok = FALSE]
  ELSE [c EXCEPT !.head[n].tran = <<c.fake, 0>>]
GenEnd(c, op) ==
  LET n == Len(c.head) IN
  IF c.head[n].aim # "ReadLoad" THEN [c EXCEPT !.ok = FALSE]
  ELSE [c EXCEPT !.head[n].tran = c.end]

GenAim(c, op) ==
  CASE op.op = "kgraph"   -> GenKGraph(c, op)
    [] op.op = "traverse" -> GenTraverse(c, op)
    [] op.op = "iter"     -> GenIter(c, op)
    [] op.op = "in"       -> GenIn(c, op)
    [] op.op = "values"   -> GenValues(c, op)
    [] op.op = "end"      -> GenEnd(c, op)
    [] OTHER              -> c

\* gen_pgt_walk_aim: four more states, one per level of the page tables.
GenPgtWalk(c) ==
  [c EXCEPT !.avail = @ + 4,
            !.pgt = [i \in 1..4 |-> Load(0, <<>>, c.avail + i - 1, NoTran, None, <<>>)]]

\* The compilation up to the AIMs, in the order policy1 of main.cc calls it.
FrontEnd(ops, qpn_s, qpn_r, num, base) ==
  LET m  == MarkIter(ops, num)
      c0 == [NewPolicy(qpn_s, qpn_r, num, base) EXCEPT !.ok = m.ok /\ AssertsOk(ops)]
  IN  GenPgtWalk(FoldLeft(GenAim, c0, MarkAssert(m.ops)))

\* merge_aims: the head in order, then the tail stack from its top.
AllAims(c) == c.head \o c.tail

=============================================================================
