--------------------------- MODULE CompilerProofs ---------------------------
(***************************************************************************)
(* Two facts about the rows the compiler makes, for any lines it is given  *)
(* and any number of policies: the registers of two policies are disjoint, *)
(* and a walk that follows the rows of a policy stays in it.               *)
(*                                                                         *)
(* The proof follows a policy through the compiler: the lines are marked   *)
(* (mark_iter, mark_assert), each line adds its AIMs (frontend_compile, an *)
(* induction over the lines), the back end merges them and runs over them  *)
(* with a stack of base addresses (gen_base_operation, an induction over   *)
(* the AIMs), and each generator of rows writes registers that are the     *)
(* policy's own. The rows of gen_pc_tran lead from each of the policy's    *)
(* numbers to another or to the end, which the search for the reachable    *)
(* states keeps (an induction over its rounds). The driver keeps both for  *)
(* every policy compiled.                                                  *)
(***************************************************************************)
EXTENDS Driver, SequenceTheorems, FiniteSetTheorems, WellFoundedInduction, TLAPS

-----------------------------------------------------------------------------
\* The registers of the trip counts: those of a policy are numbered from first
\* on, as many as it has .iter.
Iters(ops, i) == {j \in 1..i : ops[j].op = "iter"}

\* A marked line is the line with a register number.
MarkedAs(o, m) ==
  /\ DOMAIN m = DOMAIN o \cup {"seq"}
  /\ \A x \in DOMAIN o : m[x] = o[x]
\* After the first i lines: each line is marked, those with a fixed count are numbered,
\* and no more numbers are used than there are .iter.
MarkInv(a, i, s) ==
  LET ops == a[1]
      first == a[2]
  IN  /\ DOMAIN s = {"ops", "seq", "ok"}
      /\ s.ok \in BOOLEAN
      /\ s.seq \in first..(first + Cardinality(Iters(ops, i)))
      /\ DOMAIN s.ops = DOMAIN ops
      /\ \A j \in DOMAIN ops :
           /\ MarkedAs(ops[j], s.ops[j])
           /\ s.ops[j].seq \in {None} \cup (first..(s.seq - 1))
      /\ \A j \in Iters(ops, i) : ops[j].dyn = 0 => s.ops[j].seq # None

\* mark_iter as a fold of Mark.
MarkStep(p, r, s, i) == Mark(p, s, i)
Marks == INSTANCE FoldInduction WITH Step <- MarkStep, Inv <- MarkInv

\* One more .iter, at most.
LEMMA ItersNext ==
  ASSUME NEW ops, NEW i \in Nat \ {0}
  PROVE  /\ IsFiniteSet(Iters(ops, i)) /\ Cardinality(Iters(ops, i)) \in Nat
         /\ Cardinality(Iters(ops, i - 1)) \in Nat
         /\ ops[i].op # "iter" => Iters(ops, i) = Iters(ops, i - 1)
         /\ ops[i].op = "iter" =>
              /\ Iters(ops, i) = Iters(ops, i - 1) \cup {i}
              /\ Cardinality(Iters(ops, i)) = Cardinality(Iters(ops, i - 1)) + 1
<1>1. IsFiniteSet(1..i) /\ IsFiniteSet(1..(i-1))
  BY FS_Interval
<1>2. Iters(ops, i) \subseteq 1..i /\ Iters(ops, i - 1) \subseteq 1..(i-1)
  BY DEF Iters
<1>3. IsFiniteSet(Iters(ops, i)) /\ IsFiniteSet(Iters(ops, i - 1))
  BY <1>1, <1>2, FS_Subset
<1>4. ~ (i \in Iters(ops, i - 1))
  BY <1>2
<1>5. ASSUME ops[i].op = "iter" PROVE Iters(ops, i) = Iters(ops, i - 1) \cup {i}
  BY <1>5 DEF Iters
<1>6. ASSUME ops[i].op # "iter" PROVE Iters(ops, i) = Iters(ops, i - 1)
  BY <1>6 DEF Iters
<1> QED
  BY <1>3, <1>4, <1>5, <1>6, FS_AddElement, FS_CardinalityType

\* What mark_iter does to one line keeps the marks.
LEMMA MarkKeeps ==
  ASSUME NEW ops, NEW first \in Nat, NEW n \in Nat, DOMAIN ops = 1..n,
         \A j \in 1..n : "op" \in DOMAIN ops[j] /\ ~ ("seq" \in DOMAIN ops[j]),
         \A j \in 1..n : ops[j].op = "iter" => "dyn" \in DOMAIN ops[j],
         NEW i \in 1..n, NEW s, MarkInv(<<ops, first>>, i - 1, s)
  PROVE  MarkInv(<<ops, first>>, i, Mark(ops, s, i))
<1> DEFINE v == Source(s.ops, i)
           one == [s EXCEPT !.ops[i].seq = s.seq, !.seq = @ + 1]
           two == [s EXCEPT !.ops[i].seq = s.seq, !.ops[v].seq = s.seq, !.seq = @ + 1]
           before == Cardinality(Iters(ops, i - 1))
           after == Cardinality(Iters(ops, i))
<1>1. /\ DOMAIN s = {"ops", "seq", "ok"} /\ s.ok \in BOOLEAN
      /\ s.seq \in first..(first + before)
      /\ DOMAIN s.ops = 1..n
      /\ \A j \in 1..n :
           /\ MarkedAs(ops[j], s.ops[j])
           /\ s.ops[j].seq \in {None} \cup (first..(s.seq - 1))
      /\ \A j \in Iters(ops, i - 1) : ops[j].dyn = 0 => s.ops[j].seq # None
  BY DEF MarkInv
<1>2. /\ before \in Nat /\ after \in Nat
      /\ ops[i].op # "iter" => Iters(ops, i) = Iters(ops, i - 1)
      /\ ops[i].op = "iter" => Iters(ops, i) = Iters(ops, i - 1) \cup {i} /\ after = before + 1
  BY ItersNext, SMTT(30)
<1>3. Iters(ops, i - 1) \subseteq 1..n
  BY DEF Iters
<1> HIDE DEF before, after
<1>4. CASE Mark(ops, s, i) = s /\ (ops[i].op = "iter" => ops[i].dyn # 0)
  <2>1. before <= after
    BY <1>2 DEF before, after
  <2>2. s.seq \in first..(first + after)
    BY <1>1, <1>2, <2>1
  <2>3. ASSUME NEW j \in Iters(ops, i), ops[j].dyn = 0 PROVE s.ops[j].seq # None
    BY <1>1, <1>2, <1>4, <2>3
  <2> QED
    BY <1>1, <1>4, <2>2, <2>3 DEF MarkInv, after
<1>5. CASE Mark(ops, s, i) = [s EXCEPT !.ok = FALSE] /\ ops[i].dyn # 0
  <2> DEFINE t == [s EXCEPT !.ok = FALSE]
  <2>1. DOMAIN t = {"ops", "seq", "ok"} /\ t.ok \in BOOLEAN /\ t.seq = s.seq /\ t.ops = s.ops
    BY <1>1
  <2> HIDE DEF t
  <2>a. before <= after
    BY <1>2 DEF before, after
  <2>2. s.seq \in first..(first + after)
    BY <1>1, <1>2, <2>a
  <2>3. ASSUME NEW j \in Iters(ops, i), ops[j].dyn = 0 PROVE s.ops[j].seq # None
    BY <1>1, <1>2, <1>5, <2>3
  <2> QED
    BY <1>1, <1>5, <2>1, <2>2, <2>3 DEF MarkInv, after, t
<1>6. CASE Mark(ops, s, i) = one /\ ops[i].op = "iter"
  <2> DEFINE o == [s.ops EXCEPT ![i] = [s.ops[i] EXCEPT !.seq = s.seq]]
  <2>1. /\ DOMAIN one = {"ops", "seq", "ok"} /\ one.ok = s.ok
        /\ one.seq = s.seq + 1 /\ one.ops = o
    BY <1>1
  <2>2. /\ DOMAIN o = 1..n
        /\ \A j \in 1..n : j # i => o[j] = s.ops[j]
        /\ o[i] = [s.ops[i] EXCEPT !.seq = s.seq]
    BY <1>1
  <2> HIDE DEF one, o
  <2>3. "seq" \in DOMAIN s.ops[i]
    BY <1>1 DEF MarkedAs
  <2>4. /\ DOMAIN o[i] = DOMAIN s.ops[i] /\ o[i].seq = s.seq
        /\ \A x \in DOMAIN s.ops[i] : x # "seq" => o[i][x] = s.ops[i][x]
    BY <2>2, <2>3
  <2>5. MarkedAs(ops[i], o[i])
    BY <1>1, <2>4 DEF MarkedAs
  <2>6. s.seq \in Nat
    BY <1>1, <1>2
  <2>a. first <= s.seq /\ (first..(s.seq - 1)) \subseteq first..s.seq /\ s.seq \in first..s.seq
    BY <1>1, <1>2, <2>6
  <2>7. ASSUME NEW j \in 1..n
        PROVE  MarkedAs(ops[j], o[j]) /\ o[j].seq \in {None} \cup (first..s.seq)
    BY <1>1, <2>2, <2>4, <2>5, <2>a
  <2>8. ASSUME NEW j \in Iters(ops, i), ops[j].dyn = 0 PROVE o[j].seq # None
    <3>1. s.seq # None
      BY <2>6 DEF None
    <3>2. CASE j = i
      BY <2>4, <3>1, <3>2
    <3>3. CASE j # i
      <4>1. j \in Iters(ops, i - 1) /\ j \in 1..n
        BY <1>2, <1>3, <1>6, <3>3
      <4> QED
        BY <1>1, <2>2, <2>4, <2>8, <3>1, <3>3, <4>1
    <3> QED
      BY <3>2, <3>3
  <2>9. s.seq + 1 \in first..(first + after) /\ s.seq + 1 - 1 = s.seq
    BY <1>1, <1>2, <1>6, <2>6
  <2> QED
    BY <1>1, <1>6, <2>1, <2>2, <2>7, <2>8, <2>9 DEF MarkInv, after
<1>7. CASE Mark(ops, s, i) = two /\ ops[i].op = "iter" /\ v \in 1..n /\ v # i
  <2> DEFINE o == [s.ops EXCEPT ![i] = [s.ops[i] EXCEPT !.seq = s.seq],
                                ![v] = [s.ops[v] EXCEPT !.seq = s.seq]]
  <2>1. /\ DOMAIN two = {"ops", "seq", "ok"} /\ two.ok = s.ok
        /\ two.seq = s.seq + 1 /\ two.ops = o
    BY <1>1, <1>7
  <2>2. /\ DOMAIN o = 1..n
        /\ \A j \in 1..n : j # i /\ j # v => o[j] = s.ops[j]
        /\ o[i] = [s.ops[i] EXCEPT !.seq = s.seq]
        /\ o[v] = [s.ops[v] EXCEPT !.seq = s.seq]
    BY <1>1, <1>7
  <2> HIDE DEF two, o, v
  <2>3. "seq" \in DOMAIN s.ops[i] /\ "seq" \in DOMAIN s.ops[v]
    BY <1>1, <1>7 DEF MarkedAs
  <2>4. ASSUME NEW j \in {i, v}
        PROVE  /\ DOMAIN o[j] = DOMAIN s.ops[j] /\ o[j].seq = s.seq
               /\ \A x \in DOMAIN s.ops[j] : x # "seq" => o[j][x] = s.ops[j][x]
    BY <2>2, <2>3
  <2>5. \A j \in {i, v} : MarkedAs(ops[j], o[j])
    BY <1>1, <1>7, <2>4 DEF MarkedAs
  <2>6. s.seq \in Nat
    BY <1>1, <1>2
  <2>a. first <= s.seq /\ (first..(s.seq - 1)) \subseteq first..s.seq /\ s.seq \in first..s.seq
    BY <1>1, <1>2, <2>6
  <2>7. ASSUME NEW j \in 1..n
        PROVE  MarkedAs(ops[j], o[j]) /\ o[j].seq \in {None} \cup (first..s.seq)
    BY <1>1, <2>2, <2>4, <2>5, <2>a
  <2>8. ASSUME NEW j \in Iters(ops, i), ops[j].dyn = 0 PROVE o[j].seq # None
    <3>1. s.seq # None
      BY <2>6 DEF None
    <3>2. CASE j = i
      BY <2>4, <3>1, <3>2
    <3>3. CASE j # i
      <4>1. j \in Iters(ops, i - 1) /\ j \in 1..n
        BY <1>2, <1>3, <1>7, <3>3
      <4> QED
        BY <1>1, <2>2, <2>4, <2>8, <3>1, <3>3, <4>1
    <3> QED
      BY <3>2, <3>3
  <2>9. s.seq + 1 \in first..(first + after) /\ s.seq + 1 - 1 = s.seq
    BY <1>1, <1>2, <1>7, <2>6
  <2> QED
    BY <1>1, <1>7, <2>1, <2>2, <2>7, <2>8, <2>9 DEF MarkInv, after
<1>8. v = 0 \/ (v \in 1..n /\ v # i)
  BY DEF Source
<1> QED
  BY <1>4, <1>5, <1>6, <1>7, <1>8 DEF Mark

\* mark_iter as a whole.
LEMMA MarkIterFacts ==
  ASSUME NEW ops, NEW task \in Nat, NEW n \in Nat, DOMAIN ops = 1..n,
         \A j \in 1..n : "op" \in DOMAIN ops[j] /\ ~ ("seq" \in DOMAIN ops[j]),
         \A j \in 1..n : ops[j].op = "iter" => "dyn" \in DOMAIN ops[j]
  PROVE  MarkInv(<<ops, 3 * task>>, n, MarkIter(ops, task))
<1> DEFINE first == 3 * task
           start == [ops |-> [i \in DOMAIN ops |-> With(ops[i], "seq", None)],
                     seq |-> first, ok |-> TRUE]
           q == [i \in DOMAIN ops |-> i]
<1>1. first \in Nat
  OBVIOUS
<1>2. MarkIter(ops, task) = Marks!Run(ops, 0, start, q)
  BY DEF MarkIter, MarkIterFrom, Marks!Run, MarkStep, FoldLeft, Marks!FoldLeft,
         MapThenFoldSet, Marks!MapThenFoldSet, Max, Marks!Max
<1>3. MarkInv(<<ops, first>>, 0, start)
  <2>1. ASSUME NEW j \in 1..n PROVE MarkedAs(ops[j], start.ops[j]) /\ start.ops[j].seq = None
    <3>1. start.ops[j] = With(ops[j], "seq", None)
      OBVIOUS
    <3> DEFINE o == ops[j]
    <3> HIDE DEF start, o
    <3>2. With(o, "seq", None).seq = None /\ DOMAIN With(o, "seq", None) = DOMAIN o \cup {"seq"}
          /\ \A x \in DOMAIN o : x # "seq" => With(o, "seq", None)[x] = o[x]
      BY DEF With
    <3> QED
      BY <3>1, <3>2 DEF MarkedAs, o
  <2>2. Iters(ops, 0) = {}
    BY DEF Iters
  <2>3. Cardinality(Iters(ops, 0)) = 0
    BY <2>2, FS_EmptySet
  <2>4. DOMAIN start = {"ops", "seq", "ok"} /\ start.seq = first /\ start.ok = TRUE /\ DOMAIN start.ops = 1..n
    OBVIOUS
  <2> HIDE DEF start, first
  <2>5. first \in first..(first + 0)
    BY <1>1
  <2> QED
    BY <1>1, <2>1, <2>2, <2>3, <2>4, <2>5 DEF MarkInv
<1>4. \A i \in 1..n : \A s : MarkInv(<<ops, first>>, i - 1, s) =>
                               MarkInv(<<ops, first>>, i, MarkStep(ops, 0, s, q[i]))
  <2> HIDE DEF first
  <2> QED
    BY <1>1, MarkKeeps DEF MarkStep
<1>5. DOMAIN q = 1..n
  OBVIOUS
<1> HIDE DEF first, start, q
<1>6. MarkInv(<<ops, first>>, n, Marks!Run(ops, 0, start, q))
  BY <1>3, <1>4, <1>5, Marks!FoldInvariant
<1> QED
  BY <1>2, <1>6 DEF first

-----------------------------------------------------------------------------
\* What a compilation is given: the marked lines, the number of the policy, the
\* state it starts at, the coefficient, the base, and how many .iter there are.

\* The AIMs, kind by kind.
Pair == Int \X Int
Aims ==
  [aim : {"Init"}, init : Int]
  \cup [aim : {"ConstMove"}, off : Int, prev : Seq(Int), post : Int]
  \cup [aim : {"ConstLoad"}, seq : Int, value : Int, prev : Seq(Int)]
  \cup [aim : {"ReadLoad"}, off : Int, prev : Seq(Int), post : Int, tran : Pair, reg : Int,
        chk : Seq(Int)]
  \cup [aim : {"ReadMove"}, off : Int, prev : Seq(Int), post : Int, null : Pair]
  \cup [aim : {"Push", "Pop"}, prev : Seq(Int), post : Int]
  \cup [aim : {"NegJump"}, at : Int, yes : Int, no : Int, fake : Int, stop : Int]
  \cup [aim : {"DecJump"}, at : Int, seq : Int, yes : Int, no : Int]

\* The trip counts of the policy.
Trips(a) == (3 * a.task)..(3 * a.task + a.trips - 1)

\* The lines as the passes before leave them.
MarkedLine(a, m) ==
  /\ m.op \in {"kgraph", "traverse", "iter", "in", "values", "assert", "end"}
  /\ m.op = "traverse" => {m.off, m.end, m.type} \subseteq Int
  /\ m.op = "iter" =>
       /\ {m.off, m.size} \subseteq Int
       /\ m.seq \in {None} \cup Trips(a)
       /\ m.dyn = 0 => m.num \in Int /\ m.seq # None
  /\ m.op = "in" => {m.off, m.var} \subseteq Int
  /\ m.op = "values" =>
       m.fields \in Seq(Int) /\ Len(m.fields) >= 1 /\ m.seq \in {None} \cup Trips(a)
  /\ m.chk \in Seq(Int)

\* The server QPNs a READ may have, when the next free one is avail.
PostRange(a, avail) == (a.start + 1)..(avail - 1)
\* The fake states given out, when the next one is fake.
Fakes(a, fake) == (20 * a.task)..(fake - 1)
\* The states a load leaves a loop with, or the policy.
IsExit(a, fake, e) ==
  /\ e \in Pair
  /\ e = <<998 - a.task, 999 - a.task>> \/ (e[1] \in Fakes(a, fake) /\ e[2] = 0)

\* An AIM of the head: its states and registers are the policy's own.
HeadAim(a, avail, fake, x) ==
  /\ x.aim \in {"Init", "ConstMove", "ConstLoad", "ReadLoad", "ReadMove", "Push"}
  /\ x.aim = "Init" => x.init = a.start + a.coef
  /\ x.aim = "ConstLoad" => x.seq \in Trips(a)
  /\ x.aim \in {"ReadLoad", "ReadMove"} => x.post \in PostRange(a, avail)
  /\ x.aim = "ReadLoad" => x.tran = NoTran /\ x.reg \in {None} \cup Trips(a)
  /\ x.aim = "ReadMove" => IsExit(a, fake, x.null)

\* The end of the loop whose fake state is f; no state above limit is jumped to.
LoopAims(a, avail, fake, limit, f, w, x, y, z) ==
  /\ w.aim = "Pop"
  /\ \/ /\ x.aim = "ReadMove" /\ x.null = NoTran /\ x.post \in PostRange(a, avail)
        /\ y.aim = "NegJump" /\ y.at = x.post + a.coef /\ y.fake = f
     \/ /\ x.aim = "ConstMove"
        /\ y.aim = "DecJump" /\ y.at = f /\ y.seq \in {None} \cup Trips(a)
  /\ y.yes \in (a.start + 1)..limit /\ y.no \in PostRange(a, avail)
  /\ z.aim = "ReadLoad" /\ z.post \in PostRange(a, avail) /\ z.reg = None
  /\ IsExit(a, fake, z.tran)

\* Loops opened so far; the highest state a loop may jump back to; the AIMs that READ,
\* and those that enter a loop.
Loops(a, c) == c.fake - 20 * a.task
Limit(c) == IF c.head[Len(c.head)].aim = "Push" THEN c.avail ELSE c.avail - 1
IsRead(x) == x.aim \in {"ReadLoad", "ReadMove"}
Pushes(s) == {k \in 1..Len(s) : s[k].aim = "Push"}

\* The state of policy1, with what a compilation never changes.
CompilationType(a) ==
  [avail : Int, base : {a.base}, coef : {a.coef}, fake : Int, end : Pair, task : {a.task},
   last : Seq(Int), pos : Int, head : Seq(Aims), tail : Seq(Aims), pgt : {<<>>}, ok : BOOLEAN]

\* Every AIM of the head, and the four of every loop, innermost first, are as they
\* should be; one Push for each loop.
HeadOk(a, c) == \A k \in 1..Len(c.head) : HeadAim(a, c.avail, c.fake, c.head[k])
TailOk(a, c) ==
  /\ Len(c.tail) = 4 * Loops(a, c)
  /\ \A b \in 0..(Loops(a, c) - 1) :
       LoopAims(a, c.avail, c.fake, Limit(c), c.fake - 1 - b,
                c.tail[4*b + 1], c.tail[4*b + 2], c.tail[4*b + 3], c.tail[4*b + 4])
PushesOk(a, c) == IsFiniteSet(Pushes(c.head)) /\ Cardinality(Pushes(c.head)) = Loops(a, c)
\* Every number given out after the first is the post of a READ.
PostsUsed(a, c) ==
  \A d \in PostRange(a, c.avail) :
    \/ \E k \in 1..Len(c.head) : IsRead(c.head[k]) /\ c.head[k].post = d
    \/ \E k \in 1..Len(c.tail) : IsRead(c.tail[k]) /\ c.tail[k].post = d

\* What a compilation keeps between the first line and the last.
Open(a, c) ==
  /\ c \in CompilationType(a)
  /\ c.avail >= a.start + 1 /\ c.fake >= 20 * a.task
  /\ IsExit(a, c.fake, c.end)
  /\ Len(c.head) >= 1
  /\ HeadOk(a, c) /\ TailOk(a, c) /\ PushesOk(a, c) /\ PostsUsed(a, c)

\* The arguments of a compilation are numbers.
Given(a) ==
  /\ a.task \in Nat /\ a.start \in Int /\ a.coef \in Int /\ a.base \in Int /\ a.trips \in Nat

\* What two sequences of AIMs are when put together.
LEMMA Joined ==
  ASSUME NEW s \in Seq(Aims), NEW t \in Seq(Aims), NEW u, u = s \o t
  PROVE  /\ Len(u) = Len(s) + Len(t) /\ Len(s) \in Nat /\ Len(t) \in Nat
         /\ \A k \in 1..Len(s) : u[k] = s[k]
         /\ \A k \in 1..Len(t) : u[Len(s) + k] = t[k]
BY ConcatProperties, LenProperties

\* More numbers given out make no AIM wrong.
LEMMA HeadAimMono ==
  ASSUME NEW a, Given(a), NEW av \in Int, NEW av2 \in Int, av <= av2,
         NEW fk \in Int, NEW fk2 \in Int, fk <= fk2, NEW x, HeadAim(a, av, fk, x)
  PROVE  HeadAim(a, av2, fk2, x)
<1>1. PostRange(a, av) \subseteq PostRange(a, av2) /\ Fakes(a, fk) \subseteq Fakes(a, fk2)
  BY DEF PostRange, Fakes, Given
<1> QED
  BY <1>1 DEF HeadAim, IsExit

\* More numbers given out make no loop wrong.
LEMMA LoopAimsMono ==
  ASSUME NEW a, Given(a), NEW av \in Int, NEW av2 \in Int, av <= av2,
         NEW fk \in Int, NEW fk2 \in Int, fk <= fk2,
         NEW l \in Int, NEW l2 \in Int, l <= l2,
         NEW f, NEW w, NEW x, NEW y, NEW z, LoopAims(a, av, fk, l, f, w, x, y, z)
  PROVE  LoopAims(a, av2, fk2, l2, f, w, x, y, z)
<1>1. PostRange(a, av) \subseteq PostRange(a, av2) /\ Fakes(a, fk) \subseteq Fakes(a, fk2)
      /\ (a.start + 1)..l \subseteq (a.start + 1)..l2
  BY DEF PostRange, Fakes, Given
<1> QED
  BY <1>1 DEF LoopAims, IsExit

\* AIMs added to the head.
AddsHead(a, c, d, new) ==
  /\ new \in Seq(Aims) /\ Len(new) >= 1
  /\ d \in CompilationType(a) /\ d.head = c.head \o new
  /\ c.avail <= d.avail /\ c.fake <= d.fake
  /\ \A k \in 1..Len(new) : HeadAim(a, d.avail, d.fake, new[k])

\* AIMs added to the head leave those before them as they are, and the head in order.
LEMMA HeadGrows ==
  ASSUME NEW a, Given(a), NEW c, Open(a, c), NEW d, NEW new, AddsHead(a, c, d, new)
  PROVE  /\ HeadOk(a, d)
         /\ Len(d.head) >= 1 /\ Len(d.head) = Len(c.head) + Len(new)
         /\ \A k \in 1..Len(c.head) : d.head[k] = c.head[k]
         /\ \A k \in 1..Len(new) : d.head[Len(c.head) + k] = new[k]
         /\ d.head[Len(d.head)] = new[Len(new)]
<1>1. c.head \in Seq(Aims) /\ c.avail \in Int /\ c.fake \in Int /\ d.avail \in Int /\ d.fake \in Int
  BY DEF Open, CompilationType, AddsHead
<1>a. /\ new \in Seq(Aims) /\ Len(new) >= 1 /\ d.head = c.head \o new
      /\ \A k \in 1..Len(new) : HeadAim(a, d.avail, d.fake, new[k])
      /\ c.avail <= d.avail /\ c.fake <= d.fake
  BY DEF AddsHead
<1>2. /\ Len(d.head) = Len(c.head) + Len(new) /\ Len(c.head) \in Nat /\ Len(new) \in Nat
      /\ \A k \in 1..Len(c.head) : d.head[k] = c.head[k]
      /\ \A k \in 1..Len(new) : d.head[Len(c.head) + k] = new[k]
  BY <1>1, <1>a, ConcatProperties, LenProperties
<1>3. ASSUME NEW k \in 1..Len(d.head) PROVE HeadAim(a, d.avail, d.fake, d.head[k])
  <2>1. CASE k <= Len(c.head)
    BY <1>1, <1>a, <1>2, <2>1, HeadAimMono DEF Open, HeadOk
  <2>2. CASE k > Len(c.head)
    <3>1. k - Len(c.head) \in 1..Len(new) /\ k = Len(c.head) + (k - Len(c.head))
      BY <1>2, <2>2
    <3> QED
      BY <1>a, <1>2, <3>1
  <2> QED
    BY <1>2, <2>1, <2>2
<1>4. Len(d.head) >= 1 /\ d.head[Len(d.head)] = new[Len(new)]
  BY <1>a, <1>2
<1> QED
  BY <1>2, <1>3, <1>4 DEF HeadOk

\* No AIM added to the head is a Push.
LEMMA PushesSame ==
  ASSUME NEW s \in Seq(Aims), NEW new \in Seq(Aims),
         \A k \in 1..Len(new) : new[k].aim # "Push"
  PROVE  Pushes(s \o new) = Pushes(s)
<1>1. /\ Len(s \o new) = Len(s) + Len(new) /\ Len(s) \in Nat /\ Len(new) \in Nat
      /\ \A k \in 1..Len(s) : (s \o new)[k] = s[k]
      /\ \A k \in 1..Len(new) : (s \o new)[Len(s) + k] = new[k]
  BY ConcatProperties, LenProperties
<1>2. ASSUME NEW k \in (Len(s) + 1)..(Len(s) + Len(new)) PROVE (s \o new)[k].aim # "Push"
  <2>1. k - Len(s) \in 1..Len(new) /\ k = Len(s) + (k - Len(s))
    BY <1>1
  <2> QED
    BY <1>1, <2>1
<1> QED
  BY <1>1, <1>2 DEF Pushes

\* The last AIM added to the head, and no other, is a Push.
LEMMA PushesOneMore ==
  ASSUME NEW s \in Seq(Aims), NEW new \in Seq(Aims), Len(new) >= 1,
         \A k \in 1..Len(new) : new[k].aim = "Push" <=> k = Len(new),
         IsFiniteSet(Pushes(s))
  PROVE  /\ IsFiniteSet(Pushes(s \o new))
         /\ Cardinality(Pushes(s \o new)) = Cardinality(Pushes(s)) + 1
<1>1. /\ Len(s \o new) = Len(s) + Len(new) /\ Len(s) \in Nat /\ Len(new) \in Nat
      /\ \A k \in 1..Len(s) : (s \o new)[k] = s[k]
      /\ \A k \in 1..Len(new) : (s \o new)[Len(s) + k] = new[k]
  BY ConcatProperties, LenProperties
<1>2. ASSUME NEW k \in (Len(s) + 1)..(Len(s) + Len(new))
      PROVE  (s \o new)[k].aim = "Push" <=> k = Len(s) + Len(new)
  <2>1. k - Len(s) \in 1..Len(new) /\ k = Len(s) + (k - Len(s))
        /\ (k - Len(s) = Len(new) <=> k = Len(s) + Len(new))
    BY <1>1
  <2>2. (s \o new)[k] = new[k - Len(s)]
    BY <1>1, <2>1
  <2> QED
    BY <2>1, <2>2
<1>3. Pushes(s \o new) = Pushes(s) \cup {Len(s) + Len(new)} /\ ~ (Len(s) + Len(new) \in Pushes(s))
  BY <1>1, <1>2 DEF Pushes
<1> QED
  BY <1>3, FS_AddElement

-----------------------------------------------------------------------------
\* A READ added to the head, with the next free number.
LEMMA ReadAdded ==
  ASSUME NEW a, Given(a), NEW c, Open(a, c), NEW x \in Aims,
         NEW d \in CompilationType(a), d.avail = c.avail + 1, d.fake = c.fake, d.end = c.end,
         d.tail = c.tail, d.head = Append(c.head, x),
         IsRead(x), x.post = c.avail, HeadAim(a, d.avail, d.fake, x)
  PROVE  Open(a, d)
<1> DEFINE new == <<x>>
<1>1. /\ c.head \in Seq(Aims) /\ c.avail \in Int /\ c.fake \in Int /\ Given(a)
      /\ c.avail >= a.start + 1 /\ a.start \in Int
  BY DEF Open, CompilationType, Given
<1>a. new \in Seq(Aims) /\ Len(new) = 1 /\ new[1] = x
  OBVIOUS
<1>b. d.head = c.head \o new
  BY <1>1, AppendIsConcat
<1>c. \A k \in 1..Len(new) : new[k] = x
  BY <1>a
<1>3. x.aim # "Push"
  BY DEF IsRead
<1> HIDE DEF new
<1>2. /\ new \in Seq(Aims) /\ Len(new) = 1 /\ new[1] = x /\ d.head = c.head \o new
      /\ c.avail <= d.avail /\ c.fake <= d.fake /\ Len(new) >= 1
      /\ \A k \in 1..Len(new) : new[k] = x /\ HeadAim(a, d.avail, d.fake, new[k])
  BY <1>1, <1>a, <1>b, <1>c
<1>4. /\ HeadOk(a, d) /\ Len(d.head) >= 1 /\ Len(d.head) = Len(c.head) + 1
      /\ \A k \in 1..Len(c.head) : d.head[k] = c.head[k]
      /\ d.head[Len(d.head)] = x
  <2>1. HeadOk(a, d) /\ Len(d.head) >= 1 /\ Len(d.head) = Len(c.head) + Len(new)
        /\ (\A k \in 1..Len(c.head) : d.head[k] = c.head[k])
        /\ d.head[Len(d.head)] = new[Len(new)]
    <3>1. AddsHead(a, c, d, new)
      BY <1>2 DEF AddsHead
    <3> QED
      BY <3>1, HeadGrows
  <2> QED
    BY <1>2, <2>1
<1>5. PushesOk(a, d)
  <2>1. Pushes(d.head) = Pushes(c.head)
    BY <1>1, <1>2, <1>3, PushesSame
  <2> QED
    BY <2>1 DEF Open, PushesOk, Loops
<1>6. Limit(d) = c.avail /\ Limit(c) <= Limit(d) /\ Limit(c) \in Int /\ Limit(d) \in Int
  BY <1>1, <1>3, <1>4 DEF Limit
<1>7. TailOk(a, d)
  <2>1. TailOk(a, c) /\ Loops(a, d) = Loops(a, c) /\ c.avail <= d.avail /\ c.fake <= d.fake
        /\ d.avail \in Int /\ d.fake \in Int
    BY <1>1 DEF Open, Loops
  <2>2. ASSUME NEW b \in 0..(Loops(a, d) - 1)
        PROVE  LoopAims(a, d.avail, d.fake, Limit(d), d.fake - 1 - b,
                 d.tail[4*b + 1], d.tail[4*b + 2], d.tail[4*b + 3], d.tail[4*b + 4])
    <3>1. LoopAims(a, c.avail, c.fake, Limit(c), c.fake - 1 - b,
            c.tail[4*b + 1], c.tail[4*b + 2], c.tail[4*b + 3], c.tail[4*b + 4])
      BY <2>1, <2>2 DEF TailOk
    <3>2. LoopAims(a, d.avail, d.fake, Limit(d), c.fake - 1 - b,
            c.tail[4*b + 1], c.tail[4*b + 2], c.tail[4*b + 3], c.tail[4*b + 4])
      BY <1>1, <1>6, <2>1, <3>1, LoopAimsMono, SMTT(30)
    <3> QED
      BY <3>2
  <2> QED
    BY <2>1, <2>2 DEF TailOk
<1>8. PostsUsed(a, d)
  <2>1. SUFFICES ASSUME NEW p \in PostRange(a, d.avail)
                 PROVE  \/ \E k \in 1..Len(d.head) : IsRead(d.head[k]) /\ d.head[k].post = p
                        \/ \E k \in 1..Len(d.tail) : IsRead(d.tail[k]) /\ d.tail[k].post = p
    BY DEF PostsUsed
  <2>2. p \in PostRange(a, c.avail) \/ p = c.avail
    BY <1>1 DEF PostRange
  <2>3. Len(d.head) \in 1..Len(d.head) /\ 1..Len(c.head) \subseteq 1..Len(d.head)
    BY <1>1, <1>4
  <2> QED
    BY <1>4, <2>2, <2>3 DEF Open, PostsUsed
<1> QED
  BY <1>1, <1>4, <1>5, <1>7, <1>8 DEF Open

\* A loop: AIMs that end with a Push added to the head, its four AIMs before the tail.
AddsLoop(a, c, d, new, four) ==
  /\ d \in CompilationType(a) /\ c.avail <= d.avail /\ d.fake = c.fake + 1
  /\ new \in Seq(Aims) /\ Len(new) >= 1 /\ d.head = c.head \o new
  /\ \A k \in 1..Len(new) : HeadAim(a, d.avail, d.fake, new[k])
  /\ \A k \in 1..Len(new) : new[k].aim = "Push" <=> k = Len(new)
  /\ four \in Seq(Aims) /\ Len(four) = 4 /\ d.tail = four \o c.tail
  /\ LoopAims(a, d.avail, d.fake, d.avail, c.fake, four[1], four[2], four[3], four[4])
  /\ \A p \in c.avail..(d.avail - 1) :
       (four[2].aim = "ReadMove" /\ four[2].post = p) \/ four[4].post = p
  /\ IsExit(a, d.fake, d.end)

\* A line that opens a loop leaves the policy open, with one loop more.
LEMMA LoopAdded ==
  ASSUME NEW a, Given(a), NEW c, Open(a, c), NEW d, NEW new, NEW four,
         AddsLoop(a, c, d, new, four)
  PROVE  Open(a, d) /\ Loops(a, d) = Loops(a, c) + 1
<1>a. new \in Seq(Aims) /\ Len(new) >= 1 /\ d.head = c.head \o new
      /\ d \in CompilationType(a) /\ \A k \in 1..Len(new) : HeadAim(a, d.avail, d.fake, new[k])
  BY DEF AddsLoop
<1>b. d \in CompilationType(a) /\ d.fake = c.fake + 1 /\ c.avail <= d.avail /\ IsExit(a, d.fake, d.end)
  BY DEF AddsLoop
<1>c. c.head \in Seq(Aims) /\ c.tail \in Seq(Aims)
  BY DEF Open, CompilationType
<1>1. /\ c.avail \in Int /\ c.fake \in Int /\ d.fake = c.fake + 1 /\ c.avail <= d.avail
      /\ d.avail \in Int /\ d.fake \in Int /\ d.task = a.task /\ c.fake <= d.fake
      /\ c.avail >= a.start + 1 /\ c.fake >= 20 * a.task /\ a.start \in Int /\ a.task \in Nat
  BY <1>b DEF Open, CompilationType, Given
<1>2. /\ HeadOk(a, d) /\ Len(d.head) >= 1 /\ Len(d.head) = Len(c.head) + Len(new)
      /\ \A k \in 1..Len(c.head) : d.head[k] = c.head[k]
      /\ d.head[Len(d.head)] = new[Len(new)]
  <2>1. AddsHead(a, c, d, new)
    BY <1>a, <1>1 DEF AddsHead
  <2> QED
    BY <2>1, HeadGrows
<1>3. Loops(a, d) = Loops(a, c) + 1 /\ Loops(a, c) \in Nat
  BY <1>1 DEF Loops
<1>4. PushesOk(a, d)
  <2>1. IsFiniteSet(Pushes(d.head)) /\ Cardinality(Pushes(d.head)) = Cardinality(Pushes(c.head)) + 1
    <3>1. \A k \in 1..Len(new) : new[k].aim = "Push" <=> k = Len(new)
      BY DEF AddsLoop
    <3>2. IsFiniteSet(Pushes(c.head))
      BY DEF Open, PushesOk
    <3> QED
      BY <1>a, <1>c, <3>1, <3>2, PushesOneMore
  <2> QED
    BY <1>3, <2>1 DEF Open, PushesOk
<1>5. Limit(d) = d.avail
  <2>1. Len(new) \in 1..Len(new)
    BY <1>a, LenProperties
  <2> QED
    BY <1>2, <2>1 DEF Limit, AddsLoop
<1>6. Limit(c) <= Limit(d) /\ Limit(c) \in Int /\ Limit(d) \in Int
  BY <1>1, <1>5 DEF Limit
<1>7. four \in Seq(Aims) /\ Len(four) = 4 /\ d.tail = four \o c.tail
  BY DEF AddsLoop
<1>8. /\ Len(d.tail) = 4 + Len(c.tail) /\ Len(c.tail) \in Nat
      /\ \A k \in 1..4 : d.tail[k] = four[k]
      /\ \A k \in 1..Len(c.tail) : d.tail[4 + k] = c.tail[k]
  <2>1. /\ Len(d.tail) = Len(four) + Len(c.tail) /\ Len(c.tail) \in Nat
        /\ \A k \in 1..Len(four) : d.tail[k] = four[k]
        /\ \A k \in 1..Len(c.tail) : d.tail[Len(four) + k] = c.tail[k]
    <3>1. four \in Seq(Aims) /\ d.tail = four \o c.tail
      BY <1>7
    <3> QED
      BY <1>c, <3>1, Joined
  <2> QED
    BY <1>7, <2>1
<1>9. d.tail[1] = four[1] /\ d.tail[2] = four[2] /\ d.tail[3] = four[3] /\ d.tail[4] = four[4]
  BY <1>8
<1>10. TailOk(a, d)
  <2>1. TailOk(a, c)
    BY DEF Open
  <2>2. ASSUME NEW b \in 0..(Loops(a, d) - 1)
        PROVE  LoopAims(a, d.avail, d.fake, Limit(d), d.fake - 1 - b,
                 d.tail[4*b + 1], d.tail[4*b + 2], d.tail[4*b + 3], d.tail[4*b + 4])
    <3>1. CASE b = 0
      <4>1. 4*b + 1 = 1 /\ 4*b + 2 = 2 /\ 4*b + 3 = 3 /\ 4*b + 4 = 4 /\ d.fake - 1 - b = c.fake
        BY <1>1, <3>1
      <4>2. LoopAims(a, d.avail, d.fake, d.avail, c.fake, four[1], four[2], four[3], four[4])
        BY DEF AddsLoop
      <4> QED
        BY <1>5, <1>9, <4>1, <4>2
    <3>2. CASE b > 0
      <4> DEFINE e == b - 1
      <4>1. e \in 0..(Loops(a, c) - 1) /\ d.fake - 1 - b = c.fake - 1 - e
        BY <1>1, <1>3, <3>2
      <4>2. /\ 4*b + 1 = 4 + (4*e + 1) /\ 4*b + 2 = 4 + (4*e + 2)
            /\ 4*b + 3 = 4 + (4*e + 3) /\ 4*b + 4 = 4 + (4*e + 4)
        OBVIOUS
      <4>3. {4*e + 1, 4*e + 2, 4*e + 3, 4*e + 4} \subseteq 1..Len(c.tail)
        <5>1. Len(c.tail) = 4 * Loops(a, c) /\ e >= 0 /\ e + 1 <= Loops(a, c) /\ e \in Int
          BY <1>3, <2>1, <4>1 DEF TailOk
        <5> HIDE DEF e
        <5> QED
          BY <1>3, <5>1
      <4> HIDE DEF e
      <4>4. LoopAims(a, c.avail, c.fake, Limit(c), c.fake - 1 - e,
              c.tail[4*e + 1], c.tail[4*e + 2], c.tail[4*e + 3], c.tail[4*e + 4])
        BY <2>1, <4>1 DEF TailOk
      <4>5. LoopAims(a, d.avail, d.fake, Limit(d), c.fake - 1 - e,
              c.tail[4*e + 1], c.tail[4*e + 2], c.tail[4*e + 3], c.tail[4*e + 4])
        <5> DEFINE f == c.fake - 1 - e
                   av == c.avail
                   av2 == d.avail
                   l == Limit(c)
                   l2 == Limit(d)
                   w == c.tail[4*e + 1]
                   x == c.tail[4*e + 2]
                   y == c.tail[4*e + 3]
                   z == c.tail[4*e + 4]
        <5>1. av <= av2 /\ av \in Int /\ av2 \in Int /\ l <= l2 /\ l \in Int /\ l2 \in Int
          BY <1>1, <1>6
        <5>2. LoopAims(a, av, c.fake, l, f, w, x, y, z)
          BY <4>4
        <5> HIDE DEF f, av, av2, l, l2, w, x, y, z
        <5>3. LoopAims(a, av2, d.fake, l2, f, w, x, y, z)
          BY <1>1, <5>1, <5>2, LoopAimsMono
        <5> QED
          BY <5>3 DEF f, av2, l2, w, x, y, z
      <4>6. /\ d.tail[4*b + 1] = c.tail[4*e + 1] /\ d.tail[4*b + 2] = c.tail[4*e + 2]
            /\ d.tail[4*b + 3] = c.tail[4*e + 3] /\ d.tail[4*b + 4] = c.tail[4*e + 4]
        <5>1. \A k \in {4*e + 1, 4*e + 2, 4*e + 3, 4*e + 4} : d.tail[4 + k] = c.tail[k]
          BY <1>8, <4>3
        <5> QED
          BY <4>2, <5>1
      <4> QED
        BY <4>1, <4>5, <4>6
    <3> QED
      BY <1>3, <3>1, <3>2
  <2>3. Len(d.tail) = 4 * Loops(a, d)
    BY <1>3, <1>8, <2>1 DEF TailOk
  <2> QED
    BY <2>2, <2>3 DEF TailOk
<1>11. PostsUsed(a, d)
  <2>1. SUFFICES ASSUME NEW p \in PostRange(a, d.avail)
                 PROVE  \/ \E k \in 1..Len(d.head) : IsRead(d.head[k]) /\ d.head[k].post = p
                        \/ \E k \in 1..Len(d.tail) : IsRead(d.tail[k]) /\ d.tail[k].post = p
    BY DEF PostsUsed
  <2>2. CASE p \in PostRange(a, c.avail)
    <3>1. CASE \E k \in 1..Len(c.head) : IsRead(c.head[k]) /\ c.head[k].post = p
      <4>1. 1..Len(c.head) \subseteq 1..Len(d.head)
        BY <1>a, <1>c, <1>2, LenProperties
      <4> QED
        BY <1>2, <3>1, <4>1
    <3>2. CASE \E k \in 1..Len(c.tail) : IsRead(c.tail[k]) /\ c.tail[k].post = p
      <4>1. PICK k \in 1..Len(c.tail) : IsRead(c.tail[k]) /\ c.tail[k].post = p
        BY <3>2
      <4>2. 4 + k \in 1..Len(d.tail) /\ d.tail[4 + k] = c.tail[k]
        BY <1>8
      <4> QED
        BY <4>1, <4>2
    <3> QED
      BY <2>2, <3>1, <3>2 DEF Open, PostsUsed
  <2>3. CASE p \in c.avail..(d.avail - 1)
    <3>1. /\ four[4].aim = "ReadLoad"
          /\ (four[2].aim = "ReadMove" /\ four[2].post = p) \/ four[4].post = p
      BY <2>3 DEF LoopAims, AddsLoop
    <3>2. 2 \in 1..Len(d.tail) /\ 4 \in 1..Len(d.tail)
      BY <1>8
    <3> QED
      BY <1>9, <3>1, <3>2 DEF IsRead
  <2>4. p \in PostRange(a, c.avail) \/ p \in c.avail..(d.avail - 1)
    BY <1>1 DEF PostRange
  <2> QED
    BY <2>2, <2>3, <2>4
<1>12. d.avail >= a.start + 1 /\ d.fake >= 20 * a.task /\ IsExit(a, d.fake, d.end)
  BY <1>b, <1>1
<1> QED
  BY <1>a, <1>2, <1>3, <1>4, <1>10, <1>11, <1>12 DEF Open

-----------------------------------------------------------------------------
\* The AIMs are AIMs.
LEMMA MoveType ==
  \A off \in Int, prev \in Seq(Int), post \in Int : Move(off, prev, post) \in Aims
BY DEF Aims, Move

\* A load is an AIM.
LEMMA LoadType ==
  \A off \in Int, prev \in Seq(Int), post \in Int, tran \in Pair, reg \in Int, chk \in Seq(Int) :
    Load(off, prev, post, tran, reg, chk) \in Aims
BY DEF Aims, Load

\* A pointer followed is an AIM.
LEMMA FollowType ==
  \A off \in Int, prev \in Seq(Int), post \in Int, null \in Pair :
    Follow(off, prev, post, null) \in Aims
BY DEF Aims, Follow

\* A Push and a Pop are AIMs.
LEMMA StackType ==
  \A kind \in {"Push", "Pop"}, prev \in Seq(Int), post \in Int :
    [aim |-> kind, prev |-> prev, post |-> post] \in Aims
BY DEF Aims

\* A trip count set is an AIM.
LEMMA CountType ==
  \A seq \in Int, value \in Int, prev \in Seq(Int) :
    [aim |-> "ConstLoad", seq |-> seq, value |-> value, prev |-> prev] \in Aims
BY DEF Aims

\* The jump of a traversal is an AIM.
LEMMA NegJumpType ==
  \A at \in Int, yes \in Int, no \in Int, fake \in Int, stop \in Int :
    [aim |-> "NegJump", at |-> at, yes |-> yes, no |-> no, fake |-> fake, stop |-> stop] \in Aims
BY DEF Aims

\* The jump of a counted loop is an AIM.
LEMMA DecJumpType ==
  \A at \in Int, seq \in Int, yes \in Int, no \in Int :
    [aim |-> "DecJump", at |-> at, seq |-> seq, yes |-> yes, no |-> no] \in Aims
BY DEF Aims

\* What an open policy tells of its counters, and of the numbers given out next.
LEMMA OpenTypes ==
  ASSUME NEW a, Given(a), NEW c, Open(a, c)
  PROVE  /\ c.avail \in Int /\ c.fake \in Int /\ c.pos \in Int /\ c.coef = a.coef /\ a.coef \in Int
         /\ c.end \in Pair /\ c.last \in Seq(Int) /\ c.head \in Seq(Aims) /\ c.tail \in Seq(Aims)
         /\ c.avail >= a.start + 1 /\ c.fake >= 20 * a.task
         /\ a.start \in Int /\ a.task \in Nat
         /\ c.avail \in PostRange(a, c.avail + 1) /\ c.avail \in PostRange(a, c.avail + 2)
         /\ c.avail + 1 \in PostRange(a, c.avail + 2)
         /\ c.fake \in Fakes(a, c.fake + 1)
         /\ IsExit(a, c.fake, c.end) /\ IsExit(a, c.fake + 1, c.end)
<1>1. /\ c.avail \in Int /\ c.fake \in Int /\ c.pos \in Int /\ c.coef = a.coef /\ a.coef \in Int
      /\ c.end \in Pair /\ c.last \in Seq(Int) /\ c.head \in Seq(Aims) /\ c.tail \in Seq(Aims)
      /\ c.avail >= a.start + 1 /\ c.fake >= 20 * a.task
      /\ a.start \in Int /\ a.task \in Nat /\ IsExit(a, c.fake, c.end)
  BY DEF Open, CompilationType, Given
<1>2. /\ c.avail \in PostRange(a, c.avail + 1) /\ c.avail \in PostRange(a, c.avail + 2)
      /\ c.avail + 1 \in PostRange(a, c.avail + 2)
      /\ c.fake \in Fakes(a, c.fake + 1)
  <2>1. c.avail \in PostRange(a, c.avail + 1)
    BY <1>1 DEF PostRange
  <2>2. c.avail \in PostRange(a, c.avail + 2) /\ c.avail + 1 \in PostRange(a, c.avail + 2)
    BY <1>1, SMTT(30) DEF PostRange
  <2>3. c.fake \in Fakes(a, c.fake + 1)
    BY <1>1 DEF Fakes
  <2> QED
    BY <2>1, <2>2, <2>3
<1>3. IsExit(a, c.fake + 1, c.end)
  BY <1>1 DEF IsExit, Fakes
<1> QED
  BY <1>1, <1>2, <1>3

\* A compilation with four of its fields changed is one still.
Changed(c, d, pos, last, avail, head) ==
  d = [c EXCEPT !.pos = pos, !.last = last, !.avail = avail, !.head = head]

\* It is of the same type.
LEMMA Retyped ==
  ASSUME NEW a, NEW c \in CompilationType(a), NEW pos \in Int, NEW last \in Seq(Int),
         NEW avail \in Int, NEW head \in Seq(Aims),
         NEW d, Changed(c, d, pos, last, avail, head)
  PROVE  d \in CompilationType(a)
BY DEF CompilationType, Changed

\* KernelGraph, the first line, opens the policy: no loop yet (gen_kgraph_aim).
LEMMA KGraphOpens ==
  ASSUME NEW a, Given(a), NEW op,
         NEW c \in CompilationType(a), c.avail = a.start, c.fake = 20 * a.task,
         c.end = <<998 - a.task, 999 - a.task>>, c.head = <<>>, c.tail = <<>>
  PROVE  Open(a, GenKGraph(c, op)) /\ Loops(a, GenKGraph(c, op)) = 0
<1> DEFINE x == [aim |-> "Init", init |-> a.start + a.coef]
           d == GenKGraph(c, op)
<1>1. a.start \in Int /\ a.coef \in Int /\ a.task \in Nat /\ c.coef = a.coef
  BY DEF Given, CompilationType
<1>2. x \in Aims /\ a.start + a.coef \in Int
  <2>1. a.start + a.coef \in Int
    BY <1>1
  <2> QED
    BY <2>1 DEF Aims
<1>3. /\ d.avail = a.start + 1 /\ d.fake = 20 * a.task /\ d.end = <<998 - a.task, 999 - a.task>>
      /\ d.head = Append(c.head, x) /\ d.tail = <<>> /\ d.last = <<a.start + a.coef>>
      /\ d.pos = 0 /\ d.coef = c.coef /\ d.base = c.base /\ d.task = c.task /\ d.pgt = c.pgt
      /\ d.ok = c.ok
      /\ DOMAIN d = DOMAIN c
  BY <1>1 DEF GenKGraph, Tran, CompilationType
<1>4. d.head = <<x>> /\ d.head \in Seq(Aims) /\ Len(d.head) = 1 /\ d.head[1] = x
  BY <1>2, <1>3
<1>5. d \in CompilationType(a)
  <2>1. d = [c EXCEPT !.pos = 0, !.last = <<a.start + a.coef>>, !.avail = c.avail + 1, !.head = <<x>>]
    BY <1>1, <1>3, <1>4 DEF GenKGraph, Tran, CompilationType
  <2>2. <<a.start + a.coef>> \in Seq(Int) /\ <<x>> \in Seq(Aims) /\ c.avail + 1 \in Int
    BY <1>1, <1>2 DEF CompilationType
  <2> HIDE DEF d, x
  <2> DEFINE last == <<a.start + a.coef>>
             head == <<x>>
             avail == c.avail + 1
  <2>3. Changed(c, d, 0, last, avail, head)
    BY <2>1 DEF Changed
  <2>4. last \in Seq(Int) /\ head \in Seq(Aims) /\ avail \in Int /\ 0 \in Int
    BY <2>2
  <2> HIDE DEF last, head, avail
  <2> QED
    BY <2>3, <2>4, Retyped
<1> HIDE DEF d
<1>6. Loops(a, d) = 0
  BY <1>1, <1>3 DEF Loops
<1>7. IsExit(a, d.fake, d.end)
  BY <1>1, <1>3 DEF IsExit, Pair
<1>8. HeadOk(a, d)
  BY <1>4 DEF HeadOk, HeadAim
<1>9. TailOk(a, d)
  BY <1>3, <1>6 DEF TailOk
<1>10. PushesOk(a, d)
  <2>1. Pushes(d.head) = {}
    BY <1>4 DEF Pushes
  <2> QED
    BY <1>6, <2>1, FS_EmptySet DEF PushesOk
<1>11. PostsUsed(a, d)
  BY <1>1, <1>3 DEF PostsUsed, PostRange
<1>12. d.avail >= a.start + 1 /\ d.fake >= 20 * a.task /\ Len(d.head) >= 1
  BY <1>1, <1>3, <1>4
<1> QED
  BY <1>5, <1>6, <1>7, <1>8, <1>9, <1>10, <1>11, <1>12 DEF Open, d

\* An .in leaves the policy open, with no loop more (gen_in_aim).
LEMMA InOpen ==
  ASSUME NEW a, Given(a), NEW c, Open(a, c), NEW op, MarkedLine(a, op), op.op = "in"
  PROVE  Open(a, GenIn(c, op)) /\ Loops(a, GenIn(c, op)) = Loops(a, c)
<1> DEFINE x == Follow(op.off - c.pos, c.last, c.avail, c.end)
           d == GenIn(c, op)
<1>1. op.off \in Int /\ op.var \in Int
  BY DEF MarkedLine
<1>2. x \in Aims /\ c.avail + 1 \in Int /\ Tran(c, c.avail) \in Int
  <2>1. op.off - c.pos \in Int /\ c.avail + 1 \in Int /\ Tran(c, c.avail) \in Int
    BY <1>1, OpenTypes, SMTT(30) DEF Tran
  <2> QED
    BY <2>1, OpenTypes, FollowType
<1>3. x.aim = "ReadMove" /\ x.post = c.avail /\ x.null = c.end
  BY DEF Follow
<1>4. d = [c EXCEPT !.avail = c.avail + 1, !.last = <<Tran(c, c.avail)>>, !.pos = op.var,
                    !.head = Append(c.head, x)]
  BY DEF GenIn, Open, CompilationType
<1>5. <<Tran(c, c.avail)>> \in Seq(Int) /\ Append(c.head, x) \in Seq(Aims)
  BY <1>2, OpenTypes, AppendProperties
<1> HIDE DEF x, d
<1>6. /\ d \in CompilationType(a) /\ d.avail = c.avail + 1 /\ d.fake = c.fake
      /\ d.end = c.end /\ d.tail = c.tail /\ d.head = Append(c.head, x)
  <2>1. c \in CompilationType(a)
    BY DEF Open
  <2> QED
    BY <1>1, <1>2, <1>4, <1>5, <2>1 DEF CompilationType
<1>7. IsRead(x) /\ HeadAim(a, d.avail, d.fake, x)
  BY <1>3, <1>6, OpenTypes DEF IsRead, HeadAim
<1>8. Open(a, d)
  BY <1>2, <1>3, <1>6, <1>7, ReadAdded
<1> QED
  BY <1>6, <1>8 DEF d, Loops

\* A .traverse adds a loop that ends at a null pointer (gen_traverse_aim).
LEMMA TraverseOpen ==
  ASSUME NEW a, Given(a), NEW c, Open(a, c), NEW op, MarkedLine(a, op), op.op = "traverse"
  PROVE  Open(a, GenTraverse(c, op)) /\ Loops(a, GenTraverse(c, op)) = Loops(a, c) + 1
<1> DEFINE d == GenTraverse(c, op)
           next == c.avail
           rec == c.avail + 1
           nxt == c.avail + 2
           from == Append(c.last, Tran(c, next))
           move == Move(op.type - c.pos, c.last, nxt)
           push == [aim |-> "Push", prev |-> from, post |-> nxt]
           pop == [aim |-> "Pop", prev |-> <<c.fake>>, post |-> next]
           follow == Follow(op.off - op.type, <<c.fake>>, next, NoTran)
           jump == [aim |-> "NegJump", at |-> Tran(c, next), yes |-> nxt, no |-> rec,
                    fake |-> c.fake, stop |-> op.end]
           load == Load(0, <<Tran(c, next)>>, rec, c.end, None, <<>>)
           new == <<move, push>>
           four == <<pop, follow, jump, load>>
<1>1. op.off \in Int /\ op.end \in Int /\ op.type \in Int
  BY DEF MarkedLine
<1>2. /\ next \in Int /\ rec \in Int /\ nxt \in Int /\ Tran(c, next) \in Int
      /\ c.fake \in Int /\ c.fake + 1 \in Int /\ op.type - c.pos \in Int /\ op.off - op.type \in Int
      /\ c.last \in Seq(Int) /\ c.end \in Pair /\ None \in Int /\ NoTran \in Pair
      /\ c.head \in Seq(Aims) /\ c.tail \in Seq(Aims) /\ 0 \in Int
  <2>1. None \in Int /\ NoTran \in Pair /\ 0 \in Int
    BY DEF None, NoTran, Pair
  <2>2. c.avail \in Int /\ c.fake \in Int /\ c.pos \in Int /\ c.coef \in Int
    BY OpenTypes
  <2>3. /\ next \in Int /\ rec \in Int /\ nxt \in Int /\ Tran(c, next) \in Int
        /\ c.fake \in Int /\ c.fake + 1 \in Int /\ op.type - c.pos \in Int
        /\ op.off - op.type \in Int
    BY <1>1, <2>2 DEF Tran
  <2> HIDE DEF next, rec, nxt
  <2> QED
    BY <2>1, <2>3, OpenTypes
<1>3. /\ from \in Seq(Int) /\ <<c.fake>> \in Seq(Int) /\ <<Tran(c, next)>> \in Seq(Int)
      /\ <<>> \in Seq(Int) /\ <<c.fake, 0>> \in Pair
  BY <1>2, AppendProperties DEF Pair
<1>4. /\ move.aim = "ConstMove" /\ push.aim = "Push" /\ pop.aim = "Pop"
      /\ follow.aim = "ReadMove" /\ follow.null = NoTran /\ follow.post = next
      /\ jump.aim = "NegJump" /\ jump.at = Tran(c, next) /\ jump.fake = c.fake
      /\ jump.yes = nxt /\ jump.no = rec
      /\ load.aim = "ReadLoad" /\ load.post = rec /\ load.reg = None /\ load.tran = c.end
  BY DEF Move, Follow, Load
<1>5. d = [c EXCEPT !.fake = c.fake + 1, !.avail = nxt, !.pos = op.type,
                    !.last = from, !.end = <<c.fake, 0>>,
                    !.head = c.head \o new, !.tail = four \o c.tail]
  BY DEF GenTraverse, Open, CompilationType
<1> HIDE DEF d, from
<1>6. move \in Aims /\ push \in Aims /\ pop \in Aims /\ follow \in Aims /\ jump \in Aims /\ load \in Aims
  <2> HIDE DEF next, rec, nxt
  <2>1. move \in Aims
    BY <1>2, MoveType
  <2>2. push \in Aims /\ pop \in Aims
    BY <1>2, <1>3, StackType
  <2>3. follow \in Aims
    BY <1>2, <1>3, FollowType
  <2>4. jump \in Aims
    BY <1>1, <1>2, NegJumpType
  <2>5. load \in Aims
    BY <1>2, <1>3, LoadType
  <2> QED
    BY <2>1, <2>2, <2>3, <2>4, <2>5
<1> HIDE DEF next, rec, nxt, move, push, pop, follow, jump, load
<1>7. /\ new \in Seq(Aims) /\ Len(new) = 2 /\ new[1] = move /\ new[2] = push
      /\ four \in Seq(Aims) /\ Len(four) = 4 /\ four[1] = pop /\ four[2] = follow
      /\ four[3] = jump /\ four[4] = load
  BY <1>6
<1> HIDE DEF new, four
<1>8. c.head \o new \in Seq(Aims) /\ four \o c.tail \in Seq(Aims)
  BY <1>2, <1>7, ConcatProperties
<1>9. /\ d \in CompilationType(a) /\ d.avail = nxt /\ d.fake = c.fake + 1
      /\ d.end = <<c.fake, 0>> /\ d.head = c.head \o new /\ d.tail = four \o c.tail
  <2>1. c \in CompilationType(a)
    BY DEF Open
  <2> QED
    BY <1>1, <1>2, <1>3, <1>5, <1>8, <2>1 DEF CompilationType
<1>10. \A k \in 1..Len(new) : HeadAim(a, d.avail, d.fake, new[k]) /\ (new[k].aim = "Push" <=> k = 2)
  <2>1. HeadAim(a, d.avail, d.fake, move) /\ HeadAim(a, d.avail, d.fake, push)
    BY <1>4 DEF HeadAim
  <2> QED
    BY <1>4, <1>7, <2>1
<1>11. LoopAims(a, d.avail, d.fake, d.avail, c.fake, pop, follow, jump, load)
  <2>1. /\ next \in PostRange(a, nxt) /\ rec \in PostRange(a, nxt) /\ nxt \in (a.start + 1)..nxt
        /\ Tran(c, next) = next + a.coef
    BY OpenTypes DEF next, rec, nxt, Tran
  <2>2. IsExit(a, c.fake + 1, c.end)
    BY OpenTypes
  <2> QED
    BY <1>4, <1>9, <2>1, <2>2 DEF LoopAims
<1>12. c.avail <= d.avail /\ \A p \in c.avail..(d.avail - 1) : follow.post = p \/ load.post = p
  <2>1. follow.post = c.avail /\ load.post = c.avail + 1 /\ d.avail = c.avail + 2
    BY <1>4, <1>9 DEF next, rec, nxt
  <2>2. c.avail \in Int
    BY OpenTypes
  <2> QED
    BY <2>1, <2>2
<1>13. IsExit(a, d.fake, d.end)
  BY <1>3, <1>9, OpenTypes DEF IsExit
<1>14. AddsLoop(a, c, d, new, four)
  BY <1>4, <1>7, <1>9, <1>10, <1>11, <1>12, <1>13 DEF AddsLoop
<1> QED
  BY <1>14, LoopAdded DEF d

\* Three sequences of AIMs, put together in either order.
LEMMA Regroup ==
  \A s, t, u \in Seq(Aims) : (s \o t) \o u = s \o (t \o u)
BY ConcatAssociative

\* An .iter adds a loop that is counted (gen_iter_aim).
LEMMA IterOpen ==
  ASSUME NEW a, Given(a), NEW c, Open(a, c), NEW op, MarkedLine(a, op), op.op = "iter"
  PROVE  Open(a, GenIter(c, op)) /\ Loops(a, GenIter(c, op)) = Loops(a, c) + 1
<1> DEFINE d == GenIter(c, op)
           rec == c.avail
           nxt == c.avail + 1
           from == Append(c.last, c.fake)
           const == [aim |-> "ConstLoad", seq |-> op.seq, value |-> op.num, prev |-> c.last]
           move == Move(op.off - c.pos, c.last, nxt)
           push == [aim |-> "Push", prev |-> from, post |-> nxt]
           pop == [aim |-> "Pop", prev |-> <<c.fake>>, post |-> nxt]
           step == Move(op.size, <<c.fake>>, nxt)
           jump == [aim |-> "DecJump", at |-> c.fake, seq |-> op.seq, yes |-> nxt, no |-> rec]
           load == Load(0, <<c.fake>>, rec, c.end, None, <<>>)
           first == IF op.dyn = 0 THEN <<const>> ELSE <<>>
           new == first \o <<move, push>>
           four == <<pop, step, jump, load>>
<1>1. /\ op.off \in Int /\ op.size \in Int /\ op.seq \in {None} \cup Trips(a)
      /\ op.dyn = 0 => op.num \in Int /\ op.seq \in Trips(a)
  BY DEF MarkedLine
<1>a. op.seq \in Int
  BY <1>1 DEF Trips, None, Given
<1>2. /\ rec \in Int /\ nxt \in Int
      /\ c.fake \in Int /\ c.fake + 1 \in Int /\ op.off - c.pos \in Int
      /\ c.last \in Seq(Int) /\ c.end \in Pair /\ None \in Int
      /\ c.head \in Seq(Aims) /\ c.tail \in Seq(Aims) /\ 0 \in Int
  <2>1. c.avail \in Int /\ c.fake \in Int /\ c.pos \in Int
    BY OpenTypes
  <2>2. /\ rec \in Int /\ nxt \in Int /\ c.fake \in Int /\ c.fake + 1 \in Int
        /\ op.off - c.pos \in Int /\ None \in Int /\ 0 \in Int
    BY <1>1, <2>1 DEF None
  <2> HIDE DEF rec, nxt
  <2> QED
    BY <2>2, OpenTypes
<1>3. /\ from \in Seq(Int) /\ <<c.fake>> \in Seq(Int)
      /\ <<>> \in Seq(Int) /\ <<c.fake, 0>> \in Pair
  BY <1>2, AppendProperties DEF Pair
<1>4. /\ move.aim = "ConstMove" /\ push.aim = "Push" /\ pop.aim = "Pop"
      /\ step.aim = "ConstMove" /\ const.aim = "ConstLoad" /\ const.seq = op.seq
      /\ jump.aim = "DecJump" /\ jump.at = c.fake /\ jump.seq = op.seq
      /\ jump.yes = nxt /\ jump.no = rec
      /\ load.aim = "ReadLoad" /\ load.post = rec /\ load.reg = None /\ load.tran = c.end
  BY DEF Move, Load
<1>b. /\ move \in Aims /\ push \in Aims /\ pop \in Aims /\ step \in Aims /\ jump \in Aims
      /\ load \in Aims /\ (op.dyn = 0 => const \in Aims)
  <2> HIDE DEF rec, nxt
  <2>1. move \in Aims /\ step \in Aims
    BY <1>1, <1>2, <1>3, MoveType
  <2>2. push \in Aims /\ pop \in Aims
    BY <1>2, <1>3, StackType
  <2>3. op.dyn = 0 => const \in Aims
    BY <1>1, <1>a, <1>2, CountType
  <2>4. jump \in Aims
    BY <1>a, <1>2, DecJumpType
  <2>5. load \in Aims
    BY <1>2, <1>3, LoadType
  <2> QED
    BY <2>1, <2>2, <2>3, <2>4, <2>5
<1>c. first \in Seq(Aims) /\ <<move, push>> \in Seq(Aims)
  <2> HIDE DEF move, push, const
  <2>1. op.dyn = 0 => <<const>> \in Seq(Aims)
    BY <1>b
  <2> QED
    BY <1>b, <2>1
<1>d. (c.head \o first) \o <<move, push>> = c.head \o new
  <2> DEFINE two == <<move, push>>
  <2>1. first \in Seq(Aims) /\ two \in Seq(Aims) /\ c.head \in Seq(Aims)
    BY <1>2, <1>c
  <2>2. (c.head \o first) \o two = c.head \o (first \o two)
    <3> HIDE DEF first, two
    <3> QED
      BY <2>1, Regroup
  <2> QED
    BY <2>2
<1>5. d = [c EXCEPT !.fake = c.fake + 1, !.avail = nxt,
                    !.last = from, !.end = <<c.fake, 0>>,
                    !.head = c.head \o new, !.tail = four \o c.tail]
  BY <1>d DEF GenIter, Open, CompilationType
<1> HIDE DEF d, from
<1> HIDE DEF rec, nxt, move, push, pop, step, jump, load, const
<1>7. /\ four \in Seq(Aims) /\ Len(four) = 4 /\ four[1] = pop /\ four[2] = step
      /\ four[3] = jump /\ four[4] = load
  BY <1>b
<1>8. ASSUME op.dyn = 0
      PROVE  /\ new \in Seq(Aims) /\ Len(new) >= 1
             /\ \A k \in 1..Len(new) :
                  HeadAim(a, nxt, c.fake + 1, new[k]) /\ (new[k].aim = "Push" <=> k = Len(new))
  <2>1. /\ new \in Seq(Aims) /\ Len(new) = 3
        /\ new[1] = const /\ new[2] = move /\ new[3] = push
    <3> DEFINE one == <<const>>
               two == <<move, push>>
    <3>1. /\ one \in Seq(Aims) /\ Len(one) = 1 /\ one[1] = const
          /\ two \in Seq(Aims) /\ Len(two) = 2 /\ two[1] = move /\ two[2] = push
      BY <1>b, <1>8
    <3>2. new = one \o two
      BY <1>8
    <3> HIDE DEF new, one, two
    <3>3. /\ new \in Seq(Aims) /\ Len(new) = 3
          /\ \A k \in 1..1 : new[k] = one[k]
          /\ \A k \in 1..2 : new[1 + k] = two[k]
      BY <3>1, <3>2, ConcatProperties, SMTT(30)
    <3>4. new[1] = one[1] /\ new[1 + 1] = two[1] /\ new[1 + 2] = two[2]
      BY <3>3
    <3> QED
      BY <3>1, <3>3, <3>4
  <2>2. HeadAim(a, nxt, c.fake + 1, const)
    BY <1>1, <1>4, <1>8 DEF HeadAim
  <2>3. HeadAim(a, nxt, c.fake + 1, move) /\ HeadAim(a, nxt, c.fake + 1, push)
    BY <1>4 DEF HeadAim
  <2> HIDE DEF new
  <2>4. \A k \in 1..Len(new) : HeadAim(a, nxt, c.fake + 1, new[k]) /\ (new[k].aim = "Push" <=> k = Len(new))
    BY <1>4, <2>1, <2>2, <2>3
  <2>5. Len(new) >= 1
    BY <2>1
  <2> QED
    BY <2>1, <2>4, <2>5
<1>9. ASSUME op.dyn # 0
      PROVE  /\ new \in Seq(Aims) /\ Len(new) >= 1
             /\ \A k \in 1..Len(new) :
                  HeadAim(a, nxt, c.fake + 1, new[k]) /\ (new[k].aim = "Push" <=> k = Len(new))
  <2>1. /\ new \in Seq(Aims) /\ Len(new) = 2
        /\ new[1] = move /\ new[2] = push
    <3> DEFINE two == <<move, push>>
    <3>1. /\ two \in Seq(Aims) /\ Len(two) = 2 /\ two[1] = move /\ two[2] = push
      BY <1>b
    <3>2. new = <<>> \o two
      BY <1>9
    <3> HIDE DEF two
    <3>3. new = two
      BY <3>1, <3>2, ConcatEmptySeq
    <3> QED
      BY <3>1, <3>3
  <2>3. HeadAim(a, nxt, c.fake + 1, move) /\ HeadAim(a, nxt, c.fake + 1, push)
    BY <1>4 DEF HeadAim
  <2> HIDE DEF new
  <2>4. \A k \in 1..Len(new) : HeadAim(a, nxt, c.fake + 1, new[k]) /\ (new[k].aim = "Push" <=> k = Len(new))
    BY <1>4, <2>1, <2>3
  <2>5. Len(new) >= 1
    BY <2>1
  <2> QED
    BY <2>1, <2>4, <2>5
<1>10. /\ new \in Seq(Aims) /\ Len(new) >= 1
       /\ \A k \in 1..Len(new) :
            HeadAim(a, nxt, c.fake + 1, new[k]) /\ (new[k].aim = "Push" <=> k = Len(new))
  BY <1>8, <1>9
<1> HIDE DEF new, four, first
<1>11. c.head \o new \in Seq(Aims) /\ four \o c.tail \in Seq(Aims)
  BY <1>2, <1>7, <1>10, ConcatProperties
<1>12. /\ d \in CompilationType(a) /\ d.avail = nxt /\ d.fake = c.fake + 1
       /\ d.end = <<c.fake, 0>> /\ d.head = c.head \o new /\ d.tail = four \o c.tail
  <2>1. c \in CompilationType(a)
    BY DEF Open
  <2> QED
    BY <1>1, <1>2, <1>3, <1>5, <1>11, <2>1 DEF CompilationType
<1>13. LoopAims(a, d.avail, d.fake, d.avail, c.fake, pop, step, jump, load)
  <2>1. rec \in PostRange(a, nxt) /\ nxt \in (a.start + 1)..nxt
    BY OpenTypes DEF rec, nxt
  <2>2. IsExit(a, c.fake + 1, c.end)
    BY OpenTypes
  <2> QED
    BY <1>1, <1>4, <1>12, <2>1, <2>2 DEF LoopAims
<1>14. c.avail <= d.avail /\ \A p \in c.avail..(d.avail - 1) : load.post = p
  <2>1. load.post = c.avail /\ d.avail = c.avail + 1
    BY <1>4, <1>12 DEF rec, nxt
  <2>2. c.avail \in Int
    BY OpenTypes
  <2> QED
    BY <2>1, <2>2
<1>15. IsExit(a, d.fake, d.end)
  BY <1>3, <1>12, OpenTypes DEF IsExit
<1>16. AddsLoop(a, c, d, new, four)
  BY <1>4, <1>7, <1>10, <1>12, <1>13, <1>14, <1>15 DEF AddsLoop
<1> QED
  BY <1>16, LoopAdded DEF d

\* The READs of a .values, one after the other.
FieldStep(op, r, c, f) == Field(op, c, f)
FieldInv(b, i, c) == Open(b[1], c) /\ c.fake = b[2] /\ c.task = b[1].task
Fields == INSTANCE FoldInduction WITH Step <- FieldStep, Inv <- FieldInv

\* One field of .values adds a READ, and no loop (gen_values_aim).
LEMMA FieldOpen ==
  ASSUME NEW a, Given(a), NEW c, Open(a, c), NEW op, MarkedLine(a, op), op.op = "values",
         NEW f \in Int
  PROVE  Open(a, Field(op, c, f)) /\ Field(op, c, f).fake = c.fake
<1> DEFINE chk == IF op.seq = None THEN op.chk ELSE <<>>
           x == Load(f - c.pos, c.last, c.avail, NoTran, op.seq, chk)
           d == Field(op, c, f)
<1>1. op.seq \in {None} \cup Trips(a) /\ chk \in Seq(Int)
  BY DEF MarkedLine
<1>2. op.seq \in Int
  BY <1>1 DEF Trips, None, Given
<1>3. x \in Aims /\ c.avail + 1 \in Int /\ Tran(c, c.avail) \in Int
  <2>1. NoTran \in Pair /\ f - c.pos \in Int
    BY OpenTypes DEF NoTran, None, Pair
  <2> HIDE DEF chk
  <2>2. x \in Aims
    BY <1>1, <1>2, <2>1, OpenTypes, LoadType
  <2> HIDE DEF x, d
  <2>3. c.avail \in Int /\ c.coef \in Int
    BY OpenTypes
  <2>4. c.avail + 1 \in Int /\ Tran(c, c.avail) \in Int
    BY <2>3 DEF Tran
  <2> QED
    BY <2>2, <2>4
<1>4. x.aim = "ReadLoad" /\ x.post = c.avail /\ x.tran = NoTran /\ x.reg = op.seq
  BY DEF Load
<1>5. d = [c EXCEPT !.avail = c.avail + 1, !.last = <<Tran(c, c.avail)>>,
                    !.head = Append(c.head, x)]
  BY DEF Field, Open, CompilationType
<1>6. <<Tran(c, c.avail)>> \in Seq(Int) /\ Append(c.head, x) \in Seq(Aims)
  BY <1>3, OpenTypes, AppendProperties
<1> HIDE DEF x, d
<1>7. /\ d \in CompilationType(a) /\ d.avail = c.avail + 1 /\ d.fake = c.fake
      /\ d.end = c.end /\ d.tail = c.tail /\ d.head = Append(c.head, x)
  <2>1. c \in CompilationType(a)
    BY DEF Open
  <2> QED
    BY <1>1, <1>3, <1>5, <1>6, <2>1 DEF CompilationType
<1>8. IsRead(x) /\ HeadAim(a, d.avail, d.fake, x)
  BY <1>1, <1>4, <1>7, OpenTypes DEF IsRead, HeadAim
<1>9. Open(a, d)
  BY <1>3, <1>4, <1>7, <1>8, ReadAdded
<1> QED
  BY <1>7, <1>9 DEF d

\* A .values leaves the policy open, with no loop more, whatever its fields (gen_values_aim).
LEMMA ValuesOpen ==
  ASSUME NEW a, Given(a), NEW c, Open(a, c), NEW op, MarkedLine(a, op), op.op = "values"
  PROVE  Open(a, GenValues(c, op)) /\ Loops(a, GenValues(c, op)) = Loops(a, c)
<1> DEFINE q == IF op.seq = None THEN op.fields ELSE <<op.fields[1]>>
           b == <<a, c.fake>>
<1>1. op.fields \in Seq(Int) /\ Len(op.fields) >= 1
  BY DEF MarkedLine
<1>2. q \in Seq(Int)
  <2>1. op.fields[1] \in Int
    BY <1>1, ElementOfSeq
  <2> QED
    BY <1>1, <2>1
<1>3. GenValues(c, op) = Fields!Run(op, 0, c, q)
  BY DEF GenValues, Fields!Run, FieldStep, FoldLeft, Fields!FoldLeft,
         MapThenFoldSet, Fields!MapThenFoldSet, Max, Fields!Max
<1> HIDE DEF q
<1>4. Len(q) \in Nat /\ DOMAIN q = 1..Len(q) /\ \A i \in 1..Len(q) : q[i] \in Int
  BY <1>2, LenProperties, ElementOfSeq
<1>5. FieldInv(b, 0, c)
  BY DEF FieldInv, Open, CompilationType
<1>6. ASSUME NEW i \in 1..Len(q), NEW s, FieldInv(b, i - 1, s)
      PROVE  FieldInv(b, i, FieldStep(op, 0, s, q[i]))
  <2>1. Open(a, s) /\ s.fake = c.fake
    BY <1>6 DEF FieldInv
  <2>2. Open(a, Field(op, s, q[i])) /\ Field(op, s, q[i]).fake = c.fake
    BY <1>4, <2>1, FieldOpen
  <2> QED
    BY <2>2 DEF FieldInv, FieldStep, Open, CompilationType
<1> HIDE DEF b
<1>7. FieldInv(b, Len(q), Fields!Run(op, 0, c, q))
  BY <1>4, <1>5, <1>6, Fields!FoldInvariant
<1> QED
  BY <1>3, <1>7 DEF FieldInv, b, Loops

-----------------------------------------------------------------------------
\* The lines of a policy as parse hands them over: End comes last, KernelGraph
\* first, and neither anywhere else.
PolicyLines(ops, n) ==
  /\ n \in Nat /\ n >= 3 /\ DOMAIN ops = 1..n
  /\ \A j \in 1..(n-1) : Line(ops[j]) /\ (ops[j].op = "kgraph" <=> j = 1)
  /\ ops[n] = [op |-> "end"]

\* The operators but End.
Kinds == {"kgraph", "traverse", "iter", "in", "values", "assert"}

\* A line is of one of six kinds, and carries no mark before the passes.
LEMMA LineKinds ==
  ASSUME NEW o, Line(o)
  PROVE  /\ o.op \in Kinds
         /\ "op" \in DOMAIN o /\ ~ ("seq" \in DOMAIN o) /\ ~ ("chk" \in DOMAIN o)
<1>1. CASE o = [op |-> "kgraph"]
  BY <1>1 DEF Kinds
<1>2. CASE o \in [op : {"traverse"}, off : Int, end : Int, type : Int]
  BY <1>2 DEF Kinds
<1>3. CASE o \in [op : {"iter"}, off : Int, num : Int, dyn : {0}, size : Int]
  BY <1>3 DEF Kinds
<1>4. CASE o \in [op : {"iter"}, off : Int, num : STRING, dyn : {1}, size : Int]
  BY <1>4 DEF Kinds
<1>5. CASE o \in [op : {"in"}, off : Int, var : Int]
  BY <1>5 DEF Kinds
<1>6. CASE o \in [op : {"values"}, fields : Seq(Int) \ {<<>>}, name : STRING]
  BY <1>6 DEF Kinds
<1>7. CASE o \in [op : {"assert"}, high : Int, low : Int]
  BY <1>7 DEF Kinds
<1> QED
  BY <1>1, <1>2, <1>3, <1>4, <1>5, <1>6, <1>7 DEF Line

\* What each kind of line carries.
LEMMA LineFields ==
  ASSUME NEW o, Line(o)
  PROVE  /\ o.op = "traverse" => /\ {"off", "end", "type"} \subseteq DOMAIN o
                                 /\ {o.off, o.end, o.type} \subseteq Int
         /\ o.op = "iter" => /\ {"off", "num", "dyn", "size"} \subseteq DOMAIN o
                             /\ {o.off, o.size} \subseteq Int /\ o.dyn \in {0, 1}
                             /\ o.dyn = 0 => o.num \in Int
         /\ o.op = "in" => {"off", "var"} \subseteq DOMAIN o /\ {o.off, o.var} \subseteq Int
         /\ o.op = "values" => /\ "fields" \in DOMAIN o
                               /\ o.fields \in Seq(Int) /\ Len(o.fields) >= 1
         /\ o.op = "assert" => /\ {"high", "low"} \subseteq DOMAIN o
                               /\ {o.high, o.low} \subseteq Int
<1>1. CASE o = [op |-> "kgraph"]
  BY <1>1
<1>2. CASE o \in [op : {"traverse"}, off : Int, end : Int, type : Int]
  BY <1>2
<1>3. CASE o \in [op : {"iter"}, off : Int, num : Int, dyn : {0}, size : Int]
  BY <1>3
<1>4. CASE o \in [op : {"iter"}, off : Int, num : STRING, dyn : {1}, size : Int]
  BY <1>4
<1>5. CASE o \in [op : {"in"}, off : Int, var : Int]
  BY <1>5
<1>6. CASE o \in [op : {"values"}, fields : Seq(Int) \ {<<>>}, name : STRING]
  <2>1. o.op = "values" /\ "fields" \in DOMAIN o /\ o.fields \in Seq(Int) /\ o.fields # <<>>
    BY <1>6
  <2>2. Len(o.fields) >= 1
    BY <2>1, EmptySeq, LenProperties
  <2> QED
    BY <2>1, <2>2
<1>7. CASE o \in [op : {"assert"}, high : Int, low : Int]
  BY <1>7
<1> QED
  BY <1>1, <1>2, <1>3, <1>4, <1>5, <1>6, <1>7 DEF Line

\* A field added to a record, or changed in it.
LEMMA WithFacts ==
  ASSUME NEW r, NEW name, NEW value
  PROVE  /\ DOMAIN With(r, name, value) = DOMAIN r \cup {name}
         /\ With(r, name, value)[name] = value
         /\ \A x \in DOMAIN r : x # name => With(r, name, value)[x] = r[x]
BY DEF With

\* The lines after mark_iter and mark_assert.
Marked(ops, task) == MarkAssert(MarkIter(ops, task).ops)
\* How many .iter the lines have.
TripsOf(ops, n) == Cardinality(Iters(ops, n))

\* A line that mark_iter and mark_assert have marked.
LineOrEnd(o) == Line(o) \/ o = [op |-> "end"]
MarksLine(a, o, m, chk) ==
  /\ LineOrEnd(o) /\ MarkedAs(o, m) /\ chk \in Seq(Int)
  /\ m.seq \in {None} \cup Trips(a)
  /\ o.op = "iter" /\ o.dyn = 0 => m.seq # None

\* A line with its two marks is one that the front end can take.
LEMMA LineMarked ==
  ASSUME NEW a, NEW o, NEW m, NEW chk, MarksLine(a, o, m, chk)
  PROVE  MarkedLine(a, With(m, "chk", chk)) /\ With(m, "chk", chk).op = o.op
<1> DEFINE w == With(m, "chk", chk)
<1>a. /\ Line(o) \/ o = [op |-> "end"]
      /\ MarkedAs(o, m) /\ chk \in Seq(Int)
      /\ m.seq \in {None} \cup Trips(a)
      /\ o.op = "iter" /\ o.dyn = 0 => m.seq # None
  BY DEF MarksLine, LineOrEnd
<1>1. "op" \in DOMAIN o /\ ~ ("chk" \in DOMAIN o) /\ ~ ("seq" \in DOMAIN o) /\ o.op \in Kinds \cup {"end"}
  BY <1>a, LineKinds
<1>2. w.chk = chk /\ w.seq = m.seq /\ \A x \in DOMAIN o : w[x] = o[x]
  <2>1. DOMAIN m = DOMAIN o \cup {"seq"} /\ \A x \in DOMAIN o : m[x] = o[x]
    BY <1>a DEF MarkedAs
  <2>2. w.chk = chk /\ \A x \in DOMAIN m : x # "chk" => w[x] = m[x]
    BY DEF With
  <2> HIDE DEF w
  <2>3. "seq" \in DOMAIN m /\ "seq" # "chk"
    BY <2>1
  <2>4. \A x \in DOMAIN o : x # "chk" /\ x \in DOMAIN m
    BY <1>1, <2>1
  <2> QED
    BY <2>1, <2>2, <2>3, <2>4
<1> HIDE DEF w
<1>3. w.op = o.op
  BY <1>1, <1>2
<1>4. o.op = "traverse" => {w.off, w.end, w.type} \subseteq Int
  <2>1. SUFFICES ASSUME o.op = "traverse" PROVE {w.off, w.end, w.type} \subseteq Int
    OBVIOUS
  <2>2. {"off", "end", "type"} \subseteq DOMAIN o /\ {o.off, o.end, o.type} \subseteq Int
    BY <1>a, <2>1, LineFields
  <2> QED
    BY <1>2, <2>2
<1>5. o.op = "iter" => {w.off, w.size} \subseteq Int /\ (w.dyn = 0 => w.num \in Int /\ w.seq # None)
  <2>1. SUFFICES ASSUME o.op = "iter"
                 PROVE {w.off, w.size} \subseteq Int /\ (w.dyn = 0 => w.num \in Int /\ w.seq # None)
    OBVIOUS
  <2>2. /\ {"off", "num", "dyn", "size"} \subseteq DOMAIN o
        /\ {o.off, o.size} \subseteq Int /\ (o.dyn = 0 => o.num \in Int)
    BY <1>a, <2>1, LineFields
  <2>3. w.off = o.off /\ w.size = o.size /\ w.dyn = o.dyn /\ w.num = o.num
    BY <1>2, <2>2
  <2> QED
    BY <1>a, <1>2, <2>1, <2>2, <2>3
<1>6. o.op = "in" => {w.off, w.var} \subseteq Int
  <2>1. SUFFICES ASSUME o.op = "in" PROVE {w.off, w.var} \subseteq Int
    OBVIOUS
  <2>2. {"off", "var"} \subseteq DOMAIN o /\ {o.off, o.var} \subseteq Int
    BY <1>a, <2>1, LineFields
  <2> QED
    BY <1>2, <2>2
<1>7. o.op = "values" => w.fields \in Seq(Int) /\ Len(w.fields) >= 1
  <2>1. SUFFICES ASSUME o.op = "values" PROVE w.fields \in Seq(Int) /\ Len(w.fields) >= 1
    OBVIOUS
  <2>2. "fields" \in DOMAIN o /\ o.fields \in Seq(Int) /\ Len(o.fields) >= 1
    BY <1>a, <2>1, LineFields
  <2> QED
    BY <1>2, <2>2
<1> QED
  BY <1>a, <1>1, <1>2, <1>3, <1>4, <1>5, <1>6, <1>7 DEF MarkedLine, w, Kinds

\* After mark_iter and mark_assert every line is marked, and of the kind it was.
LEMMA LinesMarked ==
  ASSUME NEW a, Given(a), NEW ops, NEW n, PolicyLines(ops, n), a.trips = TripsOf(ops, n)
  PROVE  /\ DOMAIN Marked(ops, a.task) = 1..n
         /\ \A j \in 1..n : /\ MarkedLine(a, Marked(ops, a.task)[j])
                            /\ Marked(ops, a.task)[j].op = ops[j].op
<1> DEFINE m == MarkIter(ops, a.task).ops
<1>1. n \in Nat /\ n >= 3 /\ DOMAIN ops = 1..n
      /\ \A j \in 1..n : Line(ops[j]) \/ ops[j] = [op |-> "end"]
  BY DEF PolicyLines
<1>2. ASSUME NEW j \in 1..n
      PROVE  /\ "op" \in DOMAIN ops[j] /\ ~ ("seq" \in DOMAIN ops[j])
             /\ (ops[j].op = "iter" => "dyn" \in DOMAIN ops[j])
  BY <1>1, LineKinds, LineFields
<1>3. a.task \in Nat /\ a.trips \in Nat
  BY DEF Given
<1>4. MarkInv(<<ops, 3 * a.task>>, n, MarkIter(ops, a.task))
  BY <1>1, <1>2, <1>3, MarkIterFacts
<1>5. /\ DOMAIN m = 1..n
      /\ \A j \in 1..n : MarkedAs(ops[j], m[j]) /\ m[j].seq \in {None} \cup Trips(a)
      /\ \A j \in Iters(ops, n) : ops[j].dyn = 0 => m[j].seq # None
  <2> DEFINE first == 3 * a.task
             s == MarkIter(ops, a.task)
  <2>1. first \in Nat
    BY <1>3
  <2> HIDE DEF first, s, m
  <2>2. /\ s.seq \in first..(first + a.trips)
        /\ DOMAIN s.ops = 1..n
        /\ \A j \in 1..n : MarkedAs(ops[j], s.ops[j])
        /\ \A j \in 1..n : s.ops[j].seq \in {None} \cup (first..(s.seq - 1))
        /\ \A j \in Iters(ops, n) : ops[j].dyn = 0 => s.ops[j].seq # None
    <3>1. MarkInv(<<ops, first>>, n, s)
      BY <1>4 DEF first, s
    <3> QED
      BY <1>1, <3>1 DEF MarkInv, TripsOf
  <2>3. first..(s.seq - 1) \subseteq first..(first + a.trips - 1)
    BY <1>3, <2>1, <2>2
  <2> QED
    BY <2>2, <2>3 DEF Trips, first, s, m
<1>6. ASSUME NEW j \in 1..n PROVE BoundsAt(m, j + 1) \in Seq(Int)
  <2>1. CASE j + 1 \in 1..n /\ m[j+1].op = "assert"
    <3> DEFINE o == ops[j+1]
               x == m[j+1]
    <3>1. (Line(o) \/ o = [op |-> "end"]) /\ MarkedAs(o, x)
      BY <1>1, <1>5, <2>1
    <3>2. BoundsAt(m, j + 1) = <<x.high, x.low>> /\ x.op = "assert"
      BY <1>5, <2>1 DEF BoundsAt
    <3> HIDE DEF o, x, m
    <3>a. "op" \in DOMAIN o
      BY <3>1, LineKinds
    <3>3. o.op = "assert"
      BY <3>1, <3>2, <3>a DEF MarkedAs
    <3>4. Line(o)
      BY <3>1, <3>3
    <3>5. {"high", "low"} \subseteq DOMAIN o /\ {o.high, o.low} \subseteq Int
      BY <3>3, <3>4, LineFields
    <3>6. x.high \in Int /\ x.low \in Int
      BY <3>1, <3>5 DEF MarkedAs
    <3>7. <<x.high, x.low>> \in Seq(Int)
      BY <3>6
    <3> QED
      BY <3>2, <3>7
  <2>2. CASE ~ (j + 1 \in 1..n /\ m[j+1].op = "assert")
    <3>1. BoundsAt(m, j + 1) = <<>>
      BY <1>5, <2>2 DEF BoundsAt
    <3>2. <<>> \in Seq(Int)
      OBVIOUS
    <3> QED
      BY <3>1, <3>2
  <2> QED
    BY <2>1, <2>2
<1>7. /\ DOMAIN Marked(ops, a.task) = 1..n
      /\ \A j \in 1..n : Marked(ops, a.task)[j] = With(m[j], "chk", BoundsAt(m, j + 1))
  BY <1>5 DEF Marked, MarkAssert
<1> HIDE DEF m
<1>8. ASSUME NEW j \in 1..n
      PROVE  LET w == With(m[j], "chk", BoundsAt(m, j + 1))
             IN  MarkedLine(a, w) /\ w.op = ops[j].op
  <2>1. ops[j].op = "iter" /\ ops[j].dyn = 0 => m[j].seq # None
    BY <1>5 DEF Iters
  <2> DEFINE o == ops[j]
             x == m[j]
             chk == BoundsAt(m, j + 1)
  <2>2. MarksLine(a, o, x, chk)
    BY <1>1, <1>5, <1>6, <2>1 DEF MarksLine, LineOrEnd
  <2> HIDE DEF o, x, chk
  <2>3. MarkedLine(a, With(x, "chk", chk)) /\ With(x, "chk", chk).op = o.op
    BY <2>2, LineMarked
  <2> QED
    BY <2>3 DEF o, x, chk
<1> QED
  BY <1>7, <1>8

-----------------------------------------------------------------------------
\* The AIMs of a policy, line by line: open from the first line to the last but
\* one, with at most a loop per line, and closed by the last.
AimStep(p, r, c, op) == GenAim(c, op)
AimInv(b, i, c) ==
  LET a == b[1]
      n == b[2]
      c0 == b[3]
      lastop == b[4]
  IN  /\ i = 0 => c = c0
      /\ 1 <= i /\ i < n => Open(a, c) /\ Loops(a, c) <= i - 1
      /\ i = n => \E d : Open(a, d) /\ Loops(a, d) <= n - 2 /\ c = GenEnd(d, lastop)
AimFold == INSTANCE FoldInduction WITH Step <- AimStep, Inv <- AimInv

\* The state policy1 starts from.
StartOf(a, ok) ==
  [NewPolicy(a.start, a.start + a.coef, a.task, a.base - 1) EXCEPT !.ok = ok]

\* Where policy1 starts: no number given out, no AIM.
LEMMA StartFacts ==
  ASSUME NEW a, Given(a), NEW ok \in BOOLEAN
  PROVE  LET c == StartOf(a, ok) IN
         /\ c \in CompilationType(a) /\ c.avail = a.start /\ c.fake = 20 * a.task
         /\ c.end = <<998 - a.task, 999 - a.task>> /\ c.head = <<>> /\ c.tail = <<>>
<1> DEFINE c == StartOf(a, ok)
<1>1. a.task \in Nat /\ a.start \in Int /\ a.coef \in Int /\ a.base \in Int
  BY DEF Given
<1>2. a.base - 1 + 1 = a.base /\ a.start + a.coef - a.start = a.coef /\ 20 * a.task \in Int
      /\ <<998 - a.task, 999 - a.task>> \in Pair
  BY <1>1 DEF Pair
<1>3. c = [avail |-> a.start, base |-> a.base, coef |-> a.coef,
           fake |-> 20 * a.task, end |-> <<998 - a.task, 999 - a.task>>, task |-> a.task,
           last |-> <<>>, pos |-> 0, head |-> <<>>, tail |-> <<>>, pgt |-> <<>>, ok |-> ok]
  <2> DEFINE qs == a.start
             qr == a.start + a.coef
             bs == a.base - 1
  <2>1. bs + 1 = a.base /\ qr - qs = a.coef
    BY <1>1
  <2>2. c = [NewPolicy(qs, qr, a.task, bs) EXCEPT !.ok = ok]
    BY DEF StartOf
  <2> HIDE DEF qr, bs, c
  <2>3. c = [avail |-> qs, base |-> bs + 1, coef |-> qr - qs,
           fake |-> 20 * a.task, end |-> <<998 - a.task, 999 - a.task>>, task |-> a.task,
           last |-> <<>>, pos |-> 0, head |-> <<>>, tail |-> <<>>, pgt |-> <<>>, ok |-> ok]
    BY <2>2 DEF NewPolicy
  <2> QED
    BY <2>1, <2>3
<1>4. <<>> \in Seq(Int) /\ <<>> \in Seq(Aims) /\ 0 \in Int
  OBVIOUS
<1> HIDE DEF c
<1>5. c \in CompilationType(a)
  BY <1>1, <1>2, <1>3, <1>4 DEF CompilationType
<1> QED
  BY <1>3, <1>5 DEF c

\* A line between KernelGraph and End.
LEMMA LineOpen ==
  ASSUME NEW a, Given(a), NEW c, Open(a, c), NEW op, MarkedLine(a, op),
         op.op # "kgraph", op.op # "end"
  PROVE  Open(a, GenAim(c, op)) /\ Loops(a, GenAim(c, op)) <= Loops(a, c) + 1
<1>1. Loops(a, c) \in Int
  BY DEF Loops, Open, CompilationType, Given
<1>2. CASE op.op = "traverse"
  BY <1>1, <1>2, TraverseOpen DEF GenAim
<1>3. CASE op.op = "iter"
  BY <1>1, <1>3, IterOpen DEF GenAim
<1>4. CASE op.op = "in"
  BY <1>1, <1>4, InOpen DEF GenAim
<1>5. CASE op.op = "values"
  BY <1>1, <1>5, ValuesOpen DEF GenAim
<1>6. CASE op.op = "assert"
  BY <1>1, <1>6 DEF GenAim
<1> QED
  BY <1>2, <1>3, <1>4, <1>5, <1>6 DEF MarkedLine

\* The AIMs of all lines: what the lines before End leave open, End closes (frontend_compile).
LEMMA AimsOpen ==
  ASSUME NEW a, Given(a), NEW ops, NEW n, PolicyLines(ops, n), a.trips = TripsOf(ops, n),
         NEW ok \in BOOLEAN
  PROVE  \E d, op : /\ Open(a, d) /\ Loops(a, d) <= n - 2
                    /\ FoldLeft(GenAim, StartOf(a, ok), Marked(ops, a.task)) = GenEnd(d, op)
<1> DEFINE q == Marked(ops, a.task)
           c0 == StartOf(a, ok)
           b == <<a, n, c0, q[n]>>
<1>1. FoldLeft(GenAim, c0, q) = AimFold!Run(0, 0, c0, q)
  BY DEF AimFold!Run, AimStep, FoldLeft, AimFold!FoldLeft,
         MapThenFoldSet, AimFold!MapThenFoldSet, Max, AimFold!Max
<1>2. /\ n \in Nat /\ n >= 3
      /\ \A j \in 1..(n-1) : Line(ops[j]) /\ (ops[j].op = "kgraph" <=> j = 1)
      /\ ops[n].op = "end"
  BY DEF PolicyLines
<1>3. DOMAIN q = 1..n /\ \A j \in 1..n : MarkedLine(a, q[j]) /\ q[j].op = ops[j].op
  BY LinesMarked
<1>a. /\ q[1].op = "kgraph" /\ q[n].op = "end"
      /\ \A j \in 2..(n-1) : q[j].op # "kgraph" /\ q[j].op # "end"
  <2>1. 1 \in 1..(n-1) /\ n \in 1..n /\ 1 \in 1..n
        /\ \A j \in 2..(n-1) : j \in 1..(n-1) /\ j \in 1..n /\ j # 1
    BY <1>2
  <2>2. \A j \in 1..(n-1) : ops[j].op # "end"
    BY <1>2, LineKinds DEF Kinds
  <2> QED
    BY <1>2, <1>3, <2>1, <2>2
<1>4. /\ c0 \in CompilationType(a) /\ c0.avail = a.start /\ c0.fake = 20 * a.task
      /\ c0.end = <<998 - a.task, 999 - a.task>> /\ c0.head = <<>> /\ c0.tail = <<>>
  BY StartFacts
<1> HIDE DEF q, c0
<1>b. b[1] = a /\ b[2] = n /\ b[3] = c0 /\ b[4] = q[n]
  OBVIOUS
<1> HIDE DEF b
<1>5. AimInv(b, 0, c0)
  BY <1>2, <1>b DEF AimInv
<1>6. ASSUME NEW i \in 1..n, NEW s, AimInv(b, i - 1, s)
      PROVE  AimInv(b, i, AimStep(0, 0, s, q[i]))
  <2>1. CASE i = 1
    <3>1. s = c0
      BY <1>6, <1>b, <2>1 DEF AimInv
    <3>2. GenAim(s, q[1]) = GenKGraph(c0, q[1])
      BY <1>a, <3>1 DEF GenAim
    <3>3. Open(a, GenKGraph(c0, q[1])) /\ Loops(a, GenKGraph(c0, q[1])) = 0
      BY <1>4, KGraphOpens
    <3> QED
      BY <1>2, <1>b, <2>1, <3>2, <3>3 DEF AimInv, AimStep
  <2>2. CASE i # 1 /\ i # n
    <3>1. i \in 2..(n-1) /\ 1 <= i - 1 /\ i - 1 < n
      BY <1>2, <2>2
    <3>2. Open(a, s) /\ Loops(a, s) <= i - 2
      BY <1>6, <1>b, <3>1 DEF AimInv
    <3>3. Open(a, GenAim(s, q[i])) /\ Loops(a, GenAim(s, q[i])) <= Loops(a, s) + 1
      BY <1>3, <1>a, <3>1, <3>2, LineOpen
    <3>4. Loops(a, s) \in Int /\ Loops(a, GenAim(s, q[i])) \in Int
      <4>1. \A x : Open(a, x) => Loops(a, x) \in Int
        BY DEF Loops, Open, CompilationType, Given
      <4> QED
        BY <3>2, <3>3, <4>1
    <3>5. Loops(a, GenAim(s, q[i])) <= i - 1
      BY <3>1, <3>2, <3>3, <3>4
    <3> QED
      BY <1>b, <2>2, <3>1, <3>3, <3>5 DEF AimInv, AimStep
  <2>3. CASE i = n
    <3>1. Open(a, s) /\ Loops(a, s) <= n - 2
      BY <1>2, <1>6, <1>b, <2>3 DEF AimInv
    <3>2. GenAim(s, q[n]) = GenEnd(s, q[n])
      BY <1>a DEF GenAim
    <3> QED
      BY <1>2, <1>b, <2>3, <3>1, <3>2 DEF AimInv, AimStep
  <2> QED
    BY <2>1, <2>2, <2>3
<1>7. AimInv(b, n, AimFold!Run(0, 0, c0, q))
  BY <1>2, <1>3, <1>5, <1>6, AimFold!FoldInvariant
<1>8. \E d : Open(a, d) /\ Loops(a, d) <= n - 2 /\ AimFold!Run(0, 0, c0, q) = GenEnd(d, q[n])
  BY <1>b, <1>7 DEF AimInv
<1> QED
  BY <1>1, <1>8 DEF q, c0

\* A compiled policy: open up to End, whose last READ leaves the policy or its
\* innermost loop, and the four states of the page walk.
Compiled(a, c, d) ==
  /\ Open(a, d)
  /\ d.head[Len(d.head)].aim = "ReadLoad"
  /\ c.head = [d.head EXCEPT ![Len(d.head)] = [d.head[Len(d.head)] EXCEPT !.tran = d.end]]
  /\ c.tail = d.tail /\ c.avail = d.avail + 4 /\ c.fake = d.fake
  /\ c.coef = a.coef /\ c.base = a.base /\ c.task = a.task
  /\ c.pgt = [i \in 1..4 |-> Load(0, <<>>, d.avail + i - 1, NoTran, None, <<>>)]

\* The front end compiles the lines of a policy, and gives the page walk its four states.
LEMMA FrontEndCompiles ==
  ASSUME NEW a, Given(a), NEW ops, NEW n, PolicyLines(ops, n), a.trips = TripsOf(ops, n),
         NEW c, c = FrontEnd(ops, a.start, a.start + a.coef, a.task, a.base - 1), c.ok
  PROVE  /\ \E d : Compiled(a, c, d) /\ Loops(a, d) <= n - 2
         /\ {"avail", "pgt", "head", "tail", "coef", "base", "task", "fake"} \subseteq DOMAIN c
<1> DEFINE ok == MarkIter(ops, a.task).ok /\ AssertsOk(ops)
           f == FoldLeft(GenAim, StartOf(a, ok), Marked(ops, a.task))
<1>1. c = GenPgtWalk(f)
  BY DEF FrontEnd, StartOf, Marked
<1>2. PICK d, op : Open(a, d) /\ Loops(a, d) <= n - 2 /\ f = GenEnd(d, op)
  <2>1. ok \in BOOLEAN
    OBVIOUS
  <2> HIDE DEF ok, f
  <2> QED
    BY <2>1, AimsOpen DEF f
<1> HIDE DEF f, ok
<1> DEFINE m == Len(d.head)
           x == d.head[m]
<1>3. d \in CompilationType(a)
  BY <1>2 DEF Open
<1>4. m \in 1..m /\ d.head \in Seq(Aims) /\ x \in Aims
  <2>1. d.head \in Seq(Aims) /\ m >= 1
    BY <1>2, <1>3 DEF Open, CompilationType
  <2> QED
    BY <2>1, LenProperties, ElementOfSeq
<1>5. DOMAIN f = DOMAIN d
  BY <1>2 DEF GenEnd
<1>a. {"ok", "avail", "pgt", "head", "tail", "coef", "base", "task", "fake"} \subseteq DOMAIN f
  BY <1>3, <1>5 DEF CompilationType
<1>b. c = [f EXCEPT !.avail = f.avail + 4,
                    !.pgt = [i \in 1..4 |-> Load(0, <<>>, f.avail + i - 1, NoTran, None, <<>>)]]
  BY <1>1 DEF GenPgtWalk
<1>9. /\ DOMAIN c = DOMAIN f /\ c.ok = f.ok
      /\ c.head = f.head /\ c.tail = f.tail /\ c.avail = f.avail + 4 /\ c.coef = f.coef
      /\ c.base = f.base /\ c.task = f.task /\ c.fake = f.fake
      /\ c.pgt = [i \in 1..4 |-> Load(0, <<>>, f.avail + i - 1, NoTran, None, <<>>)]
  <2> DEFINE p == [i \in 1..4 |-> Load(0, <<>>, f.avail + i - 1, NoTran, None, <<>>)]
             v == f.avail + 4
  <2>1. c = [f EXCEPT !.avail = v, !.pgt = p]
    BY <1>b
  <2> HIDE DEF p, v
  <2>2. /\ DOMAIN c = DOMAIN f /\ c.ok = f.ok
        /\ c.head = f.head /\ c.tail = f.tail /\ c.avail = v /\ c.coef = f.coef
        /\ c.base = f.base /\ c.task = f.task /\ c.fake = f.fake /\ c.pgt = p
    BY <1>a, <2>1
  <2> QED
    BY <2>2 DEF p, v
<1>6. x.aim = "ReadLoad"
  <2>1. SUFFICES ASSUME x.aim # "ReadLoad" PROVE FALSE
    OBVIOUS
  <2>2. f = [d EXCEPT !.ok = FALSE]
    BY <1>2, <2>1 DEF GenEnd
  <2> QED
    BY <1>3, <1>9, <2>2 DEF CompilationType
<1>7. f = [d EXCEPT !.head[m].tran = d.end]
  BY <1>2, <1>6 DEF GenEnd
<1>8. /\ f.head = [d.head EXCEPT ![m] = [x EXCEPT !.tran = d.end]]
      /\ f.tail = d.tail /\ f.avail = d.avail /\ f.coef = d.coef /\ f.base = d.base
      /\ f.task = d.task /\ f.fake = d.fake
  BY <1>3, <1>7 DEF CompilationType
<1>10. d.coef = a.coef /\ d.base = a.base /\ d.task = a.task
  BY <1>3 DEF CompilationType
<1>11. c.pgt = [i \in 1..4 |-> Load(0, <<>>, d.avail + i - 1, NoTran, None, <<>>)]
  BY <1>8, <1>9
<1>12. Compiled(a, c, d)
  BY <1>2, <1>6, <1>8, <1>9, <1>10, <1>11 DEF Compiled
<1> QED
  BY <1>2, <1>9, <1>a, <1>12

-----------------------------------------------------------------------------
\* The smallest of a set of numbers.
LEMMA MinOf ==
  ASSUME NEW I \in SUBSET Nat, I # {}
  PROVE  Min(I) \in I /\ \A y \in I : Min(I) <= y
<1>1. PICK m \in I : \A y \in I : ~ (<<y, m>> \in OpToRel(<, Nat))
  BY NatLessThanWellFounded, WFMin
<1>2. ASSUME NEW y \in I PROVE m <= y
  <2>1. SUFFICES ASSUME y < m PROVE FALSE
    OBVIOUS
  <2>2. <<y, m>> \in OpToRel(<, Nat)
    BY <2>1 DEF OpToRel
  <2> QED
    BY <1>1, <2>2
<1> QED
  BY <1>2 DEF Min

\* First finds the first one, or none.
LEMMA FirstFacts ==
  ASSUME NEW aims, Len(aims) \in Nat, NEW i \in Nat, NEW kinds
  PROVE  \/ /\ First(aims, i, kinds) = 0
            /\ \A k \in (i+1)..Len(aims) : ~ (aims[k].aim \in kinds)
         \/ /\ First(aims, i, kinds) \in (i+1)..Len(aims)
            /\ aims[First(aims, i, kinds)].aim \in kinds
            /\ \A k \in (i+1)..(First(aims, i, kinds) - 1) : ~ (aims[k].aim \in kinds)
<1> DEFINE I == {k \in (i+1)..Len(aims) : aims[k].aim \in kinds}
<1>1. First(aims, i, kinds) = IF I # {} THEN Min(I) ELSE 0
  BY DEF First, SelectInSubSeq
<1>2. CASE I = {}
  BY <1>1, <1>2
<1>3. CASE I # {}
  <2>1. I \in SUBSET Nat
    OBVIOUS
  <2>2. Min(I) \in I /\ \A y \in I : Min(I) <= y
    BY <1>3, <2>1, MinOf
  <2>3. First(aims, i, kinds) = Min(I)
    BY <1>1, <1>3
  <2> DEFINE j == Min(I)
  <2>4. j \in (i+1)..Len(aims) /\ aims[j].aim \in kinds
    BY <2>2
  <2>5. ASSUME NEW k \in (i+1)..(j - 1), aims[k].aim \in kinds PROVE FALSE
    <3>1. k \in I /\ k < j
      BY <2>4, <2>5
    <3> HIDE DEF j, I
    <3> QED
      BY <2>2, <2>4, <3>1 DEF j
  <2> QED
    BY <2>3, <2>4, <2>5
<1> QED
  BY <1>2, <1>3

-----------------------------------------------------------------------------
\* The AIMs of a compiled policy, in the order of the back end.
Merged(a, d, aims) ==
  /\ aims \in Seq(Aims)
  /\ Len(d.head) \in Nat \ {0} /\ Loops(a, d) \in Nat
  /\ Len(aims) = Len(d.head) + 4 * Loops(a, d)
  /\ \A k \in 1..(Len(d.head) - 1) : aims[k] = d.head[k]
  /\ aims[Len(d.head)] = [d.head[Len(d.head)] EXCEPT !.tran = d.end]
  /\ aims[Len(d.head)].aim = "ReadLoad" /\ aims[Len(d.head)].tran = d.end
  /\ \A k \in 1..(4 * Loops(a, d)) : aims[Len(d.head) + k] = d.tail[k]

\* A load with another exit is a load still, with the same state and register.
LEMMA LoadTran ==
  ASSUME NEW x \in Aims, x.aim = "ReadLoad", NEW e \in Pair
  PROVE  /\ [x EXCEPT !.tran = e] \in Aims
         /\ [x EXCEPT !.tran = e].tran = e
         /\ [x EXCEPT !.tran = e].aim = x.aim /\ [x EXCEPT !.tran = e].post = x.post
         /\ [x EXCEPT !.tran = e].reg = x.reg
<1>1. x \in [aim : {"ReadLoad"}, off : Int, prev : Seq(Int), post : Int, tran : Pair, reg : Int,
             chk : Seq(Int)]
  BY DEF Aims
<1>2. [x EXCEPT !.tran = e] \in [aim : {"ReadLoad"}, off : Int, prev : Seq(Int), post : Int,
                                 tran : Pair, reg : Int, chk : Seq(Int)]
  BY <1>1
<1>3. [x EXCEPT !.tran = e] \in Aims
  BY <1>2 DEF Aims
<1>4. {"tran", "aim", "post", "reg"} \subseteq DOMAIN x
  BY <1>1
<1>5. /\ [x EXCEPT !.tran = e].tran = e
      /\ [x EXCEPT !.tran = e].aim = x.aim /\ [x EXCEPT !.tran = e].post = x.post
      /\ [x EXCEPT !.tran = e].reg = x.reg
  BY <1>4
<1> QED
  BY <1>3, <1>5

\* The back end has the head, and then the loops' ends, one after the other.
LEMMA MergedAims ==
  ASSUME NEW a, Given(a), NEW c, NEW d, Compiled(a, c, d)
  PROVE  Merged(a, d, AllAims(c))
<1> DEFINE h == Len(d.head)
           x == [d.head[h] EXCEPT !.tran = d.end]
           aims == AllAims(c)
<1>1. /\ d.head \in Seq(Aims) /\ d.tail \in Seq(Aims) /\ d.end \in Pair /\ h >= 1
      /\ Loops(a, d) \in Nat /\ Len(d.tail) = 4 * Loops(a, d)
  <2>1. Open(a, d) /\ TailOk(a, d) /\ Len(d.head) >= 1
    BY DEF Compiled, Open
  <2>2. Loops(a, d) = d.fake - 20 * a.task /\ d.fake \in Int /\ a.task \in Nat /\ d.fake >= 20 * a.task
    BY <2>1, OpenTypes DEF Loops
  <2>3. Loops(a, d) \in Nat
    BY <2>2
  <2> QED
    BY <2>1, <2>3, OpenTypes DEF TailOk
<1>2. h \in Nat \ {0} /\ h \in 1..h /\ DOMAIN d.head = 1..h
  BY <1>1, LenProperties
<1>3. d.head[h] \in Aims /\ d.head[h].aim = "ReadLoad"
  BY <1>1, <1>2, ElementOfSeq DEF Compiled
<1>4. x \in Aims /\ x.aim = "ReadLoad" /\ x.tran = d.end
  BY <1>1, <1>3, LoadTran
<1>5. c.head = [d.head EXCEPT ![h] = x] /\ c.tail = d.tail
  BY DEF Compiled
<1> HIDE DEF x, h
<1>6. /\ c.head \in Seq(Aims) /\ Len(c.head) = h /\ c.head[h] = x
      /\ \A k \in 1..(h - 1) : c.head[k] = d.head[k]
  <2>1. c.head \in Seq(Aims) /\ Len(c.head) = Len(d.head)
    BY <1>1, <1>2, <1>4, <1>5, ExceptSeq
  <2>2. c.head[h] = x /\ \A k \in 1..h : k # h => c.head[k] = d.head[k]
    BY <1>2, <1>5
  <2>3. \A k \in 1..(h - 1) : k \in 1..h /\ k # h
    BY <1>2
  <2> QED
    BY <2>1, <2>2, <2>3 DEF h
<1>7. aims = c.head \o c.tail
  BY DEF AllAims
<1> HIDE DEF aims
<1>8. /\ aims \in Seq(Aims) /\ Len(aims) = h + Len(d.tail)
      /\ \A k \in 1..h : aims[k] = c.head[k]
      /\ \A k \in 1..Len(d.tail) : aims[h + k] = d.tail[k]
  <2>1. aims \in Seq(Aims)
    BY <1>1, <1>5, <1>6, <1>7, ConcatProperties
  <2>2. /\ Len(aims) = Len(c.head) + Len(c.tail)
        /\ \A k \in 1..Len(c.head) : aims[k] = c.head[k]
        /\ \A k \in 1..Len(c.tail) : aims[Len(c.head) + k] = c.tail[k]
    <3>1. c.head \in Seq(Aims) /\ c.tail \in Seq(Aims)
      BY <1>1, <1>5, <1>6
    <3> DEFINE s == c.head
               t == c.tail
    <3> HIDE DEF s, t
    <3>2. s \in Seq(Aims) /\ t \in Seq(Aims) /\ aims = s \o t
      BY <1>7, <3>1 DEF s, t
    <3>3. /\ Len(aims) = Len(s) + Len(t)
          /\ \A k \in 1..Len(s) : aims[k] = s[k]
          /\ \A k \in 1..Len(t) : aims[Len(s) + k] = t[k]
      BY <3>2, Joined
    <3> QED
      BY <3>3 DEF s, t
  <2> QED
    BY <1>5, <1>6, <2>1, <2>2
<1>9. aims[h] = x /\ \A k \in 1..(h - 1) : aims[k] = d.head[k]
  BY <1>2, <1>6, <1>8
<1> QED
  BY <1>1, <1>2, <1>4, <1>8, <1>9 DEF Merged, aims, x, h

\* Where an AIM of the tail is: in the four of a loop.
LEMMA TailPlace ==
  ASSUME NEW p \in Nat, NEW k \in 1..(4 * p)
  PROVE  \E b \in 0..(p - 1), r \in 1..4 : k = 4*b + r
<1>1. (k - 1) \div 4 \in Int /\ 4 * ((k - 1) \div 4) <= k - 1 /\ k - 1 < 4 * ((k - 1) \div 4) + 4
  OBVIOUS
<1> DEFINE b == (k - 1) \div 4
<1>2. b \in Int /\ 4 * b <= k - 1 /\ k - 1 < 4 * b + 4
  BY <1>1
<1> HIDE DEF b
<1>3. b \in 0..(p - 1)
  BY <1>2
<1>4. k - 4*b \in 1..4 /\ k = 4*b + (k - 4*b)
  BY <1>2
<1> QED
  BY <1>3, <1>4

\* The four AIMs of loop b of the tail, counted from the innermost, in the merged list.
TailAim(a, d, aims, b, r) == aims[Len(d.head) + (4*b + r)]

\* The end of each loop in the merged list is the end of a loop.
LEMMA TailAims ==
  ASSUME NEW a, Given(a), NEW d, Open(a, d), NEW aims, Merged(a, d, aims),
         NEW b \in 0..(Loops(a, d) - 1)
  PROVE  LoopAims(a, d.avail, d.fake, Limit(d), d.fake - 1 - b,
                  TailAim(a, d, aims, b, 1), TailAim(a, d, aims, b, 2),
                  TailAim(a, d, aims, b, 3), TailAim(a, d, aims, b, 4))
<1>1. /\ Loops(a, d) \in Nat
      /\ \A k \in 1..(4 * Loops(a, d)) : aims[Len(d.head) + k] = d.tail[k]
  BY DEF Merged
<1>2. \A r \in 1..4 : 4*b + r \in 1..(4 * Loops(a, d))
  BY <1>1
<1>3. \A r \in 1..4 : TailAim(a, d, aims, b, r) = d.tail[4*b + r]
  BY <1>1, <1>2 DEF TailAim
<1>4. 1 \in 1..4 /\ 2 \in 1..4 /\ 3 \in 1..4 /\ 4 \in 1..4
  OBVIOUS
<1>5. LoopAims(a, d.avail, d.fake, Limit(d), d.fake - 1 - b,
        d.tail[4*b + 1], d.tail[4*b + 2], d.tail[4*b + 3], d.tail[4*b + 4])
  BY DEF Open, TailOk
<1> QED
  BY <1>3, <1>4, <1>5

\* What the registers of an AIM are.
AimRegs(a, avail, x) ==
  /\ IsRead(x) => x.post \in PostRange(a, avail)
  /\ x.aim = "ReadLoad" => x.reg \in {None} \cup Trips(a)
  /\ x.aim = "ConstLoad" => x.seq \in Trips(a)
  /\ x.aim = "DecJump" => x.seq \in {None} \cup Trips(a)

\* The AIMs of the head in the merged list: as they were, the last with its exit.
LEMMA MergedHead ==
  ASSUME NEW a, Given(a), NEW d, Open(a, d), NEW aims, Merged(a, d, aims),
         NEW k \in 1..Len(d.head)
  PROVE  /\ aims[k].aim = d.head[k].aim
         /\ k < Len(d.head) => HeadAim(a, d.avail, d.fake, aims[k])
         /\ k = Len(d.head) => aims[k].tran = d.end
         /\ AimRegs(a, d.avail, aims[k])
         /\ aims[k].aim \in {"Init", "ConstMove", "ConstLoad", "ReadLoad", "ReadMove", "Push"}
<1> DEFINE h == Len(d.head)
           x == d.head[h]
<1>1. /\ h \in Nat \ {0} /\ \A j \in 1..(h - 1) : aims[j] = d.head[j]
      /\ aims[h] = [x EXCEPT !.tran = d.end] /\ aims[h].aim = "ReadLoad" /\ aims[h].tran = d.end
  BY DEF Merged
<1>2. HeadAim(a, d.avail, d.fake, d.head[k])
  BY DEF Open, HeadOk
<1>3. CASE k < h
  <2>1. k \in 1..(h - 1)
    BY <1>1, <1>3
  <2>2. aims[k] = d.head[k]
    BY <1>1, <2>1
  <2> QED
    BY <1>2, <1>3, <2>2 DEF HeadAim, AimRegs, IsRead
<1>4. CASE k = h
  <2>1. x \in Aims /\ d.end \in Pair
    <3>1. d.head \in Seq(Aims) /\ d.end \in Pair
      BY OpenTypes
    <3> QED
      BY <1>1, <3>1, ElementOfSeq
  <2>2. DOMAIN [x EXCEPT !.tran = d.end] = DOMAIN x
    OBVIOUS
  <2>3. x.aim = "ReadLoad"
    <3> DEFINE y == [x EXCEPT !.tran = d.end]
    <3>1. y.aim = "ReadLoad"
      BY <1>1
    <3>2. "aim" \in DOMAIN x
      BY <2>1 DEF Aims
    <3>3. y.aim = x.aim
      BY <3>2
    <3> QED
      BY <3>1, <3>3
  <2>4. aims[h].post = x.post /\ aims[h].reg = x.reg
    BY <1>1, <2>1, <2>3, LoadTran
  <2>5. HeadAim(a, d.avail, d.fake, x)
    BY <1>2, <1>4
  <2>6. x.post \in PostRange(a, d.avail) /\ x.reg \in {None} \cup Trips(a)
    BY <2>3, <2>5 DEF HeadAim
  <2> DEFINE y == aims[h]
  <2>7. y.aim = "ReadLoad" /\ y.tran = d.end /\ y.post = x.post /\ y.reg = x.reg
    BY <1>1, <2>4
  <2> HIDE DEF x, y
  <2>8. AimRegs(a, d.avail, y)
    BY <2>6, <2>7 DEF AimRegs, IsRead
  <2>9. d.head[h].aim = "ReadLoad"
    BY <2>3 DEF x
  <2> HIDE DEF h
  <2>10. aims[k] = y /\ d.head[k].aim = "ReadLoad" /\ ~ (k < h)
    BY <1>4, <2>9 DEF y, h
  <2> QED
    BY <2>7, <2>8, <2>10 DEF h
<1>5. k < h \/ k = h
  BY <1>1
<1> QED
  BY <1>3, <1>4, <1>5

\* The registers of every AIM of the merged list are the policy's own.
LEMMA MergedRegs ==
  ASSUME NEW a, Given(a), NEW d, Open(a, d), NEW aims, Merged(a, d, aims),
         NEW k \in 1..Len(aims)
  PROVE  AimRegs(a, d.avail, aims[k])
<1> DEFINE h == Len(d.head)
           p == Loops(a, d)
<1>1. h \in Nat \ {0} /\ p \in Nat /\ Len(aims) = h + 4 * p
  BY DEF Merged
<1>2. CASE k \in 1..h
  BY <1>2, MergedHead
<1>3. CASE k > h
  <2>1. k - h \in 1..(4 * p)
    BY <1>1, <1>3
  <2>2. PICK b \in 0..(p - 1), r \in 1..4 : k - h = 4*b + r
    BY <1>1, <2>1, TailPlace
  <2>3. k = h + (4*b + r)
    <3>1. h \in Int /\ k \in Int /\ b \in Int /\ r \in Int
      BY <1>1
    <3> HIDE DEF h
    <3> QED
      BY <2>2, <3>1
  <2>4. aims[k] = TailAim(a, d, aims, b, r)
    BY <2>3 DEF TailAim
  <2>5. LoopAims(a, d.avail, d.fake, Limit(d), d.fake - 1 - b,
                  TailAim(a, d, aims, b, 1), TailAim(a, d, aims, b, 2),
                  TailAim(a, d, aims, b, 3), TailAim(a, d, aims, b, 4))
    BY TailAims
  <2>6. r = 1 \/ r = 2 \/ r = 3 \/ r = 4
    OBVIOUS
  <2> QED
    BY <2>4, <2>5, <2>6 DEF LoopAims, AimRegs, IsRead
<1> QED
  BY <1>1, <1>2, <1>3

-----------------------------------------------------------------------------
\* The registers of the base addresses: one for the root, one per loop.
Bases(a, d) == (15 * a.task)..(15 * a.task + Loops(a, d))
\* Rows that touch no base address but those of R.
RowsIn(R, rows) ==
  \A row \in rows :
    \/ row.t = "cache_process_addr_to_reg" /\ row.arg[1] \in R
    \/ row.t \in {"cache_size_into_md", "encode_mod_offset_pre", "mod_field_parameters_pre"}

\* A base address is read from, or written to, a register of R.
LEMMA RegIn ==
  ASSUME NEW R, NEW q, NEW e, NEW idx \in R, NEW act
  PROVE  RowsIn(R, {Reg(q, e, idx, act)})
BY DEF RowsIn, Reg, Row

\* The row of a size touches no base address.
LEMMA SizeIn ==
  ASSUME NEW R, NEW q, NEW n
  PROVE  RowsIn(R, {Size(q, n)})
BY DEF RowsIn, Size, Row

\* The rows that write a base address write one of R.
LEMMA WriteIn ==
  ASSUME NEW R, NEW q, NEW ds, NEW idx \in R
  PROVE  RowsIn(R, Write(q, ds, idx))
BY DEF RowsIn, Write, Reg, Row

\* Rows of R and rows of R are rows of R.
LEMMA BothIn ==
  ASSUME NEW R, NEW rows, NEW more, RowsIn(R, rows), RowsIn(R, more)
  PROVE  RowsIn(R, rows \cup more)
BY DEF RowsIn

\* What is read back at the end of a loop or of a READ is read from R.
LEMMA ReadBackIn ==
  ASSUME NEW R, NEW c, NEW aims, NEW s, NEW i, s.base \in R,
         aims[i].tran # NoTran /\ First(aims, i, {"ConstMove", "ReadMove"}) # 0 => s.top \in R
  PROVE  RowsIn(R, ReadBack(c, aims, s, i))
<1> DEFINE j == First(aims, i, {"ConstMove", "ReadMove"})
<1>0. RowsIn(R, {})
  BY DEF RowsIn
<1>1. CASE aims[i].tran # NoTran /\ j # 0
  <2>1. \A q, e : RowsIn(R, {Reg(q, e, s.top, "read")})
    BY <1>1, RegIn
  <2>2. ReadBack(c, aims, s, i) =
          IF aims[j].aim = "ConstMove" THEN {}
          ELSE {Reg(aims[j].prev[1], aims[j].post, s.top, "read")}
    BY <1>1 DEF ReadBack
  <2> HIDE DEF j
  <2> QED
    BY <1>0, <2>1, <2>2
<1>2. CASE aims[i].tran # NoTran /\ j = 0
  BY <1>0, <1>2 DEF ReadBack
<1>3. CASE aims[i].tran = NoTran
  <2>1. \A q, e : RowsIn(R, {Reg(q, e, s.base, "read")})
    BY RegIn
  <2>2. ReadBack(c, aims, s, i) =
          IF aims[i+1].aim = "ConstMove" THEN {}
          ELSE {Reg(Tran(c, aims[i].post), NextPost(aims, i), s.base, "read")}
    BY <1>3 DEF ReadBack
  <2> QED
    BY <1>0, <2>1, <2>2
<1> QED
  BY <1>1, <1>2, <1>3

\* The rows of a constant move touch only R.
LEMMA ConstMoveIn ==
  ASSUME NEW R, NEW aims, NEW s, NEW i, s.base \in R
  PROVE  RowsIn(R, ConstMoveRows(aims, s, i))
BY DEF RowsIn, ConstMoveRows, Reg, Size, Row

\* What one step of gen_base_operation does to the two pointers, and the rows it adds.
StepFits(R, aims, s, i) ==
  /\ DOMAIN s = {"base", "top", "rows"} /\ s.base \in R /\ RowsIn(R, s.rows) /\ s.top \in Int
  /\ s.top + 1 \in R
  /\ aims[i].aim = "Pop" => s.top \in R
  /\ aims[i].aim = "ReadLoad" /\ aims[i].tran # NoTran
       /\ First(aims, i, {"ConstMove", "ReadMove"}) # 0 => s.top \in R

\* One step of gen_base_operation adds only rows of R, and moves the top of the stack
\* by a Push or a Pop, and by nothing else.
LEMMA BaseStepIn ==
  ASSUME NEW R, NEW c, NEW aims, NEW s, NEW i, StepFits(R, aims, s, i)
  PROVE  /\ DOMAIN BaseStep(c, aims, s, i) = {"base", "top", "rows"}
         /\ BaseStep(c, aims, s, i).base \in R
         /\ RowsIn(R, BaseStep(c, aims, s, i).rows)
         /\ BaseStep(c, aims, s, i).top =
              IF aims[i].aim = "Push" THEN s.top + 1
              ELSE IF aims[i].aim = "Pop" THEN s.top - 1 ELSE s.top
<1> DEFINE kind == aims[i].aim
           z == BaseStep(c, aims, s, i)
<1>0. /\ DOMAIN s = {"base", "top", "rows"} /\ s.base \in R /\ RowsIn(R, s.rows) /\ s.top \in Int
      /\ s.top + 1 \in R
      /\ kind = "Pop" => s.top \in R
      /\ kind = "ReadLoad" /\ aims[i].tran # NoTran
           /\ First(aims, i, {"ConstMove", "ReadMove"}) # 0 => s.top \in R
  BY DEF StepFits
<1>1. CASE kind = "Init"
  <2> DEFINE rows == s.rows \cup Write(aims[i].init, {NextPost(aims, i)}, s.top + 1)
  <2>1. RowsIn(R, rows)
    BY <1>0, BothIn, WriteIn
  <2>2. z = [s EXCEPT !.rows = rows]
    BY <1>1 DEF BaseStep
  <2> HIDE DEF rows, z
  <2> QED
    BY <1>0, <1>1, <2>1, <2>2 DEF z
<1>2. CASE kind = "ReadMove"
  <2> DEFINE rows == s.rows \cup Write(Tran(c, aims[i].post), MoveStates(aims, i), s.top + 1)
  <2>1. RowsIn(R, rows)
    BY <1>0, BothIn, WriteIn
  <2>2. z = [s EXCEPT !.base = s.top + 1, !.rows = rows]
    BY <1>2 DEF BaseStep
  <2> HIDE DEF rows, z
  <2> QED
    BY <1>0, <1>2, <2>1, <2>2 DEF z
<1>3. CASE kind = "ReadLoad"
  <2> DEFINE rows == s.rows \cup ReadBack(c, aims, s, i)
  <2>1. RowsIn(R, rows)
    BY <1>0, <1>3, BothIn, ReadBackIn
  <2>2. z = [s EXCEPT !.rows = rows]
    BY <1>3 DEF BaseStep
  <2> HIDE DEF rows, z
  <2> QED
    BY <1>0, <1>3, <2>1, <2>2 DEF z
<1>4. CASE kind = "ConstMove"
  <2> DEFINE rows == s.rows \cup ConstMoveRows(aims, s, i)
  <2>1. RowsIn(R, rows)
    BY <1>0, BothIn, ConstMoveIn
  <2>2. z = [s EXCEPT !.rows = rows]
    BY <1>4 DEF BaseStep
  <2> HIDE DEF rows, z
  <2> QED
    BY <1>0, <1>4, <2>1, <2>2 DEF z
<1>5. CASE kind = "Push"
  <2>1. z = [s EXCEPT !.top = s.top + 1]
    BY <1>5 DEF BaseStep
  <2> HIDE DEF z
  <2> QED
    BY <1>0, <1>5, <2>1 DEF z
<1>6. CASE kind = "Pop"
  <2>1. z = [s EXCEPT !.top = s.top - 1, !.base = s.top]
    BY <1>6 DEF BaseStep
  <2> HIDE DEF z
  <2> QED
    BY <1>0, <1>6, <2>1 DEF z
<1>7. CASE ~ (kind \in {"Init", "ReadMove", "ReadLoad", "ConstMove", "Push", "Pop"})
  <2>1. z = s
    BY <1>7 DEF BaseStep
  <2> HIDE DEF z
  <2> QED
    BY <1>0, <1>7, <2>1 DEF z
<1> QED
  BY <1>1, <1>2, <1>3, <1>4, <1>5, <1>6, <1>7

\* The loops entered by the first i AIMs of the head.
PushesTo(d, i) == {k \in 1..i : d.head[k].aim = "Push"}

\* One more loop entered, at most, with one more AIM.
LEMMA PushesNext ==
  ASSUME NEW d, NEW i \in Nat \ {0}
  PROVE  /\ IsFiniteSet(PushesTo(d, i)) /\ Cardinality(PushesTo(d, i)) \in Nat
         /\ d.head[i].aim # "Push" => Cardinality(PushesTo(d, i)) = Cardinality(PushesTo(d, i - 1))
         /\ d.head[i].aim = "Push" =>
              Cardinality(PushesTo(d, i)) = Cardinality(PushesTo(d, i - 1)) + 1
<1>1. IsFiniteSet(1..i) /\ IsFiniteSet(1..(i-1))
  BY FS_Interval
<1>2. PushesTo(d, i) \subseteq 1..i /\ PushesTo(d, i - 1) \subseteq 1..(i-1)
  BY DEF PushesTo
<1>3. IsFiniteSet(PushesTo(d, i)) /\ IsFiniteSet(PushesTo(d, i - 1))
  BY <1>1, <1>2, FS_Subset
<1>4. ~ (i \in PushesTo(d, i - 1))
  BY <1>2
<1>5. ASSUME d.head[i].aim = "Push" PROVE PushesTo(d, i) = PushesTo(d, i - 1) \cup {i}
  BY <1>5 DEF PushesTo
<1>6. ASSUME d.head[i].aim # "Push" PROVE PushesTo(d, i) = PushesTo(d, i - 1)
  BY <1>6 DEF PushesTo
<1> QED
  BY <1>3, <1>4, <1>5, <1>6, FS_AddElement, FS_CardinalityType

\* At most as many as there are loops; all of them at the end of the head.
LEMMA PushesAtMost ==
  ASSUME NEW a, Given(a), NEW d, Open(a, d), NEW i \in 0..Len(d.head)
  PROVE  /\ Cardinality(PushesTo(d, i)) \in 0..Loops(a, d)
         /\ Cardinality(PushesTo(d, Len(d.head))) = Loops(a, d)
<1>1. IsFiniteSet(Pushes(d.head)) /\ Cardinality(Pushes(d.head)) = Loops(a, d)
  BY DEF Open, PushesOk
<1>2. PushesTo(d, Len(d.head)) = Pushes(d.head)
  BY DEF PushesTo, Pushes
<1>3. PushesTo(d, i) \subseteq Pushes(d.head)
  <2>1. Len(d.head) \in Nat
    BY OpenTypes, LenProperties
  <2> QED
    BY <2>1 DEF PushesTo, Pushes
<1>4. /\ Cardinality(PushesTo(d, i)) <= Cardinality(Pushes(d.head))
      /\ Cardinality(PushesTo(d, i)) \in Nat /\ Cardinality(Pushes(d.head)) \in Nat
  BY <1>1, <1>3, FS_Subset, FS_CardinalityType
<1> QED
  BY <1>1, <1>2, <1>4

\* gen_base_operation as a fold of BaseStep: the top of the stack is known at each AIM.
BaseStepOf(p, r, s, i) == BaseStep(p, r, s, i)
BaseInv(b, i, s) ==
  LET a == b[1]
      d == b[2]
  IN  /\ DOMAIN s = {"base", "top", "rows"}
      /\ s.base \in Bases(a, d) /\ RowsIn(Bases(a, d), s.rows) /\ s.top \in Int
      /\ i <= Len(d.head) => s.top = 15 * a.task - 1 + Cardinality(PushesTo(d, i))
      /\ \A e \in 0..(Loops(a, d) - 1), r \in 1..4 :
           i = Len(d.head) + (4*e + r) => s.top = 15 * a.task - 1 + Loops(a, d) - (e + 1)
BaseFold == INSTANCE FoldInduction WITH Step <- BaseStepOf, Inv <- BaseInv

\* A step of gen_base_operation keeps the top of the stack where the loops entered
\* and left so far put it, within the registers of the policy.
LEMMA BaseKeeps ==
  ASSUME NEW a, Given(a), NEW d, Open(a, d), NEW c, NEW aims, Merged(a, d, aims),
         NEW i \in 1..Len(aims), NEW s, BaseInv(<<a, d>>, i - 1, s)
  PROVE  BaseInv(<<a, d>>, i, BaseStep(c, aims, s, i))
<1> DEFINE h == Len(d.head)
           p == Loops(a, d)
           R == Bases(a, d)
           z == BaseStep(c, aims, s, i)
           bottom == 15 * a.task
           kind == aims[i].aim
<1>1. h \in Nat \ {0} /\ p \in Nat /\ Len(aims) = h + 4 * p /\ i \in 1..(h + 4 * p)
  BY DEF Merged
<1>2. /\ DOMAIN s = {"base", "top", "rows"}
      /\ s.base \in R /\ RowsIn(R, s.rows) /\ s.top \in Int
      /\ i - 1 <= h => s.top = bottom - 1 + Cardinality(PushesTo(d, i - 1))
      /\ \A e \in 0..(p - 1), r \in 1..4 :
           i - 1 = h + (4*e + r) => s.top = bottom - 1 + p - (e + 1)
  BY DEF BaseInv
<1>3. bottom \in Int /\ R = bottom..(bottom + p)
  BY DEF Given, Bases
<1>4. \A k \in 0..h : Cardinality(PushesTo(d, k)) \in 0..p
  BY PushesAtMost
<1>5. Cardinality(PushesTo(d, h)) = p
  <2>1. h \in 0..Len(d.head)
    BY <1>1
  <2> QED
    BY <2>1, PushesAtMost
<1> HIDE DEF h, p, R, z, bottom
<1>6. ASSUME i <= h
      PROVE  BaseInv(<<a, d>>, i, z)
  <2>1. i \in 1..h /\ i - 1 \in 0..h /\ i \in 0..h /\ i \in Nat \ {0}
    BY <1>1, <1>6
  <2>2. /\ s.top = bottom - 1 + Cardinality(PushesTo(d, i - 1))
        /\ Cardinality(PushesTo(d, i - 1)) \in 0..p
    BY <1>2, <1>4, <2>1
  <2>3. s.top + 1 \in R
    BY <1>1, <1>3, <2>2
  <2>4. /\ kind = d.head[i].aim
        /\ i < h => HeadAim(a, d.avail, d.fake, aims[i])
        /\ kind \in {"Init", "ConstMove", "ConstLoad", "ReadLoad", "ReadMove", "Push"}
    BY <2>1, MergedHead DEF h
  <2>5. kind # "Pop"
    BY <2>4
  <2>6. ASSUME kind = "ReadLoad", aims[i].tran # NoTran,
               First(aims, i, {"ConstMove", "ReadMove"}) # 0
        PROVE  s.top \in R
    <3>1. i = h
      BY <1>1, <2>1, <2>4, <2>6 DEF HeadAim
    <3>2. First(aims, i, {"ConstMove", "ReadMove"}) \in (i+1)..(h + 4 * p)
      <4>1. Len(aims) \in Nat /\ i \in Nat
        BY <1>1
      <4>2. First(aims, i, {"ConstMove", "ReadMove"}) \in (i+1)..Len(aims)
        BY <2>6, <4>1, FirstFacts
      <4> QED
        BY <1>1, <4>2
    <3>3. p >= 1
      BY <1>1, <3>1, <3>2
    <3>4. Cardinality(PushesTo(d, i - 1)) = Cardinality(PushesTo(d, i))
      BY <2>1, <2>4, <2>6, PushesNext
    <3>5. s.top = bottom - 1 + p
      BY <1>5, <2>2, <3>1, <3>4
    <3> QED
      BY <1>1, <1>3, <3>3, <3>5
  <2>7. /\ DOMAIN z = {"base", "top", "rows"} /\ z.base \in R /\ RowsIn(R, z.rows)
        /\ z.top = IF kind = "Push" THEN s.top + 1 ELSE s.top
    <3>1. /\ DOMAIN z = {"base", "top", "rows"} /\ z.base \in R /\ RowsIn(R, z.rows)
          /\ z.top = IF kind = "Push" THEN s.top + 1 ELSE IF kind = "Pop" THEN s.top - 1 ELSE s.top
      <4>1. StepFits(R, aims, s, i)
        BY <1>2, <2>3, <2>5, <2>6 DEF StepFits
      <4> QED
        BY <4>1, BaseStepIn DEF z
    <3> QED
      BY <2>5, <3>1
  <2>8. z.top = bottom - 1 + Cardinality(PushesTo(d, i))
    <3>1. /\ d.head[i].aim # "Push" => Cardinality(PushesTo(d, i)) = Cardinality(PushesTo(d, i - 1))
          /\ d.head[i].aim = "Push" =>
               Cardinality(PushesTo(d, i)) = Cardinality(PushesTo(d, i - 1)) + 1
      BY <2>1, PushesNext
    <3> DEFINE n1 == Cardinality(PushesTo(d, i - 1))
               n2 == Cardinality(PushesTo(d, i))
    <3>2. n1 \in Int /\ n2 \in Int
      BY <1>4, <2>1
    <3> HIDE DEF n1, n2
    <3>3. /\ kind # "Push" => n2 = n1
          /\ kind = "Push" => n2 = n1 + 1
          /\ s.top = bottom - 1 + n1
      BY <2>2, <2>4, <3>1 DEF n1, n2
    <3>4. z.top = bottom - 1 + n2
      <4>1. s.top \in Int /\ bottom \in Int
        BY <1>2, <1>3
      <4>2. CASE kind = "Push"
        <5>1. z.top = s.top + 1 /\ n2 = n1 + 1 /\ s.top = bottom - 1 + n1
          BY <2>7, <3>3, <4>2
        <5> QED
          BY <3>2, <4>1, <5>1
      <4>3. CASE kind # "Push"
        BY <2>7, <3>3, <4>3
      <4> QED
        BY <4>2, <4>3
    <3> QED
      BY <3>4 DEF n2
  <2>9. z.top \in Int
    BY <1>2, <2>7
  <2>10. \A e \in 0..(p - 1), r \in 1..4 : i # h + (4*e + r)
    BY <1>1, <2>1
  <2> QED
    BY <2>7, <2>8, <2>9, <2>10 DEF BaseInv, h, p, R, bottom
<1>7. ASSUME i > h
      PROVE  BaseInv(<<a, d>>, i, z)
  <2>1. i - h \in 1..(4 * p) /\ h \in Int /\ i \in Int /\ p \in Nat
    BY <1>1, <1>7
  <2>2. PICK e \in 0..(p - 1), r \in 1..4 : i - h = 4*e + r
    BY <2>1, TailPlace
  <2>3. i = h + (4*e + r)
    BY <2>1, <2>2
  <2>4. LoopAims(a, d.avail, d.fake, Limit(d), d.fake - 1 - e,
                  TailAim(a, d, aims, e, 1), TailAim(a, d, aims, e, 2),
                  TailAim(a, d, aims, e, 3), TailAim(a, d, aims, e, 4))
    BY TailAims DEF p
  <2>5. aims[i] = TailAim(a, d, aims, e, r)
    BY <2>3 DEF TailAim, h
  <2>6. /\ kind = "Pop" <=> r = 1
        /\ kind = "ReadLoad" => r = 4
        /\ kind # "Push"
    <3>1. r = 1 \/ r = 2 \/ r = 3 \/ r = 4
      OBVIOUS
    <3> QED
      BY <2>4, <2>5, <3>1 DEF LoopAims
  <2>7. s.top = IF r = 1 THEN bottom - 1 + p - e ELSE bottom - 1 + p - (e + 1)
    <3>1. CASE r = 1 /\ e = 0
      <4>1. i - 1 = h
        BY <2>1, <2>3, <3>1
      <4>2. s.top = bottom - 1 + p
        BY <1>1, <1>2, <1>5, <4>1
      <4> QED
        BY <1>3, <3>1, <4>2, <1>1
    <3>2. CASE r = 1 /\ e # 0
      <4>1. e - 1 \in 0..(p - 1) /\ 4 \in 1..4 /\ i - 1 = h + (4*(e - 1) + 4)
        BY <2>1, <2>3, <3>2
      <4>2. s.top = bottom - 1 + p - ((e - 1) + 1)
        BY <1>2, <4>1
      <4> QED
        BY <3>2, <4>2
    <3>3. CASE r # 1
      <4>1. r - 1 \in 1..4 /\ i - 1 = h + (4*e + (r - 1))
        BY <2>1, <2>3, <3>3
      <4>2. s.top = bottom - 1 + p - (e + 1)
        BY <1>2, <4>1
      <4> QED
        BY <3>3, <4>2
    <3> QED
      BY <3>1, <3>2, <3>3
  <2>8. s.top + 1 \in R /\ (r = 1 => s.top \in R)
    BY <1>1, <1>3, <2>7
  <2>9. ASSUME kind = "ReadLoad", aims[i].tran # NoTran,
               First(aims, i, {"ConstMove", "ReadMove"}) # 0
        PROVE  s.top \in R
    <3>1. r = 4
      BY <2>6, <2>9
    <3>2. First(aims, i, {"ConstMove", "ReadMove"}) \in (i+1)..(h + 4 * p)
      <4>1. Len(aims) \in Nat /\ i \in Nat
        BY <1>1
      <4>2. First(aims, i, {"ConstMove", "ReadMove"}) \in (i+1)..Len(aims)
        BY <2>9, <4>1, FirstFacts
      <4> QED
        BY <1>1, <4>2
    <3>3. e + 1 <= p - 1
      BY <2>1, <2>3, <3>1, <3>2
    <3> QED
      BY <1>1, <1>3, <2>7, <3>1, <3>3
  <2>10. /\ DOMAIN z = {"base", "top", "rows"} /\ z.base \in R /\ RowsIn(R, z.rows)
         /\ z.top = IF r = 1 THEN s.top - 1 ELSE s.top
    <3>1. /\ DOMAIN z = {"base", "top", "rows"} /\ z.base \in R /\ RowsIn(R, z.rows)
          /\ z.top = IF kind = "Push" THEN s.top + 1 ELSE IF kind = "Pop" THEN s.top - 1 ELSE s.top
      <4>1. StepFits(R, aims, s, i)
        BY <1>2, <2>6, <2>8, <2>9 DEF StepFits
      <4> DEFINE y == BaseStep(c, aims, s, i)
      <4>2. /\ DOMAIN y = {"base", "top", "rows"} /\ y.base \in R /\ RowsIn(R, y.rows)
            /\ y.top = IF aims[i].aim = "Push" THEN s.top + 1
                       ELSE IF aims[i].aim = "Pop" THEN s.top - 1 ELSE s.top
        BY <4>1, BaseStepIn
      <4> QED
        BY <4>2 DEF z
    <3> QED
      BY <2>6, <3>1
  <2>11. z.top = bottom - 1 + p - (e + 1) /\ z.top \in Int
    BY <1>1, <1>2, <1>3, <2>7, <2>10
  <2>12. ASSUME NEW e2 \in 0..(p - 1), NEW r2 \in 1..4, i = h + (4*e2 + r2)
         PROVE  e2 = e
    BY <2>1, <2>3, <2>12
  <2>13. \A e2 \in 0..(p - 1), r2 \in 1..4 :
           i = h + (4*e2 + r2) => z.top = bottom - 1 + p - (e2 + 1)
    BY <2>11, <2>12
  <2>14. ~ (i <= h)
    BY <1>7, <2>1
  <2> QED
    BY <2>10, <2>11, <2>13, <2>14 DEF BaseInv, h, p, R, bottom
<1> QED
  BY <1>1, <1>6, <1>7 DEF z

\* gen_base_operation writes the policy's own base addresses, and no other.
LEMMA BasesApart ==
  ASSUME NEW a, Given(a), NEW c, NEW d, Compiled(a, c, d)
  PROVE  RowsIn(Bases(a, d), BaseOperation(c, AllAims(c)))
<1> DEFINE aims == AllAims(c)
           n == Len(aims)
           start == [base |-> 15 * c.task, top |-> 15 * c.task - 1, rows |-> {}]
           q == [i \in DOMAIN aims |-> i]
<1>1. BaseOperation(c, aims) = BaseFold!Run(c, aims, start, q).rows
  BY DEF BaseOperation, BaseFold!Run, BaseStepOf, FoldLeft, BaseFold!FoldLeft,
         MapThenFoldSet, BaseFold!MapThenFoldSet, Max, BaseFold!Max
<1>2. Open(a, d) /\ Merged(a, d, aims) /\ c.task = a.task
  BY MergedAims DEF Compiled
<1>3. n \in Nat /\ DOMAIN aims = 1..n
  BY <1>2, LenProperties DEF Merged
<1>4. DOMAIN q = 1..n /\ \A i \in 1..n : q[i] = i
  BY <1>3
<1>5. BaseInv(<<a, d>>, 0, start)
  <2>1. DOMAIN start = {"base", "top", "rows"} /\ start.rows = {} /\ start.base = 15 * a.task
        /\ start.top = 15 * a.task - 1
    BY <1>2
  <2> HIDE DEF start
  <2>2. PushesTo(d, 0) = {}
    BY DEF PushesTo
  <2>3. Cardinality(PushesTo(d, 0)) = 0
    BY <2>2, FS_EmptySet
  <2>4. Loops(a, d) \in Nat /\ Len(d.head) \in Nat \ {0} /\ a.task \in Nat
    BY <1>2 DEF Merged, Given
  <2>5. start.base \in Bases(a, d) /\ start.top \in Int
    BY <2>1, <2>4 DEF Bases
  <2>6. RowsIn(Bases(a, d), start.rows)
    BY <2>1 DEF RowsIn
  <2>7. \A e \in 0..(Loops(a, d) - 1), r \in 1..4 : 0 # Len(d.head) + (4*e + r)
    <3> DEFINE h == Len(d.head)
               p == Loops(a, d)
    <3>1. h \in Nat /\ p \in Nat
      BY <2>4
    <3> HIDE DEF h, p
    <3>2. \A e \in 0..(p - 1), r \in 1..4 : 0 # h + (4*e + r)
      BY <3>1
    <3> QED
      BY <3>2 DEF h, p
  <2>8. start.top = 15 * a.task - 1 + Cardinality(PushesTo(d, 0))
    BY <2>1, <2>3, <2>4
  <2> QED
    BY <2>1, <2>5, <2>6, <2>7, <2>8 DEF BaseInv
<1> HIDE DEF start, q, aims
<1>6. ASSUME NEW i \in 1..n, NEW s, BaseInv(<<a, d>>, i - 1, s)
      PROVE  BaseInv(<<a, d>>, i, BaseStepOf(c, aims, s, q[i]))
  BY <1>2, <1>4, <1>6, BaseKeeps DEF BaseStepOf
<1>7. BaseInv(<<a, d>>, n, BaseFold!Run(c, aims, start, q))
  BY <1>3, <1>4, <1>5, <1>6, BaseFold!FoldInvariant
<1> QED
  BY <1>1, <1>7 DEF BaseInv, aims

-----------------------------------------------------------------------------
\* The registers a policy's rows write, generator by generator.
RegOk(a, d, row) ==
  /\ row.t = "cache_process_addr_to_reg" => row.arg[1] \in Bases(a, d)
  /\ row.t = "read_update_max_entry" => row.arg[1] \in Trips(a)
  /\ row.t \in {"cache_dqpn_page_walk", "cache_qpn_page_walk", "cache_process_page_addr_to_reg"} =>
       row.arg[1] = a.task
  /\ row.t = "read_update_psn" =>
       \E post \in (a.start + 1)..(d.avail + 3) : row.arg[1] = post - a.base
\* All of these rows write the policy's own registers.
RegsOk(a, d, rows) == \A row \in rows : RegOk(a, d, row)

\* Tables that hold no register of a policy.
Plain(row) ==
  ~ (row.t \in {"cache_process_addr_to_reg", "read_update_max_entry", "cache_dqpn_page_walk",
                "cache_qpn_page_walk", "cache_process_page_addr_to_reg", "read_update_psn"})

\* Rows of other tables write no register of a policy.
LEMMA PlainOk ==
  ASSUME NEW a, NEW d, NEW rows, \A row \in rows : Plain(row)
  PROVE  RegsOk(a, d, rows)
BY DEF Plain, RegsOk, RegOk

\* The rows made AIM by AIM write no register.
LEMMA PerAimRegs ==
  ASSUME NEW a, NEW d, NEW c, NEW aims
  PROVE  RegsOk(a, d, PerAim(c, aims))
<1>1. ASSUME NEW row \in PerAim(c, aims) PROVE Plain(row)
  BY DEF PerAim, Row, Plain
<1> QED
  BY <1>1, PlainOk

\* Nor do the rows that encode offsets (gen_offset_encoding).
LEMMA OffsetRegs ==
  ASSUME NEW a, NEW d, NEW aims
  PROVE  RegsOk(a, d, OffsetEncoding(aims))
<1>1. ASSUME NEW row \in OffsetEncoding(aims) PROVE Plain(row)
  BY DEF OffsetEncoding, OffsetRow, Row, Plain
<1> QED
  BY <1>1, PlainOk

\* The READs and the loads among the AIMs.
LEMMA ReadAims ==
  ASSUME NEW aims \in Seq(Aims), NEW x
  PROVE  /\ x \in Reads(aims) <=> \E k \in 1..Len(aims) : x = aims[k] /\ IsRead(x)
         /\ x \in Loads(aims) => x \in Reads(aims) /\ x.aim = "ReadLoad"
<1>1. DOMAIN aims = 1..Len(aims)
  BY LenProperties
<1> QED
  BY <1>1 DEF Reads, Loads, IsRead

\* What the lemmas about the generators take from a compiled policy.
Regular(a, d, c, aims) ==
  /\ aims \in Seq(Aims) /\ a.start \in Int /\ a.base \in Int /\ d.avail \in Int
  /\ d.avail >= a.start + 1
  /\ \A k \in 1..Len(aims) : AimRegs(a, d.avail, aims[k])
  /\ \A k \in 1..Len(aims) : aims[k].aim = "DecJump" => aims[k].seq # None
  /\ c.base = a.base /\ c.task = a.task /\ c.coef = a.coef
  /\ c.pgt = [i \in 1..4 |-> Load(0, <<>>, d.avail + i - 1, NoTran, None, <<>>)]

\* The PSN of a READ is kept at its own number (gen_psn_mapping).
LEMMA PsnRegs ==
  ASSUME NEW a, NEW d, NEW c, NEW aims, Regular(a, d, c, aims)
  PROVE  RegsOk(a, d, PsnMapping(c, aims))
<1>1. ASSUME NEW x \in Reads(aims) PROVE RegOk(a, d, PsnRow(c, x.post))
  <2>1. PICK k \in 1..Len(aims) : x = aims[k] /\ IsRead(x)
    BY ReadAims DEF Regular
  <2>2. x.post \in PostRange(a, d.avail)
    BY <2>1 DEF Regular, AimRegs
  <2>3. x.post \in (a.start + 1)..(d.avail + 3)
    BY <2>2 DEF PostRange, Regular
  <2>4. PsnRow(c, x.post).t = "read_update_psn" /\ PsnRow(c, x.post).arg[1] = x.post - a.base
    BY DEF PsnRow, Row, Regular
  <2> QED
    BY <2>3, <2>4 DEF RegOk
<1> QED
  BY <1>1 DEF PsnMapping, RegsOk

\* Trip counts are loaded into the policy's own registers (gen_load_max).
LEMMA LoadMaxRegs ==
  ASSUME NEW a, NEW d, NEW c, NEW aims, Regular(a, d, c, aims)
  PROVE  RegsOk(a, d, LoadMax(c, aims))
<1>a. DOMAIN aims = 1..Len(aims)
  BY LenProperties DEF Regular
<1>1. ASSUME NEW x \in Loads(aims), x.reg # None, NEW k
      PROVE  RegOk(a, d, Row("read_update_max_entry", k, "read_max_entry", <<x.reg>>))
  <2>1. PICK j \in 1..Len(aims) : x = aims[j] /\ IsRead(x)
    BY ReadAims DEF Regular
  <2>2. x.aim = "ReadLoad"
    BY ReadAims DEF Regular
  <2>3. x.reg \in Trips(a)
    BY <1>1, <2>1, <2>2 DEF Regular, AimRegs
  <2> QED
    BY <2>3 DEF RegOk, Row
<1>2. ASSUME NEW i \in DOMAIN aims, aims[i].aim = "ConstLoad", NEW k
      PROVE  /\ RegOk(a, d, Row("read_update_max_entry", k, "read_const_length", <<aims[i].seq>>))
             /\ RegOk(a, d, Row("cache_len_into_md", k, "cache_len_into_md", <<aims[i].value>>))
  <2>1. aims[i].seq \in Trips(a)
    BY <1>a, <1>2 DEF Regular, AimRegs
  <2> QED
    BY <2>1 DEF RegOk, Row
<1>3. ASSUME NEW row \in LoadMax(c, aims)
      PROVE  \/ \E x \in Loads(aims) : \E k : /\ x.reg # None
                  /\ row = Row("read_update_max_entry", k, "read_max_entry", <<x.reg>>)
             \/ \E i \in DOMAIN aims : \E k : /\ aims[i].aim = "ConstLoad"
                  /\ \/ row = Row("read_update_max_entry", k, "read_const_length", <<aims[i].seq>>)
                     \/ row = Row("cache_len_into_md", k, "cache_len_into_md", <<aims[i].value>>)
  BY DEF LoadMax
<1> QED
  BY <1>1, <1>2, <1>3 DEF RegsOk

\* Jumps count down the policy's own trip counts (gen_pc_tran).
LEMMA PcTranRegs ==
  ASSUME NEW a, NEW d, NEW c, NEW aims, Regular(a, d, c, aims)
  PROVE  RegsOk(a, d, PcTran(c, aims))
<1>a. DOMAIN aims = 1..Len(aims)
  BY LenProperties DEF Regular
<1>1. ASSUME NEW row \in PcTran(c, aims)
      PROVE  \/ Plain(row)
             \/ \E i \in DOMAIN aims : /\ aims[i].aim = "DecJump"
                  /\ row = Row("read_update_max_entry", <<aims[i].at>>, "update_max_entry", <<aims[i].seq>>)
  BY DEF PcTran, PcRows, Row, Plain
<1>2. ASSUME NEW i \in DOMAIN aims, aims[i].aim = "DecJump"
      PROVE  RegOk(a, d, Row("read_update_max_entry", <<aims[i].at>>, "update_max_entry", <<aims[i].seq>>))
  <2>1. aims[i].seq \in Trips(a)
    BY <1>a, <1>2 DEF Regular, AimRegs
  <2> QED
    BY <2>1 DEF RegOk, Row
<1> QED
  BY <1>1, <1>2 DEF RegsOk, RegOk, Plain

\* A page walk keeps its state in the register of the policy (gen_readmove_pgt_walk_code).
LEMMA WalkRegs ==
  ASSUME NEW a, NEW d, NEW c, NEW aims, Regular(a, d, c, aims)
  PROVE  RegsOk(a, d, ReadMovePgtWalk(c, aims))
<1>1. ASSUME NEW row \in ReadMovePgtWalk(c, aims)
      PROVE  \/ Plain(row)
             \/ \E q : row \in {PageReg(q, 1, c.task, "read")} \cup WalkReg(q, 1, 0, c.task, "cache")
  BY DEF ReadMovePgtWalk, Row, Plain, AddOffset, Mask, MakeUp
<1>2. ASSUME NEW q, NEW row \in {PageReg(q, 1, c.task, "read")} \cup WalkReg(q, 1, 0, c.task, "cache")
      PROVE  RegOk(a, d, row)
  BY DEF PageReg, WalkReg, Row, RegOk, Regular
<1> QED
  BY <1>1, <1>2 DEF RegsOk, RegOk, Plain

\* The four READs of the page walk have PSNs and registers of the policy (gen_pgt_aims_code).
LEMMA PgtRegs ==
  ASSUME NEW a, NEW d, NEW c, NEW aims, Regular(a, d, c, aims)
  PROVE  RegsOk(a, d, PgtAims(c))
<1>1. ASSUME NEW row \in PgtAims(c)
      PROVE  \/ Plain(row)
             \/ \E i \in 1..4 : row = PsnRow(c, c.pgt[i].post)
             \/ \E q, act : row = PageReg(q, 0, c.task, act)
             \/ \E q : row \in WalkReg(q, 0, 1, c.task, "read")
  <2>1. PICK i \in 1..4 :
          \/ row \in {PsnRow(c, c.pgt[i].post), AddOffset(c.pgt[i].post, 0, <<"pgd", "pud", "pmd", "pte">>[i]),
                      MakeUp(c.pgt[i].post, 0),
                      PageReg(c.pgt[i].post, 0, c.task, IF i = 1 THEN "cache" ELSE "read")}
          \/ row \in OffsetRow(c.pgt[i].post, c.pgt[i].post, 0)
          \/ row = Mask(c.pgt[i].post, 0)
          \/ row = Row("pgt_transfer", <<Tran(c, c.pgt[i].post), 0>>, "pgt_mod_dqpn",
                          <<c.pgt[i+1].post, c.pgt[i+1].post>>)
          \/ row = Row("mark_walking_bit", <<Tran(c, c.pgt[i].post)>>, "mark_walking_bit", <<>>)
          \/ row \in WalkReg(Tran(c, c.pgt[i].post), 0, 1, c.task, "read")
    BY DEF PgtAims
  <2> QED
    BY <2>1 DEF Plain, AddOffset, MakeUp, OffsetRow, Mask, Row
<1>2. ASSUME NEW i \in 1..4 PROVE RegOk(a, d, PsnRow(c, c.pgt[i].post))
  <2> DEFINE post == c.pgt[i].post
  <2>1. post = d.avail + i - 1
    BY DEF Regular, Load
  <2>2. post \in (a.start + 1)..(d.avail + 3)
    BY <2>1, SMTT(30) DEF Regular
  <2> HIDE DEF post
  <2>3. PsnRow(c, post).t = "read_update_psn" /\ PsnRow(c, post).arg[1] = post - a.base
    BY DEF PsnRow, Row, Regular
  <2>4. RegOk(a, d, PsnRow(c, post))
    BY <2>2, <2>3 DEF RegOk
  <2> QED
    BY <2>4 DEF post
<1>3. ASSUME NEW q, NEW act PROVE RegOk(a, d, PageReg(q, 0, c.task, act))
  BY DEF PageReg, Row, RegOk, Regular
<1>4. ASSUME NEW q, NEW row \in WalkReg(q, 0, 1, c.task, "read") PROVE RegOk(a, d, row)
  BY DEF WalkReg, Row, RegOk, Regular
<1> QED
  BY <1>1, <1>2, <1>3, <1>4 DEF RegsOk, RegOk, Plain

\* All rows of a policy write its own registers (backend_compile).
LEMMA CodeRegs ==
  ASSUME NEW a, Given(a), NEW c, NEW d, Compiled(a, c, d),
         \A k \in 1..Len(c.tail) : c.tail[k].aim = "DecJump" => c.tail[k].seq # None
  PROVE  RegsOk(a, d, CodeGen(c))
<1> DEFINE aims == AllAims(c)
<1>1. Open(a, d) /\ Merged(a, d, aims)
  BY MergedAims DEF Compiled
<1>2. Regular(a, d, c, aims)
  <2>1. \A k \in 1..Len(aims) : AimRegs(a, d.avail, aims[k])
    BY <1>1, MergedRegs
  <2>2. ASSUME NEW k \in 1..Len(aims), aims[k].aim = "DecJump" PROVE aims[k].seq # None
    <3> DEFINE h == Len(d.head)
               p == Loops(a, d)
    <3>1. h \in Nat \ {0} /\ p \in Nat /\ Len(aims) = h + 4 * p
          /\ \A j \in 1..(4 * p) : aims[h + j] = d.tail[j]
      BY <1>1 DEF Merged
    <3>2. Len(d.tail) = 4 * p /\ c.tail = d.tail
      BY <1>1 DEF Open, TailOk, Compiled
    <3>3. CASE k \in 1..h
      BY <1>1, <2>2, <3>3, MergedHead
    <3>4. CASE k > h
      <4> HIDE DEF h, p, aims
      <4>1. k - h \in 1..(4 * p) /\ h + (k - h) = k
        BY <3>1, <3>4
      <4>2. aims[k] = c.tail[k - h]
        BY <3>1, <3>2, <4>1
      <4> QED
        BY <2>2, <3>2, <4>1, <4>2
    <3> QED
      BY <3>1, <3>3, <3>4
  <2>3. aims \in Seq(Aims)
    BY <1>1 DEF Merged
  <2>4. a.start \in Int /\ a.base \in Int /\ d.avail \in Int /\ d.avail >= a.start + 1
    BY <1>1, OpenTypes DEF Given
  <2> HIDE DEF aims
  <2> QED
    BY <2>1, <2>2, <2>3, <2>4 DEF Regular, Compiled
<1>3. RegsOk(a, d, BaseOperation(c, aims))
  <2>1. RowsIn(Bases(a, d), BaseOperation(c, aims))
    BY BasesApart
  <2> HIDE DEF aims
  <2> QED
    BY <2>1 DEF RowsIn, RegsOk, RegOk
<1>4. CodeGen(c) = PerAim(c, aims) \union PcTran(c, aims) \union BaseOperation(c, aims)
        \union PsnMapping(c, aims) \union OffsetEncoding(aims) \union LoadMax(c, aims)
        \union ReadMovePgtWalk(c, aims) \union PgtAims(c)
  BY DEF CodeGen
<1> HIDE DEF aims
<1>5. /\ RegsOk(a, d, PerAim(c, aims)) /\ RegsOk(a, d, PcTran(c, aims))
      /\ RegsOk(a, d, PsnMapping(c, aims)) /\ RegsOk(a, d, OffsetEncoding(aims))
      /\ RegsOk(a, d, LoadMax(c, aims)) /\ RegsOk(a, d, ReadMovePgtWalk(c, aims))
      /\ RegsOk(a, d, PgtAims(c))
  BY <1>2, PerAimRegs, PcTranRegs, PsnRegs, OffsetRegs, LoadMaxRegs, WalkRegs, PgtRegs
<1> QED
  BY <1>3, <1>4, <1>5 DEF RegsOk

-----------------------------------------------------------------------------
\* What the driver keeps: the lines read so far begin with KernelGraph, and each
\* policy compiled is what the compiler makes of its lines, from where the one
\* before stopped.
LinesOk(s) ==
  /\ s \in Seq(Operators)
  /\ \A k \in 1..Len(s) : s[k].op = "kgraph" <=> k = 1

StartAt(s, i) == IF i = 1 THEN ServerBase ELSE s[i-1].avail
ArgsOf(s, i) ==
  [task |-> i - 1, start |-> StartAt(s, i), coef |-> Coef, base |-> ServerBase + 1,
   trips |-> TripsOf(s[i].src, Len(s[i].src))]
PolicyOk(s, i) ==
  /\ Given(ArgsOf(s, i)) /\ PolicyLines(s[i].src, Len(s[i].src))
  /\ \E d : Compiled(ArgsOf(s, i), s[i], d) /\ Loops(ArgsOf(s, i), d) <= Len(s[i].src) - 2
Compilations ==
  /\ LinesOk(lines)
  /\ DOMAIN done = 1..Len(done) /\ Len(done) \in Nat
  /\ \A i \in 1..Len(done) : PolicyOk(done, i)

\* A policy uses numbers above where it starts.
LEMMA PolicyAvail ==
  ASSUME NEW s, NEW i, PolicyOk(s, i)
  PROVE  StartAt(s, i) \in Int /\ s[i].avail \in Int /\ s[i].avail >= StartAt(s, i) + 5
<1> DEFINE a == ArgsOf(s, i)
<1>1. PICK d : Compiled(a, s[i], d)
  BY DEF PolicyOk
<1>2. Given(a)
  BY DEF PolicyOk
<1>3. a.start = StartAt(s, i)
  BY DEF ArgsOf
<1> HIDE DEF a
<1>4. Open(a, d) /\ s[i].avail = d.avail + 4
  BY <1>1 DEF Compiled
<1>5. d.avail \in Int /\ d.avail >= a.start + 1 /\ a.start \in Int
  BY <1>2, <1>4, OpenTypes
<1> QED
  BY <1>3, <1>4, <1>5

\* One more line read keeps KernelGraph first, and only there.
LEMMA LinesGrow ==
  ASSUME LinesOk(lines), NEW op \in Operators, (op.op = "kgraph") <=> (lines = <<>>)
  PROVE  LinesOk(Append(lines, op))
<1> DEFINE t == Append(lines, op)
<1>1. lines \in Seq(Operators) /\ \A k \in 1..Len(lines) : lines[k].op = "kgraph" <=> k = 1
  BY DEF LinesOk
<1>2. /\ t \in Seq(Operators) /\ Len(t) = Len(lines) + 1 /\ Len(lines) \in Nat
      /\ \A k \in 1..Len(lines) : t[k] = lines[k]
      /\ t[Len(lines) + 1] = op
  BY <1>1, AppendProperties, LenProperties
<1>3. lines = <<>> <=> Len(lines) = 0
  BY <1>1, EmptySeq, LenProperties
<1> HIDE DEF t
<1>4. ASSUME NEW k \in 1..Len(t) PROVE t[k].op = "kgraph" <=> k = 1
  <2>1. CASE k \in 1..Len(lines)
    BY <1>1, <1>2, <2>1
  <2>2. CASE k = Len(lines) + 1
    <3>1. t[k] = op
      BY <1>2, <2>2
    <3>2. k = 1 <=> lines = <<>>
      BY <1>2, <1>3, <2>2
    <3> QED
      BY <3>1, <3>2
  <2> QED
    BY <1>2, <2>1, <2>2
<1> QED
  BY <1>2, <1>4 DEF LinesOk, t

\* The lines handed to the compiler are those of a policy.
LEMMA LinesComplete ==
  ASSUME LinesOk(lines), Len(lines) > 1, NEW ops, ops = Append(lines, [op |-> "end"])
  PROVE  PolicyLines(ops, Len(ops))
<1> DEFINE last == [op |-> "end"]
<1>1. lines \in Seq(Operators) /\ \A k \in 1..Len(lines) : lines[k].op = "kgraph" <=> k = 1
  BY DEF LinesOk
<1>2. \A k \in 1..Len(lines) : Line(lines[k])
  BY <1>1, LineAssumption, ElementOfSeq
<1> DEFINE All == Operators \cup {last}
<1>3. lines \in Seq(All) /\ last \in All
  <2>1. Operators \subseteq All
    OBVIOUS
  <2> HIDE DEF All
  <2>2. lines \in Seq(All)
    <3>1. \A k \in 1..Len(lines) : lines[k] \in All
      BY <1>1, <2>1, ElementOfSeq
    <3> QED
      BY <1>1, <3>1, LenProperties, IsASeq
  <2> QED
    BY <2>2 DEF All
<1>a. ops = Append(lines, last)
  OBVIOUS
<1> HIDE DEF All, last
<1>4. /\ ops \in Seq(All) /\ Len(ops) = Len(lines) + 1 /\ Len(lines) \in Nat
      /\ \A k \in 1..Len(lines) : ops[k] = lines[k]
      /\ ops[Len(lines) + 1] = last
  BY <1>3, <1>a, AppendProperties, LenProperties
<1>5. DOMAIN ops = 1..Len(ops)
  BY <1>4, LenProperties
<1>6. \A j \in 1..(Len(ops) - 1) : Line(ops[j]) /\ (ops[j].op = "kgraph" <=> j = 1)
  BY <1>1, <1>2, <1>4
<1>7. Len(ops) \in Nat /\ Len(ops) >= 3 /\ ops[Len(ops)] = last
  BY <1>4
<1> QED
  BY <1>5, <1>6, <1>7 DEF PolicyLines, last

\* A policy compiled after those before it.
LEMMA PolicyAdded ==
  ASSUME NEW s, DOMAIN s = 1..Len(s), Len(s) \in Nat,
         \A i \in 1..Len(s) : PolicyOk(s, i),
         NEW ops, PolicyLines(ops, Len(ops)),
         NEW start, start = StartAt(s, Len(s) + 1),
         NEW c, c = FrontEnd(ops, start, start + Coef, Len(s), ServerBase), c.ok,
         NEW t, DOMAIN t = 1..Len(t), Len(t) = Len(s) + 1,
         \A i \in 1..Len(s) : t[i] = s[i], t[Len(s) + 1] = With(c, "src", ops)
  PROVE  \A i \in 1..Len(t) : PolicyOk(t, i)
<1> DEFINE n == Len(s) + 1
           a == ArgsOf(t, n)
           w == With(c, "src", ops)
<1>1. ASSUME NEW i \in 1..Len(s) PROVE PolicyOk(t, i)
  <2>1. PolicyOk(s, i)
    OBVIOUS
  <2>2. t[i] = s[i] /\ (i # 1 => t[i-1] = s[i-1])
    OBVIOUS
  <2>3. ArgsOf(t, i) = ArgsOf(s, i)
    BY <2>2 DEF ArgsOf, StartAt
  <2> QED
    BY <2>1, <2>2, <2>3 DEF PolicyOk
<1>2. start \in Int
  <2>1. CASE Len(s) = 0
    BY <2>1, LineAssumption DEF StartAt
  <2>2. CASE Len(s) # 0
    <3>1. Len(s) \in 1..Len(s) /\ Len(s) + 1 # 1 /\ Len(s) + 1 - 1 = Len(s)
      BY <2>2
    <3>2. start = s[Len(s)].avail
      BY <3>1 DEF StartAt
    <3> QED
      BY <3>1, <3>2, PolicyAvail
  <2> QED
    BY <2>1, <2>2
<1>3. w.src = ops /\ \A x \in DOMAIN c : x # "src" => w[x] = c[x]
  <2> HIDE DEF a, n
  <2> QED
    BY DEF With
<1>4. /\ a.task = Len(s) /\ a.start = start /\ a.coef = Coef /\ a.base = ServerBase + 1
      /\ a.trips = TripsOf(ops, Len(ops)) /\ t[n] = w
  <2>1. t[n] = w
    OBVIOUS
  <2>2. StartAt(t, n) = start
    <3>1. CASE Len(s) = 0
      BY <3>1 DEF StartAt
    <3>2. CASE Len(s) # 0
      <4>1. Len(s) \in 1..Len(s) /\ n # 1 /\ n - 1 = Len(s)
        BY <3>2
      <4> QED
        BY <4>1 DEF StartAt
    <3> QED
      BY <3>1, <3>2
  <2> HIDE DEF w
  <2>3. a = [task |-> n - 1, start |-> start, coef |-> Coef, base |-> ServerBase + 1,
             trips |-> TripsOf(ops, Len(ops))]
    BY <1>3, <2>1, <2>2 DEF ArgsOf
  <2>4. n - 1 = Len(s)
    OBVIOUS
  <2> HIDE DEF a, n
  <2> QED
    BY <2>1, <2>3, <2>4
<1> HIDE DEF w, a
<1>5. Given(a)
  <2>1. TripsOf(ops, Len(ops)) \in Nat
    <3>1. Len(ops) \in Nat \ {0}
      BY DEF PolicyLines
    <3> QED
      BY <3>1, ItersNext DEF TripsOf
  <2>2. ServerBase + 1 \in Int /\ Coef \in Int
    BY LineAssumption
  <2> QED
    BY <1>2, <1>4, <2>1, <2>2 DEF Given
<1>6. /\ \E d : Compiled(a, c, d) /\ Loops(a, d) <= Len(ops) - 2
      /\ {"avail", "pgt", "head", "tail", "coef", "base", "task", "fake"} \subseteq DOMAIN c
  <2>1. a.base - 1 = ServerBase
    BY <1>4, LineAssumption
  <2>2. c = FrontEnd(ops, a.start, a.start + a.coef, a.task, a.base - 1)
    BY <1>4, <2>1
  <2> DEFINE m == Len(ops)
  <2>3. PolicyLines(ops, m) /\ a.trips = TripsOf(ops, m)
    BY <1>4
  <2> HIDE DEF m
  <2>4. /\ \E d : Compiled(a, c, d) /\ Loops(a, d) <= m - 2
        /\ {"avail", "pgt", "head", "tail", "coef", "base", "task", "fake"} \subseteq DOMAIN c
    BY <1>5, <2>2, <2>3, FrontEndCompiles
  <2> QED
    BY <2>4 DEF m
<1>7. PICK d : Compiled(a, c, d) /\ Loops(a, d) <= Len(ops) - 2
  BY <1>6
<1>8. Compiled(a, w, d)
  <2>1. /\ w.head = c.head /\ w.tail = c.tail /\ w.avail = c.avail /\ w.coef = c.coef
        /\ w.base = c.base /\ w.task = c.task /\ w.fake = c.fake /\ w.pgt = c.pgt
    BY <1>3, <1>6
  <2> QED
    BY <1>7, <2>1 DEF Compiled
<1>9. PolicyOk(t, n)
  <2>1. t[n].src = ops /\ Compiled(a, t[n], d) /\ Loops(a, d) <= Len(t[n].src) - 2
    BY <1>3, <1>4, <1>7, <1>8
  <2> QED
    BY <1>5, <2>1 DEF PolicyOk, a
<1>10. ASSUME NEW i \in 1..Len(t) PROVE i \in 1..Len(s) \/ i = n
  OBVIOUS
<1> QED
  BY <1>1, <1>9, <1>10

\* Nothing is compiled at the start.
LEMMA CompilationsInit == Init => Compilations
<1> SUFFICES ASSUME Init PROVE Compilations
  OBVIOUS
<1>1. lines = <<>> /\ done = <<>>
  BY DEF Init
<1>2. <<>> \in Seq(Operators) /\ Len(<<>>) = 0 /\ DOMAIN <<>> = 1..0 /\ 1..0 = {}
  OBVIOUS
<1> QED
  BY <1>1, <1>2 DEF Compilations, LinesOk

\* A line read, a policy compiled or refused, and the end keep what the driver keeps.
LEMMA CompilationsNext == Compilations /\ [Next]_vars => Compilations'
<1> SUFFICES ASSUME Compilations, [Next]_vars PROVE Compilations'
  OBVIOUS
<1>0. /\ LinesOk(lines) /\ DOMAIN done = 1..Len(done) /\ Len(done) \in Nat
      /\ \A i \in 1..Len(done) : PolicyOk(done, i)
  BY DEF Compilations
<1>1. ASSUME NEW op \in Operators, ReadLine(op) PROVE Compilations'
  <2>1. LinesOk(lines')
    BY <1>0, <1>1, LinesGrow DEF ReadLine
  <2>2. done' = done
    BY <1>1 DEF ReadLine
  <2> QED
    BY <1>0, <2>1, <2>2 DEF Compilations
<1>2. ASSUME Compile PROVE Compilations'
  <2> DEFINE ops == Append(lines, [op |-> "end"])
             c == Policy1(ops)
             w == With(c, "src", ops)
  <2>1. Len(lines) > 1 /\ c.ok /\ done' = Append(done, w) /\ lines' = <<>>
    BY <1>2 DEF Compile
  <2>2. PolicyLines(ops, Len(ops))
    BY <1>0, <2>1, LinesComplete
  <2> HIDE DEF ops
  <2>3. Start = StartAt(done, Len(done) + 1)
    <3>1. CASE done = <<>>
      BY <3>1 DEF Start, StartAt
    <3>2. CASE done # <<>>
      <4>1. Len(done) # 0
        <5>1. SUFFICES ASSUME Len(done) = 0 PROVE FALSE
          OBVIOUS
        <5>2. DOMAIN done = {}
          BY <1>0, <5>1
        <5> QED
          BY <1>0, <3>2, <5>1, <5>2
      <4> QED
        BY <1>0, <3>2, <4>1 DEF Start, StartAt, Last
    <3> QED
      BY <3>1, <3>2
  <2>4. c = FrontEnd(ops, Start, Start + Coef, Len(done), ServerBase)
    BY DEF Policy1
  <2> HIDE DEF c, w
  <2>5. /\ DOMAIN done' = 1..Len(done') /\ Len(done') = Len(done) + 1
        /\ \A i \in 1..Len(done) : done'[i] = done[i]
        /\ done'[Len(done) + 1] = With(c, "src", ops)
    BY <1>0, <2>1 DEF w
  <2>6. \A i \in 1..Len(done') : PolicyOk(done', i)
    BY <1>0, <2>1, <2>2, <2>3, <2>4, <2>5, PolicyAdded
  <2>7. LinesOk(lines')
    <3>1. <<>> \in Seq(Operators) /\ Len(<<>>) = 0 /\ 1..0 = {}
      OBVIOUS
    <3> QED
      BY <2>1, <3>1 DEF LinesOk
  <2> QED
    BY <1>0, <2>5, <2>6, <2>7 DEF Compilations
<1>3. CASE UNCHANGED vars
  BY <1>0, <1>3 DEF vars, Compilations
<1> QED
  BY <1>1, <1>2, <1>3 DEF Next

-----------------------------------------------------------------------------
\* A policy starts where an earlier one has stopped, or later.
LEMMA StartsAfter ==
  ASSUME NEW s, DOMAIN s = 1..Len(s), Len(s) \in Nat,
         \A i \in 1..Len(s) : PolicyOk(s, i),
         NEW i \in 1..Len(s), NEW j \in 1..Len(s), i < j
  PROVE  s[i].avail <= StartAt(s, j)
<1> DEFINE T == {k \in Nat : i + 1 + k \in 1..Len(s) => s[i].avail <= StartAt(s, i + 1 + k)}
<1>1. \A k \in 1..Len(s) : /\ StartAt(s, k) \in Int /\ s[k].avail \in Int
                           /\ s[k].avail >= StartAt(s, k) + 5
  BY PolicyAvail
<1>2. \A k \in 2..Len(s) : StartAt(s, k) = s[k-1].avail
  BY DEF StartAt
<1>3. 0 \in T
  <2>1. ASSUME i + 1 \in 1..Len(s) PROVE s[i].avail <= StartAt(s, i + 1)
    <3>1. i + 1 \in 2..Len(s) /\ i + 1 - 1 = i
      BY <2>1
    <3> QED
      BY <1>1, <1>2, <3>1
  <2> QED
    BY <2>1
<1>4. ASSUME NEW k \in T PROVE k + 1 \in T
  <2>0. k \in Nat /\ (i + 1 + k \in 1..Len(s) => s[i].avail <= StartAt(s, i + 1 + k))
    OBVIOUS
  <2> DEFINE m == i + 1 + k
  <2>1. ASSUME m + 1 \in 1..Len(s) PROVE s[i].avail <= StartAt(s, m + 1)
    <3>1. m \in 1..Len(s) /\ m + 1 \in 2..Len(s) /\ m + 1 - 1 = m
      BY <2>0, <2>1
    <3> HIDE DEF m
    <3>2. StartAt(s, m + 1) = s[m].avail /\ s[m].avail >= StartAt(s, m) + 5
          /\ StartAt(s, m) \in Int /\ s[m].avail \in Int /\ s[i].avail \in Int
      BY <1>1, <1>2, <3>1, SMTT(30)
    <3>3. s[i].avail <= StartAt(s, m)
      BY <2>0, <3>1 DEF m
    <3> QED
      BY <3>2, <3>3
  <2>2. k + 1 \in Nat /\ i + 1 + (k + 1) = m + 1
    BY <2>0
  <2> QED
    BY <2>1, <2>2
<1>5. T = Nat
  <2> HIDE DEF T
  <2>1. T \in SUBSET Nat
    BY DEF T
  <2> QED
    BY <1>3, <1>4, <2>1, Marks!NatSet
<1>6. j - i - 1 \in Nat /\ i + 1 + (j - i - 1) = j
  OBVIOUS
<1>7. j - i - 1 \in T
  BY <1>5, <1>6
<1> QED
  BY <1>6, <1>7

\* Where the registers of policy i are.
InRange(s, i, x) ==
  /\ x[1] = "cache_process_addr_to_reg" => x[2] \in (15 * (i - 1))..(15 * (i - 1) + 14)
  /\ x[1] = "read_update_max_entry" => x[2] \in (3 * (i - 1))..(3 * (i - 1) + 2)
  /\ x[1] \in {"cache_dqpn_page_walk", "cache_qpn_page_walk", "cache_process_page_addr_to_reg"} =>
       x[2] = i - 1
  /\ x[1] = "read_update_psn" =>
       \E post \in (StartAt(s, i) + 1)..(s[i].avail - 1) : x[2] = post - (ServerBase + 1)
  /\ x[1] \in {"cache_process_addr_to_reg", "read_update_max_entry", "cache_dqpn_page_walk",
               "cache_qpn_page_walk", "cache_process_page_addr_to_reg", "read_update_psn"}

\* The registers of a policy that fits are in the range of its number.
LEMMA RegistersInRange ==
  ASSUME NEW s, NEW i \in Nat \ {0}, PolicyOk(s, i), Fits(s[i]), NEW x \in RegistersOf(s[i])
  PROVE  InRange(s, i, x)
<1> DEFINE a == ArgsOf(s, i)
           c == s[i]
           n == Len(c.src)
<1>1. PICK d : Compiled(a, c, d) /\ Loops(a, d) <= n - 2
  BY DEF PolicyOk
<1>2. Given(a) /\ PolicyLines(c.src, n)
  BY DEF PolicyOk
<1>3. a.task = i - 1 /\ a.start = StartAt(s, i) /\ a.base = ServerBase + 1 /\ a.trips = TripsOf(c.src, n)
  BY DEF ArgsOf
<1>4. n <= 15 /\ a.trips <= 3 /\ n \in Nat
  <2>1. /\ n <= 15 /\ Cardinality({k \in DOMAIN c.src : c.src[k].op = "iter"}) <= 3
    BY DEF Fits
  <2>2. DOMAIN c.src = 1..n /\ n \in Nat
    BY <1>2 DEF PolicyLines
  <2>3. {k \in DOMAIN c.src : c.src[k].op = "iter"} = Iters(c.src, n)
    BY <2>2 DEF Iters
  <2> QED
    BY <1>3, <2>1, <2>2, <2>3 DEF TripsOf
<1>5. \A k \in 1..Len(c.tail) : c.tail[k].aim = "DecJump" => c.tail[k].seq # None
  <2>1. \A k \in DOMAIN c.tail : c.tail[k].aim = "DecJump" => c.tail[k].seq # None
    BY DEF Fits
  <2>2. Open(a, d) /\ c.tail = d.tail
    BY <1>1 DEF Compiled
  <2>3. DOMAIN c.tail = 1..Len(c.tail)
    BY <1>2, <2>2, OpenTypes, LenProperties
  <2> QED
    BY <2>1, <2>3
<1> HIDE DEF a, n
<1>6. RegsOk(a, d, CodeGen(c))
  BY <1>1, <1>2, <1>5, CodeRegs
<1>7. PICK row \in CodeGen(c) :
        /\ row.t \in {"cache_process_addr_to_reg", "read_update_max_entry", "cache_dqpn_page_walk",
                      "cache_qpn_page_walk", "cache_process_page_addr_to_reg", "read_update_psn"}
        /\ x = <<row.t, row.arg[1]>>
  BY DEF RegistersOf
<1>8. RegOk(a, d, row)
  BY <1>6, <1>7 DEF RegsOk
<1>9. x[1] = row.t /\ x[2] = row.arg[1]
  BY <1>7
<1>10. Bases(a, d) \subseteq (15 * (i - 1))..(15 * (i - 1) + 14)
  <2>1. Loops(a, d) <= 13 /\ Loops(a, d) \in Int
    <3>1. Loops(a, d) \in Nat
      BY <1>1, <1>2, MergedAims DEF Merged
    <3> QED
      BY <1>1, <1>4, <3>1
  <2>2. 15 * a.task = 15 * (i - 1) /\ 15 * (i - 1) \in Int
    BY <1>3
  <2> QED
    BY <2>1, <2>2 DEF Bases
<1>11. Trips(a) \subseteq (3 * (i - 1))..(3 * (i - 1) + 2)
  <2>1. a.trips \in Nat
    BY <1>2 DEF Given
  <2> QED
    BY <1>3, <1>4, <2>1 DEF Trips
<1>12. c.avail - 1 = d.avail + 3
  <2>1. c.avail = d.avail + 4 /\ Open(a, d)
    BY <1>1 DEF Compiled
  <2>2. d.avail \in Int
    BY <1>2, <2>1, OpenTypes
  <2> QED
    BY <2>1, <2>2
<1> HIDE DEF c
<1>13. /\ row.t = "cache_process_addr_to_reg" => row.arg[1] \in (15 * (i - 1))..(15 * (i - 1) + 14)
       /\ row.t = "read_update_max_entry" => row.arg[1] \in (3 * (i - 1))..(3 * (i - 1) + 2)
  BY <1>8, <1>10, <1>11 DEF RegOk
<1>14. row.t \in {"cache_dqpn_page_walk", "cache_qpn_page_walk", "cache_process_page_addr_to_reg"} =>
       row.arg[1] = i - 1
  BY <1>3, <1>8 DEF RegOk
<1>15. row.t = "read_update_psn" =>
       \E post \in (StartAt(s, i) + 1)..(c.avail - 1) : row.arg[1] = post - (ServerBase + 1)
  <2>1. row.t = "read_update_psn" =>
          \E post \in (a.start + 1)..(d.avail + 3) : row.arg[1] = post - a.base
    BY <1>8 DEF RegOk
  <2> QED
    BY <1>3, <1>12, <2>1
<1> QED
  BY <1>7, <1>9, <1>13, <1>14, <1>15 DEF InRange, c

\* Ranges of two policies have nothing in common.
LEMMA RangesApart ==
  ASSUME NEW s, DOMAIN s = 1..Len(s), Len(s) \in Nat,
         \A k \in 1..Len(s) : PolicyOk(s, k),
         NEW i \in 1..Len(s), NEW j \in 1..Len(s), i < j,
         NEW x, InRange(s, i, x), InRange(s, j, x)
  PROVE  FALSE
<1>1. s[i].avail <= StartAt(s, j)
  BY StartsAfter
<1>2. /\ StartAt(s, i) \in Int /\ s[i].avail \in Int
      /\ StartAt(s, j) \in Int /\ s[j].avail \in Int
  BY PolicyAvail
<1>3. CASE x[1] = "cache_process_addr_to_reg"
  <2>1. /\ x[2] \in (15 * (i - 1))..(15 * (i - 1) + 14)
        /\ x[2] \in (15 * (j - 1))..(15 * (j - 1) + 14)
    BY <1>3 DEF InRange
  <2> QED
    BY <2>1
<1>4. CASE x[1] = "read_update_max_entry"
  <2>1. /\ x[2] \in (3 * (i - 1))..(3 * (i - 1) + 2)
        /\ x[2] \in (3 * (j - 1))..(3 * (j - 1) + 2)
    BY <1>4 DEF InRange
  <2> QED
    BY <2>1
<1>5. CASE x[1] \in {"cache_dqpn_page_walk", "cache_qpn_page_walk", "cache_process_page_addr_to_reg"}
  <2>1. x[2] = i - 1 /\ x[2] = j - 1
    BY <1>5 DEF InRange
  <2> QED
    BY <2>1
<1>6. CASE x[1] = "read_update_psn"
  <2>1. PICK p \in (StartAt(s, i) + 1)..(s[i].avail - 1) : x[2] = p - (ServerBase + 1)
    BY <1>6 DEF InRange
  <2>2. PICK q \in (StartAt(s, j) + 1)..(s[j].avail - 1) : x[2] = q - (ServerBase + 1)
    BY <1>6 DEF InRange
  <2>3. p < q /\ p \in Int /\ q \in Int
    BY <1>1, <1>2
  <2> QED
    BY <2>1, <2>2, <2>3, LineAssumption
<1> QED
  BY <1>3, <1>4, <1>5, <1>6 DEF InRange

\* Policies compiled like that have no register in common.
LEMMA CompilationsDisjoint == Compilations => Disjoint
<1> SUFFICES ASSUME Compilations, \A i \in DOMAIN done : Fits(done[i]),
                    NEW i \in DOMAIN done, NEW j \in DOMAIN done, i # j
             PROVE  RegistersOf(done[i]) \cap RegistersOf(done[j]) = {}
  BY DEF Disjoint
<1>1. /\ DOMAIN done = 1..Len(done) /\ Len(done) \in Nat
      /\ \A k \in 1..Len(done) : PolicyOk(done, k)
  BY DEF Compilations
<1>2. SUFFICES ASSUME NEW x \in RegistersOf(done[i]), x \in RegistersOf(done[j]) PROVE FALSE
  OBVIOUS
<1>3. i \in Nat \ {0} /\ j \in Nat \ {0} /\ i \in 1..Len(done) /\ j \in 1..Len(done)
  BY <1>1
<1>4. InRange(done, i, x) /\ InRange(done, j, x)
  <2>1. PolicyOk(done, i) /\ PolicyOk(done, j) /\ Fits(done[i]) /\ Fits(done[j])
    BY <1>1
  <2>2. InRange(done, i, x)
    BY <1>3, <2>1, RegistersInRange
  <2>3. InRange(done, j, x)
    <3>1. j \in Nat \ {0} /\ PolicyOk(done, j) /\ Fits(done[j]) /\ x \in RegistersOf(done[j])
      BY <1>2, <1>3, <2>1
    <3> QED
      BY <3>1, RegistersInRange
  <2> QED
    BY <2>2, <2>3
<1>5. i < j \/ j < i
  BY <1>3
<1> QED
  BY <1>1, <1>3, <1>4, <1>5, RangesApart

\* The policies of a switch have no register in common: whatever lines they are made
\* of, as long as each fits the fifteen base addresses and three trip counts of its
\* number, the rows of two of them write base addresses, trip counts,
\* page-walk registers and PSNs of their own (main.cc:58-72, gen_base_operation,
\* mark_iter, gen_psn_mapping).
THEOREM RegistersDisjoint == Spec => []Disjoint
<1>1. Init => Compilations
  BY CompilationsInit
<1>2. Compilations /\ [Next]_vars => Compilations'
  BY CompilationsNext
<1>3. Compilations => Disjoint
  BY CompilationsDisjoint
<1> QED
  BY <1>1, <1>2, <1>3, PTL DEF Spec
-----------------------------------------------------------------------------
\* Where the rows lead.  The client QPNs of a policy, one for each READ.
Clients(a, d) == {p + a.coef : p \in PostRange(a, d.avail)}

\* An exit is no missing one.
LEMMA ExitIsSome ==
  ASSUME NEW a, Given(a), NEW fake, NEW e, IsExit(a, fake, e)
  PROVE  e # NoTran
<1>1. a.task \in Nat
  BY DEF Given
<1>2. CASE e = <<998 - a.task, 999 - a.task>>
  BY <1>1, <1>2 DEF NoTran, None
<1>3. CASE e[1] \in Fakes(a, fake)
  <2>1. e[1] >= 0
    BY <1>1, <1>3 DEF Fakes
  <2> QED
    BY <2>1 DEF NoTran, None
<1> QED
  BY <1>2, <1>3 DEF IsExit

\* The next READ after an AIM of the head but the last has a number of the policy.
LEMMA NextInHead ==
  ASSUME NEW a, Given(a), NEW d, Open(a, d), NEW aims, Merged(a, d, aims),
         NEW k \in 1..(Len(d.head) - 1)
  PROVE  NextPost(aims, k) \in PostRange(a, d.avail)
<1> DEFINE h == Len(d.head)
           kinds == {"ReadMove", "ReadLoad"} \union {"DecJump", "NegJump"}
           j == First(aims, k, kinds)
<1>1. h \in Nat \ {0} /\ Len(aims) \in Nat /\ h <= Len(aims) /\ k \in Nat
  BY DEF Merged
<1>2. aims[h].aim = "ReadLoad"
  BY DEF Merged
<1>3. \/ j = 0 /\ \A m \in (k+1)..Len(aims) : ~ (aims[m].aim \in kinds)
      \/ /\ j \in (k+1)..Len(aims) /\ aims[j].aim \in kinds
         /\ \A m \in (k+1)..(j - 1) : ~ (aims[m].aim \in kinds)
  <2> HIDE DEF kinds
  <2> QED
    BY <1>1, FirstFacts
<1>4. aims[h].aim \in kinds
  BY <1>2
<1>5. NextPost(aims, k) = IF j = 0 THEN 0
                          ELSE IF aims[j].aim \in {"ReadMove", "ReadLoad"} THEN aims[j].post ELSE None
  BY DEF NextPost, PostOf
<1> HIDE DEF j, kinds, h
<1>6. h \in (k+1)..Len(aims)
  BY <1>1 DEF h
<1>7. j \in (k+1)..Len(aims) /\ aims[j].aim \in kinds /\ j # 0
  BY <1>1, <1>3, <1>4, <1>6
<1>8. j \in 1..h
  <2>1. ~ (h < j)
    <3>1. SUFFICES ASSUME h < j PROVE FALSE
      OBVIOUS
    <3>2. h \in (k+1)..(j - 1)
      BY <1>1, <1>6, <1>7, <3>1
    <3> QED
      BY <1>3, <1>4, <1>7, <3>2
  <2> QED
    BY <1>1, <1>7, <2>1
<1>9. /\ AimRegs(a, d.avail, aims[j])
      /\ aims[j].aim \in {"Init", "ConstMove", "ConstLoad", "ReadLoad", "ReadMove", "Push"}
  BY <1>8, MergedHead DEF h
<1>10. aims[j].aim \in {"ReadLoad", "ReadMove"}
  BY <1>7, <1>9 DEF kinds
<1> QED
  BY <1>5, <1>7, <1>9, <1>10 DEF AimRegs, IsRead

-----------------------------------------------------------------------------
\* What a row that moves a packet does: an exit, or a state of the policy.
PcOk(a, d, row) ==
  /\ row.t = "end_transfer" =>
       \/ IsExit(a, d.fake, row.arg)
       \/ row.arg[1] = row.k[1] /\ row.arg[2] \in PostRange(a, d.avail)
  /\ row.t = "check_null" => IsExit(a, d.fake, row.arg)
  /\ row.t = "direct_transfer" =>
       /\ row.arg[1] \in PostRange(a, d.avail)
       /\ row.k[1] \in Clients(a, d) \cup Fakes(a, d.fake)
  /\ row.t = "check_traverse_end" => row.k[1] \in Clients(a, d)
  /\ row.t = "read_update_max_entry" /\ row.act = "update_max_entry" =>
       row.k[1] \in Fakes(a, d.fake)

\* An exit copied is an exit.
LEMMA ExitCopied ==
  ASSUME NEW a, NEW fake, NEW e, IsExit(a, fake, e)
  PROVE  IsExit(a, fake, <<e[1], e[2]>>)
<1>1. e \in Pair
  BY DEF IsExit
<1>2. e = <<e[1], e[2]>>
  BY <1>1 DEF Pair
<1> QED
  BY <1>2

\* The rows of an AIM of the head.
LEMMA PcHead ==
  ASSUME NEW a, Given(a), NEW d, Open(a, d), NEW aims, Merged(a, d, aims),
         NEW c, c.coef = a.coef, NEW k \in 1..Len(d.head), NEW row \in PcRows(c, aims, k)
  PROVE  PcOk(a, d, row)
<1> DEFINE x == aims[k]
           next == NextPost(aims, k)
           q == Tran(c, x.post)
<1>1. x.aim \in {"Init", "ConstMove", "ConstLoad", "ReadLoad", "ReadMove", "Push"}
      /\ AimRegs(a, d.avail, x)
  BY MergedHead
<1>2. ASSUME x.aim \in {"ReadLoad", "ReadMove"} PROVE q \in Clients(a, d)
  <2>1. x.post \in PostRange(a, d.avail)
    BY <1>1, <1>2 DEF AimRegs, IsRead
  <2> QED
    BY <2>1 DEF Clients, Tran
<1>3. CASE k < Len(d.head)
  <2>1. next \in PostRange(a, d.avail)
    <3>1. k \in 1..(Len(d.head) - 1)
      BY <1>3 DEF Merged
    <3> QED
      BY <3>1, NextInHead
  <2>2. HeadAim(a, d.avail, d.fake, x)
    BY <1>3, MergedHead
  <2> HIDE DEF next
  <2>3. \/ x.aim = "Init" /\ row = Row("end_transfer", <<x.init>>, "mod_qpn_dqpn", <<x.init, next>>)
        \/ x.aim = "ReadLoad" /\ row = Row("end_transfer", <<q>>, "mod_qpn_dqpn", <<q, next>>)
        \/ /\ x.aim = "ReadMove"
           /\ \/ row = Row("check_null", <<q, 0>>, "mod_qpn_dqpn", x.null)
              \/ row = Row("direct_transfer", <<q, 0, 0>>, "mod_dqpn", <<next>>)
    BY <1>1, <2>2 DEF PcRows, HeadAim, next
  <2> HIDE DEF q, x
  <2>4. CASE row.t = "end_transfer"
    <3>1. row.arg[1] = row.k[1] /\ row.arg[2] = next
      BY <2>3, <2>4 DEF Row
    <3> QED
      BY <2>1, <2>4, <3>1 DEF PcOk
  <2>5. CASE row.t = "check_null"
    <3>1. x.aim = "ReadMove" /\ row.arg = x.null
      BY <2>3, <2>5 DEF Row
    <3>2. IsExit(a, d.fake, x.null)
      BY <2>2, <3>1 DEF HeadAim
    <3> QED
      BY <2>5, <3>1, <3>2 DEF PcOk
  <2>6. CASE row.t = "direct_transfer"
    <3>1. x.aim = "ReadMove" /\ row.arg[1] = next /\ row.k[1] = q
      BY <2>3, <2>6 DEF Row
    <3> QED
      BY <1>2, <2>1, <2>6, <3>1 DEF PcOk
  <2> QED
    BY <2>3, <2>4, <2>5, <2>6 DEF Row
<1>4. CASE k = Len(d.head)
  <2>1. x.aim = "ReadLoad" /\ x.tran = d.end
    BY <1>4 DEF Merged
  <2>2. IsExit(a, d.fake, d.end)
    BY DEF Open
  <2>3. d.end # NoTran
    BY <2>2, ExitIsSome
  <2>4. row = Row("end_transfer", <<q>>, "mod_qpn_dqpn", <<d.end[1], d.end[2]>>)
    BY <2>1, <2>3 DEF PcRows
  <2>5. IsExit(a, d.fake, <<d.end[1], d.end[2]>>)
    BY <2>2, ExitCopied
  <2> HIDE DEF q, x
  <2>6. row.t = "end_transfer" /\ row.arg = <<d.end[1], d.end[2]>>
    BY <2>4 DEF Row
  <2> QED
    BY <2>5, <2>6 DEF PcOk
<1>5. Len(d.head) \in Nat
  BY DEF Merged
<1> QED
  BY <1>3, <1>4, <1>5

\* The states a loop may go back to are those given out, when the last AIM of the
\* head is a READ.
LEMMA LimitIsPost ==
  ASSUME NEW a, Given(a), NEW d, Open(a, d), NEW aims, Merged(a, d, aims)
  PROVE  (a.start + 1)..Limit(d) = PostRange(a, d.avail)
<1>1. d.head[Len(d.head)].aim = "ReadLoad"
  <2>1. Len(d.head) \in 1..Len(d.head) /\ aims[Len(d.head)].aim = "ReadLoad"
    BY DEF Merged
  <2> QED
    BY <2>1, MergedHead
<1> QED
  BY <1>1 DEF Limit, PostRange

\* What the four AIMs that end loop b are to the rows.
TailOf(a, d, b, x, y, z) ==
  /\ \/ /\ x.aim = "ReadMove" /\ x.null = NoTran /\ x.post \in PostRange(a, d.avail)
        /\ y.aim = "NegJump" /\ y.at = x.post + a.coef /\ y.fake = d.fake - 1 - b
     \/ /\ x.aim = "ConstMove"
        /\ y.aim = "DecJump" /\ y.at = d.fake - 1 - b
  /\ d.fake - 1 - b \in Fakes(a, d.fake)
  /\ y.yes \in PostRange(a, d.avail) /\ y.no \in PostRange(a, d.avail)
  /\ z.aim = "ReadLoad" /\ z.post \in PostRange(a, d.avail)
  /\ IsExit(a, d.fake, z.tran) /\ z.tran # NoTran

\* They are that for every loop.
LEMMA TailFacts ==
  ASSUME NEW a, Given(a), NEW d, Open(a, d), NEW aims, Merged(a, d, aims),
         NEW b \in 0..(Loops(a, d) - 1)
  PROVE  /\ TailAim(a, d, aims, b, 1).aim = "Pop"
         /\ TailOf(a, d, b, TailAim(a, d, aims, b, 2), TailAim(a, d, aims, b, 3),
                   TailAim(a, d, aims, b, 4))
<1> DEFINE w == TailAim(a, d, aims, b, 1)
           x == TailAim(a, d, aims, b, 2)
           y == TailAim(a, d, aims, b, 3)
           z == TailAim(a, d, aims, b, 4)
           f == d.fake - 1 - b
<1>1. LoopAims(a, d.avail, d.fake, Limit(d), f, w, x, y, z)
  BY TailAims
<1>2. (a.start + 1)..Limit(d) = PostRange(a, d.avail)
  BY LimitIsPost
<1>3. f \in Fakes(a, d.fake)
  <2>1. d.fake \in Int /\ a.task \in Nat
    BY OpenTypes
  <2> QED
    BY <2>1 DEF Fakes, Loops
<1> HIDE DEF w, x, y, z, f
<1>4. IsExit(a, d.fake, z.tran)
  BY <1>1 DEF LoopAims
<1>5. z.tran # NoTran
  BY <1>4, ExitIsSome
<1>6. w.aim = "Pop" /\ TailOf(a, d, b, x, y, z)
  <2>1. TailOf(a, d, b, x, y, z) =
          (/\ \/ /\ x.aim = "ReadMove" /\ x.null = NoTran /\ x.post \in PostRange(a, d.avail)
                 /\ y.aim = "NegJump" /\ y.at = x.post + a.coef /\ y.fake = f
              \/ /\ x.aim = "ConstMove"
                 /\ y.aim = "DecJump" /\ y.at = f
           /\ f \in Fakes(a, d.fake)
           /\ y.yes \in PostRange(a, d.avail) /\ y.no \in PostRange(a, d.avail)
           /\ z.aim = "ReadLoad" /\ z.post \in PostRange(a, d.avail)
           /\ IsExit(a, d.fake, z.tran) /\ z.tran # NoTran)
    BY DEF TailOf, f
  <2> QED
    BY <1>1, <1>2, <1>3, <1>4, <1>5, <2>1 DEF LoopAims
<1> QED
  BY <1>6 DEF w, x, y, z

\* The rows of an AIM that ends a loop.
LEMMA PcTail ==
  ASSUME NEW a, Given(a), NEW d, Open(a, d), NEW aims, Merged(a, d, aims),
         NEW c, c.coef = a.coef, NEW b \in 0..(Loops(a, d) - 1), NEW r \in 1..4,
         NEW row \in PcRows(c, aims, Len(d.head) + (4*b + r))
  PROVE  PcOk(a, d, row)
<1> DEFINE w == TailAim(a, d, aims, b, 1)
           x == TailAim(a, d, aims, b, 2)
           y == TailAim(a, d, aims, b, 3)
           z == TailAim(a, d, aims, b, 4)
           i == Len(d.head) + (4*b + r)
           f == d.fake - 1 - b
<1>1. w.aim = "Pop" /\ TailOf(a, d, b, x, y, z)
  BY TailFacts
<1>2. /\ r = 1 => aims[i] = w
      /\ r = 2 => aims[i] = x
      /\ r = 3 => aims[i] = y
      /\ r = 4 => aims[i] = z
  BY DEF TailAim
<1>3. \/ /\ x.aim = "ReadMove" /\ x.null = NoTran /\ x.post \in PostRange(a, d.avail)
         /\ y.aim = "NegJump" /\ y.at = x.post + a.coef /\ y.fake = f
      \/ x.aim = "ConstMove" /\ y.aim = "DecJump" /\ y.at = f
  BY <1>1 DEF TailOf
<1>4. /\ f \in Fakes(a, d.fake)
      /\ y.yes \in PostRange(a, d.avail) /\ y.no \in PostRange(a, d.avail)
      /\ z.aim = "ReadLoad" /\ z.post \in PostRange(a, d.avail)
      /\ IsExit(a, d.fake, z.tran) /\ z.tran # NoTran
  BY <1>1 DEF TailOf
<1>5. row \in PcRows(c, aims, i)
  OBVIOUS
<1>6. a.coef \in Int /\ \A p \in PostRange(a, d.avail) : p \in Int
  BY DEF Given, PostRange
<1> HIDE DEF w, x, y, z, i, f
<1>7. CASE r = 1
  BY <1>1, <1>2, <1>5, <1>7 DEF PcRows
<1>8. CASE r = 2
  <2>1. aims[i] = x
    BY <1>2, <1>8
  <2>2. (x.aim = "ReadMove" /\ x.null = NoTran) \/ x.aim = "ConstMove"
    BY <1>3
  <2> QED
    BY <1>5, <2>1, <2>2 DEF PcRows
<1>9. CASE r = 3
  <2>1. aims[i] = y
    BY <1>2, <1>9
  <2>2. CASE y.aim = "NegJump"
    <3>1. /\ y.at \in Clients(a, d) /\ y.at - c.coef \in PostRange(a, d.avail) /\ y.fake = f
      BY <1>3, <1>6, <2>2 DEF Clients
    <3>2. \/ row = Row("check_traverse_end", <<y.at, y.stop>>, "set_end_bit", <<>>)
          \/ row = Row("direct_transfer", <<y.at, 0, 0>>, "mod_dqpn", <<y.yes>>)
          \/ row = Row("direct_transfer", <<y.at, 1, 0>>, "mod_dqpn", <<y.no>>)
          \/ row = Row("direct_transfer", <<y.fake, 0, 0>>, "mod_dqpn", <<y.at - c.coef>>)
      BY <1>5, <2>1, <2>2 DEF PcRows
    <3> DEFINE back == y.at - c.coef
    <3> HIDE DEF back
    <3>3. \/ row.t = "check_traverse_end" /\ row.k[1] = y.at
          \/ /\ row.t = "direct_transfer" /\ row.k[1] \in {y.at, f}
             /\ row.arg[1] \in {y.yes, y.no, back}
      BY <3>1, <3>2 DEF Row, back
    <3>4. back \in PostRange(a, d.avail)
      BY <3>1 DEF back
    <3> QED
      BY <1>4, <3>1, <3>3, <3>4 DEF PcOk
  <2>3. CASE y.aim = "DecJump"
    <3>1. y.at = f
      BY <1>3, <2>3
    <3>2. \/ row = Row("read_update_max_entry", <<y.at>>, "update_max_entry", <<y.seq>>)
          \/ row = Row("direct_transfer", <<y.at, 0, 1>>, "mod_dqpn", <<y.no>>)
          \/ row = Row("direct_transfer", <<y.at, 0, 2>>, "mod_dqpn", <<y.yes>>)
      BY <1>5, <2>1, <2>3 DEF PcRows
    <3>3. \/ row.t = "read_update_max_entry" /\ row.k[1] = f
          \/ /\ row.t = "direct_transfer" /\ row.k[1] = f
             /\ row.arg[1] \in {y.yes, y.no}
      BY <3>1, <3>2 DEF Row
    <3> QED
      BY <1>4, <3>3 DEF PcOk
  <2> QED
    BY <1>3, <2>2, <2>3
<1>10. CASE r = 4
  <2>1. aims[i] = z
    BY <1>2, <1>10
  <2>2. row = Row("end_transfer", <<Tran(c, z.post)>>, "mod_qpn_dqpn", <<z.tran[1], z.tran[2]>>)
    BY <1>4, <1>5, <2>1 DEF PcRows
  <2>3. IsExit(a, d.fake, <<z.tran[1], z.tran[2]>>)
    BY <1>4, ExitCopied
  <2>4. row.t = "end_transfer" /\ row.arg = <<z.tran[1], z.tran[2]>>
    BY <2>2 DEF Row
  <2> QED
    BY <2>3, <2>4 DEF PcOk
<1> QED
  BY <1>7, <1>8, <1>9, <1>10

\* All rows of gen_pc_tran.
LEMMA PcTranOk ==
  ASSUME NEW a, Given(a), NEW d, Open(a, d), NEW aims, Merged(a, d, aims),
         NEW c, c.coef = a.coef, NEW row \in PcTran(c, aims)
  PROVE  PcOk(a, d, row)
<1> DEFINE h == Len(d.head)
           p == Loops(a, d)
<1>1. h \in Nat \ {0} /\ p \in Nat /\ Len(aims) = h + 4 * p /\ DOMAIN aims = 1..Len(aims)
  BY LenProperties DEF Merged
<1>2. PICK i \in 1..Len(aims) : row \in PcRows(c, aims, i)
  BY <1>1 DEF PcTran
<1>3. CASE i \in 1..h
  BY <1>2, <1>3, PcHead
<1>4. CASE i > h
  <2> HIDE DEF h, p
  <2>1. i - h \in 1..(4 * p) /\ h + (i - h) = i
    BY <1>1, <1>4
  <2>2. PICK b \in 0..(p - 1), r \in 1..4 : i - h = 4*b + r
    BY <1>1, <2>1, TailPlace
  <2>3. i = h + (4*b + r)
    BY <2>1, <2>2
  <2> QED
    BY <1>2, <2>3, PcTail DEF h, p
<1> QED
  BY <1>1, <1>3, <1>4

-----------------------------------------------------------------------------
\* A table has a row for a key.
HasRow(rows, t, k) == \E row \in rows : row.t = t /\ row.k = k
\* A state counts the turns of a loop.
CountsAt(rows, f) ==
  \E row \in rows :
    row.t = "read_update_max_entry" /\ row.k = <<f>> /\ row.act = "update_max_entry"

\* The numbers given out are the posts of the READs.
LEMMA PostsAreReads ==
  ASSUME NEW a, Given(a), NEW d, Open(a, d), NEW aims, Merged(a, d, aims),
         NEW p \in PostRange(a, d.avail)
  PROVE  \E k \in 1..Len(aims) : IsRead(aims[k]) /\ aims[k].post = p
<1> DEFINE h == Len(d.head)
           n == Loops(a, d)
<1>1. /\ h \in Nat \ {0} /\ n \in Nat /\ Len(aims) = h + 4 * n
      /\ \A k \in 1..(h - 1) : aims[k] = d.head[k]
      /\ aims[h] = [d.head[h] EXCEPT !.tran = d.end] /\ aims[h].aim = "ReadLoad"
      /\ \A k \in 1..(4 * n) : aims[h + k] = d.tail[k]
  BY DEF Merged
<1>2. \/ \E k \in 1..h : IsRead(d.head[k]) /\ d.head[k].post = p
      \/ \E k \in 1..Len(d.tail) : IsRead(d.tail[k]) /\ d.tail[k].post = p
  BY DEF Open, PostsUsed
<1>3. Len(d.tail) = 4 * n
  BY DEF Open, TailOk
<1>4. d.head \in Seq(Aims) /\ d.end \in Pair
  BY OpenTypes
<1>5. d.head[h].aim = "ReadLoad" /\ d.head[h] \in Aims
  <2>1. h \in 1..h
    BY <1>1
  <2> QED
    BY <1>1, <1>4, <2>1, MergedHead, ElementOfSeq
<1>6. aims[h].post = d.head[h].post
  BY <1>1, <1>4, <1>5, LoadTran
<1> HIDE DEF h, n
<1>7. CASE \E k \in 1..h : IsRead(d.head[k]) /\ d.head[k].post = p
  <2>1. PICK k \in 1..h : IsRead(d.head[k]) /\ d.head[k].post = p
    BY <1>7
  <2>2. k \in 1..Len(aims)
    BY <1>1
  <2>3. CASE k \in 1..(h - 1)
    BY <1>1, <2>1, <2>2, <2>3
  <2>4. CASE k = h
    BY <1>1, <1>6, <2>1, <2>2, <2>4 DEF IsRead
  <2> QED
    BY <1>1, <2>3, <2>4
<1>8. CASE \E k \in 1..Len(d.tail) : IsRead(d.tail[k]) /\ d.tail[k].post = p
  <2>1. PICK k \in 1..(4 * n) : IsRead(d.tail[k]) /\ d.tail[k].post = p
    BY <1>3, <1>8
  <2>2. h + k \in 1..Len(aims)
    BY <1>1
  <2>3. aims[h + k] = d.tail[k]
    BY <1>1
  <2> QED
    BY <2>1, <2>2, <2>3
<1> QED
  BY <1>2, <1>7, <1>8

\* A row of one AIM is a row of gen_pc_tran.
LEMMA PcRowsIn ==
  ASSUME NEW c, NEW aims \in Seq(Aims), NEW k \in 1..Len(aims)
  PROVE  PcRows(c, aims, k) \subseteq PcTran(c, aims)
<1>1. DOMAIN aims = 1..Len(aims)
  BY LenProperties
<1> QED
  BY <1>1 DEF PcTran

\* A state that is sent to is left again: a row of gen_pc_tran waits for its response.
LEMMA ReadLeads ==
  ASSUME NEW a, Given(a), NEW d, Open(a, d), NEW aims, Merged(a, d, aims),
         NEW c, c.coef = a.coef, NEW k \in 1..Len(aims), IsRead(aims[k])
  PROVE  \/ HasRow(PcTran(c, aims), "end_transfer", <<Tran(c, aims[k].post)>>)
         \/ HasRow(PcTran(c, aims), "direct_transfer", <<Tran(c, aims[k].post), 0, 0>>)
<1> DEFINE x == aims[k]
           q == Tran(c, x.post)
           h == Len(d.head)
           n == Loops(a, d)
           rows == PcTran(c, aims)
<1>1. h \in Nat \ {0} /\ n \in Nat /\ Len(aims) = h + 4 * n /\ aims \in Seq(Aims)
  BY DEF Merged
<1>2. PcRows(c, aims, k) \subseteq rows
  BY <1>1, PcRowsIn
<1>3. CASE x.aim = "ReadLoad"
  <2>1. \E p, e : Row("end_transfer", <<q>>, "mod_qpn_dqpn", <<p, e>>) \in PcRows(c, aims, k)
    BY <1>3 DEF PcRows
  <2> HIDE DEF q, rows
  <2>2. PICK p, e : Row("end_transfer", <<q>>, "mod_qpn_dqpn", <<p, e>>) \in rows
    BY <1>2, <2>1
  <2>3. HasRow(rows, "end_transfer", <<q>>)
    BY <2>2 DEF HasRow, Row
  <2> QED
    BY <2>3 DEF q, rows
<1>4. CASE x.aim = "ReadMove" /\ x.null # NoTran
  <2>1. Row("direct_transfer", <<q, 0, 0>>, "mod_dqpn", <<NextPost(aims, k)>>) \in PcRows(c, aims, k)
    BY <1>4 DEF PcRows
  <2> DEFINE next == NextPost(aims, k)
  <2> HIDE DEF q, rows, next
  <2>2. Row("direct_transfer", <<q, 0, 0>>, "mod_dqpn", <<next>>) \in rows
    BY <1>2, <2>1 DEF next
  <2>3. HasRow(rows, "direct_transfer", <<q, 0, 0>>)
    BY <2>2 DEF HasRow, Row
  <2> QED
    BY <2>3 DEF q, rows
<1>5. CASE x.aim = "ReadMove" /\ x.null = NoTran
  <2>1. k > h
    <3>1. SUFFICES ASSUME k \in 1..h PROVE FALSE
      BY <1>1
    <3>2. k # h
      BY <1>5 DEF Merged
    <3>3. HeadAim(a, d.avail, d.fake, x)
      BY <1>1, <3>1, <3>2, MergedHead
    <3>4. IsExit(a, d.fake, x.null)
      BY <1>5, <3>3 DEF HeadAim
    <3>5. x.null # NoTran
      BY <3>4, ExitIsSome
    <3> QED
      BY <1>5, <3>5
  <2> HIDE DEF h, n, x, q, rows
  <2>2. k - h \in 1..(4 * n) /\ h + (k - h) = k
    BY <1>1, <2>1
  <2>3. PICK b \in 0..(n - 1), r \in 1..4 : k - h = 4*b + r
    BY <1>1, <2>2, TailPlace
  <2>4. k = h + (4*b + r)
    BY <2>2, <2>3
  <2>5. b \in 0..(Loops(a, d) - 1)
    BY DEF n
  <2> DEFINE w == TailAim(a, d, aims, b, 1)
             v == TailAim(a, d, aims, b, 2)
             y == TailAim(a, d, aims, b, 3)
             z == TailAim(a, d, aims, b, 4)
  <2>6. w.aim = "Pop" /\ TailOf(a, d, b, v, y, z)
    BY <2>5, TailFacts
  <2>7. x = TailAim(a, d, aims, b, r)
    BY <2>4 DEF TailAim, x, h
  <2>8. y = aims[h + (4*b + 3)]
    BY DEF TailAim, h
  <2> HIDE DEF w, v, y, z
  <2>9. r = 2
    <3>1. r = 1 \/ r = 2 \/ r = 3 \/ r = 4
      OBVIOUS
    <3>2. r # 1
      BY <1>5, <2>6, <2>7 DEF w
    <3>3. y.aim # "ReadMove" /\ z.aim # "ReadMove"
      BY <2>6 DEF TailOf
    <3>4. r # 3 /\ r # 4
      BY <1>5, <2>7, <3>3 DEF y, z
    <3> QED
      BY <3>1, <3>2, <3>4
  <2>10. x = v
    BY <2>7, <2>9 DEF v
  <2>11. y.aim = "NegJump" /\ y.at = q
    <3>1. y.aim = "NegJump" /\ y.at = v.post + a.coef
      BY <1>5, <2>6, <2>10 DEF TailOf
    <3> QED
      BY <2>10, <3>1 DEF q, Tran, x
  <2> DEFINE m == h + (4*b + 3)
  <2>12. m \in 1..Len(aims)
    BY <1>1
  <2>13. PcRows(c, aims, m) \subseteq rows
    BY <1>1, <2>12, PcRowsIn DEF rows
  <2>14. Row("direct_transfer", <<y.at, 0, 0>>, "mod_dqpn", <<y.yes>>) \in PcRows(c, aims, m)
    BY <2>8, <2>11 DEF PcRows
  <2> HIDE DEF m
  <2>15. HasRow(rows, "direct_transfer", <<q, 0, 0>>)
    <3>1. Row("direct_transfer", <<y.at, 0, 0>>, "mod_dqpn", <<y.yes>>) \in rows
      BY <2>13, <2>14
    <3> QED
      BY <2>11, <3>1 DEF HasRow, Row
  <2> QED
    BY <2>15 DEF q, x, rows
<1> QED
  BY <1>3, <1>4, <1>5 DEF IsRead

\* Both ways of a jump have a row.
LEMMA JumpLeads ==
  ASSUME NEW c, NEW aims, NEW row \in PcTran(c, aims)
  PROVE  /\ row.t = "check_traverse_end" =>
              /\ HasRow(PcTran(c, aims), "direct_transfer", <<row.k[1], 0, 0>>)
              /\ HasRow(PcTran(c, aims), "direct_transfer", <<row.k[1], 1, 0>>)
         /\ row.t = "read_update_max_entry" =>
              /\ HasRow(PcTran(c, aims), "direct_transfer", <<row.k[1], 0, 1>>)
              /\ HasRow(PcTran(c, aims), "direct_transfer", <<row.k[1], 0, 2>>)
<1> DEFINE rows == PcTran(c, aims)
<1>1. PICK i \in DOMAIN aims : row \in PcRows(c, aims, i)
  BY DEF PcTran
<1> DEFINE y == aims[i]
<1>2. PcRows(c, aims, i) \subseteq rows
  BY DEF PcTran
<1>3. row.t = "check_traverse_end" => y.aim = "NegJump" /\ row.k[1] = y.at
  BY <1>1 DEF PcRows, Row
<1>4. row.t = "read_update_max_entry" => y.aim = "DecJump" /\ row.k[1] = y.at
  BY <1>1 DEF PcRows, Row
<1>5. y.aim = "NegJump" =>
        /\ Row("direct_transfer", <<y.at, 0, 0>>, "mod_dqpn", <<y.yes>>) \in PcRows(c, aims, i)
        /\ Row("direct_transfer", <<y.at, 1, 0>>, "mod_dqpn", <<y.no>>) \in PcRows(c, aims, i)
  BY DEF PcRows
<1>6. y.aim = "DecJump" =>
        /\ Row("direct_transfer", <<y.at, 0, 1>>, "mod_dqpn", <<y.no>>) \in PcRows(c, aims, i)
        /\ Row("direct_transfer", <<y.at, 0, 2>>, "mod_dqpn", <<y.yes>>) \in PcRows(c, aims, i)
  BY DEF PcRows
<1> HIDE DEF rows, y
<1>7. \A k, act, arg : Row("direct_transfer", k, act, arg) \in rows => HasRow(rows, "direct_transfer", k)
  BY DEF HasRow, Row
<1>8. ASSUME row.t = "check_traverse_end"
      PROVE  /\ HasRow(rows, "direct_transfer", <<row.k[1], 0, 0>>)
             /\ HasRow(rows, "direct_transfer", <<row.k[1], 1, 0>>)
  BY <1>2, <1>3, <1>5, <1>7, <1>8
<1>9. ASSUME row.t = "read_update_max_entry"
      PROVE  /\ HasRow(rows, "direct_transfer", <<row.k[1], 0, 1>>)
             /\ HasRow(rows, "direct_transfer", <<row.k[1], 0, 2>>)
  BY <1>2, <1>4, <1>6, <1>7, <1>9
<1> QED
  BY <1>8, <1>9 DEF rows

\* A loop's fake state, given out, is left again.
LEMMA FakeLeads ==
  ASSUME NEW a, Given(a), NEW d, Open(a, d), NEW aims, Merged(a, d, aims),
         NEW c, NEW f \in Fakes(a, d.fake)
  PROVE  \/ HasRow(PcTran(c, aims), "direct_transfer", <<f, 0, 0>>)
         \/ CountsAt(PcTran(c, aims), f)
<1> DEFINE n == Loops(a, d)
           h == Len(d.head)
           b == d.fake - 1 - f
           rows == PcTran(c, aims)
           w == TailAim(a, d, aims, b, 1)
           v == TailAim(a, d, aims, b, 2)
           y == TailAim(a, d, aims, b, 3)
           z == TailAim(a, d, aims, b, 4)
           m == h + (4*b + 3)
<1>1. h \in Nat \ {0} /\ n \in Nat /\ Len(aims) = h + 4 * n /\ aims \in Seq(Aims)
  BY DEF Merged
<1>2. b \in 0..(n - 1) /\ d.fake - 1 - b = f
  <2>1. d.fake \in Int /\ a.task \in Nat
    BY OpenTypes
  <2> QED
    BY <2>1 DEF Fakes, Loops
<1>3. TailOf(a, d, b, v, y, z)
  BY <1>2, TailFacts
<1>4. y = aims[m]
  BY DEF TailAim
<1>5. m \in 1..Len(aims)
  <2> HIDE DEF h, b, n
  <2> QED
    BY <1>1, <1>2
<1>6. PcRows(c, aims, m) \subseteq rows
  BY <1>1, <1>5, PcRowsIn
<1> HIDE DEF n, h, b, rows, w, v, y, z, m
<1>7. \/ y.aim = "NegJump" /\ y.fake = f
      \/ y.aim = "DecJump" /\ y.at = f
  BY <1>2, <1>3 DEF TailOf
<1>8. CASE y.aim = "NegJump"
  <2>1. Row("direct_transfer", <<y.fake, 0, 0>>, "mod_dqpn", <<y.at - c.coef>>) \in PcRows(c, aims, m)
    BY <1>4, <1>8 DEF PcRows
  <2> DEFINE back == y.at - c.coef
  <2> HIDE DEF back
  <2>2. Row("direct_transfer", <<f, 0, 0>>, "mod_dqpn", <<back>>) \in rows
    BY <1>6, <1>7, <1>8, <2>1 DEF back
  <2>3. HasRow(rows, "direct_transfer", <<f, 0, 0>>)
    BY <2>2 DEF HasRow, Row
  <2> QED
    BY <2>3 DEF rows
<1>9. CASE y.aim = "DecJump"
  <2>1. Row("read_update_max_entry", <<y.at>>, "update_max_entry", <<y.seq>>) \in PcRows(c, aims, m)
    BY <1>4, <1>9 DEF PcRows
  <2>2. Row("read_update_max_entry", <<f>>, "update_max_entry", <<y.seq>>) \in rows
    BY <1>6, <1>7, <1>9, <2>1
  <2>3. CountsAt(rows, f)
    BY <2>2 DEF CountsAt, Row
  <2> QED
    BY <2>3 DEF rows
<1> QED
  BY <1>7, <1>8, <1>9

-----------------------------------------------------------------------------
\* Rows that move no packet; the PSNs among them are those of the policy's numbers.
Elsewhere(a, d, row) ==
  /\ ~ (row.t \in {"end_transfer", "check_null", "direct_transfer", "check_traverse_end"})
  /\ row.t = "read_update_max_entry" => row.act # "update_max_entry"
  /\ row.t = "read_update_psn" => row.k[1] \in (a.start + 1)..(d.avail + 3)

\* The rows of gen_psn_mapping: one for every number given out.
LEMMA PsnNumbers ==
  ASSUME NEW a, Given(a), NEW d, Open(a, d), NEW aims, Merged(a, d, aims), NEW c
  PROVE  /\ \A row \in PsnMapping(c, aims) : Elsewhere(a, d, row)
         /\ \A p \in PostRange(a, d.avail) :
              p \in Numbered(PsnMapping(c, aims))
<1>1. aims \in Seq(Aims) /\ d.avail \in Int /\ a.start \in Int
  BY OpenTypes DEF Merged
<1>2. ASSUME NEW p PROVE PsnRow(c, p).t = "read_update_psn" /\ PsnRow(c, p).k[1] = p
  BY DEF PsnRow, Row
<1>3. ASSUME NEW x \in Reads(aims) PROVE Elsewhere(a, d, PsnRow(c, x.post))
  <2>1. PICK k \in 1..Len(aims) : x = aims[k] /\ IsRead(x)
    BY <1>1, ReadAims
  <2>2. x.post \in PostRange(a, d.avail)
    BY <2>1, MergedRegs DEF AimRegs
  <2>3. x.post \in (a.start + 1)..(d.avail + 3)
    BY <1>1, <2>2 DEF PostRange
  <2> QED
    BY <1>2, <2>3 DEF Elsewhere
<1>4. ASSUME NEW p \in PostRange(a, d.avail)
      PROVE  p \in Numbered(PsnMapping(c, aims))
  <2>1. PICK k \in 1..Len(aims) : IsRead(aims[k]) /\ aims[k].post = p
    BY PostsAreReads
  <2>2. aims[k] \in Reads(aims)
    BY <1>1, <2>1, ReadAims
  <2>3. PsnRow(c, p) \in PsnMapping(c, aims)
    BY <2>1, <2>2 DEF PsnMapping
  <2>4. PsnRow(c, p).t = "read_update_psn" /\ PsnRow(c, p).k[1] = p
    BY <1>2
  <2> QED
    BY <2>3, <2>4 DEF Numbered
<1>5. \A row \in PsnMapping(c, aims) : Elsewhere(a, d, row)
  BY <1>3 DEF PsnMapping
<1> QED
  BY <1>4, <1>5

\* The rows of the page walk (gen_pgt_aims_code).
LEMMA PgtElsewhere ==
  ASSUME NEW a, Given(a), NEW d, Open(a, d), NEW c,
         c.pgt = [i \in 1..4 |-> Load(0, <<>>, d.avail + i - 1, NoTran, None, <<>>)],
         NEW row \in PgtAims(c)
  PROVE  Elsewhere(a, d, row)
<1>1. PICK i \in 1..4 :
        \/ row = PsnRow(c, c.pgt[i].post)
        \/ row \in {AddOffset(c.pgt[i].post, 0, <<"pgd", "pud", "pmd", "pte">>[i]),
                    MakeUp(c.pgt[i].post, 0),
                    PageReg(c.pgt[i].post, 0, c.task, IF i = 1 THEN "cache" ELSE "read")}
        \/ row \in OffsetRow(c.pgt[i].post, c.pgt[i].post, 0)
        \/ row = Mask(c.pgt[i].post, 0)
        \/ row = Row("pgt_transfer", <<Tran(c, c.pgt[i].post), 0>>, "pgt_mod_dqpn",
                        <<c.pgt[i+1].post, c.pgt[i+1].post>>)
        \/ row = Row("mark_walking_bit", <<Tran(c, c.pgt[i].post)>>, "mark_walking_bit", <<>>)
        \/ row \in WalkReg(Tran(c, c.pgt[i].post), 0, 1, c.task, "read")
  BY DEF PgtAims
<1> DEFINE post == c.pgt[i].post
<1>2. post = d.avail + i - 1
  BY DEF Load
<1>3. post \in (a.start + 1)..(d.avail + 3)
  <2>1. d.avail \in Int /\ a.start \in Int /\ d.avail >= a.start + 1
    BY OpenTypes
  <2> HIDE DEF post
  <2> QED
    BY <1>2, <2>1
<1>4. CASE row = PsnRow(c, post)
  <2> HIDE DEF post
  <2>1. row.t = "read_update_psn" /\ row.k[1] = post
    BY <1>4 DEF PsnRow, Row
  <2> QED
    BY <1>3, <2>1 DEF Elsewhere
<1>5. CASE row # PsnRow(c, post)
  <2>1. row.t \in {"add_offset", "make_up_addr", "cache_process_page_addr_to_reg",
                   "encode_mod_offset", "mod_field_parameters", "mask_base_addr", "pgt_transfer",
                   "mark_walking_bit", "cache_dqpn_page_walk", "cache_qpn_page_walk"}
    BY <1>1, <1>5 DEF AddOffset, MakeUp, PageReg, OffsetRow, Mask, WalkReg, Row
  <2> QED
    BY <2>1 DEF Elsewhere
<1> QED
  BY <1>4, <1>5

\* The rows of the other generators.
LEMMA OthersElsewhere ==
  ASSUME NEW a, NEW d, NEW c, NEW aims,
         NEW row \in PerAim(c, aims) \union OffsetEncoding(aims) \union LoadMax(c, aims)
                       \union ReadMovePgtWalk(c, aims)
  PROVE  Elsewhere(a, d, row)
<1>1. CASE row \in PerAim(c, aims)
  <2>1. row.t \in {"end_of_fetching", "read_update_ts_start", "cloning", "exact_match",
                   "range_match", "gen_mali_alarm"}
    BY <1>1 DEF PerAim, Row
  <2> QED
    BY <2>1 DEF Elsewhere
<1>2. CASE row \in OffsetEncoding(aims)
  <2>1. row.t \in {"encode_mod_offset", "mod_field_parameters"}
    BY <1>2 DEF OffsetEncoding, OffsetRow, Row
  <2> QED
    BY <2>1 DEF Elsewhere
<1>3. CASE row \in LoadMax(c, aims)
  <2>1. \/ row.t = "cache_len_into_md"
        \/ row.t = "read_update_max_entry" /\ row.act \in {"read_const_length", "read_max_entry"}
    BY <1>3 DEF LoadMax, Row
  <2> QED
    BY <2>1 DEF Elsewhere
<1>4. CASE row \in ReadMovePgtWalk(c, aims)
  <2>1. row.t \in {"mark_vmalloc_bit_p1", "pgt_transfer", "add_offset", "mask_base_addr",
                   "make_up_addr", "cache_process_page_addr_to_reg", "cache_dqpn_page_walk",
                   "cache_qpn_page_walk"}
    BY <1>4 DEF ReadMovePgtWalk, AddOffset, Mask, MakeUp, PageReg, WalkReg, Row
  <2> QED
    BY <2>1 DEF Elsewhere
<1> QED
  BY <1>1, <1>2, <1>3, <1>4

-----------------------------------------------------------------------------
\* The rows of a policy as a graph: where they lead, that every state has a way on,
\* and that every state sent to has a PSN.
Graph(a, d, c, rows) ==
  /\ \A row \in rows : PcOk(a, d, row)
  /\ \A q \in Clients(a, d) :
       HasRow(rows, "end_transfer", <<q>>) \/ HasRow(rows, "direct_transfer", <<q, 0, 0>>)
  /\ \A q \in Inits(c) : HasRow(rows, "end_transfer", <<q>>)
  /\ \A row \in rows : row.t = "check_traverse_end" =>
       /\ HasRow(rows, "direct_transfer", <<row.k[1], 0, 0>>)
       /\ HasRow(rows, "direct_transfer", <<row.k[1], 1, 0>>)
  /\ \A row \in rows : row.t = "read_update_max_entry" /\ row.act = "update_max_entry" =>
       /\ HasRow(rows, "direct_transfer", <<row.k[1], 0, 1>>)
       /\ HasRow(rows, "direct_transfer", <<row.k[1], 0, 2>>)
  /\ \A f \in Fakes(a, d.fake) :
       \/ HasRow(rows, "direct_transfer", <<f, 0, 0>>)
       \/ CountsAt(rows, f)
  /\ PostRange(a, d.avail) \subseteq Numbered(rows)
  /\ Numbered(rows) \subseteq (a.start + 1)..(d.avail + 3)

\* A policy that starts has a row for the response to its trigger.
LEMMA InitLeads ==
  ASSUME NEW a, Given(a), NEW c, NEW d, Compiled(a, c, d), NEW q \in Inits(c)
  PROVE  HasRow(PcTran(c, AllAims(c)), "end_transfer", <<q>>)
<1> DEFINE aims == AllAims(c)
           h == Len(d.head)
           rows == PcTran(c, aims)
<1>1. Open(a, d) /\ Merged(a, d, aims)
  BY MergedAims DEF Compiled
<1>2. h \in Nat \ {0} /\ Loops(a, d) \in Nat /\ Len(aims) = h + 4 * Loops(a, d)
      /\ aims \in Seq(Aims) /\ \A k \in 1..(h - 1) : aims[k] = d.head[k]
  BY <1>1 DEF Merged
<1>3. /\ d.head \in Seq(Aims) /\ DOMAIN d.head = 1..h
      /\ c.head = [d.head EXCEPT ![h] = [d.head[h] EXCEPT !.tran = d.end]]
      /\ d.head[h].aim = "ReadLoad"
  BY <1>1, OpenTypes, LenProperties DEF Compiled
<1>4. PICK x \in ToSet(c.head) : x.aim = "Init" /\ q = x.init
  BY DEF Inits
<1>5. PICK k \in 1..h : x = c.head[k]
  BY <1>3, <1>4 DEF ToSet
<1>6. k # h
  <2>1. SUFFICES ASSUME k = h PROVE FALSE
    OBVIOUS
  <2> DEFINE y == d.head[h]
  <2>2. x = [y EXCEPT !.tran = d.end]
    BY <1>3, <1>5, <2>1
  <2>3. h \in 1..h
    BY <1>2
  <2>4. y \in Aims /\ y.aim = "ReadLoad" /\ d.end \in Pair
    BY <1>1, <1>3, <2>3, OpenTypes, ElementOfSeq
  <2> HIDE DEF y
  <2>5. x.aim = "ReadLoad"
    BY <2>2, <2>4, LoadTran
  <2> QED
    BY <1>4, <2>5
<1>7. x = aims[k] /\ k \in 1..Len(aims)
  <2>1. k \in 1..(h - 1)
    BY <1>2, <1>6
  <2>2. c.head[k] = d.head[k]
    BY <1>3, <1>6
  <2>3. aims[k] = d.head[k]
    BY <1>2, <2>1
  <2> HIDE DEF aims, h
  <2> QED
    BY <1>2, <1>5, <2>2, <2>3
<1> HIDE DEF aims
<1>8. Row("end_transfer", <<q>>, "mod_qpn_dqpn", <<q, NextPost(aims, k)>>) \in PcRows(c, aims, k)
  BY <1>4, <1>7 DEF PcRows
<1>9. PcRows(c, aims, k) \subseteq rows
  BY <1>2, <1>7, PcRowsIn
<1> DEFINE next == NextPost(aims, k)
<1> HIDE DEF rows, next
<1>10. Row("end_transfer", <<q>>, "mod_qpn_dqpn", <<q, next>>) \in rows
  BY <1>8, <1>9 DEF next
<1>11. HasRow(rows, "end_transfer", <<q>>)
  BY <1>10 DEF HasRow, Row
<1> QED
  BY <1>11 DEF rows, aims

\* A table with more rows has them still.
LEMMA HasMore ==
  ASSUME NEW rows, NEW more, rows \subseteq more, NEW t, NEW k, HasRow(rows, t, k)
  PROVE  HasRow(more, t, k)
BY DEF HasRow

\* All rows of a policy together.
LEMMA CodeIsGraph ==
  ASSUME NEW a, Given(a), NEW c, NEW d, Compiled(a, c, d)
  PROVE  Graph(a, d, c, CodeGen(c))
<1> DEFINE aims == AllAims(c)
           rows == CodeGen(c)
           pc == PcTran(c, aims)
<1>1. Open(a, d) /\ Merged(a, d, aims) /\ c.coef = a.coef
      /\ c.pgt = [i \in 1..4 |-> Load(0, <<>>, d.avail + i - 1, NoTran, None, <<>>)]
  BY MergedAims DEF Compiled
<1>2. rows = PerAim(c, aims) \union pc \union BaseOperation(c, aims)
        \union PsnMapping(c, aims) \union OffsetEncoding(aims) \union LoadMax(c, aims)
        \union ReadMovePgtWalk(c, aims) \union PgtAims(c)
  BY DEF CodeGen
<1>3. ASSUME NEW row \in BaseOperation(c, aims) PROVE Elsewhere(a, d, row)
  <2>1. RowsIn(Bases(a, d), BaseOperation(c, aims))
    BY BasesApart
  <2>2. row.t \in {"cache_process_addr_to_reg", "cache_size_into_md", "encode_mod_offset_pre",
                   "mod_field_parameters_pre"}
    BY <2>1 DEF RowsIn
  <2> QED
    BY <2>2 DEF Elsewhere
<1>a. ASSUME NEW q \in Inits(c) PROVE HasRow(pc, "end_transfer", <<q>>)
  BY InitLeads
<1> HIDE DEF aims, rows, pc
<1>4. ASSUME NEW row \in rows, ~ (row \in pc) PROVE Elsewhere(a, d, row)
  <2>1. row \in PerAim(c, aims) \union OffsetEncoding(aims) \union LoadMax(c, aims)
                       \union ReadMovePgtWalk(c, aims) => Elsewhere(a, d, row)
    BY OthersElsewhere
  <2>2. row \in PsnMapping(c, aims) => Elsewhere(a, d, row)
    BY <1>1, PsnNumbers
  <2>3. row \in PgtAims(c) => Elsewhere(a, d, row)
    BY <1>1, PgtElsewhere
  <2> QED
    BY <1>2, <1>3, <1>4, <2>1, <2>2, <2>3
<1>5. pc \subseteq rows
  BY <1>2
<1>6. \A row \in rows : PcOk(a, d, row)
  <2>1. \A row \in pc : PcOk(a, d, row)
    BY <1>1, PcTranOk DEF pc
  <2>2. \A row : Elsewhere(a, d, row) => PcOk(a, d, row)
    BY DEF Elsewhere, PcOk
  <2> QED
    BY <1>4, <2>1, <2>2
<1>7. \A q \in Clients(a, d) :
        HasRow(rows, "end_transfer", <<q>>) \/ HasRow(rows, "direct_transfer", <<q, 0, 0>>)
  <2>1. TAKE q \in Clients(a, d)
  <2>2. PICK p \in PostRange(a, d.avail) : q = p + a.coef
    BY DEF Clients
  <2>3. PICK k \in 1..Len(aims) : IsRead(aims[k]) /\ aims[k].post = p
    BY <1>1, PostsAreReads
  <2>4. Tran(c, aims[k].post) = q
    BY <1>1, <2>2, <2>3 DEF Tran
  <2>5. HasRow(pc, "end_transfer", <<q>>) \/ HasRow(pc, "direct_transfer", <<q, 0, 0>>)
    BY <1>1, <2>3, <2>4, ReadLeads DEF pc
  <2> QED
    BY <1>5, <2>5, HasMore
<1>8. \A q \in Inits(c) : HasRow(rows, "end_transfer", <<q>>)
  BY <1>5, <1>a, HasMore
<1>9. \A row \in rows : row.t = "check_traverse_end" =>
        /\ HasRow(rows, "direct_transfer", <<row.k[1], 0, 0>>)
        /\ HasRow(rows, "direct_transfer", <<row.k[1], 1, 0>>)
  <2>1. ASSUME NEW row \in rows, row.t = "check_traverse_end"
        PROVE  /\ HasRow(rows, "direct_transfer", <<row.k[1], 0, 0>>)
               /\ HasRow(rows, "direct_transfer", <<row.k[1], 1, 0>>)
    <3>1. row \in pc
      BY <1>4, <2>1 DEF Elsewhere
    <3>2. /\ HasRow(pc, "direct_transfer", <<row.k[1], 0, 0>>)
          /\ HasRow(pc, "direct_transfer", <<row.k[1], 1, 0>>)
      BY <2>1, <3>1, JumpLeads DEF pc
    <3> QED
      BY <1>5, <3>2, HasMore
  <2> QED
    BY <2>1
<1>10. \A row \in rows : row.t = "read_update_max_entry" /\ row.act = "update_max_entry" =>
         /\ HasRow(rows, "direct_transfer", <<row.k[1], 0, 1>>)
         /\ HasRow(rows, "direct_transfer", <<row.k[1], 0, 2>>)
  <2>1. ASSUME NEW row \in rows, row.t = "read_update_max_entry", row.act = "update_max_entry"
        PROVE  /\ HasRow(rows, "direct_transfer", <<row.k[1], 0, 1>>)
               /\ HasRow(rows, "direct_transfer", <<row.k[1], 0, 2>>)
    <3>1. row \in pc
      BY <1>4, <2>1 DEF Elsewhere
    <3>2. /\ HasRow(pc, "direct_transfer", <<row.k[1], 0, 1>>)
          /\ HasRow(pc, "direct_transfer", <<row.k[1], 0, 2>>)
      BY <2>1, <3>1, JumpLeads DEF pc
    <3> QED
      BY <1>5, <3>2, HasMore
  <2> QED
    BY <2>1
<1>11. \A f \in Fakes(a, d.fake) :
         \/ HasRow(rows, "direct_transfer", <<f, 0, 0>>)
         \/ CountsAt(rows, f)
  <2>1. TAKE f \in Fakes(a, d.fake)
  <2>2. \/ HasRow(pc, "direct_transfer", <<f, 0, 0>>)
        \/ CountsAt(pc, f)
    BY <1>1, FakeLeads DEF pc
  <2> QED
    BY <1>5, <2>2, HasMore DEF CountsAt
<1>12. PostRange(a, d.avail) \subseteq Numbered(rows)
  <2>1. \A p \in PostRange(a, d.avail) : p \in Numbered(PsnMapping(c, aims))
    BY <1>1, PsnNumbers
  <2>2. Numbered(PsnMapping(c, aims)) \subseteq Numbered(rows)
    BY <1>2 DEF Numbered
  <2> QED
    BY <2>1, <2>2
<1>13. Numbered(rows) \subseteq (a.start + 1)..(d.avail + 3)
  <2>1. ASSUME NEW row \in rows, row.t = "read_update_psn"
        PROVE  row.k[1] \in (a.start + 1)..(d.avail + 3)
    <3>1. ~ (row \in pc)
      <4>1. SUFFICES ASSUME row \in pc PROVE FALSE
        OBVIOUS
      <4>2. row.t \in {"end_transfer", "check_null", "direct_transfer", "check_traverse_end",
                       "read_update_max_entry"}
        BY <4>1 DEF pc, PcTran, PcRows, Row
      <4> QED
        BY <2>1, <4>2
    <3> QED
      BY <1>4, <2>1, <3>1 DEF Elsewhere
  <2> QED
    BY <2>1 DEF Numbered
<1>14. Graph(a, d, c, rows)
  BY <1>6, <1>7, <1>8, <1>9, <1>10, <1>11, <1>12, <1>13 DEF Graph
<1> QED
  BY <1>14 DEF rows

-----------------------------------------------------------------------------
\* The steps of a packet through the three tables that move it.
Moved(rows, t, s, k) ==
  IF Of(rows, t, k) = {} THEN {s} ELSE {r.arg : r \in Of(rows, t, k)}
Ended(rows, q) == Moved(rows, "end_transfer", <<q, q>>, <<q>>)
AfterNull(rows, q) ==
  Ended(rows, q) \cup UNION {Moved(rows, "check_null", s, <<s[1], 0>>) : s \in Ended(rows, q)}
CountsOf(rows, s) ==
  IF \E r \in Of(rows, "read_update_max_entry", <<s[1]>>) : r.act = "update_max_entry"
  THEN {1, 2} ELSE {0}
EndsOf(rows, s) ==
  IF \E r \in rows : r.t = "check_traverse_end" /\ r.k[1] = s[1] THEN {0, 1} ELSE {0}
DirectAt(rows, s, e, n) ==
  IF Of(rows, "direct_transfer", <<s[1], e, n>>) = {} THEN {s[2]}
  ELSE {r.arg[1] : r \in Of(rows, "direct_transfer", <<s[1], e, n>>)}

\* The targets of a state are what these steps make of it.
LEMMA TargetSteps ==
  ASSUME NEW rows, NEW q, NEW x \in Targets(rows, q)
  PROVE  \E s \in AfterNull(rows, q) : \E e \in EndsOf(rows, s), n \in CountsOf(rows, s) :
           x \in DirectAt(rows, s, e, n)
<1> DEFINE Direct(s) ==
             UNION {DirectAt(rows, s, e, n) : e \in EndsOf(rows, s), n \in CountsOf(rows, s)}
<1>1. Targets(rows, q) = UNION {Direct(s) : s \in AfterNull(rows, q)}
  BY DEF Targets, Moved, Ended, AfterNull, CountsOf, EndsOf, DirectAt
<1>2. PICK s \in AfterNull(rows, q) :
        x \in UNION {DirectAt(rows, s, e, n) : e \in EndsOf(rows, s), n \in CountsOf(rows, s)}
  BY <1>1
<1> QED
  BY <1>2

\* The pair of states of a packet after the first two tables: an exit; the next
\* READ; or neither table had a row, and the third one has.
PairOk(a, d, rows, q, s) ==
  \/ IsExit(a, d.fake, s)
  \/ s[2] \in PostRange(a, d.avail)
  \/ s[1] = q /\ q \in Clients(a, d) /\ HasRow(rows, "direct_transfer", <<q, 0, 0>>)

\* Every pair after them is one of these.
LEMMA PairsOk ==
  ASSUME NEW a, NEW d, NEW c, NEW rows, Graph(a, d, c, rows),
         NEW q \in Clients(a, d) \cup Inits(c), NEW s \in AfterNull(rows, q)
  PROVE  PairOk(a, d, rows, q, s)
<1>1. \A row \in rows : PcOk(a, d, row)
  BY DEF Graph
<1>2. ASSUME NEW u \in Ended(rows, q) PROVE PairOk(a, d, rows, q, u)
  <2>1. CASE Of(rows, "end_transfer", <<q>>) = {}
    <3>1. u = <<q, q>>
      BY <2>1 DEF Ended, Moved
    <3>2. ~ HasRow(rows, "end_transfer", <<q>>)
      BY <2>1 DEF Of, HasRow
    <3>3. q \in Clients(a, d) /\ HasRow(rows, "direct_transfer", <<q, 0, 0>>)
      BY <3>2 DEF Graph
    <3> QED
      BY <3>1, <3>3 DEF PairOk
  <2>2. CASE Of(rows, "end_transfer", <<q>>) # {}
    <3>1. PICK r \in rows : r.t = "end_transfer" /\ r.k = <<q>> /\ u = r.arg
      BY <2>2 DEF Ended, Moved, Of
    <3>2. PcOk(a, d, r)
      BY <1>1
    <3>3. IsExit(a, d.fake, r.arg) \/ r.arg[2] \in PostRange(a, d.avail)
      BY <3>1, <3>2 DEF PcOk
    <3> QED
      BY <3>1, <3>3 DEF PairOk
  <2> QED
    BY <2>1, <2>2
<1>3. CASE s \in Ended(rows, q)
  BY <1>2, <1>3
<1>4. ASSUME NEW u \in Ended(rows, q), s \in Moved(rows, "check_null", u, <<u[1], 0>>)
      PROVE  PairOk(a, d, rows, q, s)
  <2>1. CASE s = u
    BY <1>2, <2>1
  <2>2. CASE s # u
    <3>1. PICK r \in rows : r.t = "check_null" /\ s = r.arg
      BY <1>4, <2>2 DEF Moved, Of
    <3>2. IsExit(a, d.fake, r.arg)
      BY <1>1, <3>1 DEF PcOk
    <3> QED
      BY <3>1, <3>2 DEF PairOk
  <2> QED
    BY <2>1, <2>2
<1> QED
  BY <1>3, <1>4 DEF AfterNull

\* The numbers of a policy that the rows tell apart: the client QPNs of its READs,
\* its fake states, and the two of its end.
Apart(a, d) ==
  /\ Clients(a, d) \cap Fakes(a, d.fake) = {}
  /\ ~ (998 - a.task \in Clients(a, d) \cup Fakes(a, d.fake))

\* The third table sends such a packet to a READ of the policy, or ends the walk.
LEMMA DirectOk ==
  ASSUME NEW a, NEW d, Apart(a, d), NEW c, NEW rows, Graph(a, d, c, rows),
         NEW q, NEW s, PairOk(a, d, rows, q, s),
         NEW e \in EndsOf(rows, s), NEW n \in CountsOf(rows, s), NEW x \in DirectAt(rows, s, e, n)
  PROVE  x \in PostRange(a, d.avail) \cup {999 - a.task}
<1>1. \A row \in rows : PcOk(a, d, row)
  BY DEF Graph
<1>2. \/ \E r \in rows : r.t = "direct_transfer" /\ x = r.arg[1]
      \/ ~ HasRow(rows, "direct_transfer", <<s[1], e, n>>) /\ x = s[2]
  BY DEF DirectAt, Of, HasRow
<1>3. CASE \E r \in rows : r.t = "direct_transfer" /\ x = r.arg[1]
  <2>1. PICK r \in rows : r.t = "direct_transfer" /\ x = r.arg[1]
    BY <1>3
  <2>2. r.arg[1] \in PostRange(a, d.avail)
    BY <1>1, <2>1 DEF PcOk
  <2> QED
    BY <2>1, <2>2
<1>4. CASE ~ HasRow(rows, "direct_transfer", <<s[1], e, n>>) /\ x = s[2]
  <2>1. e = 0 \/ (e = 1 /\ \E r \in rows : r.t = "check_traverse_end" /\ r.k[1] = s[1])
    BY DEF EndsOf
  <2>2. e = 1 => s[1] \in Clients(a, d) /\ HasRow(rows, "direct_transfer", <<s[1], 1, 0>>)
    <3>1. SUFFICES ASSUME e = 1 PROVE s[1] \in Clients(a, d) /\ HasRow(rows, "direct_transfer", <<s[1], 1, 0>>)
      OBVIOUS
    <3>2. PICK r \in rows : r.t = "check_traverse_end" /\ r.k[1] = s[1]
      BY <2>1, <3>1
    <3>3. HasRow(rows, "direct_transfer", <<r.k[1], 1, 0>>)
      BY <3>2 DEF Graph
    <3>4. r.k[1] \in Clients(a, d)
      BY <1>1, <3>2 DEF PcOk
    <3> QED
      BY <3>2, <3>3, <3>4
  <2>3. (n = 0 /\ ~ CountsAt(rows, s[1])) \/ (n \in {1, 2} /\ CountsAt(rows, s[1]))
    BY DEF CountsOf, CountsAt, Of
  <2>4. CountsAt(rows, s[1]) => /\ s[1] \in Fakes(a, d.fake)
                                /\ HasRow(rows, "direct_transfer", <<s[1], 0, 1>>)
                                /\ HasRow(rows, "direct_transfer", <<s[1], 0, 2>>)
    <3>1. SUFFICES ASSUME CountsAt(rows, s[1])
                   PROVE  /\ s[1] \in Fakes(a, d.fake)
                          /\ HasRow(rows, "direct_transfer", <<s[1], 0, 1>>)
                          /\ HasRow(rows, "direct_transfer", <<s[1], 0, 2>>)
      OBVIOUS
    <3>2. PICK r \in rows : r.t = "read_update_max_entry" /\ r.k = <<s[1]>> /\ r.act = "update_max_entry"
      BY <3>1 DEF CountsAt
    <3>3. HasRow(rows, "direct_transfer", <<r.k[1], 0, 1>>) /\ HasRow(rows, "direct_transfer", <<r.k[1], 0, 2>>)
      BY <3>2 DEF Graph
    <3>4. r.k[1] \in Fakes(a, d.fake)
      BY <1>1, <3>2 DEF PcOk
    <3>5. r.k[1] = s[1]
      BY <3>2
    <3> QED
      BY <3>3, <3>4, <3>5
  <2>5. CASE s[2] \in PostRange(a, d.avail)
    BY <1>4, <2>5
  <2>6. CASE s = <<998 - a.task, 999 - a.task>>
    <3>1. s[2] = 999 - a.task
      BY <2>6
    <3> QED
      BY <1>4, <3>1
  <2>7. CASE s[1] \in Fakes(a, d.fake)
    <3>1. e = 0
      BY <2>1, <2>2, <2>7 DEF Apart
    <3>2. CASE CountsAt(rows, s[1])
      BY <1>4, <2>3, <2>4, <3>1, <3>2
    <3>3. CASE ~ CountsAt(rows, s[1])
      <4>1. HasRow(rows, "direct_transfer", <<s[1], 0, 0>>)
        BY <2>7, <3>3 DEF Graph
      <4> QED
        BY <1>4, <2>3, <3>1, <3>3, <4>1
    <3> QED
      BY <3>2, <3>3
  <2>8. CASE s[1] = q /\ q \in Clients(a, d) /\ HasRow(rows, "direct_transfer", <<q, 0, 0>>)
    <3>1. ~ CountsAt(rows, s[1])
      BY <2>4, <2>8 DEF Apart
    <3>2. n = 0
      BY <2>3, <3>1
    <3> QED
      BY <1>4, <2>1, <2>2, <2>8, <3>2
  <2> QED
    BY <2>5, <2>6, <2>7, <2>8 DEF PairOk, IsExit
<1> QED
  BY <1>2, <1>3, <1>4

\* From a state of the policy the rows lead to a state of the policy, or to its end.
LEMMA TargetsIn ==
  ASSUME NEW a, NEW d, Apart(a, d), NEW c, NEW rows, Graph(a, d, c, rows),
         NEW q \in Clients(a, d) \cup Inits(c)
  PROVE  Targets(rows, q) \subseteq PostRange(a, d.avail) \cup {999 - a.task}
<1>1. SUFFICES ASSUME NEW x \in Targets(rows, q) PROVE x \in PostRange(a, d.avail) \cup {999 - a.task}
  OBVIOUS
<1>2. PICK s \in AfterNull(rows, q) :
        \E e \in EndsOf(rows, s), n \in CountsOf(rows, s) : x \in DirectAt(rows, s, e, n)
  BY TargetSteps
<1>3. PICK e \in EndsOf(rows, s), n \in CountsOf(rows, s) : x \in DirectAt(rows, s, e, n)
  BY <1>2
<1>4. PairOk(a, d, rows, q, s)
  BY PairsOk
<1> QED
  BY <1>3, <1>4, DirectOk

-----------------------------------------------------------------------------
\* The client QPNs of a policy and its fake states.
ClientsOf(c) == {Tran(c, x.post) : x \in Reads(AllAims(c))}
FakesOf(c) == (20 * c.task)..(c.fake - 1)
\* The QPNs of the command line, the fake states 20 n.. and the ends 998 - n and
\* 999 - n share one number space, and nothing in the compiler keeps them apart
\* (policy.cc:31-34): what a policy needs for its rows to be read as meant.
NumbersApart(c) ==
  /\ ClientsOf(c) \cap FakesOf(c) = {}
  /\ ~ (998 - c.task \in ClientsOf(c) \cup FakesOf(c))
  /\ ~ (EndOf(c) \in Numbered(CodeGen(c)))

\* So they are told apart by the rows.
LEMMA NumbersAreApart ==
  ASSUME NEW a, Given(a), NEW c, NEW d, Compiled(a, c, d), NumbersApart(c)
  PROVE  Apart(a, d) /\ ~ (999 - a.task \in Numbered(CodeGen(c)))
<1> DEFINE aims == AllAims(c)
<1>1. Open(a, d) /\ c.coef = a.coef /\ c.task = a.task /\ c.fake = d.fake
  BY DEF Compiled
<1>2. Merged(a, d, aims)
  BY MergedAims
<1>3. Clients(a, d) \subseteq ClientsOf(c)
  <2> HIDE DEF aims
  <2>1. SUFFICES ASSUME NEW q \in Clients(a, d) PROVE q \in ClientsOf(c)
    OBVIOUS
  <2>2. PICK p \in PostRange(a, d.avail) : q = p + a.coef
    BY DEF Clients
  <2>a. \E k \in 1..Len(aims) : IsRead(aims[k]) /\ aims[k].post = p
    BY <1>1, <1>2, PostsAreReads, SMTT(30)
  <2>3. PICK k \in 1..Len(aims) : IsRead(aims[k]) /\ aims[k].post = p
    BY <2>a
  <2>4. aims[k] \in Reads(aims)
    BY <1>2, <2>3, ReadAims DEF Merged
  <2>5. Tran(c, aims[k].post) = q
    BY <1>1, <2>2, <2>3 DEF Tran
  <2>6. \E read \in Reads(AllAims(c)) : q = Tran(c, read.post)
    BY <2>4, <2>5 DEF aims
  <2> QED
    BY <2>6 DEF ClientsOf
<1>4. /\ ClientsOf(c) \cap FakesOf(c) = {}
      /\ ~ (998 - c.task \in ClientsOf(c) \cup FakesOf(c))
      /\ ~ (EndOf(c) \in Numbered(CodeGen(c)))
  BY DEF NumbersApart
<1>5. FakesOf(c) = Fakes(a, d.fake)
  BY <1>1 DEF Fakes, FakesOf
<1> HIDE DEF aims
<1>6. Apart(a, d)
  BY <1>1, <1>3, <1>4, <1>5 DEF Apart
<1>7. ~ (999 - a.task \in Numbered(CodeGen(c)))
  BY <1>1, <1>4 DEF EndOf
<1> QED
  BY <1>6, <1>7

-----------------------------------------------------------------------------
\* The search for the states a walk can be in never leaves a set S.
FollowStep(p, r, s, k) == FollowRows(p, r, s)
FollowInv(S, i, s) == s.seen \subseteq S /\ s.new \subseteq S
FollowFold == INSTANCE FoldInduction WITH Step <- FollowStep, Inv <- FollowInv

\* One round of it stays among the states of the policy.
LEMMA FollowStays ==
  ASSUME NEW a, Given(a), NEW d, Apart(a, d), NEW c, c.coef = a.coef,
         NEW rows, Graph(a, d, c, rows), ~ (999 - a.task \in Numbered(rows)),
         NEW s, s.seen \subseteq Clients(a, d) \cup Inits(c),
         s.new \subseteq Clients(a, d) \cup Inits(c)
  PROVE  /\ FollowRows(rows, c, s).seen \subseteq Clients(a, d) \cup Inits(c)
         /\ FollowRows(rows, c, s).new \subseteq Clients(a, d) \cup Inits(c)
<1> DEFINE sent == (UNION {Targets(rows, q) : q \in s.new}) \cap Numbered(rows)
           next == {Tran(c, e) : e \in sent} \ s.seen
<1>1. FollowRows(rows, c, s) = [seen |-> s.seen \cup next, new |-> next]
  BY DEF FollowRows
<1>2. sent \subseteq PostRange(a, d.avail)
  <2>1. \A q \in s.new : Targets(rows, q) \subseteq PostRange(a, d.avail) \cup {999 - a.task}
    BY TargetsIn
  <2> QED
    BY <2>1
<1>3. next \subseteq Clients(a, d)
  <2> HIDE DEF sent
  <2> QED
    BY <1>2 DEF Clients, Tran
<1> HIDE DEF next
<1> QED
  BY <1>1, <1>3

\* Nor does the whole search.
LEMMA ReachableIn ==
  ASSUME NEW a, Given(a), NEW d, Open(a, d), Apart(a, d), NEW c, c.coef = a.coef,
         NEW rows, Graph(a, d, c, rows), ~ (999 - a.task \in Numbered(rows))
  PROVE  Reachable(rows, c) \subseteq Clients(a, d) \cup Inits(c)
<1> DEFINE S == Clients(a, d) \cup Inits(c)
           start == [seen |-> Inits(c), new |-> Inits(c)]
           n == Cardinality(Numbered(rows))
           ks == [k \in 1..n |-> k]
<1>1. n \in Nat
  <2>1. Numbered(rows) \subseteq (a.start + 1)..(d.avail + 3)
    BY DEF Graph
  <2>2. a.start + 1 \in Int /\ d.avail + 3 \in Int
    BY OpenTypes
  <2>3. IsFiniteSet((a.start + 1)..(d.avail + 3))
    BY <2>2, FS_Interval
  <2> QED
    BY <2>1, <2>3, FS_Subset, FS_CardinalityType
<1>2. Reachable(rows, c) = FollowFold!Run(rows, c, start, ks).seen
  BY DEF Reachable, FollowFold!Run, FollowStep, FoldLeft, FollowFold!FoldLeft,
         MapThenFoldSet, FollowFold!MapThenFoldSet, Max, FollowFold!Max
<1>3. DOMAIN ks = 1..n
  OBVIOUS
<1>4. FollowInv(S, 0, start)
  BY DEF FollowInv
<1> HIDE DEF n, start, ks
<1>5. \A i \in 1..n : \A s : FollowInv(S, i - 1, s) => FollowInv(S, i, FollowStep(rows, c, s, ks[i]))
  <2>1. TAKE i \in 1..n
  <2>2. TAKE s
  <2>3. HAVE FollowInv(S, i - 1, s)
  <2>4. s.seen \subseteq Clients(a, d) \cup Inits(c) /\ s.new \subseteq Clients(a, d) \cup Inits(c)
    BY <2>3 DEF FollowInv
  <2>5. /\ FollowRows(rows, c, s).seen \subseteq Clients(a, d) \cup Inits(c)
        /\ FollowRows(rows, c, s).new \subseteq Clients(a, d) \cup Inits(c)
    BY <2>4, FollowStays
  <2> QED
    BY <2>5 DEF FollowInv, FollowStep
<1> HIDE DEF S
<1>6. FollowInv(S, n, FollowFold!Run(rows, c, start, ks))
  BY <1>1, <1>3, <1>4, <1>5, FollowFold!FoldInvariant
<1> QED
  BY <1>2, <1>6 DEF FollowInv, S

\* The walks of one policy stay in it.
LEMMA WalkStays ==
  ASSUME NEW a, Given(a), NEW c, NEW d, Compiled(a, c, d), NumbersApart(c),
         NEW q \in Reachable(CodeGen(c), c)
  PROVE  Targets(CodeGen(c), q) \subseteq Numbered(CodeGen(c)) \cup {EndOf(c)}
<1> DEFINE rows == CodeGen(c)
<1>1. Open(a, d) /\ c.coef = a.coef /\ c.task = a.task
  BY DEF Compiled
<1>2. Apart(a, d) /\ ~ (999 - a.task \in Numbered(rows))
  BY NumbersAreApart
<1>3. Graph(a, d, c, rows)
  BY CodeIsGraph
<1> HIDE DEF rows
<1>4. q \in Clients(a, d) \cup Inits(c)
  BY <1>1, <1>2, <1>3, ReachableIn DEF rows
<1>5. Targets(rows, q) \subseteq PostRange(a, d.avail) \cup {999 - a.task}
  BY <1>2, <1>3, <1>4, TargetsIn
<1>6. PostRange(a, d.avail) \subseteq Numbered(rows)
  BY <1>3 DEF Graph
<1>7. Targets(rows, q) \subseteq Numbered(rows) \cup {EndOf(c)}
  BY <1>1, <1>5, <1>6 DEF EndOf
<1> QED
  BY <1>7 DEF rows

\* Wherever a walk gets by following the rows, the next READ goes to a server QPN that
\* has a PSN register, or the walk ends, whatever lines the policies are made of, if
\* the numbers of each are apart: gen_pc_tran leaves no state without a way on, and
\* none leads to a fake state, to -1 or to another policy's connection.
THEOREM WalksAreClosed ==
  Spec => []((\A i \in DOMAIN done : NumbersApart(done[i])) => Closed)
<1>1. Init => Compilations
  BY CompilationsInit
<1>2. Compilations /\ [Next]_vars => Compilations'
  BY CompilationsNext
<1>3. Compilations => ((\A i \in DOMAIN done : NumbersApart(done[i])) => Closed)
  <2> SUFFICES ASSUME Compilations, \A i \in DOMAIN done : NumbersApart(done[i]),
                      NEW i \in DOMAIN done,
                      NEW q \in Reachable(CodeGen(done[i]), done[i])
               PROVE  Targets(CodeGen(done[i]), q)
                        \subseteq Numbered(CodeGen(done[i])) \cup {EndOf(done[i])}
    BY DEF Closed
  <2>1. PolicyOk(done, i)
    BY DEF Compilations
  <2>2. PICK d : Compiled(ArgsOf(done, i), done[i], d)
    BY <2>1 DEF PolicyOk
  <2>3. Given(ArgsOf(done, i)) /\ NumbersApart(done[i])
    BY <2>1 DEF PolicyOk
  <2> QED
    BY <2>2, <2>3, WalkStays
<1> QED
  BY <1>1, <1>2, <1>3, PTL DEF Spec
=============================================================================
