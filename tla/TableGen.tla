------------------------------ MODULE TableGen ------------------------------
(***************************************************************************)
(* The back end of compiler/policy.cc: the AIMs of a policy become rows of *)
(* the match-action tables, one set per gen_ method, and bfshell installs  *)
(* the rows. Constants of the word layout (the 16-bit halves of a bound)   *)
(* are parameters so that the rows can be checked at a small word width.   *)
(***************************************************************************)
EXTENDS PolicyCompiler, FiniteSets

CONSTANTS Half,     \* 2^16 in the code: a bound is split at this power
          Pgd       \* action_addr_h, action_addr_l of calc_pgd_offset_1

Abs(n) == IF n < 0 THEN -n ELSE n

Row(t, k, act, arg) == [t |-> t, k |-> k, act |-> act, arg |-> arg]

First(aims, i, kinds) ==        \* the first AIM after i of one of the kinds
  SelectInSubSeq(aims, i + 1, Len(aims), LAMBDA a : a.aim \in kinds)

\* find_next_post_qpn: the server QPN that carries the next READ.
PostOf(aims, i, reads) ==
  LET j == First(aims, i, reads \union {"DecJump", "NegJump"}) IN
  IF j = 0 THEN 0 ELSE IF aims[j].aim \in reads THEN aims[j].post ELSE None
NextPostMove(aims, i) == PostOf(aims, i, {"ReadMove"})      \* mutant
NextPost(aims, i) == PostOf(aims, i, {"ReadMove", "ReadLoad"})

-----------------------------------------------------------------------------
\* gen_pc_tran: the transitions between states.
PcRows(c, aims, i) ==
  LET a == aims[i]
      Direct(q, e, n, d) == Row("direct_transfer", <<q, e, n>>, "mod_dqpn", <<d>>)
      EndTran(q, p, d)   == Row("end_transfer", <<q>>, "mod_qpn_dqpn", <<p, d>>)
  IN  CASE a.aim = "Init"     -> {EndTran(a.init, a.init, NextPost(aims, i))}
        [] a.aim = "ReadLoad" ->
             LET q == Tran(c, a.post) IN
             IF a.tran # NoTran THEN {EndTran(q, a.tran[1], a.tran[2])}
                                ELSE {EndTran(q, q, NextPost(aims, i))}
        [] a.aim = "ReadMove" /\ a.null # NoTran ->
             LET q == Tran(c, a.post) IN
             { Row("check_null", <<q, 0>>, "mod_qpn_dqpn", a.null),
               Direct(q, 0, 0, NextPost(aims, i)) }
        [] a.aim = "NegJump"  ->
             { Row("check_traverse_end", <<a.at, a.stop>>, "set_end_bit", <<>>),
               Direct(a.at, 0, 0, a.yes), Direct(a.at, 1, 0, a.no),
               Direct(a.fake, 0, 0, a.at - c.coef) }
        [] a.aim = "DecJump"  ->
             { Row("read_update_max_entry", <<a.at>>, "update_max_entry", <<a.seq>>),
               Direct(a.at, 0, 1, a.no), Direct(a.at, 0, 2, a.yes) }
        [] OTHER              -> {}
PcTran(c, aims) == UNION {PcRows(c, aims, i) : i \in DOMAIN aims}

\* gen_base_operation: which register holds the base address of each state.
\* base is base_idx, top is stack_top.
Reg(q, d, idx, act) == Row("cache_process_addr_to_reg", <<q, d>>, act, <<idx>>)
Size(q, n)          == Row("cache_size_into_md", <<q>>, "cache_size_into_md", <<n>>)
Write(q, ds, idx)   == {Reg(q, d, idx, "write") : d \in ds}

ReadBack(c, aims, s, i) ==      \* after a load: fetch the base again
  LET a == aims[i]
      j == First(aims, i, {"ConstMove", "ReadMove"})
  IN  IF a.tran # NoTran
      THEN IF j = 0 \/ aims[j].aim = "ConstMove" THEN {}
           ELSE {Reg(aims[j].prev[1], aims[j].post, s.top, "read")}
      ELSE IF aims[i+1].aim = "ConstMove" THEN {}
           ELSE {Reg(Tran(c, a.post), NextPost(aims, i), s.base, "read")}

ConstMoveRows(aims, s, i) ==
  LET a == aims[i]
      p == aims[i-1].aim
      j == aims[i+1]
      Pre(q) ==                 \* gen_mod_field_parameters_pre_tab
        { Row("encode_mod_offset_pre", <<q, a.post>>, "encode_mod_offset", <<Abs(a.off)>>),
          Row("mod_field_parameters_pre", <<q, a.post>>,
              IF a.off < 0 THEN "mod_field_parameters_subtract"
                           ELSE "mod_field_parameters_add", <<>>) }
  IN  IF p = "Pop"
      THEN IF j.aim # "DecJump" THEN {}
           ELSE { Reg(a.prev[1], j.no, s.base, "read"),
                  Reg(a.prev[1], j.yes, s.base, "iter"), Size(a.prev[1], a.off) }
      ELSE IF p = "ReadLoad"
      THEN {Reg(a.prev[1], a.post, s.base, "iter"), Size(a.prev[1], a.off)}
      ELSE UNION {Pre(q) : q \in ToSet(a.prev)}

MoveStates(aims, i) ==          \* the states a pointer's target is the base of
  LET j == First(aims, i, {"NegJump"}) IN
  IF aims[i].null # NoTran THEN {NextPost(aims, i)} ELSE {aims[j].yes, aims[j].no}

BaseStep(c, aims, s, i) ==
  LET a == aims[i] IN
  CASE a.aim = "Init" ->
         [s EXCEPT !.rows = @ \union Write(a.init, {NextPost(aims, i)}, s.top + 1)]
    [] a.aim = "ReadMove" ->
         [s EXCEPT !.base = s.top + 1,
                   !.rows = @ \union Write(Tran(c, a.post), MoveStates(aims, i), s.top + 1)]
    [] a.aim = "ReadLoad"  -> [s EXCEPT !.rows = @ \union ReadBack(c, aims, s, i)]
    [] a.aim = "ConstMove" -> [s EXCEPT !.rows = @ \union ConstMoveRows(aims, s, i)]
    [] a.aim = "Push"      -> [s EXCEPT !.top = @ + 1]
    [] a.aim = "Pop"       -> [s EXCEPT !.top = @ - 1, !.base = s.top]
    [] OTHER               -> s
BaseOperation(c, aims) ==
  LET start == [base |-> 15 * c.task, top |-> 15 * c.task - 1, rows |-> {}]
  IN  FoldLeft(LAMBDA s, i : BaseStep(c, aims, s, i), start, [i \in DOMAIN aims |-> i]).rows

-----------------------------------------------------------------------------
Reads(aims) == {aims[i] : i \in {j \in DOMAIN aims : aims[j].aim \in {"ReadLoad", "ReadMove"}}}
Loads(aims) == {a \in Reads(aims) : a.aim = "ReadLoad"}
Moves(aims) == {a \in Reads(aims) : a.aim = "ReadMove"}

PsnRow(c, post) == Row("read_update_psn", <<post>>, "read_update_psn", <<post - c.base>>)

\* gen_psn_mapping: a PSN register for every server QPN that carries a READ.
PsnMappingLoads(c, aims) == {PsnRow(c, a.post) : a \in Loads(aims)}       \* mutant
PsnMapping(c, aims) == {PsnRow(c, a.post) : a \in Reads(aims)}

OffsetRow(q, post, off) ==
  { Row("encode_mod_offset", <<q, post>>, "encode_mod_offset", <<Abs(off)>>),
    Row("mod_field_parameters", <<q, post>>,
        IF off < 0 THEN "mod_field_parameters_subtract"
                   ELSE "mod_field_parameters_add", <<>>) }

\* gen_offset_encoding: the field offset of a READ, per state it is issued from.
OffsetEncoding(aims) ==
  UNION {UNION {OffsetRow(q, a.post, a.off) : q \in ToSet(a.prev)} : a \in Reads(aims)}

\* gen_load_max: where the trip count of an .iter comes from.
LoadMax(c, aims) ==
  LET Const(a) == UNION { { Row("cache_len_into_md", <<q>>, "cache_len_into_md", <<a.value>>),
                            Row("read_update_max_entry", <<q>>, "read_const_length", <<a.seq>>) } :
                          q \in ToSet(a.prev) }
  IN  {Row("read_update_max_entry", <<Tran(c, a.post)>>, "read_max_entry", <<a.reg>>) :
         a \in {b \in Loads(aims) : b.reg # None}}
      \union UNION {Const(aims[i]) : i \in {j \in DOMAIN aims : aims[j].aim = "ConstLoad"}}

\* gen_init_code and gen_readload_code: the end of a walk; the log of every
\* READ and the range check of an asserted one. The low border is passed as
\* "0xffff" behind a second "0x": no number, so the shell refuses the row
\* ("malformed").
PerAim(c, aims) ==
  LET high(a) == a.chk[1]
      low(a)  == a.chk[2]
      Check(a) ==
        LET q == Tran(c, a.post) IN
        { Row("exact_match", <<q, high(a) \div Half, 0, high(a) % Half>>, "mark_range_k1", <<>>),
          Row("exact_match", <<q, low(a) \div Half, low(a) % Half, Half - 1>>, "malformed", <<>>),
          Row("range_match", <<q, low(a) \div Half + 1, high(a) \div Half - 1>>, "mark_range_k2", <<>>),
          Row("gen_mali_alarm", <<q, 0, 0>>, "gen_mali_alarm", <<>>) }
      inits == {aims[i] : i \in {j \in DOMAIN aims : aims[j].aim = "Init"}}
  IN  {Row("end_of_fetching", <<999 - c.task>>, "_drop", <<>>) : a \in inits}
      \union {Row("read_update_ts_start", <<a.init>>, "read_update_ts_start", <<>>) : a \in inits}
      \union {Row("cloning", <<Tran(c, a.post)>>, "cloning", <<>>) : a \in Loads(aims)}
      \union UNION {Check(a) : a \in {b \in Loads(aims) : b.chk # <<>>}}

-----------------------------------------------------------------------------
PageReg(q, w, idx, act) == Row("cache_process_page_addr_to_reg", <<q, w>>, act, <<idx>>)
WalkReg(q, v, w, idx, act) ==
  { Row("cache_dqpn_page_walk", <<q, v, w>>, act, <<idx>>),
    Row("cache_qpn_page_walk", <<q, v, w>>, act, <<idx>>) }
AddOffset(q, w, level) ==       \* the three add_offset tables in one
  Row("add_offset", <<q, w>>, level, IF level = "pgd" THEN <<Pgd>> ELSE <<>>)
Mask(q, w)   == Row("mask_base_addr", <<q, w>>, "mask_base_addr", <<>>)
MakeUp(q, w) == Row("make_up_addr", <<q, w>>, "make_up_addr", <<>>)

\* gen_readmove_pgt_walk_code: a pointer into vmalloc space parks the state and
\* enters the walk; the last level comes back to it with the walking bit set.
ReadMovePgtWalk(c, aims) ==
  LET Rows(q) ==
        { Row("mark_vmalloc_bit_p1", <<q, 1>>, "mark_addr_type", <<1>>),
          Row("mark_vmalloc_bit_p1", <<q, 2>>, "mark_addr_type", <<2>>),
          Row("pgt_transfer", <<q, 1>>, "pgt_mod_dqpn", <<c.pgt[1].post, c.pgt[1].post>>),
          AddOffset(q, 1, "page"), Mask(q, 1), MakeUp(q, 1),
          PageReg(q, 1, c.task, "read") }
        \union WalkReg(q, 1, 0, c.task, "cache")
  IN  UNION {Rows(Tran(c, a.post)) : a \in Moves(aims)}

\* gen_pgt_aims_code: one READ per level of the page tables.
PgtAims(c) ==
  LET level == <<"pgd", "pud", "pmd", "pte">>
      Rows(i) ==
        LET q == c.pgt[i].post IN
        { PsnRow(c, q), AddOffset(q, 0, level[i]), MakeUp(q, 0),
          PageReg(q, 0, c.task, IF i = 1 THEN "cache" ELSE "read") }
        \union OffsetRow(q, q, 0)
        \union (IF i = 1 THEN {} ELSE {Mask(q, 0)})
        \union (IF i < 4
                THEN {Row("pgt_transfer", <<Tran(c, q), 0>>, "pgt_mod_dqpn",
                          <<c.pgt[i+1].post, c.pgt[i+1].post>>)}
                ELSE {Row("mark_walking_bit", <<Tran(c, q)>>, "mark_walking_bit", <<>>)}
                     \union WalkReg(Tran(c, q), 0, 1, c.task, "read"))
  IN  UNION {Rows(i) : i \in 1..4}

\* code_gen<i>.cmd, as policy1 of main.cc concatenates it.
CodeGen(c) ==
  LET aims == AllAims(c) IN
  PerAim(c, aims) \union PcTran(c, aims) \union BaseOperation(c, aims)
    \union PsnMapping(c, aims) \union OffsetEncoding(aims) \union LoadMax(c, aims)
    \union ReadMovePgtWalk(c, aims) \union PgtAims(c)
=============================================================================
