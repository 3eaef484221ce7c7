------------------------------- MODULE Driver -------------------------------
(***************************************************************************)
(* compiler/main.cc: the policies are read line by line and compiled one   *)
(* after the other; each starts at the state the previous one stopped at,  *)
(* and their rows end up in the same tables. The rows are read as a graph  *)
(* of states, to say what a set of rows must be for a walk to work.        *)
(***************************************************************************)
EXTENDS TableGen, FiniteSetsExt

CONSTANTS
  Operators,     \* the lines a policy may be made of
  ServerBase,    \* argv[1]: the first QPN of the server
  Coef,          \* argv[2] - argv[1]
  MaxLines,      \* bound: lines of a policy between KernelGraph and End
  MaxPolicies    \* bound: policies compiled together

\* What parse makes of a line: numbers where its expressions ask for them, and at
\* least one field in a .values. End comes last and nowhere else (Compile).
Line(op) ==
  \/ op = [op |-> "kgraph"]
  \/ op \in [op : {"traverse"}, off : Int, end : Int, type : Int]
  \/ op.op = "iter" /\ op.dyn = 0 /\ op \in [op : {"iter"}, off : Int, num : Int, dyn : {0}, size : Int]
  \/ op.op = "iter" /\ op.dyn = 1 /\ op \in [op : {"iter"}, off : Int, num : STRING, dyn : {1}, size : Int]
  \/ op \in [op : {"in"}, off : Int, var : Int]
  \/ op \in [op : {"values"}, fields : Seq(Int) \ {<<>>}, name : STRING]
  \/ op \in [op : {"assert"}, high : Int, low : Int]
ASSUME LineAssumption ==
  /\ \A op \in Operators : Line(op)
  /\ ServerBase \in Int /\ Coef \in Int

VARIABLES
  lines,         \* the lines of the policy being read
  done           \* the policies compiled so far

vars == <<lines, done>>

\* The state the next policy starts at.
StartFirst == ServerBase                                    \* mutant
Start == IF done = <<>> THEN ServerBase ELSE Last(done).avail

\* policy1 up to the AIMs; the rows are CodeGen of the result.
Policy1(ops) == FrontEnd(ops, Start, Start + Coef, Len(done), ServerBase)

Init == lines = <<>> /\ done = <<>>

\* parse: one operator per line, the first a KernelGraph.
ReadLine(op) ==
  /\ Len(done) < MaxPolicies
  /\ Len(lines) <= MaxLines
  /\ (op.op = "kgraph") <=> (lines = <<>>)
  /\ lines' = Append(lines, op)
  /\ UNCHANGED done

\* The last line is End. throw_error leaves the program without any row.
Compile ==
  /\ Len(lines) > 1
  /\ LET ops == Append(lines, [op |-> "end"])
         c == Policy1(ops)
     IN  /\ c.ok
         /\ done' = Append(done, With(c, "src", ops))
  /\ lines' = <<>>

Next == (\E op \in Operators : ReadLine(op)) \/ Compile

Spec == Init /\ [][Next]_vars

-----------------------------------------------------------------------------
(* The rows as a graph. A node is the client QPN of a READ whose response   *)
(* is being handled, or the policy's init QPN.                             *)

Rows == UNION {CodeGen(done[i]) : i \in DOMAIN done}
Of(rows, t, k) == {r \in rows : r.t = t /\ r.k = k}

\* The end of the ingress pipeline for a response to q: the server QPNs the next
\* READ may be sent to, 999 - task at the end of the walk.
Targets(rows, q) ==
  LET moved(t, s, k) ==            \* end_transfer and check_null replace both QPNs
        IF Of(rows, t, k) = {} THEN {s} ELSE {r.arg : r \in Of(rows, t, k)}
      ended    == moved("end_transfer", <<q, q>>, <<q>>)
      null     == ended \union UNION {moved("check_null", s, <<s[1], 0>>) : s \in ended}
      Counts(s) == IF \E r \in Of(rows, "read_update_max_entry", <<s[1]>>) :
                        r.act = "update_max_entry"
                   THEN {1, 2} ELSE {0}
      Ends(s)  == IF \E r \in rows : r.t = "check_traverse_end" /\ r.k[1] = s[1]
                  THEN {0, 1} ELSE {0}
      Direct(s) == UNION {
        LET hit == Of(rows, "direct_transfer", <<s[1], e, n>>) IN
        IF hit = {} THEN {s[2]} ELSE {r.arg[1] : r \in hit} : e \in Ends(s), n \in Counts(s)}
  IN  UNION {Direct(s) : s \in null}

EndOf(c) == 999 - c.task
Inits(c) == {a.init : a \in {x \in ToSet(c.head) : x.aim = "Init"}}

\* The server QPNs gen_psn_mapping gave a PSN register.
Numbered(rows) == {r.k[1] : r \in {x \in rows : x.t = "read_update_psn"}}

\* The states a walk of c can be in, found by following the rows from its init.
\* Each round but the last finds another state that is sent to.
FollowRows(rows, c, s) ==
  LET sent == (UNION {Targets(rows, q) : q \in s.new}) \cap Numbered(rows)
      next == {Tran(c, d) : d \in sent} \ s.seen
  IN  [seen |-> s.seen \union next, new |-> next]
Reachable(rows, c) ==
  FoldLeft(LAMBDA s, k : FollowRows(rows, c, s), [seen |-> Inits(c), new |-> Inits(c)],
           [k \in 1..Cardinality(Numbered(rows)) |-> k]).seen

-----------------------------------------------------------------------------
(* Properties.                                                             *)

\* Between two .iter of the policy there is a READ (.in or .values). Without one
\* both trip counts are set on the same response, and one row is refused.
Separated(ops) ==
  \A i, j \in DOMAIN ops :
    i < j /\ ops[i].op = "iter" /\ ops[j].op = "iter" =>
      \E k \in (i+1)..(j-1) : ops[k].op \in {"in", "values"}

\* bfshell accepts no two rows with the same key in a table (add_entry of
\* setup_qpn_ts.cmd and of every code_gen<i>.cmd): the rows of all policies
\* together, from the eight generators of policy.cc, never collide.
NoConflict ==
  (\A i \in DOMAIN done : Separated(done[i].src)) =>
    \A r1, r2 \in Rows : r1.t = r2.t /\ r1.k = r2.k => r1 = r2

\* Wherever a walk gets by following the rows, the next READ goes to a server
\* QPN that gen_psn_mapping gave a PSN register, or the walk ends: pc_tran never
\* leads to a fake state, to -1 or to another policy's connection.
Closed ==
  \A i \in DOMAIN done :
    LET rows == CodeGen(done[i]) IN
    \A q \in Reachable(rows, done[i]) :
      Targets(rows, q) \subseteq Numbered(rows) \union {EndOf(done[i])}

\* From every state a walk can be in, its end can be reached: the jump tables
\* of nested loops (NegJump, DecJump and the loads that leave a loop) close no
\* cycle without a way out.
CanEnd ==
  \A i \in DOMAIN done :
    LET c == done[i]
        rows == CodeGen(c)
        all  == Reachable(rows, c)
        Back(S) == S \union {q \in all : \E d \in Targets(rows, q) : Tran(c, d) \in S}
        n == Cardinality(all)
        ends == {q \in all : EndOf(c) \in Targets(rows, q)}
    IN  FoldLeft(LAMBDA S, k : Back(S), ends, [k \in 1..n |-> k]) = all

\* Every field a policy asks for is read: the READ of every .values is reachable.
AllRead ==
  \A i \in DOMAIN done :
    LET c == done[i] IN
    {Tran(c, a.post) : a \in Loads(AllAims(c))} \subseteq Reachable(CodeGen(c), c)

\* main.cc gives a policy three trip counts and fifteen base addresses, and
\* mark_iter leaves a count without a register when the .values before the .iter
\* has another name. Nothing stops a policy from either.
Fits(c) ==
  /\ Len(c.src) <= 15
  /\ Cardinality({i \in DOMAIN c.src : c.src[i].op = "iter"}) <= 3
  /\ \A i \in DOMAIN c.tail : c.tail[i].aim = "DecJump" => c.tail[i].seq # None

\* Policies that fit have no register in common, whatever they are made of: each
\* writes base addresses, trip counts, page-walk registers and PSNs of its own.
RegistersOf(c) ==
  LET one == {"cache_process_addr_to_reg", "read_update_max_entry", "cache_dqpn_page_walk",
              "cache_qpn_page_walk", "cache_process_page_addr_to_reg", "read_update_psn"}
  IN  {<<r.t, r.arg[1]>> : r \in {x \in CodeGen(c) : x.t \in one}}
Disjoint ==
  (\A i \in DOMAIN done : Fits(done[i])) =>
    \A i, j \in DOMAIN done : i # j => RegistersOf(done[i]) \cap RegistersOf(done[j]) = {}
=============================================================================
