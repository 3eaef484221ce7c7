------------------------------ MODULE MCSwitch ------------------------------
(***************************************************************************)
(* Instances of the switch: policies with the shapes of compiler/exe, at   *)
(* offsets of one word, compiled as main.cc compiles them, over small      *)
(* guests.                                                                 *)
(***************************************************************************)
EXTENDS Integers, Sequences, SequencesExt, FiniteSets, FiniteSetsExt, TLC, Switch

CONSTANT Case               \* which of the cases below to run

Pgd == 128
Guest == INSTANCE GuestWalk
Gen == INSTANCE TableGen

ServerBase == 100

-----------------------------------------------------------------------------
(* The DSL.                                                                *)
KG                    == [op |-> "kgraph"]
Traverse(off, e, ty)  == [op |-> "traverse", off |-> off, end |-> e, type |-> ty]
Iter(off, n, size)    == [op |-> "iter", off |-> off, num |-> n, dyn |-> 0, size |-> size]
IterNum(off, n, size) == [op |-> "iter", off |-> off, num |-> n, dyn |-> 1, size |-> size]
In(off)               == [op |-> "in", off |-> off, var |-> 0]
InAt(off, var)        == [op |-> "in", off |-> off, var |-> var]
Values(fields)        == [op |-> "values", fields |-> fields, name |-> ""]
Named(name, f)        == [op |-> "values", fields |-> <<f>>, name |-> name]
Asserted(high, low)     == [op |-> "assert", high |-> high, low |-> low]
End                   == [op |-> "end"]

-----------------------------------------------------------------------------
(* Compilation of several policies, as main.cc does it: the next policy    *)
(* starts at the state the previous one stopped at.                        *)

Compile(pols) ==
  LET Next1(acc, i) ==
        LET s == IF acc = <<>> THEN ServerBase ELSE Last(acc).avail IN
        Append(acc, Gen!FrontEnd(pols[i], s, s + Coef, i - 1, ServerBase))
  IN  FoldLeft(Next1, <<>>, [i \in DOMAIN pols |-> i])

\* Client QPN -> number of the field it reads.
Fields(c) ==
  LET loads == SelectSeq(c.head, LAMBDA a : a.aim = "ReadLoad") IN
  [q \in {loads[i].post + Coef : i \in DOMAIN loads} |->
     CHOOSE i \in DOMAIN loads : loads[i].post + Coef = q]

-----------------------------------------------------------------------------
(* The policies of compiler/exe at small offsets. In policies 0, 1, 3, 6   *)
(* and 10 the first move from the start address is not zero; they appear   *)
(* here with that move left out, and in the case "moves" with it.          *)

Procs(off, head) == <<KG, Traverse(off, head, off), Values(<<2>>), In(3), Values(<<0, 1>>), End>>
ProcFops         == <<KG, In(1), Values(<<0, 1>>), Asserted(66, 33), End>>
NetHooks(off)    == <<KG, Iter(off, 2, 1), In(0), Named("num", 0), IterNum(1, "num", 1),
                      Values(<<0>>), End>>
Ttys(head)       == <<KG, InAt(0, 1), Traverse(1, head, 1), Named("num", 2), In(3),
                      IterNum(0, "num", 1), In(0), Values(<<0>>), Asserted(66, 33), End>>
Syscalls(n)      == <<KG, Iter(0, n, 1), Values(<<0>>), Asserted(66, 33), End>>
VmAreas(head)    == <<KG, InAt(0, 1), Traverse(1, head, 1), Values(<<2>>), In(3), In(0),
                      Traverse(1, 0, 0), Values(<<2, 0>>), End>>
Keyboard         == <<KG, In(1), Traverse(1, 0, 0), Values(<<0>>), Asserted(66, 33), End>>
Modules(head)    == <<KG, InAt(0, 1), Traverse(1, head, 1), Values(<<2, 3>>), End>>
Afinfo           == <<KG, Values(<<1, 2>>), Asserted(66, 33), In(0), Values(<<0>>),
                      Asserted(66, 33), End>>
Files(head)      == <<KG, Traverse(0, head, 0), Values(<<2>>), In(3), In(0), Named("num", 0),
                      In(1), IterNum(0, "num", 1), In(0), In(1), Values(<<0>>), End>>

-----------------------------------------------------------------------------
(* Guests. The kernel image at I, where every policy starts, the direct    *)
(* map with data from physical 8 up at D, two pages of vmalloc space at V  *)
(* and one of module space at M.                                           *)

I == ImageBase
D == DirectBase + 8
V == VmallocBase
M == ModuleBase
Vmap == (V :> 40) @@ (V + Page :> 44) @@ (M :> 48)

Words(a, ws) == [x \in a..(a + Len(ws) - 1) |-> ws[x - a + 1]]

\* A notifier list through the direct map, vmalloc and module space, or empty.
Notifiers == Words(I, <<0, V>>) @@ Words(V, <<66, D>>) @@ Words(D, <<33, M>>)
             @@ Words(M, <<200, 0>>)
NoNotifier == Words(I, <<0, 0>>)

\* Two tty drivers on a ring: one with a NULL slot among its ttys, one whose
\* structure and array are in vmalloc space.
TtyHead == I + 8
TtyRing == Words(TtyHead, <<D + 5>>) @@ Words(D + 4, <<0, V + 1, 2, D + 10>>)
           @@ Words(V, <<0, TtyHead, 1, V + 4>>)
           @@ Words(D + 10, <<0, D + 12, 90>>) @@ Words(V + 4, <<D + 14, 0, 34>>)
           @@ Words(D + 14, <<41>>)

\* Two hook lists, of two entries and of one, and a pointer behind the array.
Hooks == Words(I + 12, <<D + 16, D + 20, D + 16>>) @@ Words(D + 16, <<2, 7, 8>>)
         @@ Words(D + 20, <<1, 9>>)
\* Modules live in module and vmalloc space.
ModHead == I + 16
ModRing == Words(ModHead, <<M + 1>>) @@ Words(M, <<0, V + 5, 3, 4>>)
           @@ Words(V + 4, <<0, ModHead, 5, 6>>)
\* Three tasks: one with two areas, a kernel thread without mm, one with one.
MmHead == I + 20
MmRing == Words(MmHead, <<D + 25>>)
          @@ Words(D + 24, <<0, D + 29, 11, D + 44>>)
          @@ Words(D + 28, <<0, V + 1, 12, 0>>)
          @@ Words(V, <<0, MmHead, 13, D + 45>>)
          @@ Words(D + 44, <<V + 4, D + 46>>)
          @@ Words(V + 4, <<1, D + 50, 2>>) @@ Words(D + 50, <<3, 0, 4>>)
          @@ Words(D + 46, <<5, 0, 6>>)
\* A structure and the operations it points to.
Info == Words(I + 24, <<D + 20, 66, 67>>) @@ Words(D + 20, <<33>>)
Fops == Words(I + 28, <<0, M + 2>>) @@ Words(M + 2, <<50, 70>>)
Table == Words(I + 32, <<66, 34, 0, 50>>)
\* A ring of two tasks through the image and the direct map, with credentials.
TaskHead == I + 36
TaskRing == Words(TaskHead, <<D + 1, 0, 21, D + 6>>) @@ Words(D + 1, <<TaskHead, 0, 22, M>>)
            @@ Words(D + 6, <<14, 15>>) @@ Words(M, <<16, 17>>)
\* The same with open files: a table of two and, for the second task, none.
FileHead == I + 44
FileRing == Words(FileHead, <<D + 1, 0, 23, D + 6>>) @@ Words(D + 1, <<FileHead, 0, 24, 0>>)
            @@ Words(D + 6, <<D + 8>>) @@ Words(D + 8, <<2, V + 6>>) @@ Words(V + 6, <<D + 10, D + 12>>)
            @@ Words(D + 10, <<0, D + 14, 0, D + 16>>) @@ Words(D + 14, <<31, 0, 32>>)

-----------------------------------------------------------------------------
\* f, as a function TLC has evaluated at every point.
Known(f) == f @@ <<>>

\* A scenario: what setup makes of policies, the addresses they start at and the
\* words stored in the guest. Word 0 of physical memory exists: the last READ of a
\* loop over a NULL-terminated list fetches it.
Scn(pols, starts, cells) ==
  LET n     == Len(pols)
      cs    == Compile(pols)
      each  == [i \in 1..n |-> i]
      owner == [q \in ServerQpn |->
                  CHOOSE i \in 1..n : /\ i = 1 \/ q >= cs[i-1].avail
                                      /\ i = n \/ q < cs[i].avail]
      tbl   == Install(UNION {Gen!CodeGen(cs[i]) : i \in 1..n})
  IN  [ tbl   |-> Known([t \in TableNames |-> Known(tbl[t])]),
        mem   |-> Known(Guest!Memory(Vmap, cells) @@ (0 :> 0)),
        init  |-> Known([p \in 0..(n-1) |-> cs[p + 1].head[1].init]),
        start |-> Known([p \in 0..(n-1) |-> starts[p + 1]]),
        owner |-> Known([q \in {x + Coef : x \in ServerQpn} |-> owner[q - Coef] - 1]),
        field |-> FoldLeft(LAMBDA f, i : f @@ Fields(cs[i]), <<>>, each),
        chk   |-> Known([p \in 0..(n-1) |-> Guest!Asserts(pols[p + 1])]),
        want  |-> Known([p \in 0..(n-1) |->
                    Guest!Walk(cells, pols[p + 1], 1, starts[p + 1], 0, 0, 8)]) ]

\* Policies, where each starts and the words stored in the guest.
Try(pols, starts, cells) == [pols |-> pols, starts |-> starts, cells |-> cells]

\* Every shape of policy, walking beside another one.
Pairs ==
  << Try(<<Keyboard, Syscalls(3)>>, <<I, I + 32>>, Notifiers @@ Table),
     Try(<<ProcFops, Ttys(TtyHead)>>, <<I + 28, TtyHead>>, Fops @@ TtyRing),
     Try(<<NetHooks(0), Modules(ModHead)>>, <<I + 12, ModHead>>, Hooks @@ ModRing),
     Try(<<VmAreas(MmHead), Afinfo>>, <<MmHead, I + 24>>, MmRing @@ Info),
     Try(<<Procs(0, TaskHead), Keyboard>>, <<TaskHead, I>>, TaskRing @@ NoNotifier),
     Try(<<Files(FileHead), ProcFops>>, <<FileHead, I + 28>>, FileRing @@ Fops) >>

\* One policy at a time, for runs in which packets get lost.
Singles ==
  << Try(<<Keyboard>>, <<I>>, Notifiers),
     Try(<<Ttys(TtyHead)>>, <<TtyHead>>, TtyRing),
     Try(<<NetHooks(0)>>, <<I + 12>>, Hooks),
     Try(<<VmAreas(MmHead)>>, <<MmHead>>, MmRing),
     Try(<<Files(FileHead)>>, <<FileHead>>, FileRing) >>

\* Two iterations beside each other, for runs in which the first policy is
\* triggered while it is walking.
Beside ==
  << Try(<<Syscalls(2), NetHooks(0)>>, <<I + 32, I + 12>>, Table @@ Hooks),
     Try(<<ProcFops, Keyboard>>, <<I + 28, I>>, Fops @@ Notifiers) >>

\* The policies of compiler/exe whose first move is not zero.
Moves ==
  << Try(<<NetHooks(1)>>, <<I + 11>>, Hooks @@ Words(I + 11, <<0>>)),
     Try(<<Procs(1, TaskHead + 1)>>, <<I + 36>>,
         Words(I + 36, <<0, D + 1, 21, D + 6>>) @@ Words(D, <<0, I + 37, 22, D + 6>>)
         @@ Words(D + 6, <<14, 15>>)) >>

\* Values on the borders of the asserted range, and bounds whose upper halves
\* are the same.
Borders  == << Try(<<Syscalls(4)>>, <<I + 32>>, Table) >>
SameHalf == << Try(<< <<KG, Iter(0, 3, 1), Values(<<0>>), Asserted(38, 33), End>> >>,
                   <<I + 32>>, Words(I + 32, <<32, 35, 39>>)) >>

Chosen ==
  CASE Case = "pairs"    -> Pairs
    [] Case = "singles"  -> Singles
    [] Case = "beside"   -> Beside
    [] Case = "moves"    -> Moves
    [] Case = "borders"  -> Borders
    [] Case = "samehalf" -> SameHalf

Setups == {Scn(Chosen[i].pols, Chosen[i].starts, Chosen[i].cells) : i \in DOMAIN Chosen}

ServerQpns == ServerBase..(ServerBase + 29)
AddrRegisters == 0..29
PageRegisters == 0..1
MaxRegisters  == 0..5
PsnRegisters  == 0..29

-----------------------------------------------------------------------------
(* What is observed: the mirrored responses to reads of a field.           *)

Observed(p) ==
  LET field == scn.field
      seen  == SelectSeq(log[p], LAMBDA x : x.qpn \in DOMAIN field)
  IN  [i \in DOMAIN seen |-> <<field[seen[i].qpn], seen[i].val>>]

Walking(p) == trig[p] > ended[p]

Promise == INSTANCE Introspection WITH
             want <- scn.want, obs <- [p \in Policies |-> Observed(p)],
             walking <- [p \in Policies |-> Walking(p)]

Observes == Promise!Spec

\* Every walk that starts ends, whatever the interleaving, when nothing is lost.
Terminates == \A p \in Policies : Walking(p) ~> ~Walking(p)

\* Also when packets are lost and the policy is triggered again: what has been
\* observed since the trigger is the beginning of what should be. Registers an
\* abandoned walk left behind do not show in the next one.
ObservedPrefix ==
  \A p \in Policies \ Overlap : IsPrefix(Observed(p), scn.want[p])

\* A connection that has lost a request is of no more use: the switch is ahead of
\* the NIC for good, which executes nothing on it again.
Wedged ==
  [][\A q \in ServerQpn : lost[q].req > 0 =>
       nic'[q] = nic[q] /\ Len(up'[q + Coef]) <= Len(up[q + Coef])]_vars

\* Only values outside their bounds are reported.
AlarmPrecise ==
  \A p \in Policies : \A v \in alarm[p] :
    \E i \in DOMAIN Observed(p) :
      Observed(p)[i][2] = v /\ Guest!Violates(scn.chk[p], Observed(p)[i])
=============================================================================
