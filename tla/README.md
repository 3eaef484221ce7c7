# RDMI in TLA+

RDMI (Remote Direct Memory Introspection) watches the memory of a running kernel from outside.
A policy, written in a small query language, is compiled into rows of the match-action tables of
a programmable switch. The switch then walks the kernel's data structures by itself: it issues
RDMA READ requests to the NIC of the watched host, takes the word that each response carries as
the next address, or as a value to mirror to the operator and to check, and issues the next
request. No CPU of the host takes part.

These modules model the compiler, the switch, the NIC's part of the protocol, a guest's memory, how
the connections are set up, and the baseline programs that do the same introspection through LibVMI.
TLC checks small instances of them. TLAPS proves, for every instance, that the switch's PSNs follow
the NIC's, that its arithmetic on split addresses is exact, that a connection comes out of its set-up
with one PSN on both sides, and what the baseline programs do to the VM and leave behind.

## 1. The system

| component | state it keeps | operations | interacts with |
|---|---|---|---|
| policy front end, `compiler/policy.cc:271-687` | next free QPN and fake state, innermost loop's end state, states the next AIM is entered from, AIMs so far (head list, tail stack) | `mark_iter`, `mark_assert`, `gen_kgraph_aim`, `gen_traverse_aim`, `gen_iter_aim`, `gen_in_aim`, `gen_values_aim`, `gen_end_aim`, `gen_pgt_walk_aim` | AIMs are read by the back end |
| policy back end, `policy.cc:689-1603` | `stack_top`, `base_idx` | `gen_pc_tran`, `gen_base_operation`, `gen_psn_mapping`, `gen_offset_encoding`, `gen_load_max`, `gen_readload_code`, `gen_readmove_pgt_walk_code`, `gen_pgt_aims_code` | rows go to bfshell, `gencode/code_gen<i>.cmd` |
| compiler driver, `compiler/main.cc` | first state of the next policy | `parse`, `policy1`, `main` | compiles the policies in a row; they share the tables |
| switch data plane, `switch/master/master.p4` | registers: base addresses, page addresses, parked states, trip counts, PSNs | one pass of a response through ingress and egress: a request, a mirrored copy, an alarm, or a drop | responses from, requests to the NIC |
| static configuration, `switch/master/bfshell/` | translation constants, initial PSNs, rkey | `setup_qpn_ts.cmd`, `simple.py` | tables and registers of the switch |
| trigger, `switch/control/send.cpp` | none | one forged READ response per policy | the first packet of a walk |
| RDMA NIC and network (outside the repository) | PSN expected per connection | execute a READ, refuse it, lose it | requests, responses |
| baseline programs, `libvmi_baseline/src/` | LibVMI instance, pause of the VM, file, position in a list, `retcode` | the same introspection by pausing the VM: `main` of twelve programs | share the VM with each other and with the guest's kernel |
| connection setup, `connection/` | queue pairs, memory region, `obj_addr_key.txt`, the client's READ | `rdmatry_server`, `rdmatry_client`: create endpoints, start the QPs again with READs allowed, exchange the key by file; `parse.py`: PSNs to registers | yields QPNs, PSNs, rkey for the switch |
| policy generator, `compiler/front_parser.py` | structure layouts, current pointer | DSL text with names to DSL text with offsets | input of the compiler |
| disconnection monitor, `bfshell/test_disconnection/` | last start time per connection | poll and compare | `ts_start` registers |
| trace analysis, `switch/control/pcap_analyzer.py` | none | offline statistics | mirrored packets |

What is hard here, and what correctness means for each part:

* **Compiler.** A policy becomes a state machine spread over some twenty tables, keyed by QPNs that
  also serve as program counter. Loops are jump tables built from a stack of fragments, and several
  policies share tables and registers by number ranges that nothing enforces. Correct: no key
  twice, every state reached is one that a READ carries, every loop can be left, every field is
  read, and no register is shared.
* **Switch.** One pass rewrites the program counter (`qpn`, `dqpn`) several times, and the
  order of the tables decides what the later ones see. All memory of a walk is in registers.
  Correct: what is mirrored is, word for word and in order, what a walk of the guest's memory
  would observe; the walk ends; an asserted value out of bounds is reported; other policies are
  left alone.
* **Protocol.** The switch numbers requests by itself and never looks at an answer's PSN. There is
  no retransmission. Correct: numbers stay in step with the NIC's as long as no request is lost or
  refused; what happens after a loss is bounded damage.
* **Connection setup.** The server resets each QP and starts it again while its client holds the
  other end; the two programs and the switch meet through a file, key presses and a snapshot of
  PSNs; most failures are only printed. Correct: a connection that works agrees on its PSN whatever
  happens; an operator who keeps to the order of the readme gets a switch that starts at that PSN,
  programs that do not crash, and a READ that was executed; waiting ends.
* **Baseline programs.** The exit labels resume the VM whoever paused it, the status of most reads is
  ignored, and the ends of lists differ by guest. Correct: what a program that returned 0 prints is
  the guest's state when its walk began, unless the guest was let run; everything acquired is
  released on every path; programs end.
* **Monitoring.** Polling against a clock; not modelled.

## 2. The modules

| module | models | how it corresponds |
|---|---|---|
| `PolicyCompiler` | front end | a record `c` is an object of class `Policy` (`avail` = `avail_state`, `last` = `last_states`, `pos` = the offset base points at, `end` = `end_state`, `fake` = `fake_state`); one operator per `gen_*_aim` returns the new record |
| `TableGen` | back end | one operator per generator returns its set of rows `[t, k, act, arg]` |
| `MatchAction` | tables and bfshell | which actions each table declares; a row that names another is refused, the rest become functions from keys to actions |
| `Switch` | data plane, NIC, network, trigger | one operator per table, `[m, r]` (packet metadata, registers) to `[m, r]`, composed by `Ingress` and `Egress` in the order of `control ingress` and `control egress`; actions `Trigger`, `Pass`, `Nic`, `LoseRequest`, `LoseResponse` |
| `GuestWalk` | guest, reference walk | memory and page tables from a mapping; `Walk` is the recursion a baseline program does for a policy |
| `Introspection` | abstract specification | per policy: started, observes the next word wanted, finished only when all were observed |
| `MCSwitch` | instances | the policies of `compiler/exe` at small offsets, guests, refinement mapping, properties about what is observed against the reference walk |
| `Driver`, `MCDriver` | `main.cc`, sets of lines | policies are read line by line, compiled and accumulated; properties of the rows as a graph |
| `AddrTranslation`, `MCAddr` | an address in the egress pipeline, as two words | one operator per address action of `master.p4` (`calc_pud_offset_1` to `_3` are `PudOffset`, and so on), one action per kind of response: `Translate`, and the levels `Enter`, `Pud`, `Pmd`, `Pte`, `Last` |
| `Connection`, `MCConnection` | `rdmatry_server`, `rdmatry_client`, their NICs, the operator | `spc`, `cpc`: the next call of each `main`; `si`, `ci`: the index of its loop; `eps` = `connections` of the server; `saved` = `rtr_attr.rq_psn`; `sqp`, `epsn`, `armed`, `cqp`, `cpsn`: the QPs of both sides; one action per call or loop iteration, with a disjunct for its failure |
| `VmiWalks` | the loops of the ten baseline programs that compile | one operator per program: one iteration, from the variables of its walk to new ones and the lines printed |
| `VmiTools`, `MCVmiTools` | the programs around their walks; guests, and what should be printed | a setup is the sequence of calls before the walk, an exit the calls of the label it jumps to; actions `Call`, `Fail` (checked), `Miss` (not noticed), `Walk`, `Leave`, `Return`, `Interrupt`, and `Guest` for the kernel |
| `SwitchProofs`, `IsolationProofs`, `AddrProofs`, `DivModProofs`, `ConnectionProofs`, `VmiProofs`, `CompilerProofs` | | the theorems |
| `FoldInduction` | | induction over a fold, as a module with the step and the invariant as CONSTANTS |

`MCSwitch` composes compiler, shell, switch, NIC and guest: the tables the switch runs on are
`Install(CodeGen(FrontEnd(policy)))`, so a bug in any stage shows in what is observed.

Abstractions. An address is one number, the `_h` and `_l` tables and registers are one; memory is
in words; the address space has the order of the kernel's (NULL and physical, direct map, vmalloc,
image, modules) at small bounds; a page has four words and a table two entries, with all four
levels. `cache_size`, `cache_len` and trip counts keep their order of reads and writes. `mod_value`
and all metadata start at 0 for every packet, as the parser leaves them. Tables about headers,
ports, checksums, timestamps and spoofing are left out: no other table reads what they write.

The registers of a policy are written by its packets only, and one packet is processed at a time:
each stateful ALU is reached once per pass and the pipeline keeps packets in order, so a pass is
one atomic action.

In `VmiTools` one iteration of a walk is a step (of the inner loop for open files and areas): the guest
runs between iterations, not inside one; the reads of a setup that find a list are a step each. The VM has one flag "paused", without a count of who paused it, as the KVM driver of
LibVMI has; it and the NICs and the operator are outside the repository and marked external. In
`Connection` a connection request, its acceptance and its answer are three steps of two processes
(`rdma_accept` and `rdma_connect` block until the other side answers); the PSN a NIC chooses is
free; the server's NIC executes, refuses or ignores a READ by the state of the QP at that moment.

A scenario (the compiled tables, the guest, the start addresses of the triggers) is chosen in `Init`
and kept in `scn`: the tables are installed before the first trigger and never change while it runs.

## 3. What TLC checks

| run | question | properties |
|---|---|---|
| `walks` | Do ten policies, two at a time, observe what the reference walk observes? | `TypeOK`; `NoRefusal`: every request goes to a connection, with the PSN expected and a mapped address; `OnePacket`: a walk is one packet; `AlarmSound`: no violation unreported; `Observes`: refinement of `Introspection`; `Isolated`; `Terminates` |
| `loss` | What does a lost packet do? | `PsnInSync`; `ObservedPrefix`: also after a loss and a new trigger only right words, in order; `Wedged`: a connection that lost a request executes nothing again |
| `overlap` | What does a second trigger during a walk do? | `PsnInSync`, `Isolated`, and `ObservedPrefix` for the policy beside it |
| `compile` | Does every small policy compile into a sound machine? | `NoConflict`, `Closed`, `CanEnd`, `AllRead` |
| `together` | Do two policies stay out of each other's way? | `NoConflict`, `Disjoint` |
| `halves` | Is arithmetic on two words without a carry right? | `LinearExact`: the direct map and the image are translated as by subtraction on whole addresses; `WalkExact`: every READ of a walk goes to the entry x86 has for the pointer |
| `connect` | Do server, client and operator hand the switch connections that work? | `Agreed`: a connection up on both sides has one PSN, whatever fails and in whatever order the operator goes; `Configured`: the switch's first request has the PSN expected and asks for an answer; `OrderSuffices`: with the order kept and nothing failed no program crashes and the READ was executed; `PollEnds`; `Ends` |
| `baseline` | What do the LibVMI programs print, leave behind, and do to each other? | `Faithful`: against a reference for each program and guest; a table the guest stores into meanwhile is still printed entry by entry, as it was or as it is; `Undisturbed`: a pause holds until another program calls `vmi_resume_vm`; `Released`; `DumpKeepsPause`; `Ends` |
| `moves` | finding: refused rows | `ObservedPrefix` is violated |
| `borders` | finding: malformed border row | `AlarmPrecise` is violated |
| `samehalf` | finding: bounds with one upper half | `AlarmSound` is violated |
| `ghosts` | finding: hook functions repeated | `Genuine` is violated |

Bounds, and why they are enough:

* Two triggers per policy (three under loss): the second meets every register as the first left
  it; the third meets them after an abandoned walk followed by another.
* One loss per queue and kind (`MaxLoss`): `Wedged` says that one is final for a connection.
* The guests hold what the walks can differ on: empty and non-empty lists, a NULL pointer inside a
  structure and inside an array, lists that alternate between direct map, vmalloc and module space,
  counts of 1 and more, values on both sides of the bounds.
* `PsnMod` is 8 and the first PSN 6, so that PSNs wrap in most walks; within the triggers a wedged
  connection does not get so far ahead that a number comes round again.
* `compile` takes every policy of up to five operators after `KernelGraph`, from eight lines that
  hold every operator and both kinds of `.iter` and `.values`: enough for two nested loops with a
  READ before, between and after. `together` takes every pair of up to three operators, enough for
  each policy to use every kind of register.
* `halves` has words of seven bits, tables of four entries and pages of eight bytes, and takes every
  canonical address. The sizes divide each other as the real ones do: the second level's index has
  bits of both words. One row of constants has a low word of 0, as `setup_qpn_ts.cmd:11`, the other
  one of a quarter word, as in the comment at `master.p4:594`, where the borrow matters.
* `connect` has two connections, so that the loops over them matter and one can fail after another;
  PSNs modulo 4 that start on both sides of the wrap and differ between the connections; one
  repetition of the READ, enough for a lost answer and for giving up; two failures, of any call or
  packet; key files of an earlier run or none, with the key of this run or another. Each program runs
  once and the operator takes the snapshot once.
* `baseline` takes each program alone on the guests it supports, `dump-memory` with all its flags and on
  a VM found running or paused, and four pairs of programs on one VM. The guests are memories of single words: lists of two and three elements, a
  task without areas and one without files, a closed descriptor, a file and
  a dentry that cannot be read, a module whose name is paged out, an unlinked element that still
  points into the list. Two stores of the guest (`MaxStores`) are enough to unlink an element and
  change another behind a walk; ten lines (`MaxLines`) are more than any undisturbed walk prints.
* `MaxTriggers`, `MaxLoss`, `MaxLines`, `MaxPolicies`, `MaxStores`, `MaxFailures` are the only bounds in
  guards, besides the one snapshot.

Deadlock is not checked: the system stops when every trigger is spent, the compiler after its last
policy, the other programs at their ends or at a prompt nobody answers.

Fairness. `FairSpec` is weak fairness of taking the head of each queue. Switch and NIC work at line
rate on whatever arrives, so a packet that waits is eventually taken. It says nothing of `Trigger`,
which an operator calls, and does not rule out a loss, which also takes the head. In `VmiTools` each
program goes on as long as the host schedules it; nothing is assumed of the guest. In `Connection`
server, client and NICs go on (an RDMA NIC repeats or gives up a READ by itself); a client's patience
with the connection manager is not assumed to end; only an operator who keeps to the readme is
assumed to go through it. `PollEnds` holds with any operator. Posting the READ does not fail: the
queue has room and the QP is in RTS.

## 4. Findings

1. **Rows of the first move are refused** (`moves`). `gen_mod_field_parameters_pre_tab`
   (`policy.cc:929-945`) names `mod_field_parameters_add`/`_subtract`; the table
   (`master.p4:843-852`) declares `mod_field_parameters_add_pre`/`_subtract_pre`. A policy whose
   first field is not at its start address reads at wrong addresses. The run `walks` therefore uses
   the policies of `exe/` with that move left out.
2. **The low border row is malformed** (`borders`). `gen_readload_code` (`policy.cc:1298`) passes
   `"0xffff"` to a generator that prints another `0x` before it. Values in the low border are
   reported although they are inside the bounds.
3. **Bounds with one upper half** (`samehalf`). The high border's row (`policy.cc:1297`) starts at
   0; when both bounds have the same upper half, values below the low bound pass unreported.
4. **Hook functions repeated** (`ghosts`). `vmi-netfilter-func-check.c:181` ignores the status of the
   read of `num_hook_entries`; a hook point without hooks keeps the count of the one before it, and
   that many lines with the last function are printed. `vmi-open-file-check` (`:206`, `:222`) and
   `vmi-keylogger-check` (`:165`) have the same pattern, so `Faithful` asks of these three only that
   nothing is missing. It asks no more of the FreeBSD list walks either, for another reason: there the
   current and the next pointer both start at the first process (`vmi-process-list.c:191` and `:203`),
   which is therefore printed twice.

Behaviour that is not a disagreement with anything the repository says, but worth knowing: the
client prints a word and goes on when its READ was refused (`rdmatry_client.cpp:266`); the snapshot
of PSNs is stale when taken before that READ (`Configured` fails for an operator who does so); a
client whose connection fails leaves the server waiting for ever, or dereferencing NULL.

## 5. What is proved

`SwitchProofs` proves, for every set of policies, connections, tables and guests, any number of
triggers and losses:

* `TypeCorrect`: `Spec => []TypeOK`. One lemma per table of the pipeline says that it keeps
  metadata and registers in their types; `Ingress` and `Egress` follow by composition, and the
  actions from those.
* `PsnFollowsNic`: `Spec => []PsnInSync`. On a connection that has lost no request and refused none,
  the requests on their way carry consecutive PSNs from the one the NIC expects to the one in the
  register. This holds with overlapping triggers and lost responses too.

Assumptions, each evaluated by TLC on every run: `SizeAssumption` (positive widths, integers as
addresses and QPNs, the agreed PSN in range), `TableAssumption` (rows carry numbers as parameters;
register indices are below `instance_count`; **no two connections have the same PSN register**),
`GuestAssumption` (memory holds numbers, a trigger goes to a client QPN). What the compiler makes
fulfils them: `walks` evaluates them on compiled policies.

The inductive invariant is `TypeOK /\ PsnInSync`. `PsnInSync` relates register, queue and NIC by
`Follows`: an empty queue means that the register is one behind the NIC; otherwise the first
request carries what the NIC expects, the last what the register holds, and neighbours differ by
one. It needs `TypeOK` for the PSN arithmetic modulo `PsnMod`. The interesting step is `Pass`,
which increments one register and appends to one queue: that the two belong to the same connection
follows from the key of `read_update_psn_tab` (the `dqpn` of the outgoing request), and that no
other connection's register moves from the injectivity in `TableAssumption`. `Nic` takes the head
and advances its counter only if the PSN fits, and marks the connection refused otherwise.
`LoseRequest` is the step that excludes a connection from the claim.

`IsolationProofs` goes on about `Switch`, with what the policies share. For every guest, any number of
policies, triggers and losses, and every set of tables with two more properties:
`OwnAssumption`: the compiler numbers the states, connections and registers of its policies apart
(`NewPolicy`, `fake_state`, `end_state`, and the 15, 3 and 1 registers per policy), a row keyed on a
state of policy p names states, goals and registers of p only, and a page walk is entered only where
the state is parked; `CheckAssumption`: which rows a field with bounds has. TLC evaluates both on the
compiled policies of all five runs of `MCSwitch`.

* `PoliciesIsolated`: `Spec => Isolated`. A policy's base addresses, trip counts, parked states and PSN
  registers change only in a pass of a packet of its own. The tables alone do not give this: the last
  level of a page walk takes the packet's next state and connection from two registers, so it stays
  its policy's only if what was parked is that policy's. The inductive invariant, also the theorem
  `ParkedAlways`, is `StateParked`: the parked connection is a goal of the policy outside the page walks, and while a packet is
  between two levels the parked state is one of its policy. Each table has a lemma that says whose
  the packet is when it leaves (`EndTransferOwn` to `EgressOwn`), the pipelines compose them.
* `WalkIsOnePacket`: `Spec => []OnePacket`. The invariant `Counted` says that the packets of a policy,
  over all queues and losses, are finitely many and as many as its triggers less its ended walks;
  every action moves a packet between two places of one policy, adds one or takes one away
  (`HeldMoves`, `CountUp`, `CountDown`). That the request of a pass goes to a connection of the same policy
  is `StateParked` again.
* `NoAlarmMissed`: `Spec /\ WideBounds => []AlarmSound`. No value outside the bounds of its field is
  mirrored without an alarm, if the two bounds differ in their upper halves (`WideBounds`; the run
  `samehalf` shows that it is needed). `OutsideMisses` is the arithmetic: a value outside the bounds
  is in neither border nor the middle, compared by halves.

`AddrProofs` proves about `AddrTranslation`, for every size of words, tables and entries that divide
each other as assumed:

* `LinearTranslation`: `Spec => []LinearExact`, and `PageWalk`: `Spec => []WalkExact`. Assumptions:
  `WordAssumption` (`Word` is a multiple of 16 and of the span of a second-level table's index; the
  shifts 5 and 4 are the distances between the words and the indices; masked entries are below the
  canonical addresses), `RowAssumption` (each row is `Coherent`: the second set of constants is the
  first with the borrow taken, and the low word of `PAGE_OFFSET` is 0 or 0x40000000, the one value
  the comparison with 4 decides), `InputAssumption` (tables start at a page). `setup_qpn_ts.cmd:11`
  satisfies them; a kernel whose `PAGE_OFFSET` has another low word would not.
* The inductive invariant adds `Kept`: the registers `process_page_addr_h` and `_l` hold the pointer
  at every level after the first, whatever the responses in between overwrite. The lemmas below it
  are the division facts (`DivDiv`, `ModOfProduct`, `ModAdd` of `DivModProofs`), one index per level (`PgdIndex`,
  `PudIndex`, `LowerIndex`), and that no carry leaves the low word (`NoCarry`, because the base of a
  table is page-aligned and the offset smaller than a page).

This is what allows `Switch` to treat an address as one number. `AddrTypeCorrect` is
`Spec => []TypeOK`: the words of an address stay below the size of a word.

`ConnectionProofs` proves about `Connection`, for any number of connections, start PSNs, retries,
failures and scenarios (`ConnectionAssumption`):

* `PsnAgreed`: `Spec => []Agreed`, and `ConnectionTypes`: `Spec => []TypeOK`. The invariant adds to
  `Agreed` (as `Sync`, also for QPs in error): `SavedInStep`, that the PSN saved before a reset is
  one the server may go on with; `Untouched`, that a QP which the second phase has not come to is up,
  so that what is asked of it is its PSN; `Dialogue` and `Fresh`, that the two sides are at the same
  connection when a PSN is handed over; `Served` and `Flight`, that a READ is executed only after
  memory is registered, which is after the last restart. The interesting step is `Modify` at "rtr":
  it gives the PSN back only if the query succeeded, because a transition whose query failed has no
  target state.

The second half of the module is about the states in which the order was kept and nothing has failed
(`Calm`), of which all earlier states are such (`CalmBefore`):

* `OrderHolds`: `Spec => []OrderSuffices`, and `FirstRequestFits`: `Spec => []Configured`. The invariant
  `Course` has the stages of the setup as conjuncts: `Meeting`, that the server waits in its first
  phase until the client has all its connections; `Restarting`, that each call of the second phase
  finds what the ones before it leave, so that none is refused; `KeyPassed`, that the key goes from
  the memory region through both files to the client; `Answered`, that the READ is executed, which
  needs all of these and `Sync`; `Snapshot`, that the registers are taken when all PSNs agree and
  that these stay. `FirstWord` is the arithmetic of `parse.py` and the switch: the borrow of PSN 0 is
  paid back by the 1 the switch adds.

`VmiProofs` proves about `VmiTools`, for any set of programs on any guest (`ScenarioAssumption`):

* `PauseHolds`: `Spec => []Undisturbed`; `AllReleased`: `Spec => []Released`; `DumpRestraint`:
  `Spec => DumpKeepsPause`; `ToolTypes`: `Spec => []TypeOK`. The invariant says for each program where
  it is: in the setup it holds what the calls so far acquired (`InSetup`), in the walk at least the
  instance (`InWalk`), at an exit no more than the rest of the label releases (`InExit`); and for the VM, that it is paused only
  if it was found so or somebody holds a pause (`PausedBy`), and runs under a pause only when another
  program has called `vmi_resume_vm` at its exit (`RunningBy`; who has, has for good: `LeftKept`). `Released` follows because an exit label is run to its
  end; `DumpRestraint` because the one path of `dump-memory` that resumes starts at the end of the walk, with a
  pause.

`CompilerProofs` proves about `Driver`, `PolicyCompiler` and `TableGen`, for any number of policies, of any
number of lines in any order that `parse` accepts, any base QPN and any coefficient:

* `RegistersDisjoint`: `Spec => []Disjoint`. Policies that fit (`Fits`: at most fifteen lines, three
  `.iter`, every count with a register) have no register in common: base addresses, trip counts,
  page-walk registers and PSNs are a policy's own. The assumption is `LineAssumption`: a line is what
  `parse` makes of one, with numbers for offsets and sizes and at least one field in a `.values`, and
  the base and the coefficient are numbers.
* `WalksAreClosed`: `Spec => []((every policy in done is NumbersApart) => Closed)`. Wherever a walk gets
  by following the rows, the next READ goes to a state that has a PSN register, or the walk ends; no
  line that `parse` accepts makes `gen_pc_tran` lead to a fake state, to -1 or into another policy. The
  hypothesis is about numbers, not about rows: client QPNs come from the command line, fake states are
  20 n and up, the ends 998 - n and 999 - n, all in the one number space the tables match on, and
  `policy.cc:31-34` does not compare them. Where they overlap, a row of `gen_pc_tran` for a client
  matches a fake state and the claim is false, so it cannot be dropped. The numbers of `compile`
  (server QPNs from 100, clients from 200, fake states below 20) and those of the usage line of
  `main.cc:46` (3000 and 300) satisfy it for every policy `compile` makes.

The compiler is a chain of folds, over lines, fields and AIMs, and what a fold computes needs an
induction over its length. The library's induction theorems take the step as a parameter, which the
provers cannot instantiate; `FoldInduction` states the principle as a module instead: `Step` and `Inv` are
CONSTANTS, the lemma `FoldInvariant` is proved once, from the well-foundedness of the natural numbers, and
each fold takes an `INSTANCE` with its step and its invariant. Five do:

1. `Marks` (`mark_iter`): after i lines, as many trip counts are given out as there were `.iter`, all from
   3 times the number of the policy on (`MarkInv`, `MarkIterFacts`).
2. `AimFold` (`frontend_compile`), and `Fields` inside it for the fields of a `.values`: between the first
   line and the last, a compilation is `Open`. States given out are between the first of the policy
   and `avail`, and each is the target of a READ; fake states are between 20 times its number and
   `fake`; every AIM of the head names only those; the tail has four AIMs per loop, innermost first,
   that end the loop in one of the two ways; as many `Push` as loops. There is one lemma per kind of line (`TraverseOpen`,
   `IterOpen`, `InOpen`, `ValuesOpen`), and `FrontEndCompiles` closes the policy with `End`.
3. `BaseFold` (`gen_base_operation`): the top of the stack of base addresses is where the `Push` and `Pop`
   before put it (`BaseInv`), so it never leaves the registers of the policy, one for the root and
   one per loop, and is where it was before when the last loop ends. This is where the number of `Push` and
   the shape of the tail are needed.
4. `FollowFold`, for `Reachable`, the search through the rows that `Closed` is stated with: what it has seen
   are the policy's init state and clients of its READs (`FollowInv`, `ReachableIn`).

For `RegistersDisjoint`, each generator of rows writes registers of the policy only (`CodeRegs`); a policy with fifteen
lines has at most thirteen loops, so its base addresses are among its fifteen (`RegistersInRange`).
PSN registers are numbered by state, so they are apart because a policy starts where the one before
stopped, after the four states of the page walk (`StartsAfter`). For `WalksAreClosed`, `PcOk` says where a
row may lead (an exit, or a state given out) and `Graph` that there are enough rows (`CodeIsGraph`): each
client waits in `end_transfer` or `direct_transfer`, each fake state has the rows of its loop, and a state
with two ways on (end of a list, end of a count) has a row for both. `PairsOk` and `DirectOk` follow a packet
through the three tables, and `TargetsIn` is their sum. The inductive invariant of the driver
is `Compilations`: the lines read so far start with `KernelGraph`, and every policy in `done` is the
compilation of its lines (`Compiled`) from where the one before it stopped.

Only model-checked, and why:

* liveness (`Terminates`, `PollEnds`, `Ends`): fairness and ENABLED are beyond the prover;
* `NoRefusal`, `ObservedPrefix`, `Observes`, `AlarmPrecise`: what a policy reads depends on how it was compiled and on
  the shape of the guest's lists, by recursion over both;
* `Wedged`: holds only until the PSN has gone half way round, a bound of the run;
* `Faithful`: its reference is a recursive walk of the guest;
* `NoConflict`, `CanEnd`, `AllRead` of the compiler: the first compares every two kinds of rows, of any two
  policies; the others say that something is reached, which needs the length of a path through the rows,
  where `Closed` needs only that no step leaves.

## 6. Not modelled

* `vmi-tty-check` and `vmi-const-check`: they do not compile at this commit (undeclared variables,
  missing semicolons), so there is no program to model. `vmi-dump-memory`'s Bareflank set-up is part of
  one call of its setup.
* The policy generator (`front_parser.py`): text to text, before the compiler starts.
* The disconnection monitor: polls a clock against the speed of a walk; the switch's model has no time.
* Trace analysis (`pcap_analyzer.py`): offline statistics.
* `connection/`: `print_ep`, which only prints; verbs of `VerbsEP` that nothing calls; the code after the
  client's first `return` and in comments; options (`cxxopts.hpp` is third-party); a client that is
  started again after a crash.
* Switch: the offset of a field added on 32-bit halves (right unless the object straddles 4 GB), large
  pages, which the switch does not recognise, page table entries without a present bit, trip counts
  of 0, a guest that changes while the switch walks it, headers, ports, checksums and timestamps,
  the bits of the PSN register between PSN and acknowledge request after 2^24 requests.
* Structure offsets are small numbers; real ones differ only in size.
