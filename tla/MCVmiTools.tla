----------------------------- MODULE MCVmiTools -----------------------------
(***************************************************************************)
(* Guests for the programs of libvmi_baseline, and what each program ought *)
(* to print of a memory.                                                   *)
(***************************************************************************)
EXTENDS VmiTools, SequencesExt, TLC

CONSTANTS Case,                \* "all" or "ghosts": the set of scenarios
          P, Q                 \* the processes

Processes == {P, Q}
Symbols == [init_task |-> 10, PsActiveProcessHead |-> 9, allproc |-> 9, modules |-> 8,
            PsLoadedModuleList |-> 8, keyboard_notifier_list |-> 80, init_net |-> 90,
            proc_root |-> 84, sys_call_table |-> 101]
Object(base, words) == [a \in base..(base + Len(words) - 1) |-> words[a - base + 1]]

\* task, its words: unused, tasks.next, pid, name, cred, files, mm. 0 has no mm, 2 no files
\* (it has exited and waits to be reaped). A list may be read while 1 is unlinked.
LinuxTasks ==
  Object(10, <<0, 21, 1, 1, 50, 53, 0>>) @@ Object(20, <<0, 31, 2, 2, 51, 53, 60>>)
    @@ Object(30, <<0, 11, 3, 3, 50, 0, 60>>)
WindowsTasks ==    \* the head at 9 is not part of a process
  Object(9, <<21>>) @@ Object(20, <<0, 31, 2, 2, 50, 53, 60>>) @@ Object(30, <<0, 9, 3, 3, 51, 53, 60>>)
FreeBsdTasks ==
  Object(9, <<20>>) @@ Object(20, <<30, 0, 2, 2, 50, 53, 60>>) @@ Object(30, <<0, 0, 3, 3, 51, 53, 60>>)
\* two creds; files, fdt, three descriptors of which the second is closed; two files, their
\* dentries; two areas
Parts ==
  Object(50, <<1, 2, 3>>) @@ Object(53, <<54, 3, 56, 41, 0, 42>>) @@ Object(41, <<44, 45>>)
    @@ Object(44, <<5, 6>>) @@ Object(60, <<61, 7, 8, 64, 9, 7, 0>>)
\* the head 8 and the modules 70 and 73
Modules == Object(8, <<70>>) @@ Object(70, <<73, 8, 4>>) @@ Object(73, <<8, 70, 5>>)
\* notifier list and two blocks; proc_root; system calls; netfilter: entries, NULL, entries
Tables(hooks, block) ==
  Object(80, <<0, block>>) @@ Object(82, <<1, 96>>) @@ Object(96, <<2, 0>>)
    @@ Object(84, <<86>>) @@ Object(86, <<5, 6, 7, 8>>) @@ Object(101, <<5, 6, 7, 8, 9>>)
    @@ Object(90, hooks) @@ Object(93, <<2, 6, 7>>) @@ Object(99, <<1, 8>>)
\* frames for dump-memory: some cannot be read, the last is empty
Ram == Object(1, <<4>>) @@ Object(3, <<5>>) @@ Object(5, <<0>>)

LinuxMem(hooks, block) == LinuxTasks @@ Parts @@ Modules @@ Tables(hooks, block)
Mem(os) == CASE os = "Linux" -> LinuxMem(<<93, 99, 93>>, 82)
             [] os = "Windows" -> WindowsTasks @@ Parts @@ Modules
             [] os = "FreeBSD" -> FreeBsdTasks @@ Parts @@ Modules

\* Unlinking task 1 and the first module, a new hook, a changed system call, a frame.
Stores == {<<11, 31>>, <<8, 73>>, <<94, 9>>, <<101, 9>>, <<3, 6>>}

\* Damage: the last descriptor leads to no file, or to a file without a dentry; the name of
\* the second module is paged out.
NoFile(m) == [m EXCEPT ![58] = 43]
NoDentry(m) == [m EXCEPT ![42] = 43]
NoName(m) == [a \in DOMAIN m \ {75} |-> m[a]]

Scenario(os, m, state, p, q, sparse, pause) ==
  [os |-> os, mem |-> m, stores |-> {s \in Stores : s[1] \in DOMAIN m}, vm |-> state,
   tool |-> P :> p @@ Q :> q, sparse |-> P :> sparse @@ Q :> sparse, pause |-> P :> pause @@ Q :> pause]
Linux(p, q) == Scenario("Linux", Mem("Linux"), "running", p, q, FALSE, TRUE)

Listing == {"process", "credential", "openfile", "vmarea", "module", "keylogger", "netfilter",
            "procfops", "syscall"}
MCScenarios ==
  IF Case = "ghosts" THEN {Scenario("Linux", LinuxMem(<<93, 0, 99>>, 82), "running", "netfilter", "none", FALSE, TRUE)}
  ELSE {Linux(p, "none") : p \in Listing}
    \cup {Scenario(os, Mem(os), "running", p, "none", FALSE, TRUE) :
            os \in {"Windows", "FreeBSD"}, p \in {"process", "credential", "vmarea", "module", "syscall"}}
    \cup {Scenario("Linux", LinuxMem(<<93, 0, 99>>, 0), "running", p, "none", FALSE, TRUE) :
            p \in {"netfilter", "keylogger"}}
    \cup {Scenario("Linux", Ram, state, "dump", "none", sparse, pause) :
            state \in {"running", "paused"}, sparse \in BOOLEAN, pause \in BOOLEAN}
    \cup {Scenario("Linux", m, "running", "openfile", "none", FALSE, TRUE) :
            m \in {NoFile(Mem("Linux")), NoDentry(Mem("Linux"))}}
    \cup {Scenario(os, NoName(Mem(os)), "running", "module", "none", FALSE, TRUE) :
            os \in {"Linux", "Windows"}}
    \cup {Linux("process", "procfops"), Linux("module", "openfile"), Linux("syscall", "netfilter")}
    \cup {[Scenario("Linux", Ram, "running", "dump", "dump", FALSE, TRUE) EXCEPT !.pause[Q] = FALSE]}

-----------------------------------------------------------------------------
(* What a program should print of m *)

RECURSIVE From(_, _, _)
From(m, a, end) == IF a = end THEN <<>> ELSE <<a>> \o From(m, m[a], end)
RECURSIVE Chain(_, _, _)
Chain(m, a, next) == IF a = 0 THEN <<>> ELSE <<a>> \o Chain(m, m[a + next], next)

Each(seq, Op(_)) == FlattenSeq([i \in 1..Len(seq) |-> Op(seq[i])])

Tasks(os, m) ==
  LET links == CASE os = "Linux"   -> <<11>> \o From(m, m[11], 11)
                 [] os = "Windows" -> From(m, m[9], 9)
                 [] os = "FreeBSD" -> From(m, m[9], 0)
  IN  [i \in 1..Len(links) |-> links[i] - tasks_offset(os)]

Reference(tool, os, m) ==
  LET Process(t) == <<<<m[t + 2], m[t + 3]>>>>
      Cred(t) == <<<<m[m[t + 4]], m[m[t + 4] + 1]>>>>
      Areas(t) == IF m[t + 6] = 0 THEN <<>>
                  ELSE Each(Chain(m, m[m[t + 6]], 2), LAMBDA a : <<<<m[t + 2], m[a], m[a + 1]>>>>)
      Files(t) == IF m[t + 5] = 0 THEN <<>>
                  ELSE LET fdt == m[m[t + 5]]
                           fds == [i \in 1..m[fdt] |-> m[m[fdt + 1] + i - 1]]
                       IN  Each(SelectSeq(fds, LAMBDA f : f \in DOMAIN m), LAMBDA f : <<<<m[t + 2], m[m[f]]>>>>)
      Hooks(slot) == LET e == m[90 + slot - 1]
                     IN  IF e = 0 THEN <<>> ELSE [k \in 1..m[e] |-> <<m[e + k]>>]
      Name(a) == IF os = "Windows" /\ a + 2 \notin DOMAIN m THEN <<>> ELSE <<<<Rd(m, a + 2, 0)>>>>
  IN  CASE tool = "process"    -> Each(Tasks(os, m), Process)
        [] tool = "credential" -> Each(Tasks(os, m), Cred)
        [] tool = "vmarea"     -> Each(Tasks(os, m), Areas)
        [] tool = "openfile"   -> Each(Tasks(os, m), Files)
        [] tool = "module"     -> Each(From(m, m[8], 8), Name)
        [] tool = "keylogger"  -> Each(Chain(m, m[81], 1), LAMBDA b : <<<<m[b]>>>>)
        [] tool = "netfilter"  -> Each(<<1, 2, 3>>, Hooks)
        [] tool = "procfops"   -> <<<<m[87], m[88]>>, <<m[86], m[89]>>>>
        [] tool = "syscall"    -> [i \in 1..TableSize |-> <<i - 1, m[101 + i - 1]>>]
        [] tool = "dump"       -> [i \in 1..MaxPhysical(m) |-> Rd(m, i - 1, 0)]

\* The words of seq that are also in all, in order, without the rest of all.
RECURSIVE Within(_, _)
Within(seq, all) ==
  \/ seq = <<>>
  \/ all # <<>> /\ Within(IF Head(seq) = Head(all) THEN Tail(seq) ELSE seq, Tail(all))

\* A program that returned 0 with no failure it did not notice; and undisturbed.
Complete(t) == pc[t] = "done" /\ scn.tool[t] # "none" /\ code[t] = 0 /\ ~seen[t].cut
Trusted(t) == Complete(t) /\ ~seen[t].torn

\* A dump ends at the last frame written, and only empty frames may follow.
DumpOf(t, ref) == /\ Len(out[t]) <= Len(ref)
                  /\ \A i \in (Len(out[t]) + 1)..Len(ref) : scn.sparse[t] /\ ref[i] = 0

\* What a program that is trusted prints holds everything of the guest as it was when the
\* walk began, in order; most print nothing else. A program that walks a table the guest
\* stores into meanwhile prints every entry once, as it was or as it is; of a list
\* nothing is promised then.
Faithful ==
  \A t \in Tools : Complete(t) =>
    LET ref == Reference(scn.tool[t], scn.os, seen[t].mem)
        now == Reference(scn.tool[t], scn.os, mem)
    IN  IF seen[t].torn
        THEN scn.tool[t] \in TableTools =>
               /\ IF scn.tool[t] = "dump" THEN DumpOf(t, ref) ELSE Len(out[t]) = Len(ref)
               /\ \A i \in DOMAIN out[t] : out[t][i] \in {ref[i], now[i]}
        ELSE CASE scn.tool[t] = "dump" -> IsPrefix(out[t], ref) /\ DumpOf(t, ref)
               [] scn.os = "FreeBSD" \/ scn.tool[t] \in {"netfilter", "openfile", "keylogger"} ->
                    Within(ref, out[t])
               [] OTHER -> out[t] = ref

\* "print out the hook func" (vmi-netfilter-func-check.c:195): every line printed is one of
\* the guest. A slot without hooks leaves the number of the slot before, and that many lines
\* repeat the last function.
Genuine == \A t \in Tools : Trusted(t) => Within(out[t], Reference(scn.tool[t], scn.os, seen[t].mem))
=============================================================================
