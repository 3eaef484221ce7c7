------------------------------ MODULE VmiWalks ------------------------------
(***************************************************************************)
(* What the programs of libvmi_baseline/src read and print. A program's    *)
(* variables are the record r; one iteration of its outermost loop is an   *)
(* operator from memory and r to                                           *)
(*   [r, out, st]: the variables after it, the lines it printed, and       *)
(*   whether the loop goes on ("go"), has ended ("ok") or jumped to        *)
(*   error_exit ("fail").                                                  *)
(* Memory m is a function from the mapped addresses to words. Sizes are    *)
(* scaled down: one word per field, the structures as below.               *)
(***************************************************************************)
EXTENDS Integers, Sequences

CONSTANTS Sym,          \* the address of every kernel symbol
          ProtoHooks,   \* nf_proto_num * nf_max_hooks_num
          TableSize     \* table_poll_size

\* Offsets of the fields that are read, in the order of the words of a structure.
\* task_struct: tasks, pid, name, cred, files, mm
tasks_offset(os) == IF os = "FreeBSD" THEN 0 ELSE 1
pid_offset   == 2
name_offset  == 3
cred_offset  == 4
files_offset == 5
mm_offset    == 6

\* A read whose status nobody checks leaves the variable as it was.
Rd(m, a, old) == IF a \in DOMAIN m THEN m[a] ELSE old

\* The variables of a program, all 0 before its first read.
Blank == [head |-> 0, cur |-> 0, next |-> 0, i |-> 0, in |-> FALSE,
          a |-> 0, b |-> 0, c |-> 0, d |-> 0, e |-> 0, f |-> 0, g |-> 0]

-----------------------------------------------------------------------------
(* Lists of processes *)

\* The calls that find the head of the list, read the next pointer there and, on FreeBSD,
\* whose list is not circular, advance once.
ListHead(os, m) ==
  CASE os = "Linux"   -> Sym.init_task + tasks_offset(os)
    [] os = "Windows" -> Rd(m, Sym.PsActiveProcessHead, 0)
    [] os = "FreeBSD" -> Sym.allproc
FindList(os, m) == [Blank EXCEPT !.head = ListHead(os, m), !.cur = ListHead(os, m)]
EnterList(m, r) == [r EXCEPT !.next = m[r.cur]]
EnterFirst(m, r) == [r EXCEPT !.head = 0, !.cur = m[r.cur]]

\* Mutant: leaves before the last element of the list.
FollowShort(os, m, r, out) ==
  LET s == [r EXCEPT !.cur = r.next, !.next = Rd(m, r.next, @)]
  IN  [r |-> s, out |-> out,
       st |-> IF r.next \notin DOMAIN m THEN "fail" ELSE IF s.next = s.head THEN "ok" ELSE "go"]

\* The end of every iteration: leave, or follow the next pointer.
Follow(os, m, r, out) ==
  LET s == [r EXCEPT !.cur = r.next, !.next = Rd(m, r.next, @)]
      last == \/ os = "Windows" /\ s.next = s.head
              \/ os = "Linux" /\ s.cur = s.head
  IN  IF os = "FreeBSD" /\ r.next = r.head THEN [r |-> r, out |-> out, st |-> "ok"]
      ELSE [r |-> s, out |-> out,
            st |-> IF r.next \notin DOMAIN m THEN "fail" ELSE IF last THEN "ok" ELSE "go"]

\* vmi-process-list: pid and name; a name that cannot be read ends the program.
ProcessListStep(os, m, r) ==
  LET process == r.cur - tasks_offset(os)
      s == [r EXCEPT !.a = Rd(m, process + pid_offset, r.a)]
  IN  IF process + name_offset \notin DOMAIN m
      THEN [r |-> s, out |-> <<>>, st |-> "fail"]
      ELSE Follow(os, m, s, <<<<s.a, m[process + name_offset]>>>>)

\* vmi-credential-list: task -> cred -> uid, gid.
CredentialListStep(os, m, r) ==
  LET cred == Rd(m, r.cur - tasks_offset(os) + cred_offset, r.a)
      s == [r EXCEPT !.a = cred, !.b = Rd(m, cred, r.b), !.c = Rd(m, cred + 1, r.c)]
  IN  Follow(os, m, s, <<<<s.b, s.c>>>>)

\* vmi-open-file-check: task -> files -> fdt -> the array of file pointers, NULL
\* ones skipped; file -> dentry -> name, of which only the name is checked. An iteration is
\* one descriptor while r.in. a pid, b files, c fdt, d max_fds, e fd array, f file, g dentry.
OpenFileStep(os, m, r) ==
  LET process == r.cur - tasks_offset(os)
      files == Rd(m, process + files_offset, r.b)
      fdt   == Rd(m, files, r.c)
      s == [r EXCEPT !.a = Rd(m, process + pid_offset, r.a), !.b = files, !.c = fdt,
                     !.d = Rd(m, fdt, r.d), !.e = Rd(m, fdt + 1, r.e), !.i = 0, !.in = TRUE]
      file == Rd(m, r.e + r.i, r.f)
      fd == [r EXCEPT !.i = @ + 1, !.f = file, !.g = IF file = 0 THEN @ ELSE Rd(m, file, @)]
  IN  IF ~r.in THEN [r |-> s, out |-> <<>>, st |-> "go"]
      ELSE IF r.i = r.d THEN Follow(os, m, [r EXCEPT !.in = FALSE], <<>>)
      ELSE IF file = 0 THEN [r |-> fd, out |-> <<>>, st |-> "go"]
      ELSE IF fd.g \notin DOMAIN m THEN [r |-> fd, out |-> <<>>, st |-> "fail"]
      ELSE [r |-> fd, out |-> <<<<r.a, m[fd.g]>>>>, st |-> "go"]

\* vmi-vm-area-check: task -> mm -> the list of areas, to a NULL vm_next. An
\* iteration is one of the inner loop while r.in. a pid, b mm, c area, d vm_next,
\* e start, f end (and protection).
VmAreaStep(os, m, r) ==
  LET process == r.cur - tasks_offset(os)
      s == [r EXCEPT !.a = Rd(m, process + pid_offset, r.a),
                     !.b = Rd(m, process + mm_offset, r.b)]
      area == [r EXCEPT !.e = Rd(m, r.c, r.e), !.f = Rd(m, r.c + 1, r.f),
                        !.d = Rd(m, r.c + 2, r.d)]
      line == <<<<r.a, area.e, area.f>>>>
  IN  IF r.in
      THEN IF area.d = 0 THEN Follow(os, m, [area EXCEPT !.in = FALSE], line)
           ELSE [r |-> [area EXCEPT !.c = area.d], out |-> line, st |-> "go"]
      ELSE IF s.b = 0 THEN Follow(os, m, s, <<>>)
           ELSE [r |-> [s EXCEPT !.c = Rd(m, s.b, r.c), !.in = TRUE], out |-> <<>>, st |-> "go"]

-----------------------------------------------------------------------------
(* Other lists, and tables *)

\* vmi-module-list takes what the list's symbol points to, the first element,
\* for the head; a symbol that cannot be read leaves it 0.
EnterModules(os, m, found) ==
  LET first == IF found
               THEN Rd(m, IF os = "Linux" THEN Sym.modules ELSE Sym.PsLoadedModuleList, 0)
               ELSE 0
  IN  [Blank EXCEPT !.head = first, !.next = first]

\* Mutant: takes the list for one that ends with NULL.
ModuleListNull(os, m, r) ==
  LET next == Rd(m, r.next, 0)
  IN  IF next = 0 THEN [r |-> r, out |-> <<>>, st |-> "ok"]
      ELSE [r |-> [r EXCEPT !.next = next], out |-> <<>>, st |-> "go"]

\* A name that cannot be read is printed as "(null)" on Linux, not at all on Windows.
ModuleListStep(os, m, r) ==
  LET next == Rd(m, r.next, 0)
      unnamed == os = "Windows" /\ r.next + 2 \notin DOMAIN m
  IN  IF r.head = next THEN [r |-> r, out |-> <<>>, st |-> "ok"]
      ELSE [r |-> [r EXCEPT !.next = next], st |-> "go",
            out |-> IF unnamed THEN <<>> ELSE <<<<Rd(m, r.next + 2, 0)>>>>]

\* vmi-keylogger-check: the chain of notifier blocks, to a NULL next. a block,
\* b notifier_call.
EnterKeylogger(m) == [Blank EXCEPT !.a = m[Sym.keyboard_notifier_list + 1]]
KeyloggerStep(m, r) ==
  LET s == [r EXCEPT !.b = Rd(m, r.a, r.b), !.a = Rd(m, r.a + 1, r.a)]
  IN  [r |-> s, out |-> <<<<s.b>>>>,
       st |-> IF r.a + 1 \notin DOMAIN m \/ s.a = 0 THEN "ok" ELSE "go"]

\* vmi-netfilter-func-check: for every slot of protocol and hook, the array of
\* functions its entries hold. a entries, b num_hook_entries, c hookfn.
EnterNetfilter == Blank
NetfilterStep(m, r) ==
  LET entries == Rd(m, Sym.init_net + r.i, r.a)
      s == [r EXCEPT !.i = @ + 1, !.a = entries, !.b = Rd(m, entries, r.b)]
      fn[k \in 0..s.b] == IF k = 0 THEN r.c ELSE Rd(m, entries + k, fn[k - 1])
  IN  IF r.i = ProtoHooks THEN [r |-> r, out |-> <<>>, st |-> "ok"]
      ELSE [r |-> [s EXCEPT !.c = fn[s.b]], out |-> [k \in 1..s.b |-> <<fn[k]>>], st |-> "go"]

\* vmi-proc-file-ops: proc_root -> proc_fops -> llseek, write, read, iterate_shared.
EnterProcFops(m) == [Blank EXCEPT !.a = m[Sym.proc_root]]
ProcFileOpsStep(m, r) ==
  LET fn(n) == Rd(m, r.a + n, 0)
  IN  [r |-> r, out |-> <<<<fn(1), fn(2)>>, <<fn(0), fn(3)>>>>, st |-> "ok"]

\* vmi-syscall-table-check: a fixed number of entries. a sys_call_ptr.
SyscallTableStep(m, r) ==
  LET s == [r EXCEPT !.i = @ + 1, !.a = Rd(m, Sym.sys_call_table + r.i, r.a)]
  IN  IF r.i = TableSize THEN [r |-> r, out |-> <<>>, st |-> "ok"]
      ELSE [r |-> s, out |-> <<<<r.i, s.a>>>>, st |-> "go"]

\* vmi-dump-memory: frame by frame, a frame that cannot be read as zeros. In sparse
\* mode an empty frame is a seek (counted in a), which the next write turns into
\* zeros. A write or a seek may fail. r.in: SIGINT arrived.
MaxPhysical(m) == 1 + CHOOSE a \in DOMAIN m : \A b \in DOMAIN m : a >= b
DumpStep(m, r, sparse, fails) ==
  LET frame == Rd(m, r.i, 0)
      hole  == sparse /\ frame = 0
  IN  IF r.i = MaxPhysical(m) \/ r.in THEN [r |-> r, out |-> <<>>, st |-> "ok"]
      ELSE IF fails THEN [r |-> r, out |-> <<>>, st |-> "fail"]
      ELSE [r |-> [r EXCEPT !.i = @ + 1, !.a = IF hole THEN @ + 1 ELSE 0],
            out |-> IF hole THEN <<>> ELSE [k \in 1..(r.a + 1) |-> IF k > r.a THEN frame ELSE 0],
            st |-> "go"]
=============================================================================
