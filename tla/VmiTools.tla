------------------------------ MODULE VmiTools ------------------------------
(***************************************************************************)
(* The programs of libvmi_baseline/src around their walks: options, the    *)
(* LibVMI instance, the offsets, pausing the VM "for consistent memory     *)
(* access", the walk, and the exit labels that resume the VM and release   *)
(* what was acquired. Several may run at the same time on the same VM,     *)
(* whose kernel changes its memory whenever it is not paused.              *)
(* vmi-tty-check and vmi-const-check do not compile and are left out.      *)
(***************************************************************************)
EXTENDS VmiWalks

CONSTANTS Scenarios,    \* set of [os, mem, stores, vm, tool, sparse, pause]: the guest, the
                        \* words its kernel may store, whether the VM is found running, the
                        \* program ("none": no process) and dump-memory's flags per process
          Tools,        \* the processes
          MaxStores,    \* bound: stores of the guest
          MaxLines      \* bound: lines a program prints

ToolNames == {"process", "credential", "vmarea", "openfile", "module", "keylogger",
              "netfilter", "procfops", "syscall", "dump", "none"}
ASSUME ScenarioAssumption ==
  /\ MaxStores \in Nat
  /\ \A s \in Scenarios :
       /\ s.os \in {"Linux", "Windows", "FreeBSD"} /\ s.vm \in {"running", "paused"}
       /\ s.tool \in [Tools -> ToolNames] /\ s.pause \in [Tools -> BOOLEAN]

VARIABLES scn,
          mem, vm, stores,   \* guest memory; "running" or "paused"; stores so far
          pc,       \* per process: "setup", "walk", "exit" or "done"
          plan, at, \* the calls of the setup or of the exit label, and the next one
          held,     \* what it has acquired and not released: "vmi", "file", "pause"
          r, out,   \* the variables of its walk, the lines printed
          code,     \* retcode
          seen      \* history: memory when its walk began; whether the guest has stored since it
                    \* paused or began; whether a failure went unnoticed or a signal cut it short

vars == <<scn, mem, vm, stores, pc, plan, at, held, r, out, code, seen>>

-----------------------------------------------------------------------------
(* The calls of every program up to its walk, in order. All but those in    *)
(* Unchecked jump to an exit label when they fail. "linux" and "listed" are *)
(* the checks of the OS, "head" and "first" the reads of the first pointers. *)

Offsets(os) == IF os = "FreeBSD" THEN <<"offset", "offset">> ELSE <<"offset", "offset", "offset">>

ListStart(os) ==
  IF os = "FreeBSD" THEN <<"pause", "mode", "symbol", "head", "first">>
  ELSE <<"pause", "mode", "symbol", "head">>

ProcessListSetup(os) == <<"args", "init">> \o Offsets(os) \o ListStart(os)
CredentialListSetup(os) == <<"args", "init">> \o Offsets(os) \o ListStart(os)
VmAreaSetup(os) == <<"args", "init">> \o Offsets(os) \o ListStart(os)
OpenFileSetup ==
  <<"args", "init", "linux", "offset", "offset", "offset", "pause", "mode", "symbol", "head">>
ModuleListSetup == <<"args", "init", "pause", "listed", "symbol">>
KeyloggerSetup == <<"args", "init", "pause", "mode", "linux", "symbol", "head">>
NetfilterSetup == <<"args", "init", "pause", "mode", "linux", "symbol">>
ProcFileOpsSetup == <<"args", "init", "pause", "mode", "linux", "symbol", "head">>
SyscallTableSetup == <<"args", "init", "pause", "mode", "linux", "symbol">>
DumpSetup(pause) ==
  IF pause THEN <<"args", "mode", "init", "open", "pause", "size">>
  ELSE <<"args", "mode", "init", "open", "size">>

Setup(tool, os, pause) ==
  CASE tool = "process"    -> ProcessListSetup(os)
    [] tool = "credential" -> CredentialListSetup(os)
    [] tool = "vmarea"     -> VmAreaSetup(os)
    [] tool = "openfile"   -> OpenFileSetup
    [] tool = "module"     -> ModuleListSetup
    [] tool = "keylogger"  -> KeyloggerSetup
    [] tool = "netfilter"  -> NetfilterSetup
    [] tool = "procfops"   -> ProcFileOpsSetup
    [] tool = "syscall"    -> SyscallTableSetup
    [] tool = "dump"       -> DumpSetup(pause)
    [] tool = "none"       -> <<>>

\* Mutant: nobody looks at what vmi_init_complete returns.
UncheckedInit(tool) == IF tool = "module" THEN {"pause", "symbol", "init"} ELSE {"init"}
Unchecked(tool) == IF tool = "module" THEN {"pause", "symbol"} ELSE {}

\* What an exit label does: error_exit of the listing programs, and the four labels
\* of dump-memory, by the call that failed ("walk": the end of the walk, either way).
ErrorExit(call) == IF call = "args" THEN <<>> ELSE <<"resume", "destroy">>
\* Mutants: the end of the walk goes straight to the label that closes the file; a pause that
\* fails jumps to the label that resumes.
DumpExitPaused(call, pause) ==
  CASE call \in {"args", "mode", "init"} -> <<>>
    [] call = "open"  -> <<"destroy">>
    [] call \in {"pause", "walk"} -> <<"close", "destroy">>
DumpExitResumes(call, pause) ==
  CASE call \in {"args", "mode", "init"} -> <<>>
    [] call = "open"  -> <<"destroy">>
    [] call \in {"pause", "walk"} -> <<"resume", "close", "destroy">>
DumpExit(call, pause) ==
  CASE call \in {"args", "mode", "init"} -> <<>>
    [] call = "open"  -> <<"destroy">>
    [] call = "pause" -> <<"close", "destroy">>
    [] call = "walk"  -> IF pause THEN <<"resume", "close", "destroy">> ELSE <<"close", "destroy">>
Exit(t, call) ==
  IF scn.tool[t] = "dump" THEN DumpExit(call, scn.pause[t]) ELSE ErrorExit(call)

\* The programs that walk a list of processes.
ProcessTools == {"process", "credential", "vmarea", "openfile"}

\* What a call of the setup reads into the variables of the walk.
Load(t, call, missed) ==
  LET tool == scn.tool[t]
  IN  CASE tool \in ProcessTools /\ call = "symbol" -> FindList(scn.os, mem)
        [] tool \in ProcessTools /\ call = "head"   -> EnterList(mem, r[t])
        [] tool \in ProcessTools /\ call = "first"  -> EnterFirst(mem, r[t])
        [] tool = "module" /\ call = "symbol"  -> EnterModules(scn.os, mem, ~missed)
        [] tool = "keylogger" /\ call = "head" -> EnterKeylogger(mem)
        [] tool = "procfops" /\ call = "head"  -> EnterProcFops(mem)
        [] tool = "netfilter" /\ call = "symbol" -> EnterNetfilter
        [] OTHER -> r[t]

\* One iteration of the walk.
Step(t, fails) ==
  LET tool == scn.tool[t]
  IN  CASE tool = "process"    -> ProcessListStep(scn.os, mem, r[t])
        [] tool = "credential" -> CredentialListStep(scn.os, mem, r[t])
        [] tool = "vmarea"     -> VmAreaStep(scn.os, mem, r[t])
        [] tool = "openfile"   -> OpenFileStep(scn.os, mem, r[t])
        [] tool = "module"     -> ModuleListStep(scn.os, mem, r[t])
        [] tool = "keylogger"  -> KeyloggerStep(mem, r[t])
        [] tool = "netfilter"  -> NetfilterStep(mem, r[t])
        [] tool = "procfops"   -> ProcFileOpsStep(mem, r[t])
        [] tool = "syscall"    -> SyscallTableStep(mem, r[t])
        [] tool = "dump"       -> DumpStep(mem, r[t], scn.sparse[t], fails)

-----------------------------------------------------------------------------
Init ==
  /\ scn \in Scenarios
  /\ mem = scn.mem /\ vm = scn.vm /\ stores = 0
  /\ pc = [t \in Tools |-> IF scn.tool[t] = "none" THEN "done" ELSE "setup"]
  /\ plan = [t \in Tools |-> Setup(scn.tool[t], scn.os, scn.pause[t])]
  /\ at = [t \in Tools |-> 1]
  /\ held = [t \in Tools |-> {}]
  /\ r = [t \in Tools |-> Blank] /\ out = [t \in Tools |-> <<>>]
  /\ code = [t \in Tools |-> 1]
  /\ seen = [t \in Tools |-> [mem |-> scn.mem, torn |-> FALSE, cut |-> FALSE]]

\* The next call, if there is one.
Current(t) == plan[t][at[t]]
Goto(t, exit) == plan' = [plan EXCEPT ![t] = exit] /\ at' = [at EXCEPT ![t] = 1]

\* Whether the OS passes a program's check of it.
OsPasses(call) == /\ call = "linux" => scn.os = "Linux"
                  /\ call = "listed" => scn.os # "FreeBSD"

Acquired(call) == CASE call = "init" -> {"vmi"} [] call = "open" -> {"file"}
                    [] call = "pause" -> {"pause"} [] OTHER -> {}

\* vmi_pause_vm and vmi_resume_vm of the KVM driver: the VM has one flag, no count.
Pause == vm' = "paused"
Resume(t) == vm' = IF "vmi" \in held[t] THEN "running" ELSE vm

\* After a call of the setup: the next one, or the walk.
Advance(t, missed) ==
  /\ at' = [at EXCEPT ![t] = @ + 1] /\ UNCHANGED plan
  /\ pc' = IF at[t] = Len(plan[t]) THEN [pc EXCEPT ![t] = "walk"] ELSE pc
  /\ r' = [r EXCEPT ![t] = Load(t, Current(t), missed)]
  /\ seen' = [seen EXCEPT ![t].mem = IF at[t] = Len(plan[t]) THEN mem ELSE @,
                          ![t].cut = @ \/ missed]

\* A call of the setup that succeeds.
Call(t) ==
  /\ pc[t] = "setup"
  /\ OsPasses(Current(t))
  /\ Advance(t, FALSE)
  /\ held' = [held EXCEPT ![t] = @ \cup Acquired(Current(t))]
  /\ IF Current(t) = "pause" THEN Pause ELSE UNCHANGED vm
  /\ UNCHANGED <<scn, mem, stores, out, code>>

\* Mutant: what failed is taken for acquired.
MissHeld(t) ==
  /\ pc[t] = "setup"
  /\ Current(t) \in Unchecked(scn.tool[t])
  /\ Advance(t, TRUE)
  /\ held' = [held EXCEPT ![t] = @ \cup Acquired(Current(t))]
  /\ UNCHANGED <<scn, mem, vm, stores, out, code>>

\* A call that fails without the program noticing.
Miss(t) ==
  /\ pc[t] = "setup"
  /\ Current(t) \in Unchecked(scn.tool[t])
  /\ Advance(t, TRUE)
  /\ UNCHANGED <<scn, mem, vm, stores, held, out, code>>

\* A call that fails and is checked. Asking for the size of memory does not fail.
Fail(t) ==
  /\ pc[t] = "setup"
  /\ Current(t) \notin Unchecked(scn.tool[t]) \cup {"size"}
  /\ Current(t) \in {"linux", "listed"} => ~OsPasses(Current(t))
  /\ pc' = [pc EXCEPT ![t] = "exit"]
  /\ Goto(t, Exit(t, Current(t)))
  /\ UNCHANGED <<scn, mem, vm, stores, held, r, out, code, seen>>

\* One iteration of the walk.
Walk(t, fails) ==
  /\ pc[t] = "walk"
  /\ Len(out[t]) < MaxLines
  /\ \E s \in {Step(t, fails)} :
       /\ r' = [r EXCEPT ![t] = s.r]
       /\ out' = [out EXCEPT ![t] = @ \o s.out]
       /\ IF s.st = "go" THEN UNCHANGED <<pc, plan, at, code>>
          ELSE /\ pc' = [pc EXCEPT ![t] = "exit"]
               /\ Goto(t, Exit(t, "walk"))
               /\ code' = [code EXCEPT ![t] = IF s.st = "ok" THEN 0 ELSE 1]
  /\ UNCHANGED <<scn, mem, vm, stores, held, seen>>

\* The calls of an exit label, and the return.
Leave(t) ==
  /\ pc[t] = "exit" /\ at[t] <= Len(plan[t])
  /\ at' = [at EXCEPT ![t] = @ + 1]
  /\ held' = [held EXCEPT ![t] = @ \ CASE Current(t) = "resume"  -> {"pause"}
                                       [] Current(t) = "close"   -> {"file"}
                                       [] Current(t) = "destroy" -> {"vmi"}]
  /\ IF Current(t) = "resume" THEN Resume(t) ELSE UNCHANGED vm
  /\ UNCHANGED <<scn, mem, stores, pc, plan, r, out, code, seen>>
Return(t) ==
  /\ pc[t] = "exit" /\ at[t] > Len(plan[t])
  /\ pc' = [pc EXCEPT ![t] = "done"]
  /\ UNCHANGED <<scn, mem, vm, stores, plan, at, held, r, out, code, seen>>

\* The handler of SIGINT, installed once dump-memory has paused the VM.
Interrupt(t) ==
  /\ pc[t] = "walk" /\ scn.tool[t] = "dump" /\ ~r[t].in
  /\ r' = [r EXCEPT ![t].in = TRUE]
  /\ seen' = [seen EXCEPT ![t].cut = TRUE]
  /\ UNCHANGED <<scn, mem, vm, stores, pc, plan, at, held, out, code>>

\* The kernel of the guest stores a word.
Guest ==
  /\ vm = "running" /\ stores < MaxStores
  /\ \E s \in scn.stores : mem' = [mem EXCEPT ![s[1]] = s[2]] /\ mem' # mem
  /\ stores' = stores + 1
  /\ seen' = [t \in Tools |->
                [seen[t] EXCEPT !.torn = @ \/ "pause" \in held[t] \/ pc[t] = "walk"]]
  /\ UNCHANGED <<scn, vm, pc, plan, at, held, r, out, code>>

Tool(t) == Call(t) \/ Miss(t) \/ Fail(t) \/ Walk(t, FALSE) \/ Leave(t) \/ Return(t)
\* fwrite or fseek of dump-memory fails.
DiskFull(t) == scn.tool[t] = "dump" /\ Walk(t, TRUE)

Next == Guest \/ \E t \in Tools : Tool(t) \/ DiskFull(t) \/ Interrupt(t)
Spec == Init /\ [][Next]_vars
\* A program goes on as long as it is scheduled. Nothing is assumed of the guest.
FairSpec == Spec /\ \A t \in Tools : WF_vars(Tool(t))

-----------------------------------------------------------------------------
Calls == {"args", "init", "linux", "listed", "offset", "pause", "mode", "symbol", "head", "first",
          "open", "size", "resume", "close", "destroy"}
TypeOK ==
  /\ DOMAIN mem = DOMAIN scn.mem
  /\ vm \in {"running", "paused"} /\ stores \in 0..MaxStores
  /\ pc \in [Tools -> {"setup", "walk", "exit", "done"}]
  /\ plan \in [Tools -> Seq(Calls)] /\ at \in [Tools -> Nat \ {0}]
  /\ held \in [Tools -> SUBSET {"vmi", "file", "pause"}]
  /\ code \in [Tools -> {0, 1}]
  /\ \A t \in Tools : /\ pc[t] = "setup" => at[t] <= Len(plan[t])
                      /\ pc[t] = "walk" => "vmi" \in held[t]

\* A program has called vmi_resume_vm.
Resumed(t) == pc[t] \in {"exit", "done"} /\ \E k \in 1..(at[t] - 1) : plan[t][k] = "resume"

\* The guest's memory changes under a program that holds a pause only after another
\* program has called vmi_resume_vm at its exit, which resumes whoever paused: a program that
\* is alone, or beside one that leaves without that call, is never disturbed.
Undisturbed ==
  \A t \in Tools : seen[t].torn /\ "pause" \in held[t] => \E u \in Tools \ {t} : Resumed(u)

\* Whichever call failed and whichever label was taken, when the programs are done no
\* instance, file or pause is left behind, and a VM that ran before runs again.
Released ==
  (\A t \in Tools : pc[t] = "done") =>
    /\ \A t \in Tools : held[t] = {}
    /\ vm = "running" \/ scn.vm = "paused"

\* dump-memory never resumes a VM it has not paused itself, on no path through its labels:
\* the listing programs' error_exit does.
DumpKeepsPause ==
  [][\A t \in Tools :
       scn.tool[t] = "dump" /\ at'[t] # at[t] /\ vm = "paused" /\ vm' = "running"
         => "pause" \in held[t]]_vars

\* The programs that walk a table, or the frames of memory, by counting.
TableTools == {"netfilter", "procfops", "syscall", "dump"}

\* Every program ends, with whatever code. Only a list the guest changes under a walk may
\* keep it for ever, when it loses the element the walk ends at; a table may not.
Ends == <>(\A t \in Tools : pc[t] = "done" \/ (seen[t].torn /\ scn.tool[t] \notin TableTools))
=============================================================================
