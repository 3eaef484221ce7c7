---------------------------- MODULE Connection ----------------------------
(***************************************************************************)
(* How RDMI gets its connections: rdmatry_server on the watched host,      *)
(* rdmatry_client on the remote one, their RDMA NICs, and an operator who  *)
(* starts them, carries obj_addr_key.txt from one to the other, presses    *)
(* keys at their prompts, and turns the PSNs into registers of the switch  *)
(* with parse.py. Calls of librdmacm and libibverbs may fail; most         *)
(* failures are only printed.                                              *)
(***************************************************************************)
EXTENDS Integers

CONSTANTS NumConn,      \* -n: connections
          PsnMod,       \* 2^24: PSNs are counted modulo this
          StartPsns,    \* the PSNs a NIC may choose for each new connection
          Scenarios,    \* set of [orderly, key, sfile, cfile]: whether the operator keeps to the
                        \* order of the readme, the key the NIC gives out, the files found
          Retries,      \* conn_param.retry_count
          MaxFailures   \* bound: calls that fail and packets that get lost

Conns == 1..NumConn
Psns == 0..(PsnMod - 1)
Files == {"none", "empty", "old", "new"}   \* no file, no line, or the key in its first line

ASSUME ConnectionAssumption ==
  /\ NumConn \in Nat \ {0} /\ PsnMod \in Nat \ {0} /\ StartPsns \in [Conns -> SUBSET Psns]
  /\ Retries \in Nat /\ MaxFailures \in Nat
  /\ \A s \in Scenarios : /\ s.orderly \in BOOLEAN /\ s.key \in {"old", "new"}
                          /\ s.sfile \in Files /\ s.cfile \in Files

VARIABLES scn,
          spc, si,       \* server: what it does next, and for which connection
          eps,           \* its connections: "none", "null" or "ok"
          asked, saved,  \* the queries answered for the QP at hand; rtr_attr.rq_psn
          sqp, epsn,     \* its QPs: state, PSN expected
          armed,         \* those that allow READs
          mr, sfile,     \* key of its memory region ("none": not registered); its file
          cpc, ci,       \* client, likewise
          cqp, cpsn,     \* its QPs: state, PSN of the next request
          cmr, objs,     \* whether its buffer is registered; the key in objs[0]
          cm,            \* the connection manager's dialogue for each connection
          rd,            \* the READ of the client
          cfile, cfg,    \* the client's file; the PSN registers of the switch (-1: not written)
          did,           \* what the operator has done
          failures       \* calls that failed and packets lost so far

serverVars == <<spc, si, eps, asked, saved>>
qpVars == <<sqp, epsn, armed>>
memoryVars == <<mr, sfile>>
clientVars == <<cpc, ci, cqp, cpsn, cmr, objs>>
operatorVars == <<cfile, cfg, did>>
vars == <<scn, serverVars, qpVars, memoryVars, clientVars, cm, rd, operatorVars, failures>>

Init ==
  /\ scn \in Scenarios
  /\ spc = "start" /\ si = 1 /\ eps = [i \in Conns |-> "none"] /\ asked = {} /\ saved = 0
  /\ sqp = [i \in Conns |-> "none"] /\ epsn = [i \in Conns |-> 0] /\ armed = {}
  /\ mr = "none" /\ sfile = scn.sfile /\ cfile = scn.cfile
  /\ cpc = "off" /\ ci = 1 /\ cqp = [i \in Conns |-> "none"] /\ cpsn = [i \in Conns |-> 0]
  /\ cmr = FALSE /\ objs = "none"
  /\ cm = [i \in Conns |-> "none"]
  /\ rd = [st |-> "idle", psn |-> 0, key |-> "none", tries |-> 0]
  /\ cfg = [i \in Conns |-> -1] /\ did = {} /\ failures = 0

\* A call that may fail, or a packet that may get lost.
Fails == failures < MaxFailures /\ failures' = failures + 1
Works == UNCHANGED failures

Gone == {"done", "crashed"}

-----------------------------------------------------------------------------
(* The server.                                                             *)

\* The end of the process, whatever the reason: the kernel destroys what it held.
ServerEnds(how) ==
  /\ spc' = how /\ mr' = "none"
  /\ sqp' = [i \in Conns |-> "gone"] /\ armed' = {}
  /\ UNCHANGED <<si, eps, asked, saved, epsn, sfile>>

Listen ==
  /\ spc = "start"
  /\ \/ Works /\ spc' = "accept" /\ UNCHANGED <<si, eps, asked, saved, qpVars, memoryVars>>
     \/ Fails /\ ServerEnds("crashed")
  /\ UNCHANGED <<scn, clientVars, cm, rd, operatorVars>>

\* The loop of the first phase goes on with the next connection, or the second phase starts.
\* Mutant: i <= num_conn.
PushBeyond(ep) ==
  /\ eps' = [eps EXCEPT ![si] = ep]
  /\ IF si <= NumConn THEN si' = si + 1 /\ spc' = "accept" ELSE si' = 1 /\ spc' = "query"
  /\ UNCHANGED <<asked, saved>>
Push(ep) ==
  /\ eps' = [eps EXCEPT ![si] = ep]
  /\ IF si < NumConn THEN si' = si + 1 /\ spc' = "accept" ELSE si' = 1 /\ spc' = "query"
  /\ UNCHANGED <<asked, saved>>

\* A request is taken and accepted; rdma_accept returns when the client has answered.
Accept ==
  /\ spc = "accept" /\ cm[si] \in {"request", "broken"}
  /\ \/ /\ Works
        /\ cm' = IF cm[si] = "request" THEN [cm EXCEPT ![si] = "reply"] ELSE cm
        /\ sqp' = [sqp EXCEPT ![si] = "RTS"] /\ epsn' = [epsn EXCEPT ![si] = cpsn[si]]
        /\ spc' = "await" /\ UNCHANGED <<si, eps, asked, saved>>
     \/ Fails /\ Push("null") /\ UNCHANGED <<cm, sqp, epsn>>
  /\ UNCHANGED <<scn, armed, memoryVars, clientVars, rd, operatorVars>>

Accepted ==
  /\ spc = "await"
  /\ \/ cm[si] = "open" /\ Works /\ Push("ok") /\ UNCHANGED <<cm, sqp>>
     \/ /\ cm[si] = "broken" /\ Works
        /\ Push("null") /\ sqp' = [sqp EXCEPT ![si] = "ERR"] /\ UNCHANGED cm
     \/ /\ cm[si] \in {"reply", "open"} /\ Fails
        /\ Push("null") /\ sqp' = [sqp EXCEPT ![si] = "ERR"] /\ cm' = [cm EXCEPT ![si] = "broken"]
  /\ UNCHANGED <<scn, epsn, armed, memoryVars, clientVars, rd, operatorVars>>

\* What the second phase does to each QP, in this order.
\* Mutant: the QP is reset before it is asked for the PSN it expects.
AfterCallResetFirst ==
  [query |-> "reset", reset |-> "queryRtr", queryRtr |-> "queryRts", queryRts |-> "init",
   init |-> "rtr", rtr |-> "rts", rts |-> "next"]
AfterCall ==
  [query |-> "queryRtr", queryRtr |-> "queryRts", queryRts |-> "reset",
   reset |-> "init", init |-> "rtr", rtr |-> "rts", rts |-> "next"]
Queries == {"query", "queryRtr", "queryRts"}
Modifies == {"reset", "init", "rtr", "rts"}

\* The query whose attributes a transition is made of, the state it starts from, its target.
AskedBy == [reset |-> "none", init |-> "query", rtr |-> "queryRtr", rts |-> "queryRts"]
From == [reset |-> "any", init |-> "RESET", rtr |-> "INIT", rts |-> "RTR"]
To == [reset |-> "RESET", init |-> "INIT", rtr |-> "RTR", rts |-> "RTS"]

\* ibv_query_qp: without an answer the attributes stay 0, which is no state to go to.
Query ==
  /\ spc \in Queries /\ eps[si] = "ok"
  /\ \/ Works /\ asked' = asked \cup {spc} /\ saved' = IF spc = "queryRtr" THEN epsn[si] ELSE saved
     \/ Fails /\ UNCHANGED <<asked, saved>>
  /\ spc' = AfterCall[spc]
  /\ UNCHANGED <<scn, si, eps, qpVars, memoryVars, clientVars, cm, rd, operatorVars>>

\* ibv_modify_qp. A failure is printed, the loop goes on.
Modify ==
  LET legal == /\ From[spc] = "any" \/ sqp[si] = From[spc]
               /\ AskedBy[spc] = "none" \/ AskedBy[spc] \in asked
  IN  /\ spc \in Modifies
      /\ \/ /\ legal /\ Works
            /\ sqp' = [sqp EXCEPT ![si] = To[spc]]
            /\ epsn' = CASE spc = "reset" -> [epsn EXCEPT ![si] = 0]
                         [] spc = "rtr" -> [epsn EXCEPT ![si] = saved]
                         [] OTHER -> epsn
            /\ armed' = CASE spc = "reset" -> armed \ {si}
                          [] spc = "init" -> armed \cup {si}
                          [] OTHER -> armed
         \/ legal /\ Fails /\ UNCHANGED qpVars
         \/ ~legal /\ Works /\ UNCHANGED qpVars
      /\ spc' = AfterCall[spc]
      /\ UNCHANGED <<scn, si, eps, asked, saved, memoryVars, clientVars, cm, rd, operatorVars>>

\* The endpoint of a connection that failed is NULL.
NullEndpoint ==
  /\ spc \in Queries /\ eps[si] = "null" /\ ServerEnds("crashed")
  /\ UNCHANGED <<scn, clientVars, cm, rd, operatorVars, failures>>

NextQp ==
  /\ spc = "next"
  /\ IF si < NumConn THEN si' = si + 1 /\ spc' = "query" ELSE si' = 1 /\ spc' = "register"
  /\ asked' = {} /\ saved' = 0
  /\ UNCHANGED <<scn, eps, qpVars, memoryVars, clientVars, cm, rd, operatorVars, failures>>

\* All physical memory becomes one region; without it the program returns -1.
Register ==
  /\ spc = "register"
  /\ \/ Works /\ mr' = scn.key /\ spc' = "open" /\ UNCHANGED <<si, eps, asked, saved, qpVars, sfile>>
     \/ Fails /\ ServerEnds("crashed")
  /\ UNCHANGED <<scn, clientVars, cm, rd, operatorVars>>

\* Mutant: the file is opened with "a", and the old line stays the first one.
OpenedForAppend(file) == IF file = "none" THEN "empty" ELSE file
Opened(file) == "empty"

OpenFile ==
  /\ spc = "open"
  /\ \/ /\ Works /\ sfile' = Opened(sfile) /\ spc' = "write"
        /\ UNCHANGED <<si, eps, asked, saved, qpVars, mr>>
     \/ Fails /\ ServerEnds("crashed")
  /\ UNCHANGED <<scn, clientVars, cm, rd, operatorVars>>

\* The line is buffered until fclose.
WriteFile ==
  /\ spc = "write" /\ spc' = "prompt2"
  /\ sfile' = IF sfile = "empty" THEN mr ELSE sfile
  /\ UNCHANGED <<scn, si, eps, asked, saved, qpVars, mr, clientVars, cm, rd, operatorVars, failures>>

Server == \/ Listen \/ Accept \/ Accepted \/ Query \/ Modify \/ NullEndpoint \/ NextQp
          \/ Register \/ OpenFile \/ WriteFile

-----------------------------------------------------------------------------
(* The client. Nothing it is told of a failure stops it before it needs     *)
(* what is missing.                                                        *)

ClientEnds(how) ==
  /\ cpc' = how /\ cqp' = [i \in Conns |-> "gone"]
  /\ cm' = [i \in Conns |-> IF cm[i] \in {"request", "reply"} THEN "broken" ELSE cm[i]]
  /\ UNCHANGED <<ci, cpsn, cmr, objs, rd>>

\* connectEP: its NULL is used in the next line.
Connect ==
  /\ cpc = "connect"
  /\ \/ /\ spc \notin Gone \cup {"start"} /\ Works
        /\ \E psn \in StartPsns[ci] : cpsn' = [cpsn EXCEPT ![ci] = psn]
        /\ cm' = [cm EXCEPT ![ci] = "request"] /\ cpc' = "wait"
        /\ UNCHANGED <<ci, cqp, cmr, objs, rd>>
     \/ spc \in Gone \cup {"start"} /\ Works /\ ClientEnds("crashed")
     \/ Fails /\ ClientEnds("crashed")
  /\ UNCHANGED <<scn, serverVars, qpVars, memoryVars, operatorVars>>

\* Mutant: i < num_conn - 1.
ConnectedEarly(i) == i >= NumConn - 1
Connected(i) == i = NumConn

Establish ==
  /\ cpc = "wait" /\ cm[ci] = "reply" /\ Works
  /\ cm' = [cm EXCEPT ![ci] = "open"] /\ cqp' = [cqp EXCEPT ![ci] = "RTS"]
  /\ IF Connected(ci) THEN ci' = 1 /\ cpc' = "regmem" ELSE ci' = ci + 1 /\ cpc' = "connect"
  /\ UNCHANGED <<scn, serverVars, qpVars, memoryVars, cpsn, cmr, objs, rd, operatorVars>>

\* A request that nobody will answer any more, or not in time.
GiveUp ==
  /\ cpc = "wait"
  /\ IF cm[ci] = "broken" \/ spc \in Gone \/ eps[ci] = "null" THEN Works ELSE Fails
  /\ ClientEnds("crashed")
  /\ UNCHANGED <<scn, serverVars, qpVars, memoryVars, operatorVars>>

RegMem ==
  /\ cpc = "regmem" /\ cpc' = "prompt1"
  /\ (Works /\ cmr' = TRUE) \/ (Fails /\ cmr' = FALSE)
  /\ UNCHANGED <<scn, serverVars, qpVars, memoryVars, ci, cqp, cpsn, objs, cm, rd, operatorVars>>

\* read_obj_addr_key_from_file, and the division by the number of objects.
ReadFile ==
  /\ cpc = "readfile" /\ Works
  /\ \/ /\ cfile \in {"old", "new"} /\ objs' = cfile /\ cpc' = "post"
        /\ UNCHANGED <<ci, cqp, cpsn, cmr, cm, rd>>
     \/ cfile \in {"none", "empty"} /\ ClientEnds("crashed")
  /\ UNCHANGED <<scn, serverVars, qpVars, memoryVars, operatorVars>>

Next24(psn) == (psn + 1) % PsnMod

\* read_signaled on the first connection.
Post ==
  /\ cpc = "post" /\ Works
  /\ \/ /\ cmr /\ cpc' = "poll"
        /\ rd' = [st |-> "sent", psn |-> cpsn[1], key |-> objs, tries |-> 0]
        /\ cpsn' = [cpsn EXCEPT ![1] = Next24(@)]
        /\ UNCHANGED <<ci, cqp, cmr, objs, cm>>
     \/ ~cmr /\ ClientEnds("crashed")
  /\ UNCHANGED <<scn, serverVars, qpVars, memoryVars, operatorVars>>

\* The loop ends with any completion: wc.status is not looked at. Mutant: it waits for a good one.
GoodCompletions == {"good"}
Completions == {"good", "bad"}
Poll ==
  /\ cpc = "poll" /\ rd.st \in Completions /\ cpc' = "prompt2"
  /\ UNCHANGED <<scn, serverVars, qpVars, memoryVars, ci, cqp, cpsn, cmr, objs, cm, rd,
                 operatorVars, failures>>

Client == Connect \/ Establish \/ RegMem \/ ReadFile \/ Post \/ Poll

-----------------------------------------------------------------------------
(* The NICs, and the packets of the READ between them.                     *)

\* The server's NIC: a READ is executed when it is the one expected, or was executed before
\* and is sent again; a wrong key or a QP without READs breaks the connection; a NIC
\* that expects another PSN, or none, does not answer.
Receiving == {"RTR", "RTS"}
Execute ==
  /\ rd.st = "sent"
  /\ IF sqp[1] \in Receiving /\ (epsn[1] = rd.psn \/ epsn[1] = Next24(rd.psn))
     THEN IF 1 \in armed /\ rd.key = mr
          THEN /\ rd' = [rd EXCEPT !.st = "answered"]
               /\ epsn' = [epsn EXCEPT ![1] = Next24(rd.psn)] /\ UNCHANGED sqp
          ELSE /\ rd' = [rd EXCEPT !.st = "refused"]
               /\ sqp' = [sqp EXCEPT ![1] = "ERR"] /\ UNCHANGED epsn
     ELSE rd' = [rd EXCEPT !.st = "lost"] /\ UNCHANGED <<sqp, epsn>>
  /\ UNCHANGED <<scn, serverVars, armed, memoryVars, clientVars, cm, operatorVars, failures>>

Complete ==
  /\ rd.st \in {"answered", "refused"}
  /\ rd' = [rd EXCEPT !.st = IF rd.st = "answered" THEN "good" ELSE "bad"]
  /\ cqp' = IF rd.st = "refused" THEN [cqp EXCEPT ![1] = "ERR"] ELSE cqp
  /\ UNCHANGED <<scn, serverVars, qpVars, memoryVars, cpc, ci, cpsn, cmr, objs, cm, operatorVars,
                 failures>>

\* Time-out of the client's NIC.
Retry ==
  /\ rd.st = "lost"
  /\ \/ /\ rd.tries < Retries /\ rd' = [rd EXCEPT !.st = "sent", !.tries = @ + 1] /\ UNCHANGED cqp
     \/ /\ rd.tries = Retries /\ rd' = [rd EXCEPT !.st = "bad"]
        /\ cqp' = [cqp EXCEPT ![1] = "ERR"]
  /\ UNCHANGED <<scn, serverVars, qpVars, memoryVars, cpc, ci, cpsn, cmr, objs, cm, operatorVars,
                 failures>>

LosePacket ==
  /\ rd.st \in {"sent", "answered", "refused"} /\ Fails /\ rd' = [rd EXCEPT !.st = "lost"]
  /\ UNCHANGED <<scn, serverVars, qpVars, memoryVars, clientVars, cm, operatorVars>>

Nic == Execute \/ Complete \/ Retry

-----------------------------------------------------------------------------
(* The operator. One who keeps to the readme waits for each program before  *)
(* going on with the other.                                                *)

Allows(condition) == scn.orderly => condition

StartClient ==
  /\ cpc = "off" /\ Allows(spc = "accept")
  /\ cpc' = "connect"
  /\ UNCHANGED <<scn, serverVars, qpVars, memoryVars, ci, cqp, cpsn, cmr, objs, cm, rd, operatorVars,
                 failures>>

CopyFile ==
  /\ sfile # "none" /\ Allows(spc \in {"prompt2", "prompt8"})
  /\ cfile' = sfile /\ did' = did \cup {"copied"}
  /\ UNCHANGED <<scn, serverVars, qpVars, memoryVars, clientVars, cm, rd, cfg, failures>>

\* A register holds the request for an acknowledgement above the PSN. parse.py writes one less
\* than the next PSN, the switch adds 1 before it sends.
AckBit == 2 * PsnMod
\* Mutant: the next PSN itself.
RegisterAsIs(psn) == psn + AckBit
Register32(psn) == (psn - 1) + AckBit
FirstPsn(word) == (word + 1) % PsnMod
FirstAck(word) == ((word + 1) \div AckBit) % 2 = 1

\* "rdma res show qp", parse.py, and its lines in simple.py.
Configure ==
  /\ Allows(cpc = "prompt2") /\ cpc # "off" /\ "configured" \notin did
  /\ cfg' = [i \in Conns |-> IF cqp[i] \in {"RTS", "ERR"} THEN Register32(cpsn[i]) ELSE cfg[i]]
  /\ did' = did \cup {"configured"}
  /\ UNCHANGED <<scn, serverVars, qpVars, memoryVars, clientVars, cm, rd, cfile, failures>>

Press1 ==
  /\ cpc = "prompt1" /\ Allows("copied" \in did) /\ cpc' = "readfile"
  /\ UNCHANGED <<scn, serverVars, qpVars, memoryVars, ci, cqp, cpsn, cmr, objs, cm, rd, operatorVars,
                 failures>>

Press2Client ==
  /\ cpc = "prompt2" /\ Allows("configured" \in did) /\ ClientEnds("done")
  /\ UNCHANGED <<scn, serverVars, qpVars, memoryVars, operatorVars, failures>>

Press2Server ==
  /\ spc = "prompt2" /\ Allows("copied" \in did) /\ spc' = "prompt8"
  /\ UNCHANGED <<scn, si, eps, asked, saved, qpVars, memoryVars, clientVars, cm, rd, operatorVars,
                 failures>>

Press8 ==
  /\ spc = "prompt8" /\ Allows(cpc \in Gone) /\ ServerEnds("done")
  /\ UNCHANGED <<scn, clientVars, cm, rd, operatorVars, failures>>

Operator == \/ StartClient \/ CopyFile \/ Configure \/ Press1 \/ Press2Client
            \/ Press2Server \/ Press8

-----------------------------------------------------------------------------
Next == Server \/ Client \/ GiveUp \/ Nic \/ LosePacket \/ Operator

Spec == Init /\ [][Next]_vars

\* The programs run, the NICs work and repeat what is lost. An operator need not do anything,
\* but one who keeps to the readme goes through it.
Fairness ==
  /\ WF_vars(Server) /\ WF_vars(Client) /\ WF_vars(Nic)
  /\ WF_vars(scn.orderly /\ StartClient) /\ WF_vars(scn.orderly /\ "copied" \notin did /\ CopyFile)
  /\ WF_vars(scn.orderly /\ Configure)
  /\ WF_vars(scn.orderly /\ (Press1 \/ Press2Client)) /\ WF_vars(scn.orderly /\ (Press2Server \/ Press8))

FairSpec == Spec /\ Fairness

-----------------------------------------------------------------------------
(* Properties.                                                             *)

ServerTypes ==
  /\ spc \in {"start", "accept", "await", "next", "register", "open", "write", "prompt2", "prompt8"}
             \cup Queries \cup Modifies \cup Gone
  /\ si \in Conns /\ eps \in [Conns -> {"none", "null", "ok"}] /\ asked \subseteq Queries
  /\ saved \in Psns
QpTypes ==
  /\ sqp \in [Conns -> {"none", "RESET", "INIT", "RTR", "RTS", "ERR", "gone"}]
  /\ epsn \in [Conns -> Psns] /\ armed \subseteq Conns
  /\ mr \in {"none", "old", "new"} /\ sfile \in Files
ClientTypes ==
  /\ cpc \in {"off", "connect", "wait", "regmem", "prompt1", "readfile", "post", "poll", "prompt2"}
             \cup Gone
  /\ ci \in Conns /\ cqp \in [Conns -> {"none", "RTS", "ERR", "gone"}] /\ cpsn \in [Conns -> Psns]
  /\ cmr \in BOOLEAN /\ objs \in {"none", "old", "new"}
  /\ cm \in [Conns -> {"none", "request", "reply", "open", "broken"}]
ReadTypes ==
  rd \in [st : {"idle", "sent", "lost", "answered", "refused", "good", "bad"}, psn : Psns,
          key : {"none", "old", "new"}, tries : 0..Retries]
OperatorTypes ==
  /\ scn \in Scenarios /\ cfile \in Files /\ cfg \in [Conns -> {-1} \cup 0..(2 * AckBit - 1)]
  /\ did \subseteq {"copied", "configured"} /\ failures \in 0..MaxFailures

\* Types: every program, QP, packet, file and register is in one of the states it has.
TypeOK == ServerTypes /\ QpTypes /\ ClientTypes /\ ReadTypes /\ OperatorTypes

\* A READ of the client that has not been completed.
Outstanding(i) == i = 1 /\ rd.st \in {"sent", "lost", "answered", "refused"}

\* Whatever fails and in whatever order the operator goes: a connection that still works on
\* both sides agrees on the PSN, or has one READ in between (rdmatry_server.cpp:218-246
\* resets a QP and starts it again where it was).
Agreed ==
  \A i \in Conns : sqp[i] \in Receiving /\ cqp[i] = "RTS" =>
    epsn[i] = cpsn[i] \/ (Outstanding(i) /\ epsn[i] = rd.psn)

\* With the order kept and nothing failed, the first request that the switch forges on a
\* connection carries the PSN the server's NIC expects, and asks for an answer
\* (parse.py:20, simple.py:40).
Configured ==
  scn.orderly /\ failures = 0 => \A i \in Conns : cfg[i] # -1 /\ spc \notin Gone =>
    sqp[i] = "RTS" /\ i \in armed /\ FirstPsn(cfg[i]) = epsn[i] /\ FirstAck(cfg[i])

\* With the order kept and nothing failed, no program crashes, and what the client has read at
\* its second prompt is the guest's word and not the filling of its buffer.
OrderSuffices ==
  scn.orderly /\ failures = 0 =>
    /\ spc # "crashed" /\ cpc # "crashed"
    /\ cpc \in {"prompt2", "done"} => rd.st = "good"

\* The loop that waits for the READ ends, whatever fails (rdmatry_client.cpp:266).
PollEnds == cpc = "poll" ~> cpc # "poll"

\* With the order kept and nothing failed, both programs come to their ends and every
\* connection is configured.
Ends ==
  [](scn.orderly /\ failures = 0)
    => <>(spc = "done" /\ cpc = "done" /\ \A i \in Conns : cfg[i] # -1)
=============================================================================
