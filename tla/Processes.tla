----------------------------- MODULE Processes -----------------------------
(***************************************************************************)
(* The two processes of the program and the memory they share.  The parent *)
(* is main, waiting in fgets, and the handlers that interrupt it and each  *)
(* other; the child answers the web server.  They take pump_mutex and      *)
(* ble_mutex, and they are stopped by CTRL+C, CTRL+Z, a signal to one of   *)
(* them, or a write to a socket whose other end has gone.                  *)
(***************************************************************************)
EXTENDS Integers, Sequences, SequencesExt

CONSTANTS
  Addr,    \* mesh addresses of the pump
  NoAddr,  \* 0, the address that is not known
  Empty,   \* nothing waits in the socket
  TimerFires  \* FALSE: the device never stays silent for 20 seconds

ASSUME AddrAssumption == NoAddr \notin Addr /\ Empty \notin Addr \cup {NoAddr}
ASSUME TimerAssumption == TimerFires \in BOOLEAN

VARIABLES
  frame,          \* what each context executes: its label, its critical sections
  stack,          \* the parent: main, and the handlers that interrupted it
  child,          \* the state of the child process
  stop_flg,       \* the parent has been told to stop
  locked,         \* the two mutexes
  smem,           \* shared memory: alarms and last_time, by update; the address
  last_time,      \* Serialize: the time it has read
  dst_addr_prev,  \* BLE_message_exec: the address it saved last
  buf,            \* mesh2pc_msg: its source, or NoAddr if it is not the pump's
  chan,           \* the first message in the socket, or Empty
  hup,            \* the UART server has closed its end
  sigio           \* SIGIO is raised and not delivered

mem == <<locked, smem, last_time>>
io == <<chan, hup, sigio>>
proc_vars == <<frame, stack, child, stop_flg, mem, dst_addr_prev, buf, io>>

Sig == {"SIGIO", "SIGALRM"}
Ctx == Sig \cup {"main", "child"}
Mutex == {"pump_mutex", "ble_mutex"}

\* Critical sections: UpdatePPmeshAddr, BLE_send, UpdateAlarms, any other of
\* the parent (Update*, DB_AddRow), Serialize.
Section == {"save", "send", "alarms", "row", "snap"}

Label == {"off", "check", "fgets", "wait", "exit", "ended", "killed", "idle",
          "read", "exec", "arm", "lock", "asleep", "in", "half"}
Frame == [pc : Label, todo : Seq(Section), addr : Addr \cup {NoAddr}]

At(label) == [pc |-> label, todo |-> <<>>, addr |-> NoAddr]
Todo(sections) == [pc |-> "lock", todo |-> sections, addr |-> NoAddr]

ProcInit ==
  /\ frame = [c \in Ctx |-> At(CASE c \in Sig -> "off" [] c = "main" -> "check"
                                 [] c = "child" -> "idle")]
  /\ stack = <<"main">>
  /\ child = "runs"
  /\ stop_flg = FALSE
  /\ locked = [m \in Mutex |-> FALSE]
  /\ smem = [alarms |-> 0, last_time |-> 0, addr |-> NoAddr]
  /\ last_time = 0
  /\ dst_addr_prev = NoAddr
  /\ buf = NoAddr
  /\ chan = Empty
  /\ hup = FALSE
  /\ sigio = FALSE

-----------------------------------------------------------------------------
pc(c) == frame[c].pc

\* Faulty forms, named for what goes wrong in them; each shows that one of
\* the properties below can fail.
NeedsMixed(s) == IF s = "alarms" THEN "pump_mutex" ELSE "ble_mutex"
MaskedNever(sig) == FALSE
SavesFirstOnly == IF dst_addr_prev # NoAddr \/ buf = NoAddr THEN <<>> ELSE <<"save">>
LoopAgain == "fgets"

\* The mutex of a section, and whether c finds its mutex locked.
Needs(s) == IF s \in {"save", "send"} THEN "ble_mutex" ELSE "pump_mutex"
Wants(c) == Needs(Head(frame[c].todo))
Busy(c) == locked[Wants(c)]

\* A signal waits while its own handler runs, and no other does: sa_mask.
Masked(sig) == pc(sig) # "off"

\* BLE_message_exec saves an address that is not the last it saved.
Saves == IF buf \in {NoAddr, dst_addr_prev} THEN <<>> ELSE <<"save">>

\* while(!stop_flg)
Loop == IF stop_flg THEN "wait" ELSE "fgets"

Alive == pc("main") \notin {"ended", "killed"}
Closed == pc("main") \in {"wait", "exit", "ended", "killed"}

\* c executes: it is the parent's innermost context, or the child.
Runs(c) == IF c = "child" THEN child = "runs" ELSE Alive /\ c = Last(stack)

\* The critical section c is about to enter, or in.
Due(c, s) == frame[c].todo # <<>> /\ Head(frame[c].todo) = s
Inside(c) == pc(c) \in {"in", "half"}
Holds(c, m) == Inside(c) /\ Wants(c) = m

\* A sleeper on a mutex looks at it again when a signal wakes it.
Woken(f) == IF f.pc = "asleep" THEN [f EXCEPT !.pc = "lock"] ELSE f

\* What a signal does to the context that it interrupts: SIGIO, installed
\* without SA_RESTART, may end a blocking call with EINTR.
Interrupted(f, sig) ==
  {Woken(f)} \cup
  (IF sig # "SIGIO" THEN {}
   ELSE CASE f.pc = "fgets" -> {At("check")}
          [] f.pc = "wait" -> {At("exit")}
          [] f.pc = "read" -> {At("exec")}
          [] OTHER -> {})

\* A process that ends leaves a mutex that it holds locked.
Abandoned(f) == IF f.pc \in {"in", "half"} THEN f ELSE At("idle")

-----------------------------------------------------------------------------
(***************************************************************************)
(* The critical sections.  Both processes map the mutexes, but std::mutex  *)
(* is private to a process: an unlock wakes no sleeper of the other, and   *)
(* in its own process a sleeper is the only context that could run.        *)
(***************************************************************************)
TryLock(c) ==
  /\ Runs(c) /\ pc(c) = "lock"
  /\ IF Busy(c)
     THEN frame' = [frame EXCEPT ![c].pc = "asleep"] /\ UNCHANGED locked
     ELSE /\ frame' = [frame EXCEPT ![c].pc = "in"]
          /\ locked' = [locked EXCEPT ![Wants(c)] = TRUE]
  /\ UNCHANGED <<stack, child, stop_flg, smem, last_time, dst_addr_prev, buf, io>>

\* The lock_guard goes out of scope.
Unlock(c) == locked' = [locked EXCEPT ![Wants(c)] = FALSE]
Advance(c) ==
  frame' = [frame EXCEPT ![c] =
    IF Len(@.todo) > 1 THEN Todo(Tail(@.todo)) ELSE At(IF c = "child" THEN "idle" ELSE "arm")]

\* UpdatePPmeshAddr
Save(c) ==
  /\ Runs(c) /\ pc(c) = "in" /\ Due(c, "save")
  /\ smem' = [smem EXCEPT !.addr = frame[c].addr]
  /\ Unlock(c) /\ Advance(c)
  /\ UNCHANGED <<stack, child, stop_flg, last_time, dst_addr_prev, buf, io>>

\* UpdateAlarms: the alarms, then the time.
SetAlarms(c) ==
  /\ Runs(c) /\ pc(c) = "in" /\ Due(c, "alarms")
  /\ smem' = [smem EXCEPT !.alarms = 1 - @]
  /\ frame' = [frame EXCEPT ![c].pc = "half"]
  /\ UNCHANGED <<stack, child, stop_flg, locked, last_time, dst_addr_prev, buf, io>>

SetTime(c) ==
  /\ Runs(c) /\ pc(c) = "half" /\ Due(c, "alarms")
  /\ smem' = [smem EXCEPT !.last_time = smem.alarms]
  /\ Unlock(c) /\ Advance(c)
  /\ UNCHANGED <<stack, child, stop_flg, last_time, dst_addr_prev, buf, io>>

\* The other Update* functions, and the text of the INSERT.
Row(c) ==
  /\ Runs(c) /\ pc(c) = "in" /\ Due(c, "row")
  /\ Unlock(c) /\ Advance(c)
  /\ UNCHANGED <<stack, child, stop_flg, smem, last_time, dst_addr_prev, buf, io>>

\* Serialize: the time, then the alarms.
GetTime ==
  /\ Runs("child") /\ pc("child") = "in" /\ Due("child", "snap")
  /\ last_time' = smem.last_time
  /\ frame' = [frame EXCEPT !["child"].pc = "half"]
  /\ UNCHANGED <<stack, child, stop_flg, locked, smem, dst_addr_prev, buf, io>>

GetAlarms ==
  /\ Runs("child") /\ pc("child") = "half"
  /\ last_time' = 0
  /\ Unlock("child") /\ Advance("child")
  /\ UNCHANGED <<stack, child, stop_flg, smem, dst_addr_prev, buf, io>>

\* BLE_send reads the address; while it is not known, that is all.  A write
\* to a server that has gone raises SIGPIPE, which ends the process.
BLE_send(c) ==
  LET sigpipe == smem.addr # NoAddr /\ hup
  IN  /\ Runs(c) /\ pc(c) = "in" /\ Due(c, "send")
      /\ Unlock(c)
      /\ frame' = [frame EXCEPT ![c] =
           At(IF c = "child" THEN "idle" ELSE IF sigpipe THEN "killed" ELSE "check")]
      /\ child' = IF c = "child" /\ sigpipe THEN "ended" ELSE child
      /\ UNCHANGED <<stack, stop_flg, smem, last_time, dst_addr_prev, buf, io>>

-----------------------------------------------------------------------------
(***************************************************************************)
(* main.                                                                   *)
(***************************************************************************)
Go(from, to) ==
  /\ Runs("main") /\ pc("main") = from
  /\ frame' = [frame EXCEPT !["main"] = to]
  /\ UNCHANGED <<stack, child, stop_flg, mem, dst_addr_prev, buf, io>>

\* The test of the loop; behind it the socket is closed.
Check == Go("check", At(Loop))

\* A line is typed, and BLE_send called; or the input ends, and is read again.
Typed == Go("fgets", Todo(<<"send">>)) \/ Go("fgets", At("check"))

\* wait(NULL) returns when the child has ended; exit(0).
Wait == child = "ended" /\ Go("wait", At("exit"))
Exit == Go("exit", At("ended"))

Main == Check \/ Wait \/ Exit \/ TryLock("main") \/ BLE_send("main")

-----------------------------------------------------------------------------
(***************************************************************************)
(* bridge_handler, for SIGIO and in SigStopHandler for SIGALRM.            *)
(***************************************************************************)
\* alarm(20) runs while no SIGALRM handler does, which rearms it at its end.
Deliver(sig) ==
  /\ Alive /\ ~Masked(sig)
  /\ IF sig = "SIGIO" THEN sigio ELSE TimerFires
  /\ sigio' = (sigio /\ sig # "SIGIO")
  /\ stack' = Append(stack, sig)
  /\ \E f \in Interrupted(frame[Last(stack)], sig) :
       frame' = [frame EXCEPT ![Last(stack)] = f, ![sig] = At("read")]
  /\ UNCHANGED <<child, stop_flg, mem, dst_addr_prev, buf, chan, hup>>

\* read() waits for a message; it fails after close(), and returns 0 when
\* the server has gone.
Blocked(c) == pc(c) = "read" /\ chan = Empty /\ ~hup /\ ~Closed

Read(c) ==
  /\ Runs(c) /\ pc(c) = "read" /\ ~Blocked(c)
  /\ IF Closed \/ chan = Empty
     THEN UNCHANGED <<buf, chan>>
     ELSE buf' = chan /\ chan' = Empty
  /\ frame' = [frame EXCEPT ![c] = At("exec")]
  /\ UNCHANGED <<stack, child, stop_flg, mem, dst_addr_prev, hup, sigio>>

\* BLE_message_exec may save the address, and updates a field if there is one
\* to update; DB_AddRow follows, with a section of its own if the row is
\* complete.  With nothing to execute only a handler that interrupted another
\* can find it so.
Updates == {<<>>} \cup
  (IF buf # NoAddr THEN {<<"row">>, <<"alarms">>, <<"row", "row">>, <<"alarms", "row">>}
   ELSE IF Len(stack) > 2 THEN {<<"row">>} ELSE {})

Exec(c) ==
  /\ Runs(c) /\ pc(c) = "exec"
  /\ dst_addr_prev' = IF buf = NoAddr THEN dst_addr_prev ELSE buf
  /\ \E u \in Updates :
       frame' = [frame EXCEPT ![c] =
         IF Saves \o u = <<>> THEN At("arm")
         ELSE [Todo(Saves \o u) EXCEPT !.addr = IF Saves = <<>> THEN NoAddr ELSE buf]]
  /\ UNCHANGED <<stack, child, stop_flg, mem, buf, io>>

\* alarm(20), and the handler returns.
Arm(c) ==
  /\ Runs(c) /\ pc(c) = "arm"
  /\ stack' = Front(stack)
  /\ frame' = [frame EXCEPT ![c] = At("off")]
  /\ UNCHANGED <<child, stop_flg, mem, dst_addr_prev, buf, io>>

Handler(c) ==
  \/ Read(c) \/ Exec(c) \/ Arm(c)
  \/ TryLock(c) \/ Save(c) \/ SetAlarms(c) \/ SetTime(c) \/ Row(c)

-----------------------------------------------------------------------------
(***************************************************************************)
(* The child, and what happens to both processes.                          *)
(***************************************************************************)
\* A snapshot or a command is requested.
Request ==
  /\ Runs("child") /\ pc("child") = "idle"
  /\ \E s \in {"snap", "send"} : frame' = [frame EXCEPT !["child"] = Todo(<<s>>)]
  /\ UNCHANGED <<stack, child, stop_flg, mem, dst_addr_prev, buf, io>>

Child == TryLock("child") \/ GetTime \/ GetAlarms \/ BLE_send("child")

\* The parent gets SIGINT or SIGTSTP, of which SigStopHandler takes note; the
\* signal also wakes what sleeps.  The child is in state s afterwards.
Stop(s) ==
  LET told == IF Alive THEN [frame EXCEPT ![Last(stack)] = Woken(@)] ELSE frame
  IN  /\ child # "ended" \/ Alive
      /\ stop_flg' = (stop_flg \/ Alive)
      /\ child' = s
      /\ frame' = IF s = "ended" THEN [told EXCEPT !["child"] = Abandoned(@)] ELSE told
      /\ UNCHANGED <<stack, mem, dst_addr_prev, buf, io>>

\* SIGINT ends the child where it is (ChildStopHandler), when it is continued
\* if it is stopped.  CTRL+C reaches both processes.
CtrlC == Stop(CASE child = "runs" -> "ended" [] child = "stopped" -> "stopping"
                [] OTHER -> child)
KillParent == Stop(child)

\* CTRL+Z: the child has the default action.
CtrlZ == Stop(IF child = "runs" THEN "stopped" ELSE child)

\* The child is continued, or ends by the SIGPIPE of WebChild.
Alter(from, to, f) ==
  /\ child = from
  /\ child' = to
  /\ frame' = [frame EXCEPT !["child"] = f]
  /\ UNCHANGED <<stack, stop_flg, mem, dst_addr_prev, buf, io>>

Continue ==
  \/ Alter("stopped", "runs", Woken(frame["child"]))
  \/ Alter("stopping", "ended", Abandoned(frame["child"]))
ChildPipe == pc("child") = "idle" /\ Alter("runs", "ended", frame["child"])

\* A message arrives.  SIGIO is raised for the parent, but for a reader
\* asleep, which may be woken alone.  Only the first message of a read counts.
Send(a) ==
  /\ Alive /\ ~hup
  /\ chan' = IF chan = Empty THEN a ELSE chan
  /\ sigio' \in {TRUE} \cup (IF Blocked(Last(stack)) THEN {sigio} ELSE {})
  /\ UNCHANGED <<frame, stack, child, stop_flg, mem, dst_addr_prev, buf, hup>>

Hangup ==
  /\ Alive /\ ~hup
  /\ hup' = TRUE
  /\ sigio' = TRUE
  /\ UNCHANGED <<frame, stack, child, stop_flg, mem, dst_addr_prev, buf, chan>>

ProcNext ==
  \/ Main \/ Typed
  \/ \E sig \in Sig : Deliver(sig) \/ Handler(sig)
  \/ Request \/ Child
  \/ CtrlC \/ KillParent \/ CtrlZ
  \/ Continue \/ ChildPipe
  \/ \E a \in Addr \cup {NoAddr} : Send(a)
  \/ Hangup

\* The kernel runs both processes and delivers SIGIO.  Handlers leave main its
\* turns: alarms are 20 seconds apart and a message takes less than the next
\* takes to come.  Nothing is typed, sent or requested that need not be.
ProcFairness ==
  /\ SF_proc_vars(Main)
  /\ WF_proc_vars(Deliver("SIGIO"))
  /\ \A sig \in Sig : SF_proc_vars(Handler(sig))
  /\ WF_proc_vars(Child)

ProcSpec == ProcInit /\ [][ProcNext]_proc_vars /\ ProcFairness

-----------------------------------------------------------------------------
\* Shape of the state: the parent is a stack of main and of the handlers that
\* run, each once.
ProcTypeOK ==
  /\ frame \in [Ctx -> Frame]
  /\ stack \in Seq(Ctx \ {"child"}) /\ stack # <<>> /\ stack[1] = "main"
  /\ \A i, j \in DOMAIN stack : stack[i] = stack[j] => i = j
  /\ \A sig \in Sig : pc(sig) # "off" <=> sig \in ToSet(stack)
  /\ child \in {"runs", "stopped", "stopping", "ended"}
  /\ {stop_flg, hup, sigio} \subseteq BOOLEAN
  /\ locked \in [Mutex -> BOOLEAN]
  /\ smem \in [alarms : 0..1, last_time : 0..1, addr : Addr \cup {NoAddr}]
  /\ last_time \in 0..1
  /\ {dst_addr_prev, buf} \subseteq Addr \cup {NoAddr}
  /\ chan \in Addr \cup {NoAddr, Empty}

\* The alarms and the time of a snapshot come from one update: the alarms that
\* Serialize is about to read are those of the time it has read.
SnapshotConsistent ==
  pc("child") = "half" => last_time = smem.alarms /\ last_time = smem.last_time

\* Between handlers commands go to the pump that was heard last: the address
\* that BLE_message_exec takes for saved is the one BLE_send finds.  Two pumps
\* and nested handlers together may leave it behind (ble_messaging.cpp:37-42).
AddressCurrent ==
  stack = <<"main">> /\ (TimerFires => \A x, y \in Addr : x = y)
    => smem.addr = dst_addr_prev

\* The parent sleeps: on a mutex, or in read() with no message.
Stuck == pc(Last(stack)) = "asleep" \/ Blocked(Last(stack))

\* Told to stop, and past its fgets, the parent ends once its child has,
\* whatever handlers interrupt it meanwhile (main.cpp:147-161).
StopTerminates ==
  (stop_flg /\ child = "ended" /\ pc("main") # "fgets") ~> (~Alive \/ Stuck)

-----------------------------------------------------------------------------
(***************************************************************************)
(* What the documentation and the comments say.                            *)
(***************************************************************************)
\* "wait until all child process terminated" (main.cpp:157).
WaitsForChild == pc("main") = "ended" => child = "ended"

\* "provide data on request from web server" (README.md:6): a snapshot that
\* is asked for is made, unless the child is stopped.
SnapshotTaken == Due("child", "snap") ~> (~Due("child", "snap") \/ child # "runs")
=============================================================================
