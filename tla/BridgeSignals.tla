--------------------------- MODULE BridgeSignals ---------------------------
(***************************************************************************)
(* bridge_handler as the kernel runs it: inside the SIGIO handler and,     *)
(* through SigStopHandler, inside the SIGALRM handler.  Both masks are     *)
(* empty, so either signal may interrupt the other's handler at any point; *)
(* a handler's own signal waits until it returns.  The stack of handlers   *)
(* shares one receive buffer, the flags of the new row, the shared memory  *)
(* and pump_mutex.  The rows are those of RowAssembly; without the timer   *)
(* the handlers run one after another and implement that module.  The rest *)
(* of the program, which is in Processes, is here the others that take the *)
(* same mutexes: they may keep a handler waiting for as long as they like. *)
(***************************************************************************)
EXTENDS RowAssembly

CONSTANTS
  TimerFires,  \* FALSE: the device never stays silent for 20 seconds
  Contended,   \* FALSE: the child takes no snapshot, and nobody sends a command
  MaxQueue     \* bound: messages waiting in the socket

ASSUME TimerAssumption == TimerFires \in BOOLEAN /\ Contended \in BOOLEAN /\ MaxQueue \in Nat

VARIABLES
  chan,     \* messages in the stream socket, not framed
  pending,  \* signals raised and not delivered
  armed,    \* alarm(20) is running
  stack,    \* handlers, each one interrupted by the next
  mutex,    \* depth of the handler that holds pump_mutex, or 0
  asleep,   \* the innermost handler sleeps on a mutex that it found locked
  stamp,    \* history: the number of the message in the buffer
  sent      \* history: messages sent so far

bridge_vars == <<vars, chan, pending, armed, stack, mutex, asleep, stamp, sent>>

Sig == {"SIGIO", "SIGALRM"}
Label == {"read", "sleep", "dispatch", "fetch", "lock", "crit", "unlock",
          "check", "reset", "slock", "snap", "insert", "rearm"}
Frame == [sig : Sig, pc : Label, f : Field \cup {NoMsg}, v : Value \cup {NoMsg},
          stamp : Nat, row : Row \cup {NoMsg}]

BridgeInit ==
  /\ Init
  /\ chan = <<>>
  /\ pending = {}
  /\ armed = TRUE
  /\ stack = <<>>
  /\ mutex = 0
  /\ asleep = FALSE
  /\ stamp = 0
  /\ sent = 0

-----------------------------------------------------------------------------
\* The running handler, and its next statement.
Depth == Len(stack)
Top == stack[Depth]
At(label) == stack # <<>> /\ Top.pc = label
Goto(label) == stack' = [stack EXCEPT ![Depth].pc = label]

\* The bridge writes a message.  The kernel raises SIGIO, but for a reader
\* asleep in the socket: then it may wake the reader only.
Send(m) ==
  /\ sent < MaxMsgs /\ Len(chan) < MaxQueue
  /\ sent' = sent + 1
  /\ chan' = Append(chan, m)
  /\ pending' \in {pending \cup {"SIGIO"}} \cup (IF At("sleep") THEN {pending} ELSE {})
  /\ UNCHANGED <<vars, armed, stack, mutex, asleep, stamp>>

\* Twenty seconds since the last alarm(20).
TimerExpires ==
  /\ TimerFires /\ armed
  /\ armed' = FALSE
  /\ pending' = pending \cup {"SIGALRM"}
  /\ UNCHANGED <<vars, chan, stack, mutex, asleep, stamp, sent>>

\* A signal interrupts whatever runs.  read() asleep fails with EINTR under
\* SIGIO (sa_flags 0), and is started again under SIGALRM (SA_RESTART); a
\* sleeper on a mutex tries it again when the handler above it has returned.
Interrupted(sig) ==
  IF At("sleep")
  THEN [stack EXCEPT ![Depth].pc = IF sig = "SIGIO" THEN "dispatch" ELSE "read"]
  ELSE stack

Deliver(sig) ==
  /\ sig \in pending
  /\ \A i \in DOMAIN stack : stack[i].sig # sig
  /\ pending' = pending \ {sig}
  /\ stack' = Append(Interrupted(sig),
                [sig |-> sig, pc |-> "read", f |-> NoMsg, v |-> NoMsg, stamp |-> 0, row |-> NoMsg])
  /\ asleep' = FALSE
  /\ UNCHANGED <<vars, chan, armed, mutex, stamp, sent>>

-----------------------------------------------------------------------------
\* Faulty forms, named for what goes wrong in them; each shows that one of
\* the properties below can fail.
LeftByReadOfOne == Tail(chan)
ResetForgotten ==
  /\ At("reset")
  /\ Goto("slock")
  /\ UNCHANGED <<vars, chan, pending, armed, mutex, stamp, sent>>
SnapKeepsLock ==
  /\ At("snap")
  /\ stack' = [stack EXCEPT ![Depth] = [@ EXCEPT !.pc = "insert",
                 !.row = [data |-> smem, seen |-> seen, at |-> clock]]]
  /\ UNCHANGED <<vars, chan, pending, armed, mutex, stamp, sent>>
RearmForgotten ==
  /\ At("rearm")
  /\ stack' = SubSeq(stack, 1, Depth - 1)
  /\ UNCHANGED <<vars, chan, pending, armed, mutex, stamp, sent>>

\* read() on the blocking socket finds nothing.
Sleep ==
  /\ At("read") /\ chan = <<>>
  /\ Goto("sleep")
  /\ UNCHANGED <<vars, chan, pending, armed, mutex, stamp, sent>>

\* What read() leaves in the socket: it takes all that waits.
LeftByRead == <<>>

\* read() fills the buffer; only the first message in it is ever looked at.
Read ==
  /\ At("read") \/ At("sleep")
  /\ chan # <<>>
  /\ chan' = LeftByRead
  /\ mesh2pc_msg' = Head(chan)
  /\ IF Head(chan) = NoMsg
     THEN UNCHANGED <<clock, stamp>>
     ELSE clock' = clock + 1 /\ stamp' = clock + 1
  /\ Goto("dispatch")
  /\ UNCHANGED <<smem, last_time, db_new_row_fgs, offered, seen, changes,
                 pending, armed, mutex, sent>>

\* BLE_message_exec tests the header of the buffer and switches on its opcode.
Dispatch ==
  /\ At("dispatch")
  /\ stack' = [stack EXCEPT ![Depth] =
       IF mesh2pc_msg = NoMsg THEN [@ EXCEPT !.pc = "check"]
       ELSE [@ EXCEPT !.pc = "fetch", !.f = mesh2pc_msg[1]]]
  /\ UNCHANGED <<vars, chan, pending, armed, mutex, stamp, sent>>

\* It takes the value out of the buffer, which may be another message by now.
Fetch ==
  /\ At("fetch")
  /\ \E v \in IF mesh2pc_msg = NoMsg THEN Value ELSE {mesh2pc_msg[2]} :
       stack' = [stack EXCEPT ![Depth] = [@ EXCEPT !.pc = "lock", !.v = v, !.stamp = stamp]]
  /\ UNCHANGED <<vars, chan, pending, armed, mutex, stamp, sent>>

\* Update* takes pump_mutex, here, and DB_AddRow below.
Lock ==
  /\ At("lock") \/ At("slock")
  /\ mutex = 0
  /\ mutex' = Depth
  /\ Goto(IF At("lock") THEN "crit" ELSE "snap")
  /\ UNCHANGED <<vars, chan, pending, armed, stamp, sent>>

\* A handler finds its mutex locked: pump_mutex by one that it interrupted or
\* by the child's Serialize; ble_mutex, which UpdatePPmeshAddr wants for a new
\* address, by a BLE_send of main or of the child.  No unlock wakes it: that
\* of the child is another process's, and what it interrupted does not run.
SleepOnMutex ==
  /\ ~asleep
  /\ \/ (At("lock") \/ At("slock")) /\ (mutex # 0 \/ Contended)
     \/ At("dispatch") /\ Contended
  /\ asleep' = TRUE
  /\ UNCHANGED <<vars, chan, pending, armed, stack, mutex, stamp, sent>>

\* Update*: the flags and the field.
Update ==
  LET f == Top.f
      v == Stored(Top.f, Top.v)
  IN  /\ At("crit")
      /\ smem' = [smem EXCEPT ![f] = v]
      /\ last_time' = Restamped(f)
      /\ db_new_row_fgs' = Flagged(f, v)
      /\ seen' = [seen EXCEPT ![f] = Top.stamp]
      /\ changes' = IF Changed(f, v) THEN changes \cup {Top.stamp} ELSE changes
      /\ Goto("unlock")
      /\ UNCHANGED <<mesh2pc_msg, offered, clock, chan, pending, armed, mutex, stamp, sent>>

Unlock ==
  /\ At("unlock")
  /\ mutex' = 0
  /\ Goto("check")
  /\ UNCHANGED <<vars, chan, pending, armed, stamp, sent>>

\* DB_AddRow reads the flags, with no lock.
Check ==
  /\ At("check")
  /\ Goto(IF db_new_row_fgs = Field THEN "reset" ELSE "rearm")
  /\ UNCHANGED <<vars, chan, pending, armed, mutex, stamp, sent>>

\* It clears them.
Reset ==
  /\ At("reset")
  /\ db_new_row_fgs' = {}
  /\ Goto("slock")
  /\ UNCHANGED <<smem, last_time, mesh2pc_msg, offered, clock, seen, changes,
                 chan, pending, armed, mutex, stamp, sent>>

\* It formats the row under pump_mutex, and lets go of it.
Snap ==
  /\ At("snap")
  /\ mutex' = 0
  /\ stack' = [stack EXCEPT ![Depth] = [@ EXCEPT !.pc = "insert",
                 !.row = [data |-> smem, seen |-> seen, at |-> clock]]]
  /\ UNCHANGED <<vars, chan, pending, armed, stamp, sent>>

\* It hands the row to sqlite; LogTable has what follows.
Offer ==
  /\ At("insert")
  /\ offered' = Append(offered, Top.row)
  /\ Goto("rearm")
  /\ UNCHANGED <<smem, last_time, db_new_row_fgs, mesh2pc_msg, clock, seen, changes,
                 chan, pending, armed, mutex, stamp, sent>>

\* alarm(20), and the handler returns.
Rearm ==
  /\ At("rearm")
  /\ armed' = TRUE
  /\ stack' = SubSeq(stack, 1, Depth - 1)
  /\ UNCHANGED <<vars, chan, pending, mutex, stamp, sent>>

Statement ==
  \/ Sleep \/ Read \/ Dispatch \/ Fetch
  \/ Lock \/ Update \/ Unlock
  \/ Check \/ Reset \/ Snap \/ Offer \/ Rearm

\* A handler runs on only while it is not asleep.
Awake == ~asleep /\ UNCHANGED asleep

Handler == (Awake /\ Statement) \/ SleepOnMutex

BridgeNext ==
  \/ \E m \in Msg \cup {NoMsg} : Send(m)
  \/ TimerExpires
  \/ \E sig \in Sig : Deliver(sig)
  \/ Handler

\* The kernel delivers what it raised and lets the process run; nothing
\* makes the device send, or the timer expire.
Fairness ==
  /\ WF_bridge_vars(Handler)
  /\ \A sig \in Sig : WF_bridge_vars(Deliver(sig))

BridgeSpec == BridgeInit /\ [][BridgeNext]_bridge_vars /\ Fairness

-----------------------------------------------------------------------------
\* Shape of the handlers' state; a handler's own signal waits while it runs,
\* and pump_mutex, if one has it, belongs to the one in a critical section.
HandlersOK ==
  /\ TypeOK
  /\ chan \in Seq(Msg \cup {NoMsg})
  /\ pending \in SUBSET Sig
  /\ armed \in BOOLEAN
  /\ stack \in Seq(Frame)
  /\ \A i, j \in DOMAIN stack : stack[i].sig = stack[j].sig => i = j
  /\ mutex \in 0..Depth
  /\ \A i \in DOMAIN stack : stack[i].pc \in {"crit", "unlock", "snap"} <=> i = mutex
  /\ stamp \in Nat
  /\ sent \in Nat

\* Only a handler that wants a mutex sleeps on one.
BridgeTypeOK ==
  /\ HandlersOK
  /\ asleep \in BOOLEAN
  /\ asleep => At("dispatch") \/ At("lock") \/ At("slock")

\* Input is never forgotten: while messages wait in the socket, SIGIO is
\* pending or a handler is at its read.  SIGIO does not queue, read() may be
\* interrupted or started again, and the kernel does not always raise it
\* (bridge_handler and its registration, main.cpp:26-27 and 128-139).
InputAnnounced ==
  chan # <<>> =>
    \/ "SIGIO" \in pending
    \/ \E i \in DOMAIN stack : stack[i].pc \in {"read", "sleep"}

\* The watchdog is never lost: when no handler runs, the alarm is running or
\* SIGALRM is on its way (alarm(20), main.cpp:39 and 143).
WatchdogArmed == stack = <<>> => armed \/ "SIGALRM" \in pending

\* The handlers never deadlock among themselves: without the timer no handler
\* comes to pump_mutex while another handler, which could not run before it
\* returns, holds it; only the child can keep it waiting.  With the timer this
\* is false (up2web_comm.cpp:192 and 308).
NoSelfDeadlock ==
  \A i \in DOMAIN stack : stack[i].pc \in {"lock", "slock"} => mutex = 0

\* What the bridge sends is taken out of the socket in the end, unless a
\* handler comes to sleep on a mutex: then SIGIO stays masked.
EveryMessageTaken == chan # <<>> ~> chan = <<>> \/ asleep

\* "rearm timeout" (main.cpp:39): without the timer a handler that has taken a
\* message ends and rearms it, unless it comes to sleep on a mutex though no
\* handler is in a critical section: then the child or a BLE_send holds it.
\* With the timer it may also wait for the handler that it interrupted.
HandlersRearm ==
  \A sig \in Sig :
    (\E i \in DOMAIN stack : stack[i].sig = sig /\ stack[i].pc \in {"dispatch", "lock"})
      ~> ((asleep /\ mutex = 0) \/ \A i \in DOMAIN stack : stack[i].sig # sig)

-----------------------------------------------------------------------------
(***************************************************************************)
(* Refinement: a handler takes effect at its read.  While it carries a     *)
(* message it has not applied, or a row it has not offered, RowAssembly    *)
(* has already done both.                                                  *)
(***************************************************************************)
Unapplied ==
  /\ At("dispatch") \/ At("fetch") \/ At("lock") \/ At("crit")
  /\ mesh2pc_msg # NoMsg

AbsField == mesh2pc_msg[1]
AbsValue == Stored(mesh2pc_msg[1], mesh2pc_msg[2])
AbsSmem == IF Unapplied THEN [smem EXCEPT ![AbsField] = AbsValue] ELSE smem
AbsTime == IF Unapplied THEN Restamped(AbsField) ELSE last_time
AbsSeen == IF Unapplied THEN [seen EXCEPT ![AbsField] = stamp] ELSE seen
AbsChanges ==
  IF Unapplied /\ Changed(AbsField, AbsValue) THEN changes \cup {stamp} ELSE changes

\* The flags before DB_AddRow, and whether its row is still to be offered.
FlagsDue == IF Unapplied THEN Flagged(AbsField, AbsValue) ELSE db_new_row_fgs
RowDue == FlagsDue = Field \/ At("slock") \/ At("snap") \/ At("insert")

AbsFlags == IF RowDue THEN {} ELSE FlagsDue
AbsOffered ==
  IF RowDue
  THEN Append(offered, [data |-> AbsSmem, seen |-> AbsSeen, at |-> clock])
  ELSE offered

Rows == INSTANCE RowAssembly WITH
  smem <- AbsSmem, last_time <- AbsTime, db_new_row_fgs <- AbsFlags,
  offered <- AbsOffered, seen <- AbsSeen, changes <- AbsChanges

\* Without the timer the handlers implement RowAssembly (bridge_handler,
\* BLE_message_exec, DB_AddRow run to completion before the next one).
ImplementsRows == Rows!Spec
=============================================================================
