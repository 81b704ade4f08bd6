-------------------------- MODULE ProcessesProofs --------------------------
(***************************************************************************)
(* Theorems about the two processes, for any number of pump addresses and  *)
(* with the timer or without it.  The inductive invariant IInv adds to the *)
(* properties of Processes what a context has yet to do at each of its     *)
(* labels, who may be half way through an update of the alarms, and which  *)
(* address is still to be saved.                                           *)
(***************************************************************************)
EXTENDS Processes, SequenceTheorems, TLAPS

\* Labels before and in a critical section.
Inner == {"lock", "asleep", "in", "half"}

\* The sections of one run of BLE_message_exec and DB_AddRow: the address is
\* saved first.
HandlerTodo ==
  {t \in Seq({"save", "alarms", "row"}) : \A i \in 2..Len(t) : t[i] # "save"}

\* What context c has yet to do fits its label.
ShapeOf(c) ==
  /\ c \in Sig => frame[c].todo \in HandlerTodo
  /\ c = "main" => frame[c].todo \in {<<>>, <<"send">>}
  /\ c = "child" => frame[c].todo \in {<<>>, <<"send">>, <<"snap">>}
  /\ pc(c) \in Inner <=> frame[c].todo # <<>>
  /\ pc(c) = "half" => Head(frame[c].todo) \in {"alarms", "snap"}

ShapeOK == \A c \in Ctx : ShapeOf(c)

\* A mutex is locked exactly when one context, ended or not, is inside its
\* section, and never two.
LockDiscipline ==
  \A m \in Mutex :
    /\ locked[m] <=> \E c \in Ctx : Holds(c, m)
    /\ \A c, d \in Ctx : Holds(c, m) /\ Holds(d, m) => c = d

\* Alarms and time differ only while a handler is between the two.
HalfWay == (\A sig \in Sig : pc(sig) # "half") => smem.alarms = smem.last_time

\* Without the timer only one handler exists.
OneHandler == ~TimerFires => pc("SIGALRM") = "off"

\* One handler at a time, or one pump.
Simple == TimerFires => \A x, y \in Addr : x = y

\* An address to be saved is the one taken for saved; with none to be saved
\* that one is in the shared memory.
AddressOK ==
  Simple =>
    /\ \A sig \in Sig : Due(sig, "save") =>
         frame[sig].addr = dst_addr_prev /\ dst_addr_prev # NoAddr
    /\ (\A sig \in Sig : ~Due(sig, "save")) => smem.addr = dst_addr_prev

IInv ==
  /\ ProcTypeOK
  /\ ShapeOK
  /\ LockDiscipline
  /\ HalfWay
  /\ SnapshotConsistent
  /\ OneHandler
  /\ AddressOK

-----------------------------------------------------------------------------
\* A context that has nothing to do, and one that has sections to go through.
LEMMA FrameType ==
  /\ \A l \in Label : At(l) \in Frame /\ At(l).pc = l /\ At(l).todo = <<>> /\ At(l).addr = NoAddr
  /\ \A s \in Seq(Section) :
       /\ Todo(s) \in Frame /\ Todo(s).pc = "lock" /\ Todo(s).todo = s
       /\ Todo(s).addr = NoAddr
BY DEF At, Todo, Frame, Label

\* Every section has a mutex, and the sections of the memory pump_mutex.
LEMMA NeedsType ==
  /\ \A s \in Section : Needs(s) \in Mutex
  /\ \A s \in {"alarms", "row", "snap"} : Needs(s) = "pump_mutex"
  /\ \A s \in {"save", "send"} : Needs(s) = "ble_mutex"
BY DEF Needs, Mutex, Section

\* What follows the first section of a handler.
LEMMA TodoType ==
  ASSUME NEW t \in HandlerTodo
  PROVE  /\ t \in Seq(Section)
         /\ t # <<>> =>
              /\ Head(t) \in {"save", "alarms", "row"}
              /\ Tail(t) \in HandlerTodo
              /\ Len(t) > 1 <=> Tail(t) # <<>>
              /\ Tail(t) # <<>> => Head(Tail(t)) # "save"
<1> DEFINE S == {"save", "alarms", "row"}
<1>1. t \in Seq(S) /\ \A i \in 2..Len(t) : t[i] # "save"
  BY DEF HandlerTodo
<1>2. t \in Seq(Section)
  BY <1>1, SeqMonotonic DEF Section
<1>3. ASSUME t # <<>>
      PROVE  /\ Head(t) \in S
             /\ Tail(t) \in HandlerTodo
             /\ Len(t) > 1 <=> Tail(t) # <<>>
             /\ Tail(t) # <<>> => Head(Tail(t)) # "save"
  <2>1. /\ Head(t) \in S
        /\ Tail(t) \in Seq(S)
        /\ Len(Tail(t)) = Len(t) - 1
        /\ \A i \in 1..Len(Tail(t)) : Tail(t)[i] = t[i + 1]
    BY <1>1, <1>3, HeadTailProperties, Zenon
  <2>2. Len(t) \in Nat \ {0}
    BY <1>1, <1>3, EmptySeq
  <2>3. \A i \in 1..Len(Tail(t)) : Tail(t)[i] # "save"
    BY <1>1, <2>1, <2>2
  <2>4. Tail(t) \in HandlerTodo
    <3>1. \A i \in 2..Len(Tail(t)) : i \in 1..Len(Tail(t))
      BY <2>1, <2>2
    <3>2. QED
      BY <2>1, <2>3, <3>1 DEF HandlerTodo
  <2>5. Len(t) > 1 <=> Tail(t) # <<>>
    BY <2>1, <2>2
  <2>6. Tail(t) # <<>> => Head(Tail(t)) = Tail(t)[1] /\ 1 \in 1..Len(Tail(t))
    BY <2>1, <2>2
  <2>7. QED
    BY <2>1, <2>3, <2>4, <2>5, <2>6
<1>4. QED
  BY <1>2, <1>3

\* The section a context is at, and its mutex.
LEMMA DueType ==
  ASSUME ShapeOK, NEW c \in Ctx, frame[c].todo # <<>>
  PROVE  /\ Head(frame[c].todo) \in Section
         /\ Wants(c) \in Mutex
         /\ c \in Sig => Head(frame[c].todo) \in {"save", "alarms", "row"}
         /\ c = "main" => frame[c].todo = <<"send">>
         /\ c = "child" => frame[c].todo \in {<<"send">>, <<"snap">>}
<1>1. CASE c \in Sig
  <2>1. frame[c].todo \in HandlerTodo
    BY <1>1 DEF ShapeOK, ShapeOf
  <2>2. Head(frame[c].todo) \in {"save", "alarms", "row"}
    BY <2>1, TodoType
  <2>3. QED
    BY <1>1, <2>2, NeedsType DEF Section, Sig, Wants
<1>2. CASE c = "main"
  <2>1. frame[c].todo = <<"send">>
    BY <1>2 DEF ShapeOK, ShapeOf
  <2>2. QED
    BY <1>2, <2>1, NeedsType DEF Section, Sig, Wants
<1>3. CASE c = "child"
  <2>1. frame[c].todo \in {<<"send">>, <<"snap">>}
    BY <1>3 DEF ShapeOK, ShapeOf
  <2>2. QED
    BY <1>3, <2>1, NeedsType DEF Section, Sig, Wants
<1>4. QED
  BY <1>1, <1>2, <1>3 DEF Ctx

-----------------------------------------------------------------------------
(***************************************************************************)
(* What a step may do to the critical sections.                            *)
(***************************************************************************)
\* Context c is as far in its sections as before.
SameSection(c) ==
  /\ (pc(c) \in {"in", "half"}) = (pc(c)' \in {"in", "half"})
  /\ (pc(c) = "half") = (pc(c)' = "half")
  /\ pc(c) \in {"in", "half"} => frame'[c].todo = frame[c].todo

\* No context has entered a section or left one.
LEMMA QuietStep ==
  ASSUME IInv, \A c \in Ctx : SameSection(c), UNCHANGED <<locked, smem, last_time>>
  PROVE  LockDiscipline' /\ HalfWay' /\ SnapshotConsistent'
<1>1. \A c \in Ctx, m \in Mutex : Holds(c, m)' <=> Holds(c, m)
  BY DEF SameSection, Holds, Inside, Wants, pc
<1>2. LockDiscipline'
  BY <1>1 DEF IInv, LockDiscipline
<1>3. HalfWay' /\ SnapshotConsistent'
  BY DEF IInv, SameSection, HalfWay, SnapshotConsistent, Ctx, pc
<1>4. QED
  BY <1>2, <1>3

\* One context has entered its section, having found the mutex free.
LEMMA EnterStep ==
  ASSUME IInv, NEW c \in Ctx, NEW m \in Mutex, ~locked[m],
         locked' = [locked EXCEPT ![m] = TRUE],
         \A d \in Ctx \ {c} : SameSection(d),
         ~Inside(c), Inside(c)', Wants(c)' = m
  PROVE  LockDiscipline'
<1>1. \A n \in Mutex : locked'[n] <=> (n = m \/ locked[n])
  BY DEF IInv, ProcTypeOK
<1>2. \A d \in Ctx \ {c}, n \in Mutex : Holds(d, n)' <=> Holds(d, n)
  BY DEF SameSection, Holds, Inside, Wants, pc
<1>3. \A n \in Mutex : (Holds(c, n)' <=> n = m) /\ ~Holds(c, n)
  BY DEF Holds
<1>4. QED
  BY <1>1, <1>2, <1>3 DEF IInv, LockDiscipline

\* One context has left its section, and released the mutex.
LEMMA LeaveStep ==
  ASSUME IInv, NEW c \in Ctx, Inside(c), Wants(c) \in Mutex, Unlock(c),
         \A d \in Ctx \ {c} : SameSection(d),
         ~Inside(c)'
  PROVE  LockDiscipline'
<1> DEFINE m == Wants(c)
<1>1. \A n \in Mutex : locked'[n] <=> (n # m /\ locked[n])
  BY DEF IInv, ProcTypeOK, Unlock
<1>2. \A d \in Ctx \ {c}, n \in Mutex : Holds(d, n)' <=> Holds(d, n)
  BY DEF SameSection, Holds, Inside, Wants, pc
<1>3. \A n \in Mutex : (Holds(c, n) <=> n = m) /\ ~Holds(c, n)'
  BY DEF Holds
<1>4. QED
  BY <1>1, <1>2, <1>3 DEF IInv, LockDiscipline

\* No two contexts are in sections of the shared memory.
LEMMA OneInside ==
  ASSUME IInv, NEW c \in Ctx, NEW d \in Ctx, c # d, Inside(c), Inside(d),
         Wants(c) = "pump_mutex"
  PROVE  Wants(d) # "pump_mutex"
BY DEF IInv, LockDiscipline, Holds, Mutex

\* A context that is half way is in a section of the shared memory.
LEMMA HalfInside ==
  ASSUME ShapeOK, NEW c \in Ctx, pc(c) = "half"
  PROVE  Inside(c) /\ Wants(c) = "pump_mutex"
BY NeedsType DEF ShapeOK, ShapeOf, Inside, Wants

\* The address to be saved, if any, and the one in the shared memory stay.
LEMMA AddressStays ==
  ASSUME IInv, UNCHANGED dst_addr_prev, smem'.addr = smem.addr,
         \A sig \in Sig : /\ Due(sig, "save")' <=> Due(sig, "save")
                          /\ Due(sig, "save") => frame'[sig].addr = frame[sig].addr
  PROVE  AddressOK'
BY DEF IInv, AddressOK, Simple

-----------------------------------------------------------------------------
(***************************************************************************)
(* The stack of the parent.                                                *)
(***************************************************************************)
StackOK ==
  /\ stack \in Seq(Ctx \ {"child"}) /\ stack # <<>> /\ stack[1] = "main"
  /\ \A i, j \in DOMAIN stack : stack[i] = stack[j] => i = j
  /\ \A sig \in Sig : pc(sig) # "off" <=> sig \in ToSet(stack)

\* The innermost context is one of the parent's.
LEMMA TopType ==
  ASSUME ProcTypeOK
  PROVE  /\ Len(stack) \in Nat \ {0}
         /\ Last(stack) \in Ctx \ {"child"}
         /\ Last(stack) = stack[Len(stack)]
         /\ \A sig \in Sig : Last(stack) = sig => pc(sig) # "off"
<1>1. stack \in Seq(Ctx \ {"child"}) /\ stack # <<>>
  BY DEF ProcTypeOK
<1>2. Len(stack) \in Nat \ {0}
  BY <1>1, EmptySeq
<1>3. Last(stack) \in Ctx \ {"child"} /\ Last(stack) = stack[Len(stack)]
  BY <1>1, <1>2, ElementOfSeq DEF Last
<1>4. Last(stack) \in ToSet(stack)
  BY <1>1, <1>2, <1>3 DEF ToSet
<1>5. QED
  BY <1>2, <1>3, <1>4 DEF ProcTypeOK

\* No handler has begun or returned.
LEMMA SameStack ==
  ASSUME IInv, UNCHANGED stack,
         \A sig \in Sig : pc(sig)' = "off" <=> pc(sig) = "off"
  PROVE  StackOK' /\ OneHandler'
BY DEF IInv, ProcTypeOK, StackOK, OneHandler, Sig

\* A handler begins.
LEMMA PushStack ==
  ASSUME ProcTypeOK, NEW sig \in Sig, pc(sig) = "off",
         stack' = Append(stack, sig), pc(sig)' # "off",
         \A o \in Sig \ {sig} : pc(o)' = "off" <=> pc(o) = "off"
  PROVE  StackOK'
<1>1. stack \in Seq(Ctx \ {"child"}) /\ sig \in Ctx \ {"child"} /\ Len(stack) \in Nat \ {0}
  BY TopType DEF ProcTypeOK, Ctx, Sig
<1>2. /\ stack' \in Seq(Ctx \ {"child"}) /\ stack' # <<>>
      /\ Len(stack') = Len(stack) + 1
      /\ \A i \in 1..Len(stack) : stack'[i] = stack[i]
      /\ stack'[Len(stack) + 1] = sig
  BY <1>1, AppendProperties
<1>3. DOMAIN stack = 1..Len(stack) /\ DOMAIN stack' = 1..Len(stack) + 1
  BY <1>1, <1>2, LenProperties
<1>4. \A i \in 1..Len(stack) : stack[i] # sig
  BY <1>3 DEF ProcTypeOK, ToSet
<1>5. stack'[1] = "main"
  BY <1>1, <1>2 DEF ProcTypeOK
<1>6. \A i, j \in DOMAIN stack' : stack'[i] = stack'[j] => i = j
  BY <1>1, <1>2, <1>3, <1>4 DEF ProcTypeOK
<1>7. \A o \in Ctx : o \in ToSet(stack)' <=> o \in ToSet(stack) \/ o = sig
  BY <1>1, <1>2, <1>3 DEF ToSet
<1>8. \A o \in Sig : pc(o)' # "off" <=> o \in ToSet(stack)'
  BY <1>7 DEF ProcTypeOK, Ctx
<1>9. QED
  BY <1>2, <1>5, <1>6, <1>8 DEF StackOK

\* The innermost handler returns.
LEMMA PopStack ==
  ASSUME ProcTypeOK, NEW sig \in Sig, Last(stack) = sig,
         stack' = Front(stack), pc(sig)' = "off",
         \A o \in Sig \ {sig} : pc(o)' = "off" <=> pc(o) = "off"
  PROVE  StackOK'
<1> DEFINE n == Len(stack) - 1
<1>1. stack \in Seq(Ctx \ {"child"}) /\ Len(stack) \in Nat \ {0}
      /\ stack[Len(stack)] = sig /\ DOMAIN stack = 1..Len(stack)
  BY TopType DEF ProcTypeOK
<1>2. n \in Nat \ {0}
  BY <1>1 DEF ProcTypeOK, Sig
<1>3. /\ stack' \in Seq(Ctx \ {"child"})
      /\ Len(stack') = n
      /\ \A i \in 1..n : stack'[i] = stack[i]
  <2>1. \A i \in 1..n : stack[i] \in Ctx \ {"child"}
    BY <1>1, <1>2, ElementOfSeq
  <2>2. stack' = SubSeq(stack, 1, n)
    BY DEF Front
  <2>3. QED
    BY <1>1, <1>2, <2>1, <2>2, SubSeqProperties
<1>4. DOMAIN stack' = 1..n /\ stack' # <<>> /\ stack'[1] = "main"
  BY <1>2, <1>3, EmptySeq, LenProperties DEF ProcTypeOK
<1>5. \A i, j \in DOMAIN stack' : stack'[i] = stack'[j] => i = j
  <2>1. \A i, j \in DOMAIN stack : stack[i] = stack[j] => i = j
    BY DEF ProcTypeOK
  <2>2. \A i \in 1..n : i \in DOMAIN stack
    BY <1>1, <1>2
  <2>3. QED
    BY <1>3, <1>4, <2>1, <2>2
<1>6. \A o \in Ctx : o \in ToSet(stack)' <=> o \in ToSet(stack) /\ o # sig
  <2> DEFINE len == Len(stack)
  <2>0. len \in Nat \ {0} /\ n = len - 1
    BY <1>1
  <2> HIDE DEF n, len
  <2>1. \A i \in 1..len : i \in 1..n \/ i = len
    BY <2>0
  <2>2. \A i \in 1..n : i \in 1..len /\ i # len
    BY <2>0
  <2> USE DEF n, len
  <2>3. \A i \in 1..n : stack[i] # sig
    <3>1. Len(stack) \in DOMAIN stack
      BY <1>1
    <3>2. QED
      BY <1>1, <2>2, <3>1 DEF ProcTypeOK
  <2>4. \A o : o \in ToSet(stack)' <=> \E i \in 1..n : stack[i] = o
    BY <1>3, <1>4 DEF ToSet
  <2>5. \A o : o \in ToSet(stack) <=> \E i \in 1..Len(stack) : stack[i] = o
    BY <1>1 DEF ToSet
  <2>6. QED
    BY <1>1, <2>1, <2>2, <2>3, <2>4, <2>5
<1>7. \A o \in Sig : pc(o)' # "off" <=> o \in ToSet(stack)'
  BY <1>6 DEF ProcTypeOK, Ctx
<1>8. QED
  BY <1>3, <1>4, <1>5, <1>7 DEF StackOK

-----------------------------------------------------------------------------
(***************************************************************************)
(* Every action keeps the inductive invariant.                             *)
(***************************************************************************)
LEMMA TryLockInv ==
  ASSUME IInv, NEW c \in Ctx, TryLock(c)
  PROVE  IInv'
<1>1. /\ pc(c) = "lock" /\ frame[c].todo # <<>>
      /\ Wants(c) \in Mutex
      /\ frame \in [Ctx -> Frame]
  BY DueType DEF IInv, ProcTypeOK, ShapeOK, ShapeOf, TryLock, Inner
<1>2. PICK l \in {"asleep", "in"} :
        /\ frame' = [frame EXCEPT ![c].pc = l]
        /\ l = "asleep" => UNCHANGED locked
        /\ l = "in" => locked[Wants(c)] = FALSE /\ locked' = [locked EXCEPT ![Wants(c)] = TRUE]
  <2>1. locked[Wants(c)] \in BOOLEAN
    BY <1>1 DEF IInv, ProcTypeOK
  <2>2. QED
    BY <2>1 DEF TryLock, Busy
<1>3. UNCHANGED <<stack, child, stop_flg, smem, last_time, dst_addr_prev, buf, io>>
  BY DEF TryLock
<1>4. /\ frame' \in [Ctx -> Frame]
      /\ \A d \in Ctx \ {c} : frame'[d] = frame[d]
      /\ pc(c)' = l /\ frame'[c].todo = frame[c].todo /\ frame'[c].addr = frame[c].addr
  BY <1>1, <1>2 DEF Frame, Label, pc
<1>5. StackOK' /\ OneHandler'
  BY <1>1, <1>3, <1>4, SameStack DEF pc, Ctx
<1>6. ProcTypeOK'
  BY <1>1, <1>2, <1>3, <1>4, <1>5 DEF IInv, ProcTypeOK, StackOK, io
<1>7. ShapeOK'
  BY <1>1, <1>4 DEF IInv, ShapeOK, ShapeOf, Inner, pc
<1>8. \A d \in Ctx \ {c} : SameSection(d)
  BY <1>4 DEF SameSection, pc
<1>9. LockDiscipline' /\ HalfWay' /\ SnapshotConsistent'
  <2>1. CASE l = "asleep"
    BY <1>1, <1>2, <1>3, <1>4, <1>8, <2>1, QuietStep DEF SameSection
  <2>2. CASE l = "in"
    <3>1. LockDiscipline'
      BY <1>1, <1>2, <1>4, <1>8, <2>2, EnterStep DEF Inside, Wants
    <3>2. HalfWay' /\ SnapshotConsistent'
      BY <1>1, <1>3, <1>4, <2>2 DEF IInv, HalfWay, SnapshotConsistent, pc, Sig, Ctx
    <3>3. QED
      BY <3>1, <3>2
  <2>3. QED
    BY <2>1, <2>2
<1>10. AddressOK'
  BY <1>3, <1>4, AddressStays DEF Due, Sig, Ctx
<1>11. QED
  BY <1>5, <1>6, <1>7, <1>9, <1>10 DEF IInv

\* A context that leaves its section goes on to the next, or is done.
LEMMA AdvanceFrame ==
  ASSUME IInv, NEW c \in Sig \cup {"child"}, Inside(c), Advance(c)
  PROVE  /\ frame' \in [Ctx -> Frame]
         /\ \A d \in Ctx \ {c} : frame'[d] = frame[d]
         /\ pc(c)' \in {"lock", "idle", "arm"}
         /\ ShapeOf(c)'
         /\ ~Due(c, "save")'
<1> DEFINE t == frame[c].todo
           rest == IF Len(t) > 1 THEN Todo(Tail(t))
                   ELSE At(IF c = "child" THEN "idle" ELSE "arm")
<1>1. c \in Ctx /\ frame \in [Ctx -> Frame] /\ t # <<>>
  BY DEF IInv, ProcTypeOK, ShapeOK, ShapeOf, Inside, Inner, Ctx
<1>2. frame' = [frame EXCEPT ![c] = rest]
  BY DEF Advance
<1>3. CASE c \in Sig
  <2>1. t \in HandlerTodo
    BY <1>1, <1>3 DEF IInv, ShapeOK, ShapeOf
  <2>2. /\ Tail(t) \in HandlerTodo /\ Tail(t) \in Seq(Section)
        /\ Len(t) > 1 <=> Tail(t) # <<>>
        /\ Tail(t) # <<>> => Head(Tail(t)) # "save"
    BY <1>1, <2>1, TodoType
  <2>3. rest \in Frame /\ rest.pc \in {"lock", "arm"} /\ rest.todo = Tail(t)
        /\ (rest.pc = "lock" <=> rest.todo # <<>>)
    <3>1. CASE Len(t) > 1
      BY <2>2, <3>1, FrameType
    <3>2. CASE ~(Len(t) > 1)
      <4>1. rest = At("arm") /\ "arm" \in Label
        BY <1>3, <3>2 DEF Sig, Label
      <4>2. QED
        BY <2>2, <3>2, <4>1, FrameType
    <3>3. QED
      BY <3>1, <3>2
  <2> HIDE DEF rest
  <2>4. frame'[c] = rest /\ frame' \in [Ctx -> Frame] /\ \A d \in Ctx \ {c} : frame'[d] = frame[d]
    BY <1>1, <1>2, <2>3
  <2>5. ShapeOf(c)'
    BY <1>3, <2>2, <2>3, <2>4 DEF ShapeOf, Inner, pc, Sig
  <2>6. QED
    BY <2>2, <2>3, <2>4, <2>5 DEF Due, pc
<1>4. CASE c = "child"
  <2>1. t \in {<<"send">>, <<"snap">>}
    BY <1>1, <1>4 DEF IInv, ShapeOK, ShapeOf, Sig
  <2>2. rest = At("idle") /\ "idle" \in Label
    <3>1. Len(t) = 1
      BY <2>1
    <3>2. QED
      BY <1>4, <3>1 DEF Label
  <2>3. rest \in Frame /\ rest.pc = "idle" /\ rest.todo = <<>>
    BY <2>2, FrameType
  <2> HIDE DEF rest
  <2>4. frame'[c] = rest /\ frame' \in [Ctx -> Frame] /\ \A d \in Ctx \ {c} : frame'[d] = frame[d]
    BY <1>1, <1>2, <2>3
  <2>5. ShapeOf(c)'
    BY <1>4, <2>3, <2>4 DEF ShapeOf, Inner, pc, Sig
  <2>6. QED
    BY <2>3, <2>4, <2>5 DEF Due, pc
<1>5. QED
  BY <1>3, <1>4

\* The parts of the invariant that do not depend on what a section did.
LEMMA AdvanceInv ==
  ASSUME IInv, NEW c \in Sig \cup {"child"}, Inside(c), Unlock(c), Advance(c),
         UNCHANGED <<stack, child, stop_flg, dst_addr_prev, buf, io>>,
         smem' \in [alarms : 0..1, last_time : 0..1, addr : Addr \cup {NoAddr}],
         last_time' \in 0..1
  PROVE  ProcTypeOK' /\ ShapeOK' /\ LockDiscipline' /\ OneHandler'
<1>1. c \in Ctx /\ Wants(c) \in Mutex
  BY DueType DEF IInv, ShapeOK, ShapeOf, Inside, Inner, Ctx
<1>2. /\ frame' \in [Ctx -> Frame]
      /\ \A d \in Ctx \ {c} : frame'[d] = frame[d]
      /\ pc(c)' \in {"lock", "idle", "arm"}
      /\ ShapeOf(c)'
  BY AdvanceFrame
<1>3. StackOK' /\ OneHandler'
  BY <1>1, <1>2, SameStack DEF pc, Ctx, Inside
<1>4. locked' \in [Mutex -> BOOLEAN]
  BY <1>1 DEF IInv, ProcTypeOK, Unlock
<1>5. ProcTypeOK'
  BY <1>2, <1>3, <1>4 DEF IInv, ProcTypeOK, StackOK, io
<1>6. ShapeOK'
  BY <1>2 DEF IInv, ShapeOK, ShapeOf, pc
<1>7. LockDiscipline'
  <2>1. \A d \in Ctx \ {c} : SameSection(d)
    BY <1>2 DEF SameSection, pc
  <2>2. ~Inside(c)'
    BY <1>2 DEF Inside
  <2>3. QED
    BY <1>1, <2>1, <2>2, LeaveStep
<1>8. QED
  BY <1>3, <1>5, <1>6, <1>7

LEMMA SaveInv ==
  ASSUME IInv, NEW sig \in Sig, Save(sig)
  PROVE  IInv'
<1>1. /\ Inside(sig) /\ pc(sig) = "in" /\ Due(sig, "save") /\ Unlock(sig) /\ Advance(sig)
      /\ UNCHANGED <<stack, child, stop_flg, last_time, dst_addr_prev, buf, io>>
  BY DEF Save, Inside
<1>2. /\ frame \in [Ctx -> Frame] /\ sig \in Ctx
      /\ smem' = [smem EXCEPT !.addr = frame[sig].addr]
      /\ smem \in [alarms : 0..1, last_time : 0..1, addr : Addr \cup {NoAddr}]
      /\ last_time \in 0..1
  BY DEF IInv, ProcTypeOK, Save, Ctx
<1>3. smem' \in [alarms : 0..1, last_time : 0..1, addr : Addr \cup {NoAddr}]
      /\ smem'.addr = frame[sig].addr
      /\ smem'.alarms = smem.alarms /\ smem'.last_time = smem.last_time
  BY <1>2 DEF Frame
<1>4. ProcTypeOK' /\ ShapeOK' /\ LockDiscipline' /\ OneHandler'
  BY <1>1, <1>2, <1>3, AdvanceInv
<1>5. /\ \A d \in Ctx \ {sig} : frame'[d] = frame[d]
      /\ pc(sig)' \in {"lock", "idle", "arm"}
      /\ ~Due(sig, "save")'
  BY <1>1, AdvanceFrame
<1>6. HalfWay' /\ SnapshotConsistent'
  BY <1>1, <1>2, <1>3, <1>5 DEF IInv, HalfWay, SnapshotConsistent, pc, Sig, Ctx
<1>7. AddressOK'
  BY <1>1, <1>3, <1>5 DEF IInv, AddressOK, Simple, Due, Ctx
<1>8. QED
  BY <1>4, <1>6, <1>7 DEF IInv

LEMMA SetTimeInv ==
  ASSUME IInv, NEW sig \in Sig, SetTime(sig)
  PROVE  IInv'
<1>1. /\ Inside(sig) /\ pc(sig) = "half" /\ Due(sig, "alarms") /\ Unlock(sig) /\ Advance(sig)
      /\ UNCHANGED <<stack, child, stop_flg, last_time, dst_addr_prev, buf, io>>
  BY DEF SetTime, Inside
<1>2. /\ frame \in [Ctx -> Frame] /\ sig \in Ctx
      /\ smem' = [smem EXCEPT !.last_time = smem.alarms]
      /\ smem \in [alarms : 0..1, last_time : 0..1, addr : Addr \cup {NoAddr}]
      /\ last_time \in 0..1
  BY DEF IInv, ProcTypeOK, SetTime, Ctx
<1>3. smem' \in [alarms : 0..1, last_time : 0..1, addr : Addr \cup {NoAddr}]
      /\ smem'.addr = smem.addr
      /\ smem'.alarms = smem.alarms /\ smem'.last_time = smem.alarms
  BY <1>2
<1>4. ProcTypeOK' /\ ShapeOK' /\ LockDiscipline' /\ OneHandler'
  BY <1>1, <1>2, <1>3, AdvanceInv
<1>5. /\ \A d \in Ctx \ {sig} : frame'[d] = frame[d]
      /\ pc(sig)' \in {"lock", "idle", "arm"}
      /\ ~Due(sig, "save")'
  BY <1>1, AdvanceFrame
<1>6. pc("child") # "half"
  BY <1>1, <1>2, HalfInside, OneInside DEF IInv, Sig, Ctx
<1>7. HalfWay' /\ SnapshotConsistent'
  BY <1>2, <1>3, <1>5, <1>6 DEF HalfWay, SnapshotConsistent, pc, Sig, Ctx
<1>8. AddressOK'
  <2>1. ~Due(sig, "save")
    BY <1>1 DEF Due
  <2>2. QED
    BY <1>1, <1>3, <1>5, <2>1, AddressStays DEF Due, Ctx
<1>9. QED
  BY <1>4, <1>7, <1>8 DEF IInv

LEMMA RowInv ==
  ASSUME IInv, NEW sig \in Sig, Row(sig)
  PROVE  IInv'
<1>1. /\ Inside(sig) /\ pc(sig) = "in" /\ Due(sig, "row") /\ Unlock(sig) /\ Advance(sig)
      /\ UNCHANGED <<stack, child, stop_flg, smem, last_time, dst_addr_prev, buf, io>>
  BY DEF Row, Inside
<1>2. frame \in [Ctx -> Frame] /\ sig \in Ctx
  BY DEF IInv, ProcTypeOK, Ctx
<1>3. ProcTypeOK' /\ ShapeOK' /\ LockDiscipline' /\ OneHandler'
  BY <1>1, AdvanceInv DEF IInv, ProcTypeOK
<1>4. /\ \A d \in Ctx \ {sig} : frame'[d] = frame[d]
      /\ pc(sig)' \in {"lock", "idle", "arm"}
      /\ ~Due(sig, "save")'
  BY <1>1, AdvanceFrame
<1>5. HalfWay' /\ SnapshotConsistent'
  BY <1>1, <1>2, <1>4 DEF IInv, HalfWay, SnapshotConsistent, pc, Sig, Ctx
<1>6. AddressOK'
  <2>1. ~Due(sig, "save")
    BY <1>1 DEF Due
  <2>2. QED
    BY <1>1, <1>4, <2>1, AddressStays DEF Due, Ctx
<1>7. QED
  BY <1>3, <1>5, <1>6 DEF IInv

LEMMA SetAlarmsInv ==
  ASSUME IInv, NEW sig \in Sig, SetAlarms(sig)
  PROVE  IInv'
<1>1. /\ Inside(sig) /\ pc(sig) = "in" /\ Due(sig, "alarms") /\ sig \in Ctx
      /\ frame' = [frame EXCEPT ![sig].pc = "half"]
      /\ UNCHANGED <<stack, child, stop_flg, locked, last_time, dst_addr_prev, buf, io>>
  BY DEF SetAlarms, Inside, Ctx
<1>2. /\ frame \in [Ctx -> Frame]
      /\ smem' = [smem EXCEPT !.alarms = 1 - @]
      /\ smem \in [alarms : 0..1, last_time : 0..1, addr : Addr \cup {NoAddr}]
  BY DEF IInv, ProcTypeOK, SetAlarms
<1>3. smem' \in [alarms : 0..1, last_time : 0..1, addr : Addr \cup {NoAddr}]
      /\ smem'.addr = smem.addr
  BY <1>2
<1>4. /\ frame' \in [Ctx -> Frame]
      /\ \A d \in Ctx \ {sig} : frame'[d] = frame[d]
      /\ pc(sig)' = "half" /\ frame'[sig].todo = frame[sig].todo
      /\ frame'[sig].addr = frame[sig].addr
  BY <1>1, <1>2 DEF Frame, Label, pc
<1>5. StackOK' /\ OneHandler'
  BY <1>1, <1>4, SameStack DEF pc, Ctx
<1>6. ProcTypeOK'
  BY <1>1, <1>3, <1>4, <1>5 DEF IInv, ProcTypeOK, StackOK, io
<1>7. ShapeOK'
  BY <1>1, <1>4 DEF IInv, ShapeOK, ShapeOf, Inner, pc, Due
<1>8. LockDiscipline'
  <2>1. \A c \in Ctx, m \in Mutex : Holds(c, m)' <=> Holds(c, m)
    BY <1>1, <1>4 DEF Holds, Inside, Wants, pc
  <2>2. QED
    BY <1>1, <2>1 DEF IInv, LockDiscipline
<1>9. Wants(sig) = "pump_mutex"
  BY <1>1, NeedsType DEF Due, Wants
<1>10. pc("child") # "half"
  BY <1>1, <1>9, HalfInside, OneInside DEF IInv, Sig, Ctx
<1>11. HalfWay' /\ SnapshotConsistent'
  BY <1>4, <1>10 DEF HalfWay, SnapshotConsistent, pc, Sig, Ctx
<1>12. AddressOK'
  BY <1>1, <1>3, <1>4, AddressStays DEF Due, Ctx
<1>13. QED
  BY <1>5, <1>6, <1>7, <1>8, <1>11, <1>12 DEF IInv

LEMMA GetTimeInv ==
  ASSUME IInv, GetTime
  PROVE  IInv'
<1> DEFINE c == "child"
<1>1. /\ Inside(c) /\ pc(c) = "in" /\ Due(c, "snap") /\ c \in Ctx
      /\ frame' = [frame EXCEPT ![c].pc = "half"] /\ last_time' = smem.last_time
      /\ UNCHANGED <<stack, child, stop_flg, locked, smem, dst_addr_prev, buf, io>>
  BY DEF GetTime, Inside, Ctx
<1>2. frame \in [Ctx -> Frame] /\ last_time' \in 0..1
  BY <1>1 DEF IInv, ProcTypeOK
<1>3. /\ frame' \in [Ctx -> Frame]
      /\ \A d \in Ctx \ {c} : frame'[d] = frame[d]
      /\ pc(c)' = "half" /\ frame'[c].todo = frame[c].todo
      /\ frame'[c].addr = frame[c].addr
  BY <1>1, <1>2 DEF Frame, Label, pc
<1>4. StackOK' /\ OneHandler'
  BY <1>1, <1>3, SameStack DEF pc, Ctx, Sig
<1>5. ProcTypeOK'
  BY <1>1, <1>2, <1>3, <1>4 DEF IInv, ProcTypeOK, StackOK, io
<1>6. ShapeOK'
  BY <1>1, <1>3 DEF IInv, ShapeOK, ShapeOf, Inner, pc, Due
<1>7. LockDiscipline'
  <2>1. \A d \in Ctx, m \in Mutex : Holds(d, m)' <=> Holds(d, m)
    BY <1>1, <1>3 DEF Holds, Inside, Wants, pc
  <2>2. QED
    BY <1>1, <2>1 DEF IInv, LockDiscipline
<1>8. Wants(c) = "pump_mutex"
  BY <1>1, NeedsType DEF Due, Wants
<1>9. \A sig \in Sig : pc(sig) # "half"
  BY <1>1, <1>8, HalfInside, OneInside DEF IInv, Sig, Ctx
<1>10. smem.alarms = smem.last_time
  BY <1>9 DEF IInv, HalfWay
<1>11. HalfWay' /\ SnapshotConsistent'
  BY <1>1, <1>10 DEF HalfWay, SnapshotConsistent
<1>12. AddressOK'
  BY <1>1, <1>3, AddressStays DEF Due, Ctx, Sig
<1>13. QED
  BY <1>4, <1>5, <1>6, <1>7, <1>11, <1>12 DEF IInv

LEMMA GetAlarmsInv ==
  ASSUME IInv, GetAlarms
  PROVE  IInv'
<1> DEFINE c == "child"
<1>1. /\ Inside(c) /\ pc(c) = "half" /\ c \in Ctx /\ Unlock(c) /\ Advance(c)
      /\ last_time' = 0
      /\ UNCHANGED <<stack, child, stop_flg, smem, dst_addr_prev, buf, io>>
  BY DEF GetAlarms, Inside, Ctx
<1>2. ProcTypeOK' /\ ShapeOK' /\ LockDiscipline' /\ OneHandler'
  BY <1>1, AdvanceInv DEF IInv, ProcTypeOK
<1>3. /\ \A d \in Ctx \ {c} : frame'[d] = frame[d]
      /\ pc(c)' \in {"lock", "idle", "arm"}
  BY <1>1, AdvanceFrame
<1>4. HalfWay' /\ SnapshotConsistent'
  BY <1>1, <1>3 DEF IInv, HalfWay, SnapshotConsistent, pc, Sig, Ctx
<1>5. AddressOK'
  BY <1>1, <1>3, AddressStays DEF Due, Ctx, Sig
<1>6. QED
  BY <1>2, <1>4, <1>5 DEF IInv

LEMMA BLE_sendInv ==
  ASSUME IInv, NEW c \in {"main", "child"}, BLE_send(c)
  PROVE  IInv'
<1>1. /\ Inside(c) /\ pc(c) = "in" /\ Due(c, "send") /\ Unlock(c)
      /\ c \in Ctx /\ c \notin Sig /\ Wants(c) \in Mutex
      /\ UNCHANGED <<stack, stop_flg, smem, last_time, dst_addr_prev, buf, io>>
  BY NeedsType DEF BLE_send, Inside, Ctx, Sig, Due, Wants, Mutex
<1>2. PICK l \in {"idle", "killed", "check"} : frame' = [frame EXCEPT ![c] = At(l)]
  BY DEF BLE_send
<1>3. frame \in [Ctx -> Frame] /\ l \in Label
  BY DEF IInv, ProcTypeOK, Label
<1>4. /\ frame' \in [Ctx -> Frame]
      /\ \A d \in Ctx \ {c} : frame'[d] = frame[d]
      /\ pc(c)' = l /\ frame'[c].todo = <<>>
  BY <1>1, <1>2, <1>3, FrameType DEF pc
<1>5. StackOK' /\ OneHandler'
  BY <1>1, <1>4, SameStack DEF pc, Ctx
<1>6. locked' \in [Mutex -> BOOLEAN] /\ child' \in {"runs", "stopped", "stopping", "ended"}
  BY <1>1 DEF IInv, ProcTypeOK, Unlock, BLE_send
<1>7. ProcTypeOK'
  BY <1>1, <1>4, <1>5, <1>6 DEF IInv, ProcTypeOK, StackOK, io
<1>8. ShapeOK'
  BY <1>1, <1>4 DEF IInv, ShapeOK, ShapeOf, Inner, pc
<1>9. LockDiscipline'
  <2>1. \A d \in Ctx \ {c} : SameSection(d)
    BY <1>4 DEF SameSection, pc
  <2>2. ~Inside(c)'
    BY <1>4 DEF Inside
  <2>3. QED
    BY <1>1, <2>1, <2>2, LeaveStep
<1>10. HalfWay' /\ SnapshotConsistent'
  BY <1>1, <1>4 DEF IInv, HalfWay, SnapshotConsistent, pc, Ctx
<1>11. AddressOK'
  BY <1>1, <1>4, AddressStays DEF Due, Ctx
<1>12. QED
  BY <1>5, <1>7, <1>8, <1>9, <1>10, <1>11 DEF IInv

\* A step in which no context enters or leaves a section, and which leaves the
\* memory alone.
LEMMA QuietInv ==
  ASSUME IInv,
         frame' \in [Ctx -> Frame], \A c \in Ctx : ShapeOf(c)' /\ SameSection(c),
         \A sig \in Sig : /\ Due(sig, "save")' <=> Due(sig, "save")
                          /\ Due(sig, "save") => frame'[sig].addr = frame[sig].addr,
         StackOK', OneHandler', UNCHANGED <<mem, dst_addr_prev>>,
         child' \in {"runs", "stopped", "stopping", "ended"},
         {stop_flg', hup', sigio'} \subseteq BOOLEAN,
         buf' \in Addr \cup {NoAddr}, chan' \in Addr \cup {NoAddr, Empty}
  PROVE  IInv'
<1>1. ProcTypeOK'
  BY DEF IInv, ProcTypeOK, StackOK, mem
<1>2. LockDiscipline' /\ HalfWay' /\ SnapshotConsistent'
  BY QuietStep DEF mem
<1>3. AddressOK'
  BY AddressStays DEF mem
<1>4. QED
  BY <1>1, <1>2, <1>3 DEF IInv, ShapeOK

\* One context that is not in a section turns to something else that is not.
LEMMA TurnFrame ==
  ASSUME IInv, NEW c \in Ctx, NEW f \in Frame,
         frame' = [frame EXCEPT ![c] = f],
         ~Inside(c), f.pc \notin {"in", "half"},
         ~Due(c, "save"), f.todo # <<>> => Head(f.todo) # "save",
         ShapeOf(c)'
  PROVE  /\ frame' \in [Ctx -> Frame]
         /\ \A d \in Ctx : ShapeOf(d)' /\ SameSection(d)
         /\ \A sig \in Sig : /\ Due(sig, "save")' <=> Due(sig, "save")
                             /\ Due(sig, "save") => frame'[sig].addr = frame[sig].addr
<1>1. /\ frame \in [Ctx -> Frame] /\ frame' \in [Ctx -> Frame]
      /\ frame'[c] = f /\ \A d \in Ctx \ {c} : frame'[d] = frame[d]
  BY DEF IInv, ProcTypeOK
<1>2. \A d \in Ctx : ShapeOf(d)'
  BY <1>1 DEF IInv, ShapeOK, ShapeOf, pc
<1>3. \A d \in Ctx : SameSection(d)
  BY <1>1 DEF SameSection, Inside, pc
<1>4. \A sig \in Sig : Due(sig, "save")' <=> Due(sig, "save")
  BY <1>1 DEF Due, Ctx
<1>5. \A sig \in Sig : Due(sig, "save") => frame'[sig].addr = frame[sig].addr
  BY <1>1 DEF Ctx
<1>6. QED
  BY <1>1, <1>2, <1>3, <1>4, <1>5

\* The context turns to a label with nothing to do.
LEMMA TurnAt ==
  ASSUME IInv, NEW c \in Ctx, NEW l \in Label \ Inner,
         frame' = [frame EXCEPT ![c] = At(l)], pc(c) \notin Inner
  PROVE  /\ frame' \in [Ctx -> Frame]
         /\ \A d \in Ctx : ShapeOf(d)' /\ SameSection(d)
         /\ \A sig \in Sig : /\ Due(sig, "save")' <=> Due(sig, "save")
                             /\ Due(sig, "save") => frame'[sig].addr = frame[sig].addr
         /\ pc(c)' = l
         /\ \A d \in Ctx \ {c} : frame'[d] = frame[d]
<1>1. At(l) \in Frame /\ At(l).pc = l /\ At(l).todo = <<>>
  BY FrameType
<1>2. frame \in [Ctx -> Frame] /\ frame'[c] = At(l)
      /\ \A d \in Ctx \ {c} : frame'[d] = frame[d]
  BY <1>1 DEF IInv, ProcTypeOK
<1>3. ~Inside(c) /\ frame[c].todo = <<>> /\ ~Due(c, "save")
  BY DEF IInv, ShapeOK, ShapeOf, Inside, Inner, Due
<1>4. ShapeOf(c)'
  <2>1. <<>> \in HandlerTodo
    BY DEF HandlerTodo
  <2>2. QED
    BY <1>1, <1>2, <2>1 DEF ShapeOf, Inner, pc
<1>5. QED
  BY <1>1, <1>2, <1>3, <1>4, TurnFrame DEF Inner, pc

LEMMA MainInv ==
  ASSUME IInv, Check \/ Typed \/ Wait \/ Exit
  PROVE  IInv'
<1>1. /\ "main" \in Ctx /\ "main" \notin Sig
      /\ UNCHANGED <<stack, child, stop_flg, mem, dst_addr_prev, buf, io>>
      /\ pc("main") \notin Inner
  BY DEF Check, Typed, Wait, Exit, Go, Inner, Ctx, Sig
<1>2. frame \in [Ctx -> Frame]
  BY DEF IInv, ProcTypeOK
<1>3. CASE Go("fgets", Todo(<<"send">>))
  <2>1. /\ Todo(<<"send">>) \in Frame /\ Todo(<<"send">>).pc = "lock"
        /\ Todo(<<"send">>).todo = <<"send">>
    <3>1. <<"send">> \in Seq(Section)
      BY DEF Section
    <3>2. QED
      BY <3>1, FrameType
  <2>2. /\ frame' = [frame EXCEPT !["main"] = Todo(<<"send">>)]
        /\ frame'["main"] = Todo(<<"send">>)
        /\ \A d \in Ctx \ {"main"} : frame'[d] = frame[d]
    BY <1>1, <1>2, <1>3 DEF Go
  <2>3. ~Inside("main") /\ ~Due("main", "save")
    BY <1>1 DEF IInv, ShapeOK, ShapeOf, Inside, Inner, Due
  <2>4. ShapeOf("main")'
    BY <2>1, <2>2 DEF ShapeOf, Inner, pc, Sig
  <2>5. Head(<<"send">>) # "save"
    OBVIOUS
  <2>6. /\ frame' \in [Ctx -> Frame]
        /\ \A d \in Ctx : ShapeOf(d)' /\ SameSection(d)
        /\ \A sig \in Sig : /\ Due(sig, "save")' <=> Due(sig, "save")
                            /\ Due(sig, "save") => frame'[sig].addr = frame[sig].addr
    BY <1>1, <2>1, <2>2, <2>3, <2>4, <2>5, TurnFrame
  <2>7. StackOK' /\ OneHandler'
    BY <1>1, <2>2, SameStack DEF pc, Ctx
  <2>8. QED
    BY <1>1, <2>6, <2>7, QuietInv DEF IInv, ProcTypeOK, io
<1>4. ASSUME NEW l \in {"wait", "fgets", "check", "exit", "ended"},
             frame' = [frame EXCEPT !["main"] = At(l)]
      PROVE  IInv'
  <2>1. l \in Label \ Inner
    BY DEF Label, Inner
  <2>2. /\ frame' \in [Ctx -> Frame]
        /\ \A d \in Ctx : ShapeOf(d)' /\ SameSection(d)
        /\ \A sig \in Sig : /\ Due(sig, "save")' <=> Due(sig, "save")
                            /\ Due(sig, "save") => frame'[sig].addr = frame[sig].addr
        /\ \A d \in Ctx \ {"main"} : frame'[d] = frame[d]
    BY <1>1, <1>4, <2>1, TurnAt
  <2>3. StackOK' /\ OneHandler'
    BY <1>1, <2>2, SameStack DEF pc, Ctx
  <2>4. QED
    BY <1>1, <2>2, <2>3, QuietInv DEF IInv, ProcTypeOK, io
<1>5. \/ Go("fgets", Todo(<<"send">>))
      \/ \E l \in {"wait", "fgets", "check", "exit", "ended"} :
           frame' = [frame EXCEPT !["main"] = At(l)]
  <2>1. CASE Check
    BY <2>1 DEF Check, Go, Loop
  <2>2. CASE Typed
    BY <2>2 DEF Typed, Go
  <2>3. CASE Wait
    BY <2>3 DEF Wait, Go
  <2>4. CASE Exit
    BY <2>4 DEF Exit, Go
  <2>5. QED
    BY <2>1, <2>2, <2>3, <2>4
<1>6. QED
  BY <1>3, <1>4, <1>5

LEMMA ReadInv ==
  ASSUME IInv, NEW sig \in Sig, Read(sig)
  PROVE  IInv'
<1>1. /\ sig \in Ctx /\ pc(sig) = "read" /\ pc(sig) \notin Inner /\ "exec" \in Label \ Inner
      /\ frame' = [frame EXCEPT ![sig] = At("exec")]
      /\ UNCHANGED <<stack, child, stop_flg, mem, dst_addr_prev, hup, sigio>>
  BY DEF Read, Inner, Label, Ctx
<1>2. buf' \in Addr \cup {NoAddr} /\ chan' \in Addr \cup {NoAddr, Empty}
  BY DEF Read, IInv, ProcTypeOK
<1>3. /\ frame' \in [Ctx -> Frame]
      /\ \A d \in Ctx : ShapeOf(d)' /\ SameSection(d)
      /\ \A o \in Sig : /\ Due(o, "save")' <=> Due(o, "save")
                        /\ Due(o, "save") => frame'[o].addr = frame[o].addr
      /\ pc(sig)' = "exec"
      /\ \A d \in Ctx \ {sig} : frame'[d] = frame[d]
  BY <1>1, TurnAt
<1>4. StackOK' /\ OneHandler'
  BY <1>1, <1>3, SameStack DEF pc, Ctx
<1>5. QED
  BY <1>1, <1>2, <1>3, <1>4, QuietInv DEF IInv, ProcTypeOK

LEMMA ArmInv ==
  ASSUME IInv, NEW sig \in Sig, Arm(sig)
  PROVE  IInv'
<1>1. /\ sig \in Ctx /\ pc(sig) = "arm" /\ pc(sig) \notin Inner /\ "off" \in Label \ Inner
      /\ frame' = [frame EXCEPT ![sig] = At("off")]
      /\ Last(stack) = sig /\ stack' = Front(stack)
      /\ UNCHANGED <<child, stop_flg, mem, dst_addr_prev, buf, io>>
  BY DEF Arm, Runs, Inner, Label, Ctx, Sig
<1>2. /\ frame' \in [Ctx -> Frame]
      /\ \A d \in Ctx : ShapeOf(d)' /\ SameSection(d)
      /\ \A o \in Sig : /\ Due(o, "save")' <=> Due(o, "save")
                        /\ Due(o, "save") => frame'[o].addr = frame[o].addr
      /\ pc(sig)' = "off"
      /\ \A d \in Ctx \ {sig} : frame'[d] = frame[d]
  BY <1>1, TurnAt
<1>3. StackOK'
  BY <1>1, <1>2, PopStack DEF IInv, pc, Ctx
<1>4. OneHandler'
  BY <1>2 DEF IInv, OneHandler, pc, Ctx, Sig
<1>5. QED
  BY <1>1, <1>2, <1>3, <1>4, QuietInv DEF IInv, ProcTypeOK, io

LEMMA RequestInv ==
  ASSUME IInv, Request
  PROVE  IInv'
<1> DEFINE c == "child"
<1>1. PICK s \in {"snap", "send"} : frame' = [frame EXCEPT ![c] = Todo(<<s>>)]
  BY DEF Request
<1>2. /\ c \in Ctx /\ c \notin Sig /\ pc(c) = "idle"
      /\ UNCHANGED <<stack, child, stop_flg, mem, dst_addr_prev, buf, io>>
  BY DEF Request, Ctx, Sig
<1>3. /\ Todo(<<s>>) \in Frame /\ Todo(<<s>>).pc = "lock" /\ Todo(<<s>>).todo = <<s>>
      /\ Head(<<s>>) # "save"
  <2>1. <<s>> \in Seq(Section)
    BY DEF Section
  <2>2. Head(<<s>>) = s
    OBVIOUS
  <2>3. QED
    BY <2>1, <2>2, FrameType
<1>4. /\ frame'[c] = Todo(<<s>>)
      /\ \A d \in Ctx \ {c} : frame'[d] = frame[d]
  BY <1>1, <1>2 DEF IInv, ProcTypeOK
<1>5. ~Inside(c) /\ ~Due(c, "save")
  BY <1>2 DEF IInv, ShapeOK, ShapeOf, Inside, Inner, Due
<1>6. ShapeOf(c)'
  BY <1>3, <1>4 DEF ShapeOf, Inner, pc, Sig
<1>7. /\ frame' \in [Ctx -> Frame]
      /\ \A d \in Ctx : ShapeOf(d)' /\ SameSection(d)
      /\ \A sig \in Sig : /\ Due(sig, "save")' <=> Due(sig, "save")
                          /\ Due(sig, "save") => frame'[sig].addr = frame[sig].addr
  BY <1>1, <1>2, <1>3, <1>5, <1>6, TurnFrame
<1>8. StackOK' /\ OneHandler'
  BY <1>2, <1>4, SameStack DEF pc, Ctx
<1>9. QED
  BY <1>2, <1>7, <1>8, QuietInv DEF IInv, ProcTypeOK, io

\* A message, or the end of the connection.
LEMMA SocketInv ==
  ASSUME IInv, (\E a \in Addr \cup {NoAddr} : Send(a)) \/ Hangup
  PROVE  IInv'
<1>1. UNCHANGED <<frame, stack, child, stop_flg, mem, dst_addr_prev, buf>>
  BY DEF Send, Hangup
<1>2. chan' \in Addr \cup {NoAddr, Empty} /\ hup' \in BOOLEAN /\ sigio' \in BOOLEAN
  <2>1. chan \in Addr \cup {NoAddr, Empty} /\ hup \in BOOLEAN /\ sigio \in BOOLEAN
    BY DEF IInv, ProcTypeOK
  <2>2. CASE Hangup
    BY <2>1, <2>2 DEF Hangup
  <2>3. ASSUME NEW a \in Addr \cup {NoAddr}, Send(a)
        PROVE  /\ chan' \in Addr \cup {NoAddr, Empty}
               /\ hup' \in BOOLEAN /\ sigio' \in BOOLEAN
    BY <2>1, <2>3 DEF Send
  <2>4. QED
    BY <2>2, <2>3
<1>3. \A d \in Ctx : ShapeOf(d)' /\ SameSection(d)
  BY <1>1 DEF IInv, ShapeOK, ShapeOf, SameSection, pc
<1>4. StackOK' /\ OneHandler'
  BY <1>1, SameStack DEF pc
<1>5. QED
  BY <1>1, <1>2, <1>3, <1>4, QuietInv DEF IInv, ProcTypeOK, Due

\* What BLE_message_exec and DB_AddRow have to do for one message.
LEMMA ExecTodo ==
  ASSUME NEW u \in Updates
  PROVE  /\ Saves \o u \in HandlerTodo
         /\ Saves = <<>> => Saves \o u = u /\ (u # <<>> => Head(u) # "save")
         /\ Saves # <<>> => Saves \o u # <<>> /\ Head(Saves \o u) = "save"
<1> DEFINE S == {"save", "alarms", "row"}
<1>1. /\ u \in Seq(S) /\ (\A i \in 1..Len(u) : u[i] # "save")
      /\ u # <<>> => Head(u) # "save"
  <2>1. u \in {<<>>, <<"row">>, <<"alarms">>, <<"row", "row">>, <<"alarms", "row">>}
    BY DEF Updates
  <2>2. CASE u = <<>>
    BY <2>2
  <2>3. CASE u = <<"row">>
    BY <2>3
  <2>4. CASE u = <<"alarms">>
    BY <2>4
  <2>5. CASE u = <<"row", "row">>
    BY <2>5
  <2>6. CASE u = <<"alarms", "row">>
    BY <2>6
  <2>7. QED
    BY <2>1, <2>2, <2>3, <2>4, <2>5, <2>6
<1>2. CASE Saves = <<>>
  <2>1. Saves \o u = u
    BY <1>1, <1>2, ConcatEmptySeq
  <2>2. \A i \in 2..Len(u) : i \in 1..Len(u)
    BY <1>1, LenProperties
  <2>3. QED
    BY <1>1, <1>2, <2>1, <2>2 DEF HandlerTodo
<1>3. CASE Saves # <<>>
  <2>1. Saves = <<"save">> /\ Saves \in Seq(S) /\ Len(Saves) = 1
    <3>1. Saves = <<"save">>
      BY <1>3 DEF Saves
    <3>2. <<"save">> \in Seq(S) /\ Len(<<"save">>) = 1
      OBVIOUS
    <3>3. QED
      BY <3>1, <3>2
  <2>2. /\ Saves \o u \in Seq(S)
        /\ Len(Saves \o u) = 1 + Len(u)
        /\ \A i \in 1..1 + Len(u) : (Saves \o u)[i] = IF i <= 1 THEN Saves[i] ELSE u[i - 1]
    BY <1>1, <2>1, ConcatProperties
  <2>3. Len(u) \in Nat
    BY <1>1, LenProperties
  <2>4. (Saves \o u)[1] = "save" /\ Saves \o u # <<>>
    BY <2>1, <2>2, <2>3
  <2>5. \A i \in 2..Len(Saves \o u) : (Saves \o u)[i] # "save"
    BY <1>1, <2>2, <2>3
  <2>6. Saves \o u \in HandlerTodo
    BY <2>2, <2>5 DEF HandlerTodo
  <2>7. Head(Saves \o u) = "save"
    BY <2>2, <2>4
  <2>8. QED
    BY <1>3, <2>4, <2>6, <2>7
<1>4. QED
  BY <1>2, <1>3

LEMMA ExecInv ==
  ASSUME IInv, NEW sig \in Sig, Exec(sig)
  PROVE  IInv'
<1>1. /\ sig \in Ctx /\ pc(sig) = "exec" /\ frame \in [Ctx -> Frame]
      /\ frame[sig].todo = <<>> /\ ~Inside(sig) /\ ~Due(sig, "save")
      /\ buf \in Addr \cup {NoAddr} /\ dst_addr_prev \in Addr \cup {NoAddr}
      /\ UNCHANGED <<stack, child, stop_flg, mem, buf, io>>
  BY DEF Exec, IInv, ProcTypeOK, ShapeOK, ShapeOf, Inner, Inside, Due, Ctx
<1>2. PICK u \in Updates :
        frame' = [frame EXCEPT ![sig] =
          IF Saves \o u = <<>> THEN At("arm")
          ELSE [Todo(Saves \o u) EXCEPT !.addr = IF Saves = <<>> THEN NoAddr ELSE buf]]
  BY DEF Exec
<1> DEFINE t == Saves \o u
           f == IF t = <<>> THEN At("arm")
                ELSE [Todo(t) EXCEPT !.addr = IF Saves = <<>> THEN NoAddr ELSE buf]
<1>3. /\ t \in HandlerTodo /\ t \in Seq(Section)
      /\ Saves = <<>> /\ t # <<>> => Head(t) # "save"
      /\ Saves # <<>> => t # <<>> /\ Head(t) = "save"
  BY ExecTodo, TodoType
<1>4. /\ f \in Frame /\ f.todo = t
      /\ f.pc = IF t = <<>> THEN "arm" ELSE "lock"
      /\ Saves # <<>> => f.addr = buf
  <2>1. CASE t = <<>>
    BY <1>3, <2>1, FrameType DEF Label
  <2>2. CASE t # <<>>
    <3>1. Todo(t) \in Frame /\ Todo(t).pc = "lock" /\ Todo(t).todo = t
      BY <1>3, FrameType
    <3>2. QED
      BY <1>1, <2>2, <3>1 DEF Frame
  <2>3. QED
    BY <2>1, <2>2
<1>5. frame' = [frame EXCEPT ![sig] = f]
  BY <1>2
<1> HIDE DEF f, t
<1>6. /\ frame' \in [Ctx -> Frame] /\ frame'[sig] = f
      /\ \A d \in Ctx \ {sig} : frame'[d] = frame[d]
  BY <1>1, <1>4, <1>5
<1>7. StackOK' /\ OneHandler'
  BY <1>1, <1>4, <1>6, SameStack DEF pc, Ctx
<1>8. dst_addr_prev' \in Addr \cup {NoAddr}
  BY <1>1 DEF Exec
<1>9. ProcTypeOK'
  BY <1>1, <1>6, <1>7, <1>8 DEF IInv, ProcTypeOK, StackOK, mem, io
<1>10. ShapeOK'
  <2>1. ShapeOf(sig)'
    BY <1>3, <1>4, <1>6 DEF ShapeOf, Inner, pc, Sig
  <2>2. QED
    BY <1>6, <2>1 DEF IInv, ShapeOK, ShapeOf, pc
<1>11. LockDiscipline' /\ HalfWay' /\ SnapshotConsistent'
  <2>1. \A d \in Ctx : SameSection(d)
    BY <1>1, <1>4, <1>6 DEF SameSection, Inside, pc
  <2>2. QED
    BY <1>1, <2>1, QuietStep DEF mem
<1>12. AddressOK'
  <2>1. CASE Saves = <<>>
    <3>1. dst_addr_prev' = dst_addr_prev
      BY <2>1 DEF Exec, Saves
    <3>2. \A o \in Sig : /\ Due(o, "save")' <=> Due(o, "save")
                         /\ Due(o, "save") => frame'[o].addr = frame[o].addr
      BY <1>1, <1>3, <1>4, <1>6, <2>1 DEF Due, Ctx
    <3>3. QED
      BY <1>1, <3>1, <3>2, AddressStays DEF mem
  <2>2. CASE Saves # <<>>
    <3>1. buf \in Addr /\ buf # dst_addr_prev /\ dst_addr_prev' = buf
      BY <1>1, <2>2 DEF Exec, Saves
    <3>2. Due(sig, "save")' /\ frame'[sig].addr = buf
      BY <1>3, <1>4, <1>6, <2>2 DEF Due
    <3>3. ASSUME Simple, NEW o \in Sig, o # sig PROVE ~Due(o, "save")
      <4>1. CASE TimerFires
        BY <1>1, <3>1, <3>3, <4>1 DEF IInv, AddressOK, Simple
      <4>2. CASE ~TimerFires
        <5>1. o = "SIGALRM"
          BY <1>1, <3>3, <4>2 DEF IInv, OneHandler, Sig
        <5>2. pc(o) = "off" /\ o \in Ctx
          BY <4>2, <5>1 DEF IInv, OneHandler, Ctx, Sig
        <5>3. QED
          BY <5>2 DEF IInv, ShapeOK, ShapeOf, Inner, Due
      <4>3. QED
        BY <4>1, <4>2
    <3>4. \A o \in Sig : o # sig => (Due(o, "save")' <=> Due(o, "save"))
      BY <1>6 DEF Due, Ctx
    <3>5. buf # NoAddr
      BY <3>1, AddrAssumption
    <3>6. QED
      BY <3>1, <3>2, <3>3, <3>4, <3>5 DEF AddressOK, Simple
  <2>3. QED
    BY <2>1, <2>2
<1>13. QED
  BY <1>7, <1>9, <1>10, <1>11, <1>12 DEF IInv

-----------------------------------------------------------------------------
(***************************************************************************)
(* Signals: a handler begins, a sleeper looks at its mutex again, a process*)
(* is stopped, continued or ended.                                         *)
(***************************************************************************)
\* Context c goes on as it was, looks at its mutex again, or gives up what it
\* has not entered.
Eased(c) ==
  \/ frame'[c] = frame[c]
  \/ pc(c) = "asleep" /\ frame'[c] = [frame[c] EXCEPT !.pc = "lock"]
  \/ /\ ~Inside(c) /\ ~Due(c, "save")
     /\ \E l \in Label \ Inner : frame'[c] = At(l)

LEMMA EasedStep ==
  ASSUME IInv, NEW c \in Ctx, Eased(c)
  PROVE  /\ frame'[c] \in Frame
         /\ ShapeOf(c)' /\ SameSection(c)
         /\ Due(c, "save")' <=> Due(c, "save")
         /\ Due(c, "save") => frame'[c].addr = frame[c].addr
<1>1. frame[c] \in Frame /\ ShapeOf(c)
  BY DEF IInv, ProcTypeOK, ShapeOK
<1>2. CASE frame'[c] = frame[c]
  BY <1>1, <1>2 DEF ShapeOf, SameSection, Due, pc
<1>3. CASE pc(c) = "asleep" /\ frame'[c] = [frame[c] EXCEPT !.pc = "lock"]
  <2>1. /\ frame'[c] \in Frame /\ frame'[c].pc = "lock"
        /\ frame'[c].todo = frame[c].todo /\ frame'[c].addr = frame[c].addr
    BY <1>1, <1>3 DEF Frame, Label
  <2>2. QED
    BY <1>1, <1>3, <2>1 DEF ShapeOf, SameSection, Due, Inner, pc
<1>4. ASSUME ~Inside(c), ~Due(c, "save"), NEW l \in Label \ Inner, frame'[c] = At(l)
      PROVE  /\ frame'[c] \in Frame
             /\ ShapeOf(c)' /\ SameSection(c)
             /\ ~Due(c, "save")'
  <2>1. At(l) \in Frame /\ At(l).pc = l /\ At(l).todo = <<>>
    BY FrameType
  <2>2. <<>> \in HandlerTodo
    BY DEF HandlerTodo
  <2>3. QED
    BY <1>4, <2>1, <2>2 DEF ShapeOf, SameSection, Inside, Inner, Due, pc
<1>5. QED
  BY <1>2, <1>3, <1>4 DEF Eased

\* A sleeper that is woken is eased.
LEMMA WokenEased ==
  ASSUME NEW c \in Ctx, frame'[c] = Woken(frame[c])
  PROVE  Eased(c) /\ (pc(c)' = "off" <=> pc(c) = "off")
BY DEF Woken, Eased, pc

\* The child that ends is eased: inside a section it stays where it is.
LEMMA AbandonedEased ==
  ASSUME IInv, frame'["child"] = Abandoned(frame["child"])
  PROVE  Eased("child")
<1>1. ~Due("child", "save")
  <2>1. frame["child"].todo \in {<<>>, <<"send">>, <<"snap">>}
    BY DEF IInv, ShapeOK, ShapeOf, Ctx
  <2>2. Head(<<"send">>) # "save" /\ Head(<<"snap">>) # "save"
    OBVIOUS
  <2>3. QED
    BY <2>1, <2>2 DEF Due
<1>2. "idle" \in Label \ Inner
  BY DEF Label, Inner
<1>3. QED
  BY <1>1, <1>2 DEF Abandoned, Eased, Inside, pc

\* A context that a signal interrupts is eased.
LEMMA InterruptedEased ==
  ASSUME IInv, NEW c \in Ctx, NEW sig \in Sig, frame'[c] \in Interrupted(frame[c], sig)
  PROVE  Eased(c) /\ (pc(c)' = "off" <=> pc(c) = "off")
<1>1. CASE frame'[c] = Woken(frame[c])
  BY <1>1, WokenEased
<1>2. ASSUME NEW l \in {"check", "exit", "exec"}, frame'[c] = At(l),
             pc(c) \in {"fgets", "wait", "read"}
      PROVE  Eased(c) /\ (pc(c)' = "off" <=> pc(c) = "off")
  <2>1. l \in Label \ Inner /\ At(l).pc = l
    BY FrameType DEF Label, Inner
  <2>2. ~Inside(c) /\ ~Due(c, "save")
    BY <1>2 DEF IInv, ShapeOK, ShapeOf, Inside, Inner, Due
  <2>3. QED
    BY <1>2, <2>1, <2>2 DEF Eased, pc
<1>3. \/ frame'[c] = Woken(frame[c])
      \/ /\ \E l \in {"check", "exit", "exec"} : frame'[c] = At(l)
         /\ pc(c) \in {"fgets", "wait", "read"}
  BY DEF Interrupted, pc
<1>4. QED
  BY <1>1, <1>2, <1>3

\* Every context is eased, in a step that leaves the memory alone.
LEMMA EasedInv ==
  ASSUME IInv, frame' = [c \in Ctx |-> frame'[c]], \A c \in Ctx : Eased(c),
         StackOK', OneHandler', UNCHANGED <<mem, dst_addr_prev, buf>>,
         child' \in {"runs", "stopped", "stopping", "ended"},
         {stop_flg', hup', sigio'} \subseteq BOOLEAN,
         chan' \in Addr \cup {NoAddr, Empty}
  PROVE  IInv'
<1>1. frame' \in [Ctx -> Frame]
  BY EasedStep
<1>2. \A c \in Ctx : ShapeOf(c)' /\ SameSection(c)
  BY EasedStep
<1>3. \A sig \in Sig : /\ Due(sig, "save")' <=> Due(sig, "save")
                       /\ Due(sig, "save") => frame'[sig].addr = frame[sig].addr
  BY EasedStep DEF Ctx
<1>4. buf' \in Addr \cup {NoAddr}
  BY DEF IInv, ProcTypeOK
<1>5. QED
  BY <1>1, <1>2, <1>3, <1>4, QuietInv

LEMMA DeliverInv ==
  ASSUME IInv, NEW sig \in Sig, Deliver(sig)
  PROVE  IInv'
<1>0. PICK c \in Ctx : c = Last(stack)
  BY TopType DEF IInv
<1>1. /\ sig \in Ctx /\ pc(sig) = "off" /\ c \in Ctx /\ c # sig /\ frame \in [Ctx -> Frame]
      /\ \A o \in Sig : c = o => pc(o) # "off"
      /\ stack' = Append(stack, sig)
      /\ UNCHANGED <<child, stop_flg, mem, dst_addr_prev, buf, chan, hup>>
      /\ sig = "SIGALRM" => TimerFires
  BY <1>0, TopType DEF IInv, ProcTypeOK, Deliver, Masked, Ctx, Sig
<1>2. PICK f \in Interrupted(frame[c], sig) :
        frame' = [frame EXCEPT ![c] = f, ![sig] = At("read")]
  BY <1>0 DEF Deliver
<1>3. /\ frame' = [d \in Ctx |-> frame'[d]]
      /\ frame'[c] = f /\ frame'[sig] = At("read")
      /\ \A d \in Ctx \ {c, sig} : frame'[d] = frame[d]
  BY <1>1, <1>2
<1>4. Eased(c) /\ (pc(c)' = "off" <=> pc(c) = "off")
  BY <1>1, <1>3, InterruptedEased
<1>5. Eased(sig) /\ pc(sig)' # "off"
  <2>1. "read" \in Label \ Inner /\ At("read").pc = "read"
    BY FrameType DEF Label, Inner
  <2>2. ~Inside(sig) /\ ~Due(sig, "save")
    BY <1>1 DEF IInv, ShapeOK, ShapeOf, Inside, Inner, Due
  <2>3. QED
    BY <1>3, <2>1, <2>2 DEF Eased, pc
<1>6. \A d \in Ctx : Eased(d)
  BY <1>3, <1>4, <1>5 DEF Eased
<1>7. \A o \in Sig \ {sig} : pc(o)' = "off" <=> pc(o) = "off"
  BY <1>3, <1>4 DEF pc, Ctx
<1>8. StackOK'
  BY <1>1, <1>5, <1>7, PushStack DEF IInv
<1>9. OneHandler'
  BY <1>1, <1>7 DEF IInv, OneHandler, Sig
<1>10. {stop_flg', hup', sigio'} \subseteq BOOLEAN
  BY <1>1 DEF IInv, ProcTypeOK, Deliver
<1>11. QED
  BY <1>1, <1>3, <1>6, <1>8, <1>9, <1>10, EasedInv DEF IInv, ProcTypeOK

\* CTRL+C, a signal to the parent alone, CTRL+Z.
LEMMA StopInv ==
  ASSUME IInv, NEW s \in {"runs", "stopped", "stopping", "ended"}, Stop(s)
  PROVE  IInv'
<1>0. PICK c \in Ctx : c = Last(stack)
  BY TopType DEF IInv
<1> DEFINE told == IF Alive THEN [frame EXCEPT ![c] = Woken(@)] ELSE frame
<1>1. /\ c \in Ctx /\ c # "child" /\ "child" \in Ctx /\ frame \in [Ctx -> Frame]
      /\ UNCHANGED <<stack, mem, dst_addr_prev, buf, io>> /\ child' = s
      /\ stop_flg' \in BOOLEAN
  BY <1>0, TopType DEF IInv, ProcTypeOK, Stop, Ctx
<1>2. frame' = IF s = "ended" THEN [told EXCEPT !["child"] = Abandoned(@)] ELSE told
  BY <1>0 DEF Stop
<1>3. /\ told = [d \in Ctx |-> told[d]]
      /\ told[c] \in {frame[c], Woken(frame[c])}
      /\ \A d \in Ctx \ {c} : told[d] = frame[d]
  BY <1>1
<1> HIDE DEF told
<1>4. /\ frame' = [d \in Ctx |-> frame'[d]]
      /\ frame'[c] \in {frame[c], Woken(frame[c])}
      /\ frame'["child"] \in {frame["child"], Abandoned(frame["child"])}
      /\ \A d \in Ctx \ {c, "child"} : frame'[d] = frame[d]
  BY <1>1, <1>2, <1>3
<1>5. Eased(c) /\ (pc(c)' = "off" <=> pc(c) = "off")
  BY <1>1, <1>4, WokenEased DEF Eased, pc
<1>6. Eased("child")
  BY <1>4, AbandonedEased DEF Eased
<1>7. \A d \in Ctx : Eased(d)
  BY <1>4, <1>5, <1>6 DEF Eased
<1>8. StackOK' /\ OneHandler'
  <2>1. \A o \in Sig : pc(o)' = "off" <=> pc(o) = "off"
    BY <1>4, <1>5 DEF pc, Ctx, Sig
  <2>2. QED
    BY <1>1, <2>1, SameStack
<1>9. QED
  BY <1>1, <1>4, <1>7, <1>8, EasedInv DEF IInv, ProcTypeOK, io

\* The child is continued, or ends.
LEMMA AlterInv ==
  ASSUME IInv, Continue \/ ChildPipe
  PROVE  IInv'
<1>1. PICK to \in {"runs", "ended"},
           f \in {frame["child"], Woken(frame["child"]), Abandoned(frame["child"])} :
             /\ child' = to
             /\ frame' = [frame EXCEPT !["child"] = f]
             /\ UNCHANGED <<stack, stop_flg, mem, dst_addr_prev, buf, io>>
  BY DEF Continue, ChildPipe, Alter
<1>2. /\ frame' = [d \in Ctx |-> frame'[d]]
      /\ frame'["child"] = f /\ "child" \in Ctx
      /\ \A d \in Ctx \ {"child"} : frame'[d] = frame[d]
  BY <1>1 DEF IInv, ProcTypeOK, Ctx
<1>3. Eased("child")
  BY <1>2, WokenEased, AbandonedEased DEF Eased
<1>4. \A d \in Ctx : Eased(d)
  BY <1>2, <1>3 DEF Eased
<1>5. StackOK' /\ OneHandler'
  <2>1. \A o \in Sig : pc(o)' = pc(o)
    BY <1>2 DEF pc, Ctx, Sig
  <2>2. QED
    BY <1>1, <2>1, SameStack
<1>6. QED
  BY <1>1, <1>2, <1>4, <1>5, EasedInv DEF IInv, ProcTypeOK, io

-----------------------------------------------------------------------------
\* The processes start with the invariant.
LEMMA InitInv ==
  ASSUME ProcInit
  PROVE  IInv
<1>1. /\ frame \in [Ctx -> Frame]
      /\ \A c \in Ctx : frame[c].todo = <<>> /\ pc(c) \notin Inner
      /\ \A sig \in Sig : pc(sig) = "off"
      /\ pc("child") = "idle"
  <2>1. \A c \in Ctx : \E l \in {"off", "check", "idle"} :
          /\ frame[c] = At(l)
          /\ c \in Sig => l = "off"
          /\ c = "child" => l = "idle"
    BY DEF ProcInit, Ctx, Sig
  <2>2. \A l \in {"off", "check", "idle"} :
          At(l) \in Frame /\ At(l).pc = l /\ At(l).todo = <<>> /\ l \notin Inner
    BY FrameType DEF Label, Inner
  <2>3. frame = [c \in Ctx |-> frame[c]]
    <3> DEFINE At0(c) == At(CASE c \in Sig -> "off" [] c = "main" -> "check"
                                [] c = "child" -> "idle")
    <3>1. frame = [c \in Ctx |-> At0(c)]
      BY DEF ProcInit
    <3> HIDE DEF At0
    <3>2. QED
      BY <3>1
  <2>4. "child" \in Ctx /\ Sig \subseteq Ctx
    BY DEF Ctx
  <2>5. QED
    BY <2>1, <2>2, <2>3, <2>4 DEF pc
<1>2. ProcTypeOK
  <2>1. stack = <<"main">> /\ "main" \in Ctx \ {"child"} /\ "main" \notin Sig
    BY DEF ProcInit, Ctx, Sig
  <2>2. /\ stack \in Seq(Ctx \ {"child"}) /\ stack # <<>> /\ stack[1] = "main"
        /\ DOMAIN stack = {1}
    BY <2>1
  <2>3. \A sig \in Sig : sig \notin ToSet(stack)
    BY <2>1, <2>2 DEF ToSet
  <2>4. \A i, j \in DOMAIN stack : stack[i] = stack[j] => i = j
    BY <2>2
  <2>5. /\ locked \in [Mutex -> BOOLEAN]
        /\ smem \in [alarms : 0..1, last_time : 0..1, addr : Addr \cup {NoAddr}]
        /\ last_time \in 0..1
    BY DEF ProcInit
  <2>6. QED
    BY <1>1, <2>2, <2>3, <2>4, <2>5 DEF ProcInit, ProcTypeOK
<1>3. ShapeOK
  <2>1. <<>> \in HandlerTodo
    BY DEF HandlerTodo
  <2>2. QED
    BY <1>1, <2>1 DEF ShapeOK, ShapeOf, Inner
<1>4. LockDiscipline
  BY <1>1 DEF ProcInit, LockDiscipline, Holds, Inside, Inner
<1>5. HalfWay /\ SnapshotConsistent /\ OneHandler
  BY <1>1 DEF ProcInit, HalfWay, SnapshotConsistent, OneHandler, Sig
<1>6. AddressOK
  BY <1>1 DEF ProcInit, AddressOK, Due, Ctx
<1>7. QED
  BY <1>2, <1>3, <1>4, <1>5, <1>6 DEF IInv

\* Every step of either process keeps the invariant.
LEMMA StepInv ==
  ASSUME IInv, [ProcNext]_proc_vars
  PROVE  IInv'
<1>1. "main" \in Ctx /\ "child" \in Ctx /\ Sig \subseteq Ctx
  BY DEF Ctx
<1>2. CASE Main \/ Typed
  BY <1>1, <1>2, MainInv, TryLockInv, BLE_sendInv DEF Main
<1>3. ASSUME NEW sig \in Sig, Deliver(sig) \/ Handler(sig)
      PROVE  IInv'
  BY <1>1, <1>3, DeliverInv, ReadInv, ExecInv, ArmInv, TryLockInv, SaveInv,
     SetAlarmsInv, SetTimeInv, RowInv DEF Handler
<1>4. CASE Request \/ Child
  BY <1>1, <1>4, RequestInv, TryLockInv, GetTimeInv, GetAlarmsInv, BLE_sendInv DEF Child
<1>5. CASE CtrlC \/ KillParent \/ CtrlZ
  <2>1. child \in {"runs", "stopped", "stopping", "ended"}
    BY DEF IInv, ProcTypeOK
  <2>2. \E s \in {"runs", "stopped", "stopping", "ended"} : Stop(s)
    BY <1>5, <2>1 DEF CtrlC, KillParent, CtrlZ
  <2>3. QED
    BY <2>2, StopInv
<1>6. CASE Continue \/ ChildPipe
  BY <1>6, AlterInv
<1>7. CASE (\E a \in Addr \cup {NoAddr} : Send(a)) \/ Hangup
  BY <1>7, SocketInv
<1>8. CASE UNCHANGED proc_vars
  <2>1. UNCHANGED <<frame, stack, child, stop_flg, mem, dst_addr_prev, buf, io>>
    BY <1>8 DEF proc_vars
  <2>2. \A c \in Ctx : Eased(c)
    BY <2>1 DEF Eased
  <2>3. StackOK' /\ OneHandler'
    BY <2>1, SameStack DEF pc
  <2>4. frame' = [c \in Ctx |-> frame'[c]]
    BY <2>1 DEF IInv, ProcTypeOK
  <2>5. QED
    BY <2>1, <2>2, <2>3, <2>4, EasedInv DEF IInv, ProcTypeOK, io
<1>9. QED
  BY <1>2, <1>3, <1>4, <1>5, <1>6, <1>7, <1>8 DEF ProcNext

\* The inductive invariant holds in every state that the processes reach.
THEOREM Invariance == ProcSpec => []IInv
<1>1. ProcInit => IInv
  BY InitInv
<1>2. IInv /\ [ProcNext]_proc_vars => IInv'
  BY StepInv
<1>3. QED
  BY <1>1, <1>2, PTL DEF ProcSpec

\* The shape of the state, whatever interrupts, stops or ends a process: the
\* parent stays a stack of main and of each handler at most once.
THEOREM TypeCorrect == ProcSpec => []ProcTypeOK
<1>1. IInv => ProcTypeOK
  BY DEF IInv
<1>2. QED
  BY <1>1, Invariance, PTL

\* Serialize never takes the time of one update of the alarms and the alarms
\* of another.
THEOREM SnapshotsConsistent == ProcSpec => []SnapshotConsistent
<1>1. IInv => SnapshotConsistent
  BY DEF IInv
<1>2. QED
  BY <1>1, Invariance, PTL

\* Between handlers the address that commands go to is the one that
\* BLE_message_exec takes for saved, for one pump or without the timer.
THEOREM AddressesCurrent == ProcSpec => []AddressCurrent
<1>1. IInv => AddressCurrent
  <2> SUFFICES ASSUME IInv, stack = <<"main">>, Simple
               PROVE  smem.addr = dst_addr_prev
    BY DEF AddressCurrent, Simple
  <2>1. \A sig \in Sig : sig \notin ToSet(stack)
    <3>1. DOMAIN stack = {1} /\ stack[1] = "main"
      OBVIOUS
    <3>2. QED
      BY <3>1 DEF ToSet, Sig
  <2>2. \A sig \in Sig : pc(sig) = "off" /\ sig \in Ctx
    BY <2>1 DEF IInv, ProcTypeOK, Ctx
  <2>3. \A sig \in Sig : ~Due(sig, "save")
    BY <2>2 DEF IInv, ShapeOK, ShapeOf, Inner, Due
  <2>4. QED
    BY <2>3 DEF IInv, AddressOK
<1>2. QED
  BY <1>1, Invariance, PTL
=============================================================================
