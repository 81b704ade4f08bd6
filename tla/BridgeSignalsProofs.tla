------------------------- MODULE BridgeSignalsProofs -------------------------
(***************************************************************************)
(* Theorems about the handlers and the signals that start them, for every  *)
(* set of fields, triggers and values and every number of messages.  The   *)
(* first part is about any nesting of the handlers, with the timer or      *)
(* without; the second shows that without the timer they implement         *)
(* RowAssembly.                                                            *)
(***************************************************************************)
EXTENDS BridgeSignals, SequenceTheorems, TLAPS

\* Labels at which a handler has pump_mutex.
Critical == {"crit", "unlock", "snap"}

\* What a handler has taken out of the buffer and the memory at its label.
FrameOK(g) ==
  /\ g.pc \in {"fetch", "lock", "crit"} => g.f \in Field
  /\ g.pc \in {"lock", "crit"} => g.v \in Value
  /\ g.pc = "insert" => g.row \in Row

\* The part of the invariant about the stack of handlers and the mutex.
StackOK ==
  /\ stack \in Seq(Frame)
  /\ \A i, j \in DOMAIN stack : stack[i].sig = stack[j].sig => i = j
  /\ mutex \in 0..Depth
  /\ \A i \in DOMAIN stack : stack[i].pc \in Critical <=> i = mutex
  /\ \A i \in DOMAIN stack : FrameOK(stack[i])

IInv ==
  /\ HandlersOK
  /\ \A i \in DOMAIN stack : FrameOK(stack[i])
  /\ InputAnnounced
  /\ WatchdogArmed

-----------------------------------------------------------------------------
\* The stack of handlers and the one that runs.
LEMMA TopType ==
  ASSUME IInv
  PROVE  /\ StackOK /\ Depth \in Nat /\ DOMAIN stack = 1..Depth
         /\ stack # <<>> => /\ Depth # 0 /\ Depth \in 1..Depth
                            /\ Top \in Frame /\ FrameOK(Top)
<1>1. stack \in Seq(Frame) /\ StackOK
  BY DEF IInv, HandlersOK, StackOK, Critical
<1>2. Depth \in Nat /\ DOMAIN stack = 1..Depth
  BY <1>1, LenProperties DEF Depth
<1>3. stack # <<>> => Depth # 0 /\ Depth \in 1..Depth
  BY <1>1, <1>2, EmptySeq DEF Depth
<1>4. stack # <<>> => Top \in Frame /\ FrameOK(Top)
  BY <1>1, <1>2, <1>3, ElementOfSeq DEF StackOK, Top, Depth
<1>5. QED
  BY <1>1, <1>2, <1>3, <1>4

\* The running handler goes on to a state g of its own.
LEMMA TurnTop ==
  ASSUME IInv, stack # <<>>, NEW g \in Frame, stack' = [stack EXCEPT ![Depth] = g]
  PROVE  /\ stack' \in Seq(Frame) /\ Len(stack') = Depth /\ DOMAIN stack' = 1..Depth
         /\ stack'[Depth] = g /\ stack' # <<>>
         /\ \A i \in 1..Depth : i # Depth => stack'[i] = stack[i]
<1>1. stack \in Seq(Frame) /\ Depth \in 1..Len(stack) /\ Depth = Len(stack)
  BY TopType DEF StackOK, Depth
<1>2. /\ stack' \in Seq(Frame) /\ Len(stack') = Depth /\ stack'[Depth] = g
      /\ \A i \in 1..Depth : i # Depth => stack'[i] = stack[i]
  BY <1>1, ExceptSeq
<1>3. DOMAIN stack' = 1..Depth /\ stack' # <<>>
  BY <1>1, <1>2, LenProperties, EmptySeq
<1>4. QED
  BY <1>2, <1>3

\* It keeps the mutex, takes it or lets go of it.
Holding(g) ==
  \/ UNCHANGED mutex /\ (g.pc \in Critical <=> Top.pc \in Critical)
  \/ mutex = 0 /\ mutex' = Depth /\ g.pc \in Critical
  \/ Top.pc \in Critical /\ mutex' = 0 /\ g.pc \notin Critical

LEMMA TopStack ==
  ASSUME IInv, stack # <<>>, NEW g \in Frame, stack' = [stack EXCEPT ![Depth] = g],
         g.sig = Top.sig, FrameOK(g), Holding(g)
  PROVE  StackOK'
<1>1. /\ StackOK /\ Depth \in Nat \ {0} /\ Depth \in 1..Depth /\ DOMAIN stack = 1..Depth
      /\ Top = stack[Depth]
  BY TopType DEF Top
<1>2. /\ stack' \in Seq(Frame) /\ Len(stack') = Depth /\ DOMAIN stack' = 1..Depth
      /\ stack'[Depth] = g
      /\ \A i \in 1..Depth : i # Depth => stack'[i] = stack[i]
  BY TurnTop
<1>3. \A i \in 1..Depth : stack'[i].sig = stack[i].sig /\ FrameOK(stack'[i])
  BY <1>1, <1>2 DEF StackOK
<1>4. Depth' = Depth
  BY <1>2 DEF Depth
<1>5. mutex' \in 0..Depth
  BY <1>1 DEF Holding, StackOK
<1>6. \A i \in 1..Depth : stack'[i].pc \in Critical <=> i = mutex'
  <2>1. \A i \in 1..Depth : stack[i].pc \in Critical <=> i = mutex
    BY <1>1 DEF StackOK
  <2>2. CASE UNCHANGED mutex /\ (g.pc \in Critical <=> Top.pc \in Critical)
    BY <1>1, <1>2, <2>1, <2>2
  <2>3. CASE mutex = 0 /\ mutex' = Depth /\ g.pc \in Critical
    BY <1>1, <1>2, <2>1, <2>3
  <2>4. CASE Top.pc \in Critical /\ mutex' = 0 /\ g.pc \notin Critical
    BY <1>1, <1>2, <2>1, <2>4
  <2>5. QED
    BY <2>2, <2>3, <2>4 DEF Holding
<1>7. \A i, j \in 1..Depth : stack'[i].sig = stack'[j].sig => i = j
  BY <1>1, <1>3 DEF StackOK
<1>8. QED
  BY <1>2, <1>3, <1>4, <1>5, <1>6, <1>7 DEF StackOK

\* A step of the running handler.
LEMMA TopInv ==
  ASSUME IInv, stack # <<>>, NEW g \in Frame, stack' = [stack EXCEPT ![Depth] = g],
         g.sig = Top.sig, FrameOK(g), Holding(g),
         TypeOK', stamp' \in Nat, UNCHANGED <<pending, armed, sent>>,
         \/ chan' = <<>>
         \/ UNCHANGED chan /\ (Top.pc \in {"read", "sleep"} => g.pc \in {"read", "sleep"})
  PROVE  IInv'
<1>1. StackOK'
  BY TopStack
<1>2. /\ Depth \in 1..Depth /\ DOMAIN stack = 1..Depth
      /\ DOMAIN stack' = 1..Depth /\ stack'[Depth] = g /\ stack' # <<>>
      /\ \A i \in 1..Depth : i # Depth => stack'[i] = stack[i]
  BY TopType, TurnTop
<1>3. chan' \in Seq(Msg \cup {NoMsg})
  BY EmptySeq DEF IInv, HandlersOK
<1>4. HandlersOK' /\ \A i \in DOMAIN stack' : FrameOK(stack'[i])
  BY <1>1, <1>3 DEF IInv, HandlersOK, StackOK, Critical
<1>5. InputAnnounced'
  <2>1. CASE chan' = <<>>
    BY <2>1 DEF InputAnnounced
  <2>2. CASE UNCHANGED chan /\ (Top.pc \in {"read", "sleep"} => g.pc \in {"read", "sleep"})
    <3>1. ASSUME NEW i \in 1..Depth, stack[i].pc \in {"read", "sleep"}
          PROVE  stack'[i].pc \in {"read", "sleep"}
      BY <1>2, <2>2, <3>1 DEF Top
    <3>2. QED
      BY <1>2, <2>2, <3>1 DEF IInv, InputAnnounced
  <2>3. QED
    BY <2>1, <2>2
<1>6. WatchdogArmed'
  BY <1>2 DEF WatchdogArmed
<1>7. QED
  BY <1>4, <1>5, <1>6 DEF IInv

\* A handler that goes on to a label and takes nothing with it.
LEMMA GotoFrame ==
  ASSUME IInv, stack # <<>>, NEW label \in Label, Goto(label)
  PROVE  LET g == [Top EXCEPT !.pc = label]
         IN  /\ g \in Frame /\ g.pc = label /\ g.sig = Top.sig
             /\ g.f = Top.f /\ g.v = Top.v /\ g.row = Top.row /\ g.stamp = Top.stamp
             /\ stack' = [stack EXCEPT ![Depth] = g]
<1>1. Top \in Frame
  BY TopType
<1>2. QED
  BY <1>1 DEF Frame, Goto, Top

-----------------------------------------------------------------------------
(***************************************************************************)
(* Every action keeps the inductive invariant.                             *)
(***************************************************************************)
\* Steps that change neither the socket nor the data.
LEMMA PassInv ==
  ASSUME IInv, Sleep \/ Dispatch \/ Fetch \/ Lock \/ Unlock \/ Check
  PROVE  IInv'
<1>1. /\ stack # <<>> /\ UNCHANGED <<vars, chan, pending, armed, stamp, sent>>
      /\ Top \in Frame /\ FrameOK(Top)
  BY TopType DEF Sleep, Dispatch, Fetch, Lock, Unlock, Check, At
<1>2. TypeOK' /\ stamp' \in Nat /\ mesh2pc_msg \in Msg \cup {NoMsg}
  BY <1>1 DEF IInv, HandlersOK, TypeOK, vars
<1>3. ASSUME NEW label \in Label, Goto(label), Holding([Top EXCEPT !.pc = label]),
             label \notin {"fetch", "lock", "insert"},
             label = "crit" => Top.pc = "lock",
             Top.pc \in {"read", "sleep"} => label \in {"read", "sleep"}
      PROVE  IInv'
  <2> DEFINE g == [Top EXCEPT !.pc = label]
  <2>1. /\ g \in Frame /\ g.pc = label /\ g.sig = Top.sig /\ g.f = Top.f /\ g.v = Top.v
        /\ stack' = [stack EXCEPT ![Depth] = g]
    BY <1>1, <1>3, GotoFrame
  <2>2. FrameOK(g)
    BY <1>1, <1>3, <2>1 DEF FrameOK
  <2>3. Holding(g)
    BY <1>3
  <2> HIDE DEF g
  <2>4. QED
    BY <1>1, <1>2, <1>3, <2>1, <2>2, <2>3, TopInv
<1>4. \A label \in Label : [Top EXCEPT !.pc = label].pc = label
  BY <1>1 DEF Frame
<1>5. CASE Sleep
  BY <1>3, <1>4, <1>5 DEF Sleep, At, Holding, Critical, Label
<1>6. CASE Dispatch
  <2>1. Top.pc = "dispatch" /\ UNCHANGED mutex
    BY <1>6 DEF Dispatch, At
  <2>2. CASE mesh2pc_msg = NoMsg
    <3>1. Goto("check")
      BY <1>6, <2>2 DEF Dispatch, Goto
    <3>2. QED
      BY <1>3, <1>4, <2>1, <3>1 DEF Holding, Critical, Label
  <2>3. CASE mesh2pc_msg # NoMsg
    <3> DEFINE g == [Top EXCEPT !.pc = "fetch", !.f = mesh2pc_msg[1]]
    <3>1. mesh2pc_msg[1] \in Field
      BY <1>2, <2>3 DEF Msg
    <3>2. /\ g \in Frame /\ g.pc = "fetch" /\ g.sig = Top.sig /\ g.f \in Field
          /\ stack' = [stack EXCEPT ![Depth] = g]
      BY <1>1, <1>6, <2>3, <3>1 DEF Frame, Label, Dispatch, Top
    <3> HIDE DEF g
    <3>3. FrameOK(g) /\ Holding(g)
      BY <2>1, <3>2 DEF FrameOK, Holding, Critical
    <3>4. QED
      BY <1>1, <1>2, <2>1, <3>2, <3>3, TopInv
  <2>4. QED
    BY <2>2, <2>3
<1>7. CASE Fetch
  <2>1. Top.pc = "fetch" /\ UNCHANGED mutex /\ Top.f \in Field
    BY <1>1, <1>7 DEF Fetch, At, FrameOK
  <2>2. PICK v \in IF mesh2pc_msg = NoMsg THEN Value ELSE {mesh2pc_msg[2]} :
          stack' = [stack EXCEPT ![Depth] = [@ EXCEPT !.pc = "lock", !.v = v, !.stamp = stamp]]
    BY <1>7 DEF Fetch
  <2> DEFINE g == [Top EXCEPT !.pc = "lock", !.v = v, !.stamp = stamp]
  <2>3. v \in Value /\ stamp \in Nat
    BY <1>2, <2>2 DEF Msg, IInv, HandlersOK
  <2>4. /\ g \in Frame /\ g.pc = "lock" /\ g.sig = Top.sig /\ g.f \in Field /\ g.v \in Value
        /\ stack' = [stack EXCEPT ![Depth] = g]
    BY <1>1, <2>1, <2>2, <2>3 DEF Frame, Label, Top
  <2> HIDE DEF g
  <2>5. FrameOK(g) /\ Holding(g)
    BY <2>1, <2>4 DEF FrameOK, Holding, Critical
  <2>6. QED
    BY <1>1, <1>2, <2>1, <2>4, <2>5, TopInv
<1>8. CASE Lock
  <2>1. /\ Top.pc \in {"lock", "slock"} /\ mutex = 0 /\ mutex' = Depth
        /\ Goto(IF Top.pc = "lock" THEN "crit" ELSE "snap")
    BY <1>1, <1>8 DEF Lock, At
  <2>2. QED
    BY <1>3, <1>4, <2>1 DEF Holding, Critical, Label
<1>9. CASE Unlock
  BY <1>3, <1>4, <1>9 DEF Unlock, At, Holding, Critical, Label
<1>10. CASE Check
  <2>1. /\ Top.pc = "check" /\ UNCHANGED mutex
        /\ \E label \in {"reset", "rearm"} : Goto(label)
    BY <1>10 DEF Check, At
  <2>2. QED
    BY <1>3, <1>4, <2>1 DEF Holding, Critical, Label
<1>11. QED
  BY <1>5, <1>6, <1>7, <1>8, <1>9, <1>10

LEMMA ReadInv ==
  ASSUME IInv, Read
  PROVE  IInv'
<1> DEFINE g == [Top EXCEPT !.pc = "dispatch"]
<1>1. /\ stack # <<>> /\ Top.pc \in {"read", "sleep"} /\ chan # <<>> /\ chan' = <<>>
      /\ mesh2pc_msg' = Head(chan) /\ Goto("dispatch") /\ "dispatch" \in Label
      /\ UNCHANGED <<smem, last_time, db_new_row_fgs, offered, seen, changes,
                     pending, armed, mutex, sent>>
  BY DEF Read, At, LeftByRead, Label
<1>2. /\ g \in Frame /\ g.pc = "dispatch" /\ g.sig = Top.sig
      /\ stack' = [stack EXCEPT ![Depth] = g]
  BY <1>1, GotoFrame
<1> HIDE DEF g
<1>3. FrameOK(g) /\ Holding(g)
  BY <1>1, <1>2 DEF FrameOK, Holding, Critical
<1>4. Head(chan) \in Msg \cup {NoMsg}
  BY <1>1, HeadTailProperties DEF IInv, HandlersOK
<1>5. clock' \in Nat /\ stamp' \in Nat
  BY DEF Read, IInv, HandlersOK, TypeOK
<1>6. TypeOK'
  BY <1>1, <1>4, <1>5 DEF IInv, HandlersOK, TypeOK
<1>7. QED
  BY <1>1, <1>2, <1>3, <1>5, <1>6, TopInv

\* The memory, the flags and the rows change.
LEMMA WriteInv ==
  ASSUME IInv, Update \/ Reset \/ Snap \/ Offer
  PROVE  IInv'
<1>1. /\ stack # <<>> /\ UNCHANGED <<mesh2pc_msg, clock, chan, pending, armed, stamp, sent>>
      /\ Top \in Frame /\ FrameOK(Top)
  BY TopType DEF Update, Reset, Snap, Offer, At, vars
<1>2. ASSUME NEW label \in Label, Goto(label), UNCHANGED mutex, TypeOK',
             label \notin {"fetch", "lock", "crit", "insert"},
             label \in Critical <=> Top.pc \in Critical,
             Top.pc \notin {"read", "sleep"}
      PROVE  IInv'
  <2> DEFINE g == [Top EXCEPT !.pc = label]
  <2>1. /\ g \in Frame /\ g.pc = label /\ g.sig = Top.sig
        /\ stack' = [stack EXCEPT ![Depth] = g]
    BY <1>1, <1>2, GotoFrame
  <2> HIDE DEF g
  <2>2. FrameOK(g) /\ Holding(g)
    BY <1>2, <2>1 DEF FrameOK, Holding
  <2>3. QED
    BY <1>1, <1>2, <2>1, <2>2, TopInv DEF IInv, HandlersOK
<1>3. CASE Update
  <2>1. /\ Top.pc = "crit" /\ Goto("unlock") /\ UNCHANGED <<offered, mutex>>
        /\ Top.f \in Field /\ Top.v \in Value /\ Top.stamp \in Nat
    BY <1>1, <1>3 DEF Update, At, FrameOK, Frame
  <2>2. Stored(Top.f, Top.v) \in Value
    BY <2>1, ValueAssumption DEF Stored
  <2>3. TypeOK'
    <3>1. smem' \in [Field -> Value] /\ seen' \in [Field -> Nat]
      BY <1>3, <2>1, <2>2 DEF Update, IInv, HandlersOK, TypeOK
    <3>2. changes' \in SUBSET Nat /\ db_new_row_fgs' \in SUBSET Field
      BY <1>3, <2>1 DEF Update, IInv, HandlersOK, TypeOK, Flagged
    <3>3. last_time' \in 0..1
      <4>1. last_time' = Restamped(Top.f) /\ last_time \in 0..1
        BY <1>3 DEF Update, IInv, HandlersOK, TypeOK
      <4>2. QED
        BY <4>1 DEF Restamped
    <3>4. QED
      BY <1>1, <2>1, <3>1, <3>2, <3>3 DEF IInv, HandlersOK, TypeOK
  <2>4. QED
    BY <1>2, <2>1, <2>3 DEF Critical, Label
<1>4. CASE Reset
  <2>1. /\ Top.pc = "reset" /\ Goto("slock") /\ db_new_row_fgs' = {}
        /\ UNCHANGED <<smem, last_time, offered, seen, changes, mutex>>
    BY <1>4 DEF Reset, At
  <2>2. TypeOK'
    BY <1>1, <2>1 DEF IInv, HandlersOK, TypeOK
  <2>3. QED
    BY <1>2, <2>1, <2>2 DEF Critical, Label
<1>5. CASE Offer
  <2>1. /\ Top.pc = "insert" /\ Goto("rearm") /\ offered' = Append(offered, Top.row)
        /\ Top.row \in Row
        /\ UNCHANGED <<smem, last_time, db_new_row_fgs, seen, changes, mutex>>
    BY <1>1, <1>5 DEF Offer, At, FrameOK
  <2>2. offered' \in Seq(Row)
    BY <2>1, AppendProperties DEF IInv, HandlersOK, TypeOK
  <2>3. TypeOK'
    BY <1>1, <2>1, <2>2 DEF IInv, HandlersOK, TypeOK
  <2>4. QED
    BY <1>2, <2>1, <2>3 DEF Critical, Label
<1>6. CASE Snap
  <2> DEFINE row == [data |-> smem, seen |-> seen, at |-> clock]
             g == [Top EXCEPT !.pc = "insert", !.row = row]
  <2>1. Top.pc = "snap" /\ mutex' = 0 /\ UNCHANGED vars /\ row \in Row
    BY <1>6 DEF Snap, At, IInv, HandlersOK, TypeOK, Row
  <2>2. /\ g \in Frame /\ g.pc = "insert" /\ g.sig = Top.sig /\ g.row = row
        /\ stack' = [stack EXCEPT ![Depth] = g]
    <3> HIDE DEF row
    <3>1. g \in Frame /\ g.pc = "insert" /\ g.sig = Top.sig /\ g.row = row
      BY <1>1, <2>1 DEF Frame, Label
    <3>2. stack' = [stack EXCEPT ![Depth] = g]
      BY <1>6 DEF Snap, Top, row
    <3>3. QED
      BY <3>1, <3>2
  <2> HIDE DEF g, row
  <2>3. FrameOK(g) /\ Holding(g)
    BY <2>1, <2>2 DEF FrameOK, Holding, Critical
  <2>4. TypeOK' /\ stamp' \in Nat
    BY <1>1, <2>1 DEF IInv, HandlersOK, TypeOK, vars
  <2>5. QED
    BY <1>1, <2>1, <2>2, <2>3, <2>4, TopInv
<1>7. QED
  BY <1>3, <1>4, <1>5, <1>6

\* A signal interrupts whatever handler runs, and another one begins.
LEMMA InterruptedType ==
  ASSUME IInv, NEW sig \in Sig
  PROVE  /\ Interrupted(sig) \in Seq(Frame) /\ Len(Interrupted(sig)) = Depth
         /\ \A i \in 1..Depth :
              /\ Interrupted(sig)[i].sig = stack[i].sig
              /\ FrameOK(Interrupted(sig)[i])
              /\ Interrupted(sig)[i].pc \in Critical <=> stack[i].pc \in Critical
<1>1. StackOK /\ stack \in Seq(Frame) /\ Depth = Len(stack) /\ DOMAIN stack = 1..Depth
  BY TopType DEF StackOK, Depth
<1>2. CASE ~At("sleep")
  BY <1>1, <1>2 DEF Interrupted, StackOK
<1>3. CASE At("sleep")
  <2> DEFINE label == IF sig = "SIGIO" THEN "dispatch" ELSE "read"
             g == [Top EXCEPT !.pc = label]
  <2>1. stack # <<>> /\ Top.pc = "sleep" /\ Top \in Frame /\ Depth \in 1..Depth
    BY <1>3, TopType DEF At
  <2>2. label \in Label /\ label \notin Critical \cup {"fetch", "lock", "insert"}
    BY DEF Label, Critical
  <2> HIDE DEF label
  <2>3. /\ g \in Frame /\ g.sig = Top.sig /\ g.pc = label
        /\ Interrupted(sig) = [stack EXCEPT ![Depth] = g]
    BY <1>3, <2>1, <2>2 DEF Frame, Interrupted, Top, label
  <2> HIDE DEF g
  <2>4. FrameOK(g) /\ g.pc \notin Critical
    BY <2>2, <2>3 DEF FrameOK, Critical
  <2>5. /\ Interrupted(sig) \in Seq(Frame) /\ Len(Interrupted(sig)) = Depth
        /\ \A i \in 1..Depth : Interrupted(sig)[i] = IF i = Depth THEN g ELSE stack[i]
    BY <1>1, <2>1, <2>3, ExceptSeq
  <2>6. ASSUME NEW i \in 1..Depth
        PROVE  /\ Interrupted(sig)[i].sig = stack[i].sig
               /\ FrameOK(Interrupted(sig)[i])
               /\ Interrupted(sig)[i].pc \in Critical <=> stack[i].pc \in Critical
    <3>1. CASE i = Depth
      BY <2>1, <2>3, <2>4, <2>5, <3>1 DEF Top, Critical
    <3>2. CASE i # Depth
      BY <1>1, <2>5, <3>2 DEF StackOK
    <3>3. QED
      BY <3>1, <3>2
  <2>7. QED
    BY <2>5, <2>6
<1>4. QED
  BY <1>2, <1>3

LEMMA DeliverInv ==
  ASSUME IInv, NEW sig \in Sig, Deliver(sig)
  PROVE  IInv'
<1> DEFINE base == Interrupted(sig)
           g == [sig |-> sig, pc |-> "read", f |-> NoMsg, v |-> NoMsg, stamp |-> 0,
                 row |-> NoMsg]
<1>1. /\ \A i \in DOMAIN stack : stack[i].sig # sig
      /\ pending' = pending \ {sig}
      /\ stack' = Append(base, g)
      /\ UNCHANGED <<vars, chan, armed, mutex, stamp, sent>>
  BY DEF Deliver
<1>2. /\ StackOK /\ Depth \in Nat /\ DOMAIN stack = 1..Depth
      /\ base \in Seq(Frame) /\ Len(base) = Depth
      /\ \A i \in 1..Depth : /\ base[i].sig = stack[i].sig
                             /\ FrameOK(base[i])
                             /\ base[i].pc \in Critical <=> stack[i].pc \in Critical
  BY TopType, InterruptedType
<1>3. /\ g \in Frame /\ g.sig = sig /\ g.pc = "read" /\ FrameOK(g)
  BY DEF Frame, Label, FrameOK
<1> HIDE DEF base, g
<1>4. /\ stack' \in Seq(Frame) /\ Len(stack') = Depth + 1 /\ DOMAIN stack' = 1..Depth + 1
      /\ \A i \in 1..Depth : stack'[i] = base[i]
      /\ stack'[Depth + 1] = g
  BY <1>1, <1>2, <1>3, AppendProperties, LenProperties
<1>5. \A i \in 1..Depth + 1 : i \in 1..Depth \/ i = Depth + 1
  BY <1>2
<1>6. stack' # <<>> /\ Depth + 1 \in 1..Depth + 1
  BY <1>2, <1>4, EmptySeq
<1>7. HandlersOK'
  <2>1. \A i, j \in 1..Depth + 1 : stack'[i].sig = stack'[j].sig => i = j
    BY <1>1, <1>2, <1>3, <1>4, <1>5 DEF StackOK
  <2>2. mutex \in 0..Depth + 1 /\ mutex # Depth + 1
    BY <1>2 DEF StackOK
  <2>3. \A i \in 1..Depth + 1 : stack'[i].pc \in Critical <=> i = mutex
    BY <1>2, <1>3, <1>4, <1>5, <2>2 DEF StackOK, Critical
  <2>4. TypeOK'
    BY <1>1 DEF IInv, HandlersOK, TypeOK, vars
  <2>5. Depth' = Depth + 1
    BY <1>4 DEF Depth
  <2>6. QED
    BY <1>1, <1>4, <2>1, <2>2, <2>3, <2>4, <2>5 DEF IInv, HandlersOK, Critical
<1>8. \A i \in DOMAIN stack' : FrameOK(stack'[i])
  BY <1>2, <1>3, <1>4, <1>5
<1>9. InputAnnounced' /\ WatchdogArmed'
  BY <1>3, <1>4, <1>6 DEF InputAnnounced, WatchdogArmed
<1>10. QED
  BY <1>7, <1>8, <1>9 DEF IInv

\* The first elements of a sequence.
LEMMA PrefixFacts ==
  ASSUME NEW S, NEW s \in Seq(S), NEW n \in Nat, n <= Len(s)
  PROVE  /\ SubSeq(s, 1, n) \in Seq(S) /\ Len(SubSeq(s, 1, n)) = n
         /\ \A i \in 1..n : SubSeq(s, 1, n)[i] = s[i]
<1>1. \A i \in 1..n : s[i] \in S
  BY ElementOfSeq, LenProperties
<1>2. /\ SubSeq(s, 1, n) \in Seq(S)
      /\ Len(SubSeq(s, 1, n)) = IF 1 <= n THEN n - 1 + 1 ELSE 0
      /\ \A i \in 1..n - 1 + 1 : SubSeq(s, 1, n)[i] = s[1 + i - 1]
  BY <1>1, SubSeqProperties
<1>3. n - 1 + 1 = n /\ \A i \in 1..n : 1 + i - 1 = i
  OBVIOUS
<1>4. Len(SubSeq(s, 1, n)) = n
  BY <1>2
<1>5. QED
  BY <1>2, <1>3, <1>4

\* The running handler rearms the timer and returns.
LEMMA RearmInv ==
  ASSUME IInv, Rearm
  PROVE  IInv'
<1> DEFINE n == Depth - 1
<1>1. /\ stack # <<>> /\ Top.pc = "rearm" /\ armed' = TRUE
      /\ stack' = SubSeq(stack, 1, n)
      /\ UNCHANGED <<vars, chan, pending, mutex, stamp, sent>>
  BY DEF Rearm, At
<1>2. /\ StackOK /\ stack \in Seq(Frame) /\ Depth \in Nat \ {0} /\ Depth \in 1..Depth
      /\ Depth = Len(stack) /\ DOMAIN stack = 1..Depth
  BY <1>1, TopType DEF StackOK, Depth
<1>3. n \in Nat /\ \A i \in 1..n : i \in 1..Depth /\ i # Depth
  BY <1>2
<1>4. \A i \in 1..Depth : i \in 1..n \/ i = Depth
  BY <1>2
<1>5. /\ stack' \in Seq(Frame) /\ Len(stack') = n /\ DOMAIN stack' = 1..n
      /\ \A i \in 1..n : stack'[i] = stack[i]
  <2>1. n <= Len(stack)
    BY <1>2
  <2> HIDE DEF n
  <2>2. /\ stack' \in Seq(Frame) /\ Len(stack') = n
        /\ \A i \in 1..n : stack'[i] = stack[i]
    BY <1>1, <1>2, <1>3, <2>1, PrefixFacts
  <2>3. QED
    BY <2>2, LenProperties
<1> HIDE DEF n
<1>6. mutex \in 0..n
  <2>1. mutex # Depth
    BY <1>1, <1>2 DEF StackOK, Critical, Top
  <2>2. QED
    BY <1>2, <2>1 DEF StackOK, n
<1>7. HandlersOK' /\ \A i \in DOMAIN stack' : FrameOK(stack'[i])
  <2>1. \A i, j \in 1..n : stack'[i].sig = stack'[j].sig => i = j
    BY <1>2, <1>3, <1>5 DEF StackOK
  <2>2. \A i \in 1..n : stack'[i].pc \in Critical <=> i = mutex
    BY <1>2, <1>3, <1>5 DEF StackOK
  <2>3. \A i \in 1..n : FrameOK(stack'[i])
    BY <1>2, <1>3, <1>5 DEF StackOK
  <2>4. TypeOK' /\ armed' \in BOOLEAN
    BY <1>1 DEF IInv, HandlersOK, TypeOK, vars
  <2>5. Depth' = n
    BY <1>5 DEF Depth
  <2>6. QED
    BY <1>1, <1>5, <1>6, <2>1, <2>2, <2>3, <2>4, <2>5 DEF IInv, HandlersOK, Critical
<1>8. InputAnnounced'
  <2>1. ASSUME NEW i \in 1..Depth, stack[i].pc \in {"read", "sleep"}
        PROVE  i \in 1..n
    BY <1>1, <1>4, <2>1 DEF Top
  <2>2. QED
    BY <1>1, <1>2, <1>5, <2>1 DEF IInv, InputAnnounced
<1>9. WatchdogArmed'
  BY <1>1 DEF WatchdogArmed
<1>10. QED
  BY <1>7, <1>8, <1>9 DEF IInv

\* A statement of the running handler.
LEMMA StatementInv ==
  ASSUME IInv, Statement
  PROVE  IInv'
BY PassInv, ReadInv, WriteInv, RearmInv DEF Statement

\* A message arrives, the timer expires, the handler goes to sleep, or nothing
\* happens.
LEMMA OutsideInv ==
  ASSUME IInv,
         \/ \E m \in Msg \cup {NoMsg} : Send(m)
         \/ TimerExpires \/ SleepOnMutex \/ UNCHANGED bridge_vars
  PROVE  IInv'
<1>1. UNCHANGED <<vars, stack, mutex, stamp>>
  BY DEF Send, TimerExpires, SleepOnMutex, bridge_vars
<1>2. CASE \E m \in Msg \cup {NoMsg} : Send(m)
  <2>1. PICK m \in Msg \cup {NoMsg} : Send(m)
    BY <1>2
  <2>2. chan' \in Seq(Msg \cup {NoMsg}) /\ sent' \in Nat
    BY <2>1, AppendProperties DEF Send, IInv, HandlersOK
  <2>3. /\ pending' \in SUBSET Sig /\ pending \subseteq pending' /\ UNCHANGED armed
        /\ "SIGIO" \in pending' \/ At("sleep")
    BY <2>1 DEF Send, IInv, HandlersOK, Sig
  <2>4. HandlersOK'
    BY <1>1, <2>2, <2>3 DEF IInv, HandlersOK, TypeOK, Depth, vars
  <2>5. At("sleep") => \E i \in DOMAIN stack : stack[i].pc = "sleep"
    BY TopType DEF At, Top
  <2>6. InputAnnounced' /\ WatchdogArmed'
    BY <1>1, <2>3, <2>5 DEF IInv, InputAnnounced, WatchdogArmed
  <2>7. QED
    BY <1>1, <2>4, <2>6 DEF IInv, FrameOK
<1>3. CASE TimerExpires
  <2>1. armed' = FALSE /\ pending' = pending \cup {"SIGALRM"} /\ UNCHANGED <<chan, sent>>
    BY <1>3 DEF TimerExpires
  <2>2. HandlersOK'
    BY <1>1, <2>1 DEF IInv, HandlersOK, TypeOK, Depth, Sig, vars
  <2>3. InputAnnounced' /\ WatchdogArmed'
    BY <1>1, <2>1 DEF IInv, InputAnnounced, WatchdogArmed
  <2>4. QED
    BY <1>1, <2>2, <2>3 DEF IInv, FrameOK
<1>4. CASE SleepOnMutex \/ UNCHANGED bridge_vars
  <2>1. UNCHANGED <<chan, pending, armed, sent>>
    BY <1>4 DEF SleepOnMutex, bridge_vars
  <2>2. QED
    BY <1>1, <2>1 DEF IInv, HandlersOK, TypeOK, FrameOK, InputAnnounced, WatchdogArmed,
       Depth, vars
<1>5. QED
  BY <1>2, <1>3, <1>4

\* The bridge starts with the invariant.
LEMMA InitInv ==
  ASSUME BridgeInit
  PROVE  IInv
<1>1. TypeOK
  BY FieldAssumption, ValueAssumption, MsgAssumption, EmptySeq DEF BridgeInit, Init, TypeOK
<1>2. /\ stack = <<>> /\ Depth = 0 /\ DOMAIN stack = {}
      /\ stack \in Seq(Frame) /\ chan \in Seq(Msg \cup {NoMsg})
  BY EmptySeq DEF BridgeInit, Depth
<1>3. HandlersOK
  BY <1>1, <1>2 DEF BridgeInit, HandlersOK
<1>4. QED
  BY <1>2, <1>3 DEF IInv, BridgeInit, InputAnnounced, WatchdogArmed

\* Every step of the handlers, of the kernel and of the bridge keeps the
\* invariant.
LEMMA StepInv ==
  ASSUME IInv, [BridgeNext]_bridge_vars
  PROVE  IInv'
BY StatementInv, DeliverInv, OutsideInv DEF BridgeNext, Handler, Awake

\* The inductive invariant holds however the signals interrupt the handlers.
THEOREM Invariance == BridgeSpec => []IInv
<1>1. BridgeInit => IInv
  BY InitInv
<1>2. IInv /\ [BridgeNext]_bridge_vars => IInv'
  BY StepInv
<1>3. QED
  BY <1>1, <1>2, PTL DEF BridgeSpec

\* Only a handler that wants a mutex comes to sleep, and a signal wakes it.
LEMMA SleeperInv ==
  ASSUME IInv, IInv', BridgeTypeOK, [BridgeNext]_bridge_vars
  PROVE  BridgeTypeOK'
<1>1. HandlersOK'
  BY DEF IInv
<1>2. ASSUME UNCHANGED stack PROVE \A label \in Label : At(label)' <=> At(label)
  BY <1>2 DEF At, Top, Depth
<1>3. CASE SleepOnMutex
  <2>1. UNCHANGED stack /\ asleep' = TRUE /\ (At("dispatch") \/ At("lock") \/ At("slock"))
    BY <1>3 DEF SleepOnMutex
  <2>2. QED
    BY <1>1, <1>2, <2>1 DEF BridgeTypeOK, Label
<1>4. CASE \/ \E m \in Msg \cup {NoMsg} : Send(m)
           \/ TimerExpires \/ UNCHANGED bridge_vars
  <2>1. UNCHANGED <<stack, asleep>>
    BY <1>4 DEF Send, TimerExpires, bridge_vars
  <2>2. QED
    BY <1>1, <1>2, <2>1 DEF BridgeTypeOK, Label
<1>5. CASE (Awake /\ Statement) \/ \E sig \in Sig : Deliver(sig)
  <2>1. asleep' = FALSE
    BY <1>5 DEF Awake, Deliver, BridgeTypeOK
  <2>2. QED
    BY <1>1, <2>1 DEF BridgeTypeOK
<1>6. QED
  BY <1>3, <1>4, <1>5 DEF BridgeNext, Handler

\* The shape of the state: no handler interrupts one of its own signal,
\* pump_mutex belongs to no handler outside a critical section, and only one
\* that wants a mutex sleeps.
THEOREM HandlersTyped == BridgeSpec => []BridgeTypeOK
<1>1. BridgeInit => BridgeTypeOK
  BY InitInv DEF IInv, BridgeTypeOK, BridgeInit
<1>2. IInv /\ IInv' /\ BridgeTypeOK /\ [BridgeNext]_bridge_vars => BridgeTypeOK'
  BY SleeperInv
<1>3. QED
  BY <1>1, <1>2, Invariance, PTL DEF BridgeSpec

\* Messages never wait in the socket unannounced: SIGIO is pending, or some
\* handler has its read() before it (main.cpp:26-27 and 128-139).
THEOREM InputIsAnnounced == BridgeSpec => []InputAnnounced
<1>1. IInv => InputAnnounced
  BY DEF IInv
<1>2. QED
  BY <1>1, Invariance, PTL

\* With no handler running the alarm is, or its signal is on its way
\* (alarm(20), main.cpp:39 and 143).
THEOREM WatchdogIsArmed == BridgeSpec => []WatchdogArmed
<1>1. IInv => WatchdogArmed
  BY DEF IInv
<1>2. QED
  BY <1>1, Invariance, PTL

-----------------------------------------------------------------------------
(***************************************************************************)
(* Without the timer the handlers run one after another, and implement     *)
(* RowAssembly.                                                            *)
(***************************************************************************)
\* Where the parent is: at a label of its one handler, or in main.
Here == IF stack = <<>> THEN "none" ELSE Top.pc

\* One handler at a time, and no message is read that was not sent.
OneByOne ==
  /\ "SIGALRM" \notin pending
  /\ \A i \in DOMAIN stack : stack[i].sig = "SIGIO"
  /\ Depth <= 1
  /\ clock + Len(chan) <= sent /\ sent <= MaxMsgs

\* What the handler has in hand is what the buffer, the memory and the flags
\* say: nobody has changed them since it looked.
InHand ==
  /\ stamp = clock
  /\ Here \in {"none", "read", "sleep", "dispatch", "fetch", "lock", "crit", "rearm"} =>
       db_new_row_fgs # Field
  /\ Here = "reset" => db_new_row_fgs = Field
  /\ Here \in {"slock", "snap", "insert"} => db_new_row_fgs = {}
  /\ Here \in {"fetch", "lock", "crit"} => mesh2pc_msg # NoMsg /\ Top.f = mesh2pc_msg[1]
  /\ Here \in {"lock", "crit"} => Top.v = mesh2pc_msg[2] /\ Top.stamp = stamp
  /\ Here = "insert" => Top.row = [data |-> smem, seen |-> seen, at |-> clock]

SerialInv == IInv /\ OneByOne /\ InHand

-----------------------------------------------------------------------------
\* The one handler, when there is one.
LEMMA HereType ==
  ASSUME SerialInv
  PROVE  /\ StackOK /\ stack \in Seq(Frame) /\ Depth \in Nat
         /\ stack = <<>> => Here = "none" /\ Depth = 0
         /\ stack # <<>> => /\ Here = Top.pc /\ Here \in Label /\ Depth = 1
                            /\ Top \in Frame /\ Top.sig = "SIGIO"
         /\ clock \in Nat /\ sent \in Nat /\ Len(chan) \in Nat
<1>1. IInv /\ OneByOne
  BY DEF SerialInv
<1>2. /\ StackOK /\ stack \in Seq(Frame) /\ Depth \in Nat /\ DOMAIN stack = 1..Depth
      /\ stack # <<>> => Depth # 0 /\ Depth \in 1..Depth /\ Top \in Frame
  BY <1>1, TopType DEF StackOK
<1>3. stack = <<>> => Here = "none" /\ Depth = 0
  BY EmptySeq DEF Here, Depth
<1>4. stack # <<>> => Here = Top.pc /\ Here \in Label /\ Depth = 1 /\ Top.sig = "SIGIO"
  BY <1>1, <1>2 DEF Here, Frame, OneByOne, Top
<1>5. clock \in Nat /\ sent \in Nat /\ Len(chan) \in Nat
  BY <1>1, LenProperties DEF IInv, HandlersOK, TypeOK
<1>6. QED
  BY <1>2, <1>3, <1>4, <1>5

\* It goes on to a state g of its own, alone as before.
LEMMA TurnSerial ==
  ASSUME SerialInv, stack # <<>>, NEW g \in Frame, stack' = [stack EXCEPT ![Depth] = g],
         g.sig = Top.sig
  PROVE  /\ Here' = g.pc /\ Top' = g /\ Depth' = Depth
         /\ \A i \in DOMAIN stack' : stack'[i].sig = "SIGIO"
<1>1. IInv /\ Depth = 1 /\ Top.sig = "SIGIO"
  BY HereType DEF SerialInv
<1>2. /\ Len(stack') = Depth /\ DOMAIN stack' = 1..Depth /\ stack'[Depth] = g
      /\ stack' # <<>>
  BY <1>1, TurnTop
<1>3. Depth' = Depth /\ Top' = g
  BY <1>2 DEF Depth, Top
<1>4. Here' = g.pc
  BY <1>2, <1>3 DEF Here
<1>5. \A i \in 1..1 : i = 1
  OBVIOUS
<1>6. QED
  BY <1>1, <1>2, <1>3, <1>4, <1>5

LEMMA GotoSerial ==
  ASSUME SerialInv, stack # <<>>, NEW label \in Label, Goto(label)
  PROVE  /\ Here' = label /\ Depth' = Depth
         /\ Top'.f = Top.f /\ Top'.v = Top.v /\ Top'.stamp = Top.stamp /\ Top'.row = Top.row
         /\ \A i \in DOMAIN stack' : stack'[i].sig = "SIGIO"
<1> DEFINE g == [Top EXCEPT !.pc = label]
<1>1. /\ g \in Frame /\ g.pc = label /\ g.sig = Top.sig
      /\ g.f = Top.f /\ g.v = Top.v /\ g.row = Top.row /\ g.stamp = Top.stamp
      /\ stack' = [stack EXCEPT ![Depth] = g]
  BY GotoFrame DEF SerialInv
<1>2. PICK h \in Frame : h = g
  BY <1>1
<1> HIDE DEF g
<1>3. Here' = h.pc /\ Top' = h /\ Depth' = Depth
      /\ \A i \in DOMAIN stack' : stack'[i].sig = "SIGIO"
  BY <1>1, <1>2, TurnSerial
<1>4. QED
  BY <1>1, <1>2, <1>3

\* Where each action of the handler takes it from and to, and what with.
Moves ==
  /\ Sleep => Here = "read" /\ Here' = "sleep"
  /\ Read => Here \in {"read", "sleep"} /\ Here' = "dispatch"
  /\ Dispatch => /\ Here = "dispatch"
                 /\ mesh2pc_msg = NoMsg => Here' = "check"
                 /\ mesh2pc_msg # NoMsg => Here' = "fetch" /\ Top'.f = mesh2pc_msg[1]
  /\ Fetch => /\ Here = "fetch" /\ Here' = "lock" /\ Top'.f = Top.f /\ Top'.stamp = stamp
              /\ mesh2pc_msg # NoMsg => Top'.v = mesh2pc_msg[2]
  /\ Lock => \/ /\ Here = "lock" /\ Here' = "crit"
                /\ Top'.f = Top.f /\ Top'.v = Top.v /\ Top'.stamp = Top.stamp
             \/ Here = "slock" /\ Here' = "snap"
  /\ Update => Here = "crit" /\ Here' = "unlock"
  /\ Unlock => Here = "unlock" /\ Here' = "check"
  /\ Check => /\ Here = "check"
              /\ Here' = IF db_new_row_fgs = Field THEN "reset" ELSE "rearm"
  /\ Reset => Here = "reset" /\ Here' = "slock"
  /\ Snap => /\ Here = "snap" /\ Here' = "insert"
             /\ Top'.row = [data |-> smem, seen |-> seen, at |-> clock]
  /\ Offer => Here = "insert" /\ Here' = "rearm"
  /\ Rearm => Here = "rearm" /\ Here' = "none"

LEMMA MovesHere ==
  ASSUME SerialInv, Statement
  PROVE  /\ Moves /\ stack # <<>> /\ UNCHANGED <<pending, sent>>
         /\ Depth' <= 1 /\ \A i \in DOMAIN stack' : stack'[i].sig = "SIGIO"
<1>0. stack # <<>> /\ UNCHANGED <<pending, sent>>
  BY DEF Statement, Sleep, Read, Dispatch, Fetch, Lock, Update, Unlock, Check, Reset,
     Snap, Offer, Rearm, At
<1>1. /\ stack # <<>> /\ Here = Top.pc /\ Depth = 1 /\ Top \in Frame /\ Top.sig = "SIGIO"
      /\ UNCHANGED <<pending, sent>>
  BY <1>0, HereType
<1> DEFINE Alone == Depth' <= 1 /\ \A i \in DOMAIN stack' : stack'[i].sig = "SIGIO"
<1>2. ASSUME NEW label \in Label, Goto(label)
      PROVE  /\ Here' = label /\ Alone
             /\ Top'.f = Top.f /\ Top'.v = Top.v /\ Top'.stamp = Top.stamp
  BY <1>1, <1>2, GotoSerial
<1>3. ASSUME NEW g \in Frame, stack' = [stack EXCEPT ![Depth] = g], g.sig = Top.sig
      PROVE  Here' = g.pc /\ Top' = g /\ Alone
  <2>1. /\ Here' = g.pc /\ Top' = g /\ Depth' = Depth
        /\ \A i \in DOMAIN stack' : stack'[i].sig = "SIGIO"
    BY <1>0, <1>3, TurnSerial
  <2>2. QED
    BY <1>1, <2>1
<1> HIDE DEF Alone
<1>4. /\ Sleep => Here = "read" /\ Here' = "sleep" /\ Alone
      /\ Read => Here \in {"read", "sleep"} /\ Here' = "dispatch" /\ Alone
      /\ Update => Here = "crit" /\ Here' = "unlock" /\ Alone
      /\ Unlock => Here = "unlock" /\ Here' = "check" /\ Alone
      /\ Reset => Here = "reset" /\ Here' = "slock" /\ Alone
      /\ Offer => Here = "insert" /\ Here' = "rearm" /\ Alone
  BY <1>1, <1>2 DEF Sleep, Read, Update, Unlock, Reset, Offer, At, Label
<1>5. Check => /\ Here = "check" /\ Alone
               /\ Here' = IF db_new_row_fgs = Field THEN "reset" ELSE "rearm"
  BY <1>1, <1>2 DEF Check, At, Label
<1>6. Lock => \/ /\ Here = "lock" /\ Here' = "crit" /\ Alone
                 /\ Top'.f = Top.f /\ Top'.v = Top.v /\ Top'.stamp = Top.stamp
              \/ Here = "slock" /\ Here' = "snap" /\ Alone
  <2>1. Lock => \/ Here = "lock" /\ Goto("crit")
                \/ Here = "slock" /\ Goto("snap")
    BY <1>1 DEF Lock, At
  <2>2. QED
    BY <1>2, <2>1 DEF Label
<1>7. Dispatch => /\ Here = "dispatch" /\ Alone
                  /\ mesh2pc_msg = NoMsg => Here' = "check"
                  /\ mesh2pc_msg # NoMsg => Here' = "fetch" /\ Top'.f = mesh2pc_msg[1]
  <2> SUFFICES ASSUME Dispatch
               PROVE  /\ Here = "dispatch" /\ Alone
                      /\ mesh2pc_msg = NoMsg => Here' = "check"
                      /\ mesh2pc_msg # NoMsg => Here' = "fetch" /\ Top'.f = mesh2pc_msg[1]
    OBVIOUS
  <2>1. Here = "dispatch"
    BY <1>1 DEF Dispatch, At
  <2>2. CASE mesh2pc_msg = NoMsg
    <3>1. Goto("check")
      BY <2>2 DEF Dispatch, Goto
    <3>2. QED
      BY <1>2, <2>1, <2>2, <3>1 DEF Label
  <2>3. CASE mesh2pc_msg # NoMsg
    <3> DEFINE g == [Top EXCEPT !.pc = "fetch", !.f = mesh2pc_msg[1]]
    <3>1. mesh2pc_msg[1] \in Field
      BY <2>3 DEF SerialInv, IInv, HandlersOK, TypeOK, Msg
    <3>2. /\ g \in Frame /\ g.pc = "fetch" /\ g.sig = Top.sig /\ g.f = mesh2pc_msg[1]
          /\ stack' = [stack EXCEPT ![Depth] = g]
      BY <1>1, <2>3, <3>1 DEF Frame, Label, Dispatch, Top
    <3>3. PICK h \in Frame : h = g
      BY <3>2
    <3> HIDE DEF g
    <3>4. Here' = h.pc /\ Top' = h /\ Alone
      BY <1>3, <3>2, <3>3
    <3>5. QED
      BY <2>1, <2>3, <3>2, <3>3, <3>4
  <2>4. QED
    BY <2>2, <2>3
<1>8. Fetch => /\ Here = "fetch" /\ Here' = "lock" /\ Alone
               /\ Top'.f = Top.f /\ Top'.stamp = stamp
               /\ mesh2pc_msg # NoMsg => Top'.v = mesh2pc_msg[2]
  <2> SUFFICES ASSUME Fetch
               PROVE  /\ Here = "fetch" /\ Here' = "lock" /\ Alone
                      /\ Top'.f = Top.f /\ Top'.stamp = stamp
                      /\ mesh2pc_msg # NoMsg => Top'.v = mesh2pc_msg[2]
    OBVIOUS
  <2>1. Here = "fetch"
    BY <1>1 DEF Fetch, At
  <2>2. PICK v \in IF mesh2pc_msg = NoMsg THEN Value ELSE {mesh2pc_msg[2]} :
          stack' = [stack EXCEPT ![Depth] = [@ EXCEPT !.pc = "lock", !.v = v, !.stamp = stamp]]
    BY DEF Fetch
  <2> DEFINE g == [Top EXCEPT !.pc = "lock", !.v = v, !.stamp = stamp]
  <2>3. v \in Value /\ stamp \in Nat
    BY <2>2 DEF SerialInv, IInv, HandlersOK, TypeOK, Msg
  <2>4. /\ g \in Frame /\ g.pc = "lock" /\ g.sig = Top.sig /\ g.f = Top.f /\ g.v = v
        /\ g.stamp = stamp /\ stack' = [stack EXCEPT ![Depth] = g]
    BY <1>1, <2>2, <2>3 DEF Frame, Label, Top
  <2>5. PICK h \in Frame : h = g
    BY <2>4
  <2> HIDE DEF g
  <2>6. Here' = h.pc /\ Top' = h /\ Alone
    BY <1>3, <2>4, <2>5
  <2>7. QED
    BY <2>1, <2>2, <2>4, <2>5, <2>6
<1>9. Snap => /\ Here = "snap" /\ Here' = "insert" /\ Alone
              /\ Top'.row = [data |-> smem, seen |-> seen, at |-> clock]
  <2> SUFFICES ASSUME Snap
               PROVE  /\ Here = "snap" /\ Here' = "insert" /\ Alone
                      /\ Top'.row = [data |-> smem, seen |-> seen, at |-> clock]
    OBVIOUS
  <2>1. PICK row \in Row : row = [data |-> smem, seen |-> seen, at |-> clock]
    BY DEF SerialInv, IInv, HandlersOK, TypeOK, Row
  <2> DEFINE g == [Top EXCEPT !.pc = "insert", !.row = row]
  <2>2. /\ g \in Frame /\ g.pc = "insert" /\ g.sig = Top.sig /\ g.row = row
    BY <1>1 DEF Frame, Label
  <2>3. stack' = [stack EXCEPT ![Depth] = g]
    BY <2>1 DEF Snap, Top
  <2>4. PICK h \in Frame : h = g
    BY <2>2
  <2>5. Here = "snap"
    BY <1>1 DEF Snap, At
  <2> HIDE DEF g
  <2>6. Here' = h.pc /\ Top' = h /\ Alone
    BY <1>3, <2>2, <2>3, <2>4
  <2>7. QED
    BY <2>1, <2>2, <2>4, <2>5, <2>6
<1>10. Rearm => Here = "rearm" /\ Here' = "none" /\ Alone
  <2>1. Rearm => Here = "rearm" /\ stack' = <<>>
    <3>1. Rearm => stack' = SubSeq(stack, 1, 0)
      BY <1>1 DEF Rearm
    <3>2. SubSeq(stack, 1, 0) = <<>>
      BY <1>1, HereType, SubSeqProperties, EmptySeq
    <3>3. QED
      BY <1>1, <3>1, <3>2 DEF Rearm, At
  <2>2. stack' = <<>> => Here' = "none" /\ Depth' = 0 /\ DOMAIN stack' = {}
    BY EmptySeq DEF Here, Depth
  <2>3. QED
    BY <2>1, <2>2 DEF Alone
<1>11. Alone
  BY <1>4, <1>5, <1>6, <1>7, <1>8, <1>9, <1>10 DEF Statement
<1>12. Moves
  BY <1>4, <1>5, <1>6, <1>7, <1>8, <1>9, <1>10 DEF Moves
<1>13. QED
  BY <1>1, <1>11, <1>12 DEF Alone

\* A step of the handler keeps what it has in hand.
LEMMA HandlerSerial ==
  ASSUME SerialInv, Statement
  PROVE  SerialInv'
<1>1. /\ Moves /\ stack # <<>> /\ UNCHANGED <<pending, sent>>
      /\ Depth' <= 1 /\ \A i \in DOMAIN stack' : stack'[i].sig = "SIGIO"
  BY MovesHere
<1>2. clock \in Nat /\ sent \in Nat /\ Len(chan) \in Nat
  BY HereType
<1>3. IInv /\ OneByOne /\ InHand
  BY DEF SerialInv
<1>4. clock' + Len(chan') <= sent /\ stamp' = clock'
  <2>1. CASE Read
    <3>1. PICK n \in Nat : n = Len(chan)
      BY <1>2
    <3>2. n # 0 /\ Len(chan') = 0
      BY <1>3, <2>1, <3>1, EmptySeq DEF Read, LeftByRead, IInv, HandlersOK
    <3>3. clock' \in {clock, clock + 1} /\ stamp' = clock'
      BY <1>3, <2>1 DEF Read, InHand
    <3>4. clock + n <= sent
      BY <1>3, <3>1 DEF OneByOne
    <3>5. \A c, s \in Nat : c + n <= s => c + 0 <= s /\ c + 1 + 0 <= s
      BY <3>2
    <3>6. clock' + 0 <= sent
      BY <1>2, <3>3, <3>4, <3>5
    <3>7. QED
      BY <3>2, <3>3, <3>6
  <2>2. CASE ~Read
    BY <1>3, <2>2 DEF Statement, Sleep, Dispatch, Fetch, Lock, Update, Unlock, Check, Reset,
       Snap, Offer, Rearm, vars, OneByOne, InHand
  <2>3. QED
    BY <2>1, <2>2
<1>5. OneByOne'
  BY <1>1, <1>3, <1>4 DEF OneByOne
<1>6. InHand'
  <2>1. CASE Sleep \/ Unlock \/ Rearm
    BY <1>1, <1>3, <1>4, <2>1 DEF Moves, InHand, Sleep, Unlock, Rearm, vars
  <2>2. CASE Read
    BY <1>1, <1>3, <1>4, <2>2 DEF Moves, InHand, Read
  <2>3. CASE Dispatch
    BY <1>1, <1>3, <1>4, <2>3 DEF Moves, InHand, Dispatch, vars
  <2>4. CASE Fetch \/ Lock
    BY <1>1, <1>3, <1>4, <2>4 DEF Moves, InHand, Fetch, Lock, vars
  <2>5. CASE Update
    BY <1>1, <1>3, <1>4, <2>5 DEF Moves, InHand, Update
  <2>6. CASE Check
    BY <1>1, <1>3, <1>4, <2>6 DEF Moves, InHand, Check, vars
  <2>7. CASE Reset
    BY <1>1, <1>3, <1>4, <2>7 DEF Moves, InHand, Reset
  <2>8. CASE Snap
    BY <1>1, <1>3, <1>4, <2>8 DEF Moves, InHand, Snap, vars
  <2>9. CASE Offer
    BY <1>1, <1>3, <1>4, <2>9, FieldAssumption DEF Moves, InHand, Offer
  <2>10. QED
    BY <2>1, <2>2, <2>3, <2>4, <2>5, <2>6, <2>7, <2>8, <2>9 DEF Statement
<1>7. IInv'
  BY <1>3, StatementInv
<1>8. QED
  BY <1>5, <1>6, <1>7 DEF SerialInv

\* SIGIO starts the next handler when the one before it has returned.
LEMMA DeliverSerial ==
  ASSUME SerialInv, NEW sig \in Sig, Deliver(sig)
  PROVE  SerialInv' /\ Here = "none" /\ Here' = "read"
<1>1. IInv /\ OneByOne /\ InHand /\ StackOK /\ Depth \in Nat
  BY HereType DEF SerialInv
<1>2. sig = "SIGIO"
  BY <1>1 DEF Deliver, OneByOne, Sig
<1>3. stack = <<>> /\ Here = "none" /\ Depth = 0
  <2>1. Depth \in DOMAIN stack => stack[Depth].sig = "SIGIO"
    BY <1>1 DEF OneByOne
  <2>2. stack # <<>> => Depth \in DOMAIN stack
    BY <1>1, TopType
  <2>3. QED
    BY <1>2, <2>1, <2>2, HereType DEF Deliver
<1> DEFINE g == [sig |-> sig, pc |-> "read", f |-> NoMsg, v |-> NoMsg, stamp |-> 0,
                 row |-> NoMsg]
<1>4. PICK h \in Frame : h = g
  BY DEF Frame, Label
<1>5. h.sig = "SIGIO" /\ h.pc = "read" /\ stack' = Append(<<>>, h)
  BY <1>2, <1>3, <1>4 DEF Deliver, Interrupted, At
<1> HIDE DEF g
<1>6. <<>> \in Seq(Frame) /\ Len(<<>>) = 0
  BY EmptySeq
<1>7. stack' \in Seq(Frame) /\ Len(stack') = 1 /\ stack'[1] = h
  BY <1>5, <1>6, AppendProperties
<1>8. DOMAIN stack' = 1..1 /\ stack' # <<>> /\ Depth' = 1 /\ \A i \in 1..1 : i = 1
  BY <1>7, LenProperties, EmptySeq DEF Depth
<1>9. Top' = h /\ Here' = "read"
  BY <1>5, <1>7, <1>8 DEF Top, Here
<1>10. /\ UNCHANGED <<vars, chan, stamp, sent>> /\ pending' = pending \ {sig}
  BY DEF Deliver
<1>11. OneByOne'
  BY <1>1, <1>5, <1>7, <1>8, <1>10 DEF OneByOne, vars
<1>12. InHand'
  BY <1>1, <1>3, <1>9, <1>10 DEF InHand, vars
<1>13. IInv'
  BY <1>1, StepInv DEF BridgeNext
<1>14. QED
  BY <1>3, <1>9, <1>11, <1>12, <1>13 DEF SerialInv

\* What comes from outside leaves the handler alone.
LEMMA OutsideSerial ==
  ASSUME ~TimerFires, SerialInv,
         \/ \E m \in Msg \cup {NoMsg} : Send(m)
         \/ TimerExpires \/ SleepOnMutex \/ UNCHANGED bridge_vars
  PROVE  SerialInv' /\ UNCHANGED <<vars, stack, stamp>>
<1>1. UNCHANGED <<vars, stack, stamp>>
  BY DEF Send, TimerExpires, SleepOnMutex, bridge_vars
<1>2. IInv /\ OneByOne /\ InHand /\ clock \in Nat /\ sent \in Nat /\ Len(chan) \in Nat
  BY HereType DEF SerialInv
<1>3. CASE \E m \in Msg \cup {NoMsg} : Send(m)
  <2>1. PICK m \in Msg \cup {NoMsg} : Send(m)
    BY <1>3
  <2>2. Len(chan') = Len(chan) + 1
    BY <1>2, <2>1, AppendProperties DEF Send, IInv, HandlersOK
  <2>3. sent' = sent + 1 /\ sent < MaxMsgs /\ "SIGALRM" \notin pending'
    BY <1>2, <2>1 DEF Send, OneByOne
  <2>4. OneByOne'
    BY <1>1, <1>2, <2>2, <2>3, MsgAssumption DEF OneByOne, Depth, vars
  <2>5. QED
    BY <1>1, <1>2, <2>4, <1>3, OutsideInv DEF SerialInv, InHand, Here, Top, Depth, vars
<1>4. CASE TimerExpires
  BY <1>4 DEF TimerExpires
<1>5. CASE SleepOnMutex \/ UNCHANGED bridge_vars
  <2>1. UNCHANGED <<chan, pending, sent>>
    BY <1>5 DEF SleepOnMutex, bridge_vars
  <2>2. QED
    BY <1>1, <1>2, <1>5, <2>1, OutsideInv DEF SerialInv, OneByOne, InHand, Here, Top, Depth,
       vars
<1>6. QED
  BY <1>1, <1>3, <1>4, <1>5

LEMMA StepSerial ==
  ASSUME ~TimerFires, SerialInv, [BridgeNext]_bridge_vars
  PROVE  SerialInv'
BY HandlerSerial, DeliverSerial, OutsideSerial DEF BridgeNext, Handler, Awake

-----------------------------------------------------------------------------
\* Labels of a handler that has read and not applied; and of one that has
\* cleared the flags and not offered the row.
Carrying == {"dispatch", "fetch", "lock", "crit"}
Offering == {"slock", "snap", "insert"}

\* What RowAssembly makes of the state depends on the label only.
LEMMA AbsHere ==
  /\ Unapplied <=> Here \in Carrying /\ mesh2pc_msg # NoMsg
  /\ RowDue <=> FlagsDue = Field \/ Here \in Offering
  /\ Unapplied' <=> Here' \in Carrying /\ mesh2pc_msg' # NoMsg
  /\ RowDue' <=> FlagsDue' = Field \/ Here' \in Offering
<1>1. \A label \in Label : At(label) <=> Here = label
  BY DEF At, Here, Label
<1>2. \A label \in Label : At(label)' <=> Here' = label
  BY DEF At, Here, Label
<1>3. Carrying \cup Offering \subseteq Label
  BY DEF Carrying, Offering, Label
<1>4. Unapplied <=> Here \in Carrying /\ mesh2pc_msg # NoMsg
  BY <1>1, <1>3 DEF Unapplied, Carrying
<1>5. RowDue <=> FlagsDue = Field \/ Here \in Offering
  BY <1>1, <1>3 DEF RowDue, Offering
<1>6. Unapplied' <=> Here' \in Carrying /\ mesh2pc_msg' # NoMsg
  BY <1>2, <1>3 DEF Unapplied, Carrying
<1>7. RowDue' <=> FlagsDue' = Field \/ Here' \in Offering
  BY <1>2, <1>3 DEF RowDue, Offering
<1>8. QED
  BY <1>4, <1>5, <1>6, <1>7

\* A step that changes no data and stays among the same labels is a stutter.
LEMMA KeepRows ==
  ASSUME UNCHANGED <<vars, stamp>>,
         Here' \in Carrying /\ mesh2pc_msg # NoMsg <=> Here \in Carrying /\ mesh2pc_msg # NoMsg,
         Here' \in Offering <=> Here \in Offering
  PROVE  UNCHANGED Rows!vars
<1>1. Unapplied' <=> Unapplied
  BY AbsHere DEF vars
<1>2. UNCHANGED <<AbsField, AbsValue>>
  BY DEF AbsField, AbsValue, Stored, vars
<1>3. UNCHANGED FlagsDue
  BY <1>1, <1>2 DEF FlagsDue, Flagged, Changed, vars
<1>4. RowDue' <=> RowDue
  BY <1>3, AbsHere
<1>5. UNCHANGED <<AbsSmem, AbsTime, AbsSeen>>
  BY <1>1, <1>2 DEF AbsSmem, AbsTime, AbsSeen, Restamped, vars
<1>6. UNCHANGED AbsChanges
  BY <1>1, <1>2 DEF AbsChanges, Changed, vars
<1>7. UNCHANGED <<AbsFlags, AbsOffered>>
  BY <1>3, <1>4, <1>5 DEF AbsFlags, AbsOffered, vars
<1>8. QED
  BY <1>5, <1>6, <1>7 DEF Rows!vars, vars

\* The handler writes the message into the memory: to RowAssembly it had.
LEMMA UpdateRows ==
  ASSUME SerialInv, Update
  PROVE  UNCHANGED Rows!vars
<1>1. Here = "crit" /\ Here' = "unlock"
  BY MovesHere DEF Statement, Moves
<1>2. /\ mesh2pc_msg # NoMsg /\ Top.f = AbsField /\ Top.v = mesh2pc_msg[2]
      /\ Top.stamp = stamp
  BY <1>1 DEF SerialInv, InHand, AbsField
<1>3. Unapplied /\ ~Unapplied'
  BY <1>1, <1>2, AbsHere DEF Carrying
<1>4. Stored(Top.f, Top.v) = AbsValue
  BY <1>2 DEF AbsValue, AbsField
<1>5. /\ smem' = AbsSmem /\ last_time' = AbsTime /\ db_new_row_fgs' = FlagsDue
      /\ seen' = AbsSeen /\ changes' = AbsChanges
      /\ UNCHANGED <<mesh2pc_msg, offered, clock>>
  BY <1>2, <1>3, <1>4 DEF Update, AbsSmem, AbsTime, FlagsDue, AbsSeen, AbsChanges
<1>6. /\ AbsSmem' = AbsSmem /\ AbsTime' = AbsTime /\ FlagsDue' = FlagsDue
      /\ AbsSeen' = AbsSeen /\ AbsChanges' = AbsChanges
  BY <1>3, <1>5 DEF AbsSmem, AbsTime, FlagsDue, AbsSeen, AbsChanges
<1>7. RowDue' <=> RowDue
  BY <1>1, <1>6, AbsHere DEF Offering
<1>8. UNCHANGED <<AbsFlags, AbsOffered>>
  BY <1>5, <1>6, <1>7 DEF AbsFlags, AbsOffered
<1>9. QED
  BY <1>5, <1>6, <1>8 DEF Rows!vars

\* DB_AddRow clears the flags, and hands the row over: it was done before.
LEMMA AddRowRows ==
  ASSUME SerialInv, Reset \/ Offer
  PROVE  UNCHANGED Rows!vars
<1>1. \/ Reset /\ Here = "reset" /\ Here' = "slock"
      \/ Offer /\ Here = "insert" /\ Here' = "rearm"
  BY MovesHere DEF Statement, Moves
<1>2. ~Unapplied /\ ~Unapplied'
  BY <1>1, AbsHere DEF Carrying
<1>3. /\ UNCHANGED <<smem, last_time, mesh2pc_msg, clock, seen, changes>>
      /\ FlagsDue = db_new_row_fgs /\ FlagsDue' = db_new_row_fgs'
      /\ AbsSmem = smem /\ AbsSeen = seen
  BY <1>2 DEF Reset, Offer, FlagsDue, AbsSmem, AbsSeen
<1>4. UNCHANGED <<AbsSmem, AbsTime, AbsSeen, AbsChanges>>
  BY <1>2, <1>3 DEF AbsSmem, AbsTime, AbsSeen, AbsChanges
<1>5. CASE Reset /\ Here = "reset" /\ Here' = "slock"
  <2>1. RowDue /\ RowDue' /\ UNCHANGED offered
    BY <1>3, <1>5, AbsHere DEF SerialInv, InHand, Reset, Offering
  <2>2. QED
    BY <1>3, <1>4, <2>1 DEF AbsFlags, AbsOffered, Rows!vars
<1>6. CASE Offer /\ Here = "insert" /\ Here' = "rearm"
  <2>1. db_new_row_fgs = {} /\ db_new_row_fgs' = {} /\ Field # {}
    BY <1>6, FieldAssumption DEF SerialInv, InHand, Offer
  <2>2. RowDue /\ ~RowDue'
    BY <1>3, <1>6, <2>1, AbsHere DEF Offering
  <2>3. offered' = Append(offered, [data |-> smem, seen |-> seen, at |-> clock])
    BY <1>6 DEF SerialInv, InHand, Offer
  <2>4. UNCHANGED <<AbsFlags, AbsOffered>>
    BY <1>3, <2>1, <2>2, <2>3 DEF AbsFlags, AbsOffered
  <2>5. QED
    BY <1>3, <1>4, <2>4 DEF Rows!vars
<1>7. QED
  BY <1>1, <1>5, <1>6

\* The read is where RowAssembly takes its step: it executes the message.
LEMMA ReadRows ==
  ASSUME SerialInv, Read
  PROVE  Rows!Next
<1> DEFINE m == Head(chan)
<1>1. Here \in {"read", "sleep"} /\ Here' = "dispatch"
  BY MovesHere DEF Statement, Moves
<1>2. ~Unapplied /\ db_new_row_fgs # Field
  BY <1>1, AbsHere DEF Carrying, SerialInv, InHand
<1>3. FlagsDue = db_new_row_fgs /\ ~RowDue
  BY <1>1, <1>2, AbsHere DEF FlagsDue, Offering
<1>4. /\ AbsSmem = smem /\ AbsTime = last_time /\ AbsSeen = seen /\ AbsChanges = changes
      /\ AbsFlags = db_new_row_fgs /\ AbsOffered = offered
  BY <1>2, <1>3 DEF AbsSmem, AbsTime, AbsSeen, AbsChanges, AbsFlags, AbsOffered
<1>5. /\ chan # <<>> /\ mesh2pc_msg' = m
      /\ UNCHANGED <<smem, last_time, db_new_row_fgs, offered, seen, changes, sent>>
  BY DEF Read
<1>6. m \in Msg \cup {NoMsg} /\ clock < MaxMsgs
  <2>1. PICK n \in Nat : n = Len(chan)
    BY HereType
  <2>2. n # 0 /\ m \in Msg \cup {NoMsg}
    BY <1>5, <2>1, EmptySeq, HeadTailProperties DEF SerialInv, IInv, HandlersOK
  <2>3. clock + n <= sent /\ sent <= MaxMsgs /\ clock \in Nat /\ sent \in Nat
    BY <2>1, HereType DEF SerialInv, OneByOne
  <2>4. QED
    BY <2>2, <2>3, MsgAssumption
<1> HIDE DEF m
<1>7. CASE m = NoMsg
  <2>1. ~Unapplied' /\ UNCHANGED clock
    BY <1>5, <1>7, AbsHere DEF Read, m
  <2>2. FlagsDue' = db_new_row_fgs /\ ~RowDue'
    BY <1>1, <1>2, <1>5, <2>1, AbsHere DEF FlagsDue, Offering
  <2>3. /\ AbsSmem' = AbsSmem /\ AbsTime' = AbsTime /\ AbsSeen' = AbsSeen
        /\ AbsChanges' = AbsChanges /\ AbsFlags' = AbsFlags /\ AbsOffered' = AbsOffered
    BY <1>4, <1>5, <2>1, <2>2 DEF AbsSmem, AbsTime, AbsSeen, AbsChanges, AbsFlags, AbsOffered
  <2>4. Rows!ReceiveOther
    BY <1>2, <1>4, <1>5, <1>7, <2>1, <2>3
    DEF Rows!ReceiveOther, Rows!ExecNothing, Rows!AddRow
  <2>5. QED
    BY <2>4 DEF Rows!Next
<1>8. CASE m \in Msg
  <2> DEFINE f == m[1]
             v == Stored(m[1], m[2])
             row == [data |-> AbsSmem', seen |-> AbsSeen', at |-> clock']
  <2>1. /\ m # NoMsg /\ clock' = clock + 1 /\ stamp' = clock + 1
    BY <1>8, MsgAssumption DEF Read, Msg, m
  <2>2. Unapplied' /\ AbsField' = f /\ AbsValue' = v
    BY <1>1, <1>5, <2>1, AbsHere DEF Carrying, AbsField, AbsValue, Stored
  <2>3. f \in Field /\ (f \in Trigger => v = m[2])
    BY <1>8, FieldAssumption DEF Stored, Msg
  <2> HIDE DEF f, v
  <2>4. /\ Changed(AbsField, AbsValue)' <=> Changed(f, v)
        /\ Changed(f, v) <=> Rows!Changed(m[1], m[2])
        /\ Changed(f, v) <=> Rows!Changed(f, v)
    BY <1>4, <1>5, <2>2, <2>3 DEF Changed, Rows!Changed, f
  <2>5. FlagsDue' = Rows!Flagged(f, v)
    BY <1>4, <1>5, <2>2, <2>4 DEF FlagsDue, Flagged, Rows!Flagged
  <2>6. /\ AbsSmem' = [AbsSmem EXCEPT ![f] = v]
        /\ AbsTime' = Rows!Restamped(f)
        /\ AbsSeen' = [AbsSeen EXCEPT ![f] = clock']
        /\ AbsChanges' = IF Rows!Changed(m[1], m[2]) THEN AbsChanges \cup {clock'}
                         ELSE AbsChanges
    BY <1>4, <1>5, <2>1, <2>2, <2>4
    DEF AbsSmem, AbsTime, AbsSeen, AbsChanges, Restamped, Rows!Restamped
  <2>7. RowDue' <=> FlagsDue' = Field
    BY <1>1, AbsHere DEF Offering
  <2>8. Rows!AddRow(Rows!Flagged(f, v), row)
    BY <1>4, <1>5, <2>5, <2>7 DEF Rows!AddRow, AbsFlags, AbsOffered
  <2>9. Rows!Exec(m)
    BY <2>6, <2>8 DEF Rows!Exec, Rows!Stored, Stored, f, v
  <2>10. Rows!Receive(m)
    BY <1>5, <1>6, <2>1, <2>6, <2>9 DEF Rows!Receive, f
  <2>11. QED
    BY <1>8, <2>10 DEF Rows!Next, Rows!Msg, Msg
<1>9. QED
  BY <1>6, <1>7, <1>8

\* Every other step is a stutter of RowAssembly.
LEMMA StepRows ==
  ASSUME ~TimerFires, SerialInv, [BridgeNext]_bridge_vars
  PROVE  [Rows!Next]_Rows!vars
<1>1. CASE Sleep \/ Dispatch \/ Fetch \/ Lock \/ Unlock \/ Check \/ Snap \/ Rearm
  <2>1. UNCHANGED <<vars, stamp>>
    BY <1>1 DEF Sleep, Dispatch, Fetch, Lock, Unlock, Check, Snap, Rearm
  <2>2. Moves
    BY <1>1, MovesHere DEF Statement
  <2>3. Here' \in Offering <=> Here \in Offering
    BY <1>1, <2>2 DEF Moves, Offering
  <2>4. Here' \in Carrying /\ mesh2pc_msg # NoMsg <=> Here \in Carrying /\ mesh2pc_msg # NoMsg
    BY <1>1, <2>2 DEF Moves, Carrying
  <2>5. QED
    BY <2>1, <2>3, <2>4, KeepRows
<1>2. ASSUME NEW sig \in Sig, Deliver(sig)
      PROVE  UNCHANGED Rows!vars
  BY <1>2, DeliverSerial, KeepRows DEF Deliver, Carrying, Offering
<1>3. CASE \/ \E m \in Msg \cup {NoMsg} : Send(m)
           \/ TimerExpires \/ SleepOnMutex \/ UNCHANGED bridge_vars
  <2>1. UNCHANGED <<vars, stack, stamp>>
    BY <1>3, OutsideSerial
  <2>2. Here' = Here
    BY <2>1 DEF Here, Top, Depth
  <2>3. QED
    BY <2>1, <2>2, KeepRows
<1>4. CASE Read \/ Update \/ Reset \/ Offer
  BY <1>4, ReadRows, UpdateRows, AddRowRows
<1>5. QED
  BY <1>1, <1>2, <1>3, <1>4 DEF BridgeNext, Handler, Statement, Awake

\* The bridge starts with empty hands.
LEMMA InitSerial ==
  ASSUME BridgeInit
  PROVE  SerialInv /\ Rows!Init
<1>1. IInv /\ stack = <<>> /\ chan = <<>> /\ Here = "none"
  BY InitInv DEF BridgeInit, Here
<1>2. Depth = 0 /\ DOMAIN stack = {} /\ Len(chan) = 0
  BY <1>1, EmptySeq DEF Depth
<1>3. OneByOne
  BY <1>2, MsgAssumption DEF BridgeInit, Init, OneByOne
<1>4. InHand
  BY <1>1, FieldAssumption DEF BridgeInit, Init, InHand
<1>5. ~Unapplied /\ ~RowDue
  BY <1>1, FieldAssumption, AbsHere
  DEF BridgeInit, Init, Carrying, Offering, FlagsDue, Unapplied
<1>6. FlagsDue = db_new_row_fgs
  BY <1>5 DEF FlagsDue
<1>7. Rows!Init
  BY <1>5, <1>6 DEF BridgeInit, Init, Rows!Init, AbsSmem, AbsTime, AbsSeen, AbsChanges,
     AbsFlags, AbsOffered
<1>8. QED
  BY <1>1, <1>3, <1>4, <1>7 DEF SerialInv

\* Without the timer the handlers, preempted between any two statements by
\* the bridge's next message and its signal, do what RowAssembly says of one
\* message after another (bridge_handler, BLE_message_exec, DB_AddRow;
\* main.cpp:26-40).
THEOREM HandlersImplementRows ==
  ASSUME ~TimerFires
  PROVE  BridgeSpec => ImplementsRows
<1>1. BridgeInit => SerialInv /\ Rows!Init
  BY InitSerial
<1>2. SerialInv /\ [BridgeNext]_bridge_vars => SerialInv' /\ [Rows!Next]_Rows!vars
  BY StepSerial, StepRows
<1>3. QED
  BY <1>1, <1>2, PTL DEF BridgeSpec, ImplementsRows, Rows!Spec

-----------------------------------------------------------------------------
(***************************************************************************)
(* The same of the rows themselves, and of the mutex.  FreshRows speaks of *)
(* rows already handed over; it is inductive together with what the row    *)
(* still being collected, or being handed over, will need.                 *)
(***************************************************************************)
LastAt == IF offered = <<>> THEN 0 ELSE offered[Len(offered)].at

\* Fields of the row in hand: the flags, or all once they are cleared.
Collected == IF Here \in Offering THEN Field ELSE db_new_row_fgs

\* The row in hand was begun by a change after the row before it, and holds
\* nothing older.
RowInHandFresh ==
  Collected # {} => \E b \in changes : LastAt < b /\ \A g \in Collected : seen[g] >= b

\* Time: no row and no change is of the future, and a message that is not
\* applied is younger than the last row.
InTime ==
  /\ LastAt \in 0..clock /\ changes \subseteq 0..clock
  /\ Here \in Carrying /\ mesh2pc_msg # NoMsg => LastAt < clock

FreshInv == SerialInv /\ RowInHandFresh /\ InTime /\ FreshRows

\* A step that hands nothing over keeps the rows as fresh as they were.
LEMMA KeepFresh ==
  ASSUME SerialInv, FreshRows, UNCHANGED offered, changes \subseteq changes'
  PROVE  FreshRows' /\ LastAt' = LastAt
<1>1. FreshRows'
  <2>1. ASSUME NEW k \in DOMAIN offered
        PROVE  PreviousAt(k)' = PreviousAt(k) /\ offered'[k] = offered[k]
    BY DEF PreviousAt
  <2>2. QED
    BY <2>1 DEF FreshRows
<1>2. QED
  BY <1>1 DEF LastAt

\* A step that leaves the flags, the memory and the rows alone.
LEMMA IdleFresh ==
  ASSUME FreshInv, SerialInv',
         UNCHANGED <<smem, db_new_row_fgs, offered, seen, changes, clock, mesh2pc_msg>>,
         Here' \in Offering <=> Here \in Offering,
         Here' \in Carrying /\ mesh2pc_msg # NoMsg => Here \in Carrying
  PROVE  FreshInv'
<1>1. FreshRows' /\ LastAt' = LastAt
  BY KeepFresh DEF FreshInv
<1>2. Collected' = Collected
  BY DEF Collected
<1>3. RowInHandFresh'
  BY <1>1, <1>2 DEF FreshInv, RowInHandFresh
<1>4. InTime'
  BY <1>1 DEF FreshInv, InTime
<1>5. QED
  BY <1>1, <1>3, <1>4 DEF FreshInv

LEMMA ReadFresh ==
  ASSUME FreshInv, SerialInv', Read
  PROVE  FreshInv'
<1>1. Here \in {"read", "sleep"} /\ Here' = "dispatch" /\ clock \in Nat
  BY MovesHere, HereType DEF FreshInv, Statement, Moves
<1>2. /\ UNCHANGED <<smem, db_new_row_fgs, offered, seen, changes>>
      /\ mesh2pc_msg' = Head(chan)
      /\ clock' = IF Head(chan) = NoMsg THEN clock ELSE clock + 1
  BY DEF Read
<1>3. FreshRows' /\ LastAt' = LastAt
  BY <1>2, KeepFresh DEF FreshInv
<1>4. Collected' = Collected
  BY <1>1, <1>2 DEF Collected, Offering
<1>5. RowInHandFresh'
  BY <1>2, <1>3, <1>4 DEF FreshInv, RowInHandFresh
<1>6. InTime'
  BY <1>1, <1>2, <1>3 DEF FreshInv, InTime
<1>7. QED
  BY <1>3, <1>5, <1>6 DEF FreshInv

\* A change begins a row; what is received later joins the row in progress.
LEMMA UpdateFresh ==
  ASSUME FreshInv, SerialInv', Update
  PROVE  FreshInv'
<1> DEFINE f == Top.f
           fl == Flagged(Top.f, Stored(Top.f, Top.v))
<1>1. /\ Here = "crit" /\ Here' = "unlock" /\ clock \in Nat /\ stack # <<>>
      /\ Top \in Frame
  BY MovesHere, HereType DEF FreshInv, Statement, Moves
<1>2. /\ mesh2pc_msg # NoMsg /\ Top.stamp = clock /\ f \in Field
  <2>1. SerialInv /\ IInv
    BY DEF FreshInv, SerialInv
  <2>2. FrameOK(Top) /\ Top.pc = "crit"
    BY <1>1, <2>1, TopType DEF Here
  <2>3. QED
    BY <1>1, <2>1, <2>2 DEF SerialInv, InHand, FrameOK
<1>3. /\ UNCHANGED <<offered, clock, mesh2pc_msg>> /\ db_new_row_fgs' = fl
      /\ seen' = [seen EXCEPT ![f] = clock]
      /\ changes' = IF Changed(f, Stored(f, Top.v)) THEN changes \cup {clock} ELSE changes
  BY <1>2 DEF Update
<1>4. seen \in [Field -> Nat] /\ db_new_row_fgs \subseteq Field
  BY DEF FreshInv, SerialInv, IInv, HandlersOK, TypeOK
<1>5. FreshRows' /\ LastAt' = LastAt
  BY <1>3, KeepFresh DEF FreshInv
<1>6. LastAt < clock /\ changes \subseteq 0..clock
  BY <1>1, <1>2 DEF FreshInv, InTime, Carrying
<1>7. Collected = db_new_row_fgs /\ Collected' = fl
  BY <1>1, <1>3 DEF Collected, Offering
<1>8. RowInHandFresh'
  <2>1. CASE db_new_row_fgs # {}
    <3>1. PICK b \in changes : LastAt < b /\ \A g \in db_new_row_fgs : seen[g] >= b
      BY <1>7, <2>1 DEF FreshInv, RowInHandFresh
    <3>2. fl = db_new_row_fgs \cup {f} /\ b <= clock /\ b \in Nat
      BY <1>1, <1>6, <2>1, <3>1 DEF Flagged
    <3>3. \A g \in fl : seen'[g] >= b
      BY <1>1, <1>2, <1>3, <1>4, <3>1, <3>2
    <3>4. b \in changes'
      BY <1>3, <3>1
    <3>5. QED
      BY <1>5, <1>7, <3>1, <3>3, <3>4 DEF RowInHandFresh
  <2>2. CASE db_new_row_fgs = {} /\ fl # {}
    <3>1. fl = {f} /\ clock \in changes'
      BY <1>3, <2>2 DEF Flagged
    <3>2. \A g \in fl : seen'[g] >= clock
      BY <1>1, <1>2, <1>3, <1>4, <3>1
    <3>3. QED
      BY <1>5, <1>6, <1>7, <3>1, <3>2 DEF RowInHandFresh
  <2>3. QED
    BY <1>7, <2>1, <2>2 DEF RowInHandFresh
<1>9. InTime'
  BY <1>1, <1>3, <1>5, <1>6 DEF FreshInv, InTime, Carrying
<1>10. QED
  BY <1>5, <1>8, <1>9 DEF FreshInv

\* Only a full row is cleared; from there its fields are all of them.
LEMMA ResetFresh ==
  ASSUME FreshInv, SerialInv', Reset
  PROVE  FreshInv'
<1>1. Here = "reset" /\ Here' = "slock"
  BY MovesHere DEF FreshInv, Statement, Moves
<1>2. UNCHANGED <<smem, offered, seen, changes, clock, mesh2pc_msg>>
  BY DEF Reset
<1>3. FreshRows' /\ LastAt' = LastAt
  BY <1>2, KeepFresh DEF FreshInv
<1>4. Collected = Field /\ Collected' = Field
  BY <1>1 DEF Collected, Offering, FreshInv, SerialInv, InHand
<1>5. RowInHandFresh'
  BY <1>2, <1>3, <1>4 DEF FreshInv, RowInHandFresh
<1>6. InTime'
  BY <1>1, <1>2, <1>3 DEF FreshInv, InTime, Carrying
<1>7. QED
  BY <1>3, <1>5, <1>6 DEF FreshInv

\* The row handed over is the one that was in hand.
LEMMA OfferFresh ==
  ASSUME FreshInv, SerialInv', Offer
  PROVE  FreshInv'
<1> DEFINE row == [data |-> smem, seen |-> seen, at |-> clock]
<1>0. PICK n : n = Len(offered)
  OBVIOUS
<1>1. Here = "insert" /\ Here' = "rearm" /\ clock \in Nat
  BY MovesHere, HereType DEF FreshInv, Statement, Moves
<1>2. /\ offered' = Append(offered, row) /\ db_new_row_fgs' = {}
      /\ UNCHANGED <<seen, changes, clock>>
  BY <1>1 DEF Offer, FreshInv, SerialInv, InHand
<1>3. offered \in Seq(Row) /\ row \in Row /\ changes \subseteq Nat
  BY DEF FreshInv, SerialInv, IInv, HandlersOK, TypeOK, Row
<1>4. /\ n \in Nat /\ Len(offered') = n + 1 /\ offered'[n + 1] = row
      /\ \A k \in 1..n : offered'[k] = offered[k]
      /\ DOMAIN offered' = 1..n + 1 /\ DOMAIN offered = 1..n /\ offered' # <<>>
      /\ offered = <<>> => n = 0
      /\ n = 0 => offered = <<>>
  <2> HIDE DEF row
  <2>1. n \in Nat /\ (offered = <<>> <=> n = 0) /\ DOMAIN offered = 1..n
    BY <1>0, <1>3, EmptySeq, LenProperties
  <2>2. /\ offered' \in Seq(Row) /\ Len(offered') = n + 1 /\ offered'[n + 1] = row
        /\ \A k \in 1..n : offered'[k] = offered[k]
    BY <1>0, <1>2, <1>3, AppendProperties
  <2>3. DOMAIN offered' = 1..n + 1 /\ offered' # <<>>
    BY <2>1, <2>2, EmptySeq, LenProperties
  <2>4. QED
    BY <2>1, <2>2, <2>3
<1>5. row.seen = seen /\ row.at = clock
  OBVIOUS
<1> HIDE DEF row
<1>6. LastAt' = clock
  BY <1>4, <1>5 DEF LastAt
<1>7. PICK b \in changes : LastAt < b /\ \A g \in Field : seen[g] >= b
  <2>1. Collected = Field /\ Field # {}
    BY <1>1, FieldAssumption DEF Collected, Offering
  <2>2. QED
    BY <2>1 DEF FreshInv, RowInHandFresh
<1>8. PreviousAt(n + 1)' = LastAt
  <2>1. CASE n = 0
    BY <1>4, <2>1 DEF PreviousAt, LastAt
  <2>2. CASE n # 0
    <3>1. n + 1 # 1 /\ n + 1 - 1 = n /\ n \in 1..n /\ offered # <<>>
      BY <1>4, <2>2
    <3>2. PreviousAt(n + 1)' = offered'[n].at
      BY <3>1 DEF PreviousAt
    <3>3. QED
      BY <1>0, <1>4, <3>1, <3>2 DEF LastAt
  <2>3. QED
    BY <2>1, <2>2
<1>9. ASSUME NEW k \in 1..n PROVE PreviousAt(k)' = PreviousAt(k)
  <2>1. k # 1 => k - 1 \in 1..n
    BY <1>4
  <2>2. QED
    BY <1>4, <2>1 DEF PreviousAt
<1>10. ASSUME NEW k \in 1..n + 1
       PROVE  \E c \in changes' : /\ PreviousAt(k)' < c
                                  /\ \A g \in Field : offered'[k].seen[g] >= c
  <2>1. CASE k = n + 1
    BY <1>2, <1>4, <1>5, <1>7, <1>8, <2>1
  <2>2. CASE k \in 1..n
    <3>1. PICK c \in changes : PreviousAt(k) < c /\ \A g \in Field : offered[k].seen[g] >= c
      BY <1>4, <2>2 DEF FreshInv, FreshRows
    <3>2. QED
      BY <1>2, <1>4, <1>9, <2>2, <3>1
  <2>3. QED
    BY <1>4, <2>1, <2>2
<1>11. FreshRows'
  BY <1>4, <1>10 DEF FreshRows, PreviousAt
<1>12. Collected' = {}
  BY <1>1, <1>2 DEF Collected, Offering
<1>13. InTime'
  BY <1>1, <1>2, <1>6 DEF FreshInv, InTime, Carrying
<1>14. QED
  BY <1>11, <1>12, <1>13 DEF FreshInv, RowInHandFresh

LEMMA StepFresh ==
  ASSUME ~TimerFires, FreshInv, [BridgeNext]_bridge_vars
  PROVE  FreshInv'
<1>1. SerialInv /\ SerialInv'
  BY StepSerial DEF FreshInv
<1>2. CASE Sleep \/ Dispatch \/ Fetch \/ Lock \/ Unlock \/ Check \/ Snap \/ Rearm
  <2>1. UNCHANGED vars
    BY <1>2 DEF Sleep, Dispatch, Fetch, Lock, Unlock, Check, Snap, Rearm
  <2>2. Moves
    BY <1>1, <1>2, MovesHere DEF Statement
  <2>3. Here' \in Offering <=> Here \in Offering
    BY <1>2, <2>2 DEF Moves, Offering
  <2>4. Here' \in Carrying /\ mesh2pc_msg # NoMsg => Here \in Carrying
    BY <1>2, <2>2 DEF Moves, Carrying
  <2>5. QED
    BY <1>1, <2>1, <2>3, <2>4, IdleFresh DEF vars
<1>3. ASSUME NEW sig \in Sig, Deliver(sig)
      PROVE  FreshInv'
  <2>1. UNCHANGED vars /\ Here = "none" /\ Here' = "read"
    BY <1>1, <1>3, DeliverSerial DEF Deliver
  <2>2. QED
    BY <1>1, <2>1, IdleFresh DEF vars, Carrying, Offering
<1>4. CASE \/ \E m \in Msg \cup {NoMsg} : Send(m)
           \/ TimerExpires \/ SleepOnMutex \/ UNCHANGED bridge_vars
  <2>1. UNCHANGED <<vars, stack>>
    BY <1>1, <1>4, OutsideSerial
  <2>2. Here' = Here
    BY <2>1 DEF Here, Top, Depth
  <2>3. QED
    BY <1>1, <2>1, <2>2, IdleFresh DEF vars
<1>5. QED
  BY <1>1, <1>2, <1>3, <1>4, ReadFresh, UpdateFresh, ResetFresh, OfferFresh
  DEF BridgeNext, Handler, Statement, Awake

LEMMA InitFresh ==
  ASSUME BridgeInit
  PROVE  FreshInv
<1>1. SerialInv /\ Here = "none"
  BY InitSerial DEF BridgeInit, Here
<1>2. /\ offered = <<>> /\ db_new_row_fgs = {} /\ changes = {} /\ clock = 0
      /\ DOMAIN offered = {}
  BY EmptySeq DEF BridgeInit, Init
<1>3. QED
  BY <1>1, <1>2 DEF FreshInv, FreshRows, RowInHandFresh, Collected, Offering, InTime,
     LastAt, Carrying

\* Without the timer every row handed to the database is fresh, although the
\* bridge may write and signal between any two statements (the flags of
\* up2web_comm.h:57; bridge_fresh has the counterexample with the timer).
THEOREM SteadyRowsAreFresh ==
  ASSUME ~TimerFires
  PROVE  BridgeSpec => []FreshRows
<1>1. BridgeInit => FreshInv
  BY InitFresh
<1>2. FreshInv /\ [BridgeNext]_bridge_vars => FreshInv'
  BY StepFresh
<1>3. FreshInv => FreshRows
  BY DEF FreshInv
<1>4. QED
  BY <1>1, <1>2, <1>3, PTL DEF BridgeSpec

\* Without the timer no handler comes to pump_mutex while another one has it:
\* the handlers cannot deadlock among themselves, and only the child's hold of
\* the mutex can keep one waiting (up2web_comm.cpp:192 and 308).
THEOREM SteadyNoSelfDeadlock ==
  ASSUME ~TimerFires
  PROVE  BridgeSpec => []NoSelfDeadlock
<1>1. BridgeInit => SerialInv
  BY InitSerial
<1>2. SerialInv /\ [BridgeNext]_bridge_vars => SerialInv'
  BY StepSerial
<1>3. SerialInv => NoSelfDeadlock
  <2> SUFFICES ASSUME SerialInv,
                      NEW i \in DOMAIN stack, stack[i].pc \in {"lock", "slock"}
               PROVE  mutex = 0
    BY DEF NoSelfDeadlock
  <2>1. StackOK /\ Depth \in Nat /\ Depth <= 1 /\ DOMAIN stack = 1..Depth
    BY HereType, TopType DEF SerialInv, OneByOne
  <2>2. i = 1 /\ Depth = 1 /\ mutex \in 0..1 /\ i # mutex
    BY <2>1 DEF StackOK, Critical
  <2>3. QED
    BY <2>2
<1>4. QED
  BY <1>1, <1>2, <1>3, PTL DEF BridgeSpec
=============================================================================
