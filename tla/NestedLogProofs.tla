-------------------------- MODULE NestedLogProofs --------------------------
(***************************************************************************)
(* Theorems about handlers that run DB_AddRow within each other, for every *)
(* limit and band, any log they start with and any number of messages.     *)
(* What a handler has found out of the log is not true any more when it    *)
(* goes on after another one; the invariant says what of it is left.       *)
(***************************************************************************)
EXTENDS NestedLog, BridgeSignalsProofs, LogTableProofs

LogStatement == {"idle", "count", "min", "delete"}

\* What a handler knows at statement p with min_id m, interrupted or not: the
\* log was over its limit, so not less than MAXLOGROWNUMS rows are left of it,
\* and the band it is to delete is the oldest, or gone.
Known(p, m) ==
  /\ p # "idle" => ids # {}
  /\ p \in {"min", "delete"} => Cardinality(ids) >= MaxRows
  /\ p = "delete" => m = Min(ids) \/ m + Band <= Min(ids)

\* What the running handler knows if nobody has interrupted it.
Fresh ==
  /\ pc \in {"min", "delete"} => Cardinality(ids) >= MaxRows + Band
  /\ pc = "delete" => min_id = Min(ids)

\* The row that the handler has added and may still have to make room for; a
\* handler whose band is gone has no such row.
Due(p, m) == IF p = "idle" \/ (p = "delete" /\ m # Min(ids)) THEN 0 ELSE 1

\* The log and the two handlers.
JobsOK ==
  /\ LogTypeOK /\ Interval /\ outer_min \in Nat
  /\ pc \in LogStatement /\ outer_pc \in LogStatement
  /\ Known(pc, min_id) /\ Known(outer_pc, outer_min)
  /\ outer_pc # "idle" => Fresh
  /\ Cardinality(ids) <
       MaxRows + Band + skipped + Due(pc, min_id) + Due(outer_pc, outer_min)

\* Where the handlers are that have statements left.
PlacesOK ==
  /\ pc # "idle" => At("rearm")
  /\ outer_pc # "idle" => Depth = 2 /\ stack[1].pc = "rearm"

NestInv == IInv /\ JobsOK /\ PlacesOK

-----------------------------------------------------------------------------
\* Limits and sizes are numbers.
LEMMA Sizes ==
  ASSUME JobsOK
  PROVE  /\ Cardinality(ids) \in Nat /\ MaxRows \in Nat /\ Band \in Nat /\ skipped \in Nat
         /\ 1 < Band /\ Band < MaxRows
         /\ min_id \in Nat /\ outer_min \in Nat /\ issued \in Nat
         /\ Due(pc, min_id) \in 0..1 /\ Due(outer_pc, outer_min) \in 0..1
<1>1. Cardinality(ids) \in Nat
  BY SizeType DEF JobsOK
<1>2. Due(pc, min_id) \in 0..1 /\ Due(outer_pc, outer_min) \in 0..1
  BY DEF Due
<1>3. QED
  BY <1>1, <1>2, LimitAssumption, NestedAssumption DEF JobsOK, LogTypeOK

\* A log that is not empty, by its ends.
LEMMA Ends ==
  ASSUME JobsOK, ids # {}
  PROVE  \E lo \in 1..issued : /\ ids = lo..issued /\ Min(ids) = lo
                               /\ Cardinality(ids) = issued - lo + 1
<1>1. PICK lo \in Nat : IdsFrom(lo)
  BY DEF JobsOK, Interval
<1>2. lo \in 1..issued /\ ids = lo..issued /\ issued \in Nat
  BY <1>1 DEF IdsFrom, JobsOK, LogTypeOK
<1>3. Min(ids) = lo /\ Cardinality(ids) = issued - lo + 1
  BY <1>2, IntervalFacts
<1>4. QED
  BY <1>2, <1>3

\* A row is added at the new end: the old end stays.
LEMMA InsertJobs ==
  ASSUME JobsOK, Insert, UNCHANGED <<outer_pc, outer_min>>
  PROVE  JobsOK' /\ Fresh'
<1>1. /\ issued' = issued + 1 /\ Interval' /\ ids' # {} /\ ids' \in SUBSET (Nat \ {0})
      /\ Cardinality(ids') = Cardinality(ids) + 1
  BY InsertProlongs DEF JobsOK
<1>2. pc = "idle" /\ pc' = "count" /\ UNCHANGED <<table, min_id, skipped>> /\ table
  BY DEF Insert
<1>3. LogTypeOK'
  BY <1>1, <1>2 DEF JobsOK, LogTypeOK
<1>4. ids # {} => Min(ids') = Min(ids)
  <2>1. ASSUME ids # {} PROVE Min(ids') = Min(ids)
    <3>1. PICK lo \in 1..issued : ids = lo..issued /\ Min(ids) = lo
      BY <2>1, Ends
    <3>2. NextId = issued + 1 /\ issued \in Nat
      BY NextIdFollows, Sizes DEF JobsOK
    <3>3. ids' = lo..issued + 1
      BY <3>1, <3>2 DEF Insert
    <3>4. QED
      BY <3>1, <3>2, <3>3, IntervalFacts
  <2>2. QED
    BY <2>1
<1>5. Known(pc, min_id)' /\ Fresh'
  BY <1>1, <1>2 DEF Known, Fresh
<1>6. Known(outer_pc, outer_min)'
  BY <1>1, <1>4, Sizes DEF Known, JobsOK
<1>7. Due(pc, min_id) = 0 /\ Due(pc, min_id)' = 1
  BY <1>2 DEF Due
<1>8. Due(outer_pc, outer_min)' = Due(outer_pc, outer_min)
  BY <1>4 DEF Due, JobsOK, Known
<1>9. Cardinality(ids') <
        MaxRows + Band + skipped + Due(pc, min_id)' + Due(outer_pc, outer_min)'
  BY <1>1, <1>7, <1>8, Sizes DEF JobsOK
<1>10. QED
  BY <1>1, <1>2, <1>3, <1>5, <1>6, <1>9 DEF JobsOK, LogStatement

\* The statements that only look leave the log as it is.
LEMMA LookJobs ==
  ASSUME JobsOK, Count \/ FindMin, UNCHANGED <<outer_pc, outer_min>>
  PROVE  JobsOK' /\ (Fresh => Fresh')
<1>1. UNCHANGED <<table, ids, issued, skipped>>
  BY DEF Count, FindMin
<1>2. Interval' /\ Known(outer_pc, outer_min)'
      /\ Due(outer_pc, outer_min)' = Due(outer_pc, outer_min)
  BY <1>1 DEF JobsOK, Interval, IdsFrom, Known, Due
<1>3. CASE Count
  <2>1. pc = "count" /\ pc' = (IF OverLimit THEN "min" ELSE "idle") /\ UNCHANGED min_id
    BY <1>3 DEF Count
  <2>2. LogTypeOK'
    BY <1>1, <2>1 DEF JobsOK, LogTypeOK
  <2>3. Fresh' /\ Known(pc, min_id)'
    BY <1>1, <2>1, Sizes DEF Fresh, Known, OverLimit, JobsOK
  <2>4. Due(pc, min_id) = 1 /\ Due(pc, min_id)' = IF OverLimit THEN 1 ELSE 0
    BY <2>1 DEF Due
  <2>5. Cardinality(ids') <
          MaxRows + Band + skipped' + Due(pc, min_id)' + Due(outer_pc, outer_min)'
    <3>1. CASE OverLimit
      BY <1>1, <1>2, <2>4, <3>1 DEF JobsOK
    <3>2. CASE ~OverLimit
      BY <1>1, <1>2, <2>4, <3>2, Sizes DEF OverLimit
    <3>3. QED
      BY <3>1, <3>2
  <2>6. QED
    BY <1>1, <1>2, <2>1, <2>2, <2>3, <2>5 DEF JobsOK, LogStatement
<1>4. CASE FindMin
  <2>1. pc = "min" /\ pc' = "delete" /\ min_id' = Min(ids)
    BY <1>4 DEF FindMin
  <2>2. Min(ids) \in Nat
    <3>1. PICK lo \in 1..issued : Min(ids) = lo
      BY <2>1, Ends DEF JobsOK, Known
    <3>2. QED
      BY <3>1, Sizes
  <2>3. LogTypeOK'
    BY <1>1, <2>1, <2>2 DEF JobsOK, LogTypeOK
  <2>4. (Fresh => Fresh') /\ (outer_pc # "idle" => Fresh') /\ Known(pc, min_id)'
    BY <1>1, <2>1 DEF Fresh, Known, JobsOK
  <2>5. Due(pc, min_id) = 1 /\ Due(pc, min_id)' = 1
    BY <1>1, <2>1 DEF Due
  <2>6. QED
    BY <1>1, <1>2, <2>1, <2>2, <2>3, <2>4, <2>5 DEF JobsOK, LogStatement
<1>5. QED
  BY <1>3, <1>4

\* The DELETE takes the oldest band, all of it, or nothing.
LEMMA DeleteTakes ==
  ASSUME JobsOK, Delete
  PROVE  \/ /\ min_id = Min(ids)
            /\ \E lo \in 1..issued :
                 /\ ids = lo..issued /\ Min(ids) = lo /\ lo + Band <= issued
                 /\ ids' = lo + Band..issued /\ Min(ids') = lo + Band
            /\ Cardinality(ids') = Cardinality(ids) - Band
            /\ ids' # {} /\ Interval'
         \/ min_id # Min(ids) /\ UNCHANGED ids
<1>1. pc = "delete" /\ ids' = Kept /\ UNCHANGED issued
  BY DEF Delete
<1>2. Cardinality(ids) >= MaxRows /\ ids # {}
  BY <1>1 DEF JobsOK, Known
<1>3. PICK lo \in 1..issued : /\ ids = lo..issued /\ Min(ids) = lo
                              /\ Cardinality(ids) = issued - lo + 1
  BY <1>2, Ends
<1>4. CASE min_id = lo
  <2>1. lo + Band <= issued /\ lo + Band \in Nat /\ issued \in Nat /\ lo + Band \in 1..issued
    BY <1>2, <1>3, Sizes
  <2>2. ids' = lo + Band..issued
    BY <1>1, <1>3, <1>4, Sizes DEF Kept
  <2>3. /\ Cardinality(ids') = issued - (lo + Band) + 1 /\ ids' # {}
        /\ Min(ids') = lo + Band
    BY <2>1, <2>2, IntervalFacts
  <2>4. Interval'
    BY <1>1, <2>1, <2>2 DEF Interval, IdsFrom
  <2>5. Cardinality(ids') = Cardinality(ids) - Band
    BY <1>3, <2>3, Sizes
  <2>6. QED
    BY <1>3, <1>4, <2>1, <2>2, <2>3, <2>4, <2>5
<1>5. CASE min_id # lo
  <2>1. min_id + Band <= lo
    BY <1>1, <1>3, <1>5 DEF JobsOK, Known
  <2>2. \A i \in ids : i >= min_id + Band
    BY <1>3, <2>1, Sizes
  <2>3. ids' = ids
    BY <1>1, <2>2 DEF Kept
  <2>4. QED
    BY <1>3, <1>5, <2>3
<1>6. QED
  BY <1>4, <1>5

\* A handler that waits finds its band gone, or the log at its limit still.
LEMMA DeleteJobs ==
  ASSUME JobsOK, Delete, UNCHANGED <<outer_pc, outer_min>>
  PROVE  JobsOK' /\ Fresh'
<1>1. pc = "delete" /\ pc' = "idle" /\ UNCHANGED <<table, min_id, issued, skipped>>
  BY DEF Delete
<1>2. ids' \subseteq ids
  BY DEF Delete, Kept
<1>3. LogTypeOK'
  BY <1>1, <1>2 DEF JobsOK, LogTypeOK
<1>4. Fresh' /\ Known(pc, min_id)' /\ Due(pc, min_id)' = 0
  BY <1>1 DEF Fresh, Known, Due
<1>5. CASE min_id # Min(ids) /\ UNCHANGED ids
  <2>1. Interval' /\ Known(outer_pc, outer_min)'
        /\ Due(outer_pc, outer_min)' = Due(outer_pc, outer_min) /\ Due(pc, min_id) = 0
    BY <1>1, <1>5 DEF JobsOK, Interval, IdsFrom, Known, Due
  <2>2. QED
    BY <1>1, <1>3, <1>4, <1>5, <2>1 DEF JobsOK, LogStatement
<1>6. CASE /\ min_id = Min(ids) /\ ids' # {} /\ Interval'
           /\ Cardinality(ids') = Cardinality(ids) - Band
           /\ Min(ids') = Min(ids) + Band /\ Min(ids) \in Nat
  <2>1. Known(outer_pc, outer_min)'
    <3>1. outer_pc # "idle" => Cardinality(ids) >= MaxRows + Band
      BY <1>1 DEF JobsOK, Fresh
    <3>2. outer_pc \in {"min", "delete"} => Cardinality(ids') >= MaxRows
      BY <1>6, <3>1, Sizes
    <3>3. outer_pc = "delete" => outer_min + Band <= Min(ids')
      <4>1. outer_pc = "delete" => outer_min = Min(ids) \/ outer_min + Band <= Min(ids)
        BY DEF JobsOK, Known
      <4>2. QED
        BY <1>6, <4>1, Sizes
    <3>4. QED
      BY <1>6, <3>2, <3>3 DEF Known
  <2>2. Due(outer_pc, outer_min)' \in 0..1
    BY DEF Due
  <2>3. Cardinality(ids') <
          MaxRows + Band + skipped' + Due(pc, min_id)' + Due(outer_pc, outer_min)'
    BY <1>1, <1>4, <1>6, <2>2, Sizes DEF JobsOK
  <2>4. QED
    BY <1>1, <1>3, <1>4, <1>6, <2>1, <2>3 DEF JobsOK, LogStatement
<1>7. Min(ids) \in Nat /\ (min_id = Min(ids) => Min(ids') = Min(ids) + Band)
  <2>1. PICK lo \in 1..issued : Min(ids) = lo
    BY <1>1, Ends DEF JobsOK, Known
  <2>2. QED
    BY <2>1, DeleteTakes, Sizes
<1>8. QED
  BY <1>5, <1>6, <1>7, DeleteTakes

\* A pass that fails is paid for by skipped.
LEMMA FailJobs ==
  ASSUME JobsOK, PruneFails, UNCHANGED <<outer_pc, outer_min>>
  PROVE  JobsOK' /\ Fresh'
<1>1. pc' = "idle" /\ skipped' = skipped + 1 /\ UNCHANGED <<table, ids, min_id, issued>>
  BY DEF PruneFails
<1>2. LogTypeOK' /\ Interval'
  BY <1>1 DEF JobsOK, LogTypeOK, Interval, IdsFrom
<1>3. Fresh' /\ Known(pc, min_id)' /\ Due(pc, min_id)' = 0
  BY <1>1 DEF Fresh, Known, Due
<1>4. Known(outer_pc, outer_min)'
      /\ Due(outer_pc, outer_min)' = Due(outer_pc, outer_min)
  BY <1>1 DEF JobsOK, Known, Due
<1>5. Cardinality(ids') <
        MaxRows + Band + skipped' + Due(pc, min_id)' + Due(outer_pc, outer_min)'
  BY <1>1, <1>3, <1>4, Sizes DEF JobsOK
<1>6. QED
  BY <1>1, <1>2, <1>3, <1>4, <1>5 DEF JobsOK, LogStatement

\* A handler begins: what the one below it knows is kept for it.
LEMMA NestJobs ==
  ASSUME JobsOK, outer_pc = "idle", pc' = "idle", outer_pc' = pc, outer_min' = min_id,
         UNCHANGED <<table, ids, min_id, issued, skipped>>
  PROVE  JobsOK' /\ Fresh'
<1>1. LogTypeOK' /\ Interval' /\ outer_min' \in Nat
  BY DEF JobsOK, LogTypeOK, Interval, IdsFrom
<1>2. Known(pc, min_id)' /\ Fresh' /\ Due(pc, min_id)' = 0
  BY DEF Known, Fresh, Due
<1>3. Known(outer_pc, outer_min)'
  BY DEF JobsOK, Known
<1>4. Due(outer_pc, outer_min)' = Due(pc, min_id) /\ Due(outer_pc, outer_min) = 0
  BY DEF Due
<1>5. Cardinality(ids') <
        MaxRows + Band + skipped' + Due(pc, min_id)' + Due(outer_pc, outer_min)'
  BY <1>2, <1>4, Sizes DEF JobsOK
<1>6. QED
  BY <1>1, <1>2, <1>3, <1>5 DEF JobsOK, LogStatement

\* It returns: the one below goes on with what it knew.
LEMMA ReturnJobs ==
  ASSUME JobsOK, pc = "idle", pc' = outer_pc, min_id' = outer_min, outer_pc' = "idle",
         UNCHANGED <<table, ids, issued, skipped, outer_min>>
  PROVE  JobsOK'
<1>1. LogTypeOK' /\ Interval' /\ outer_min' \in Nat
  BY DEF JobsOK, LogTypeOK, Interval, IdsFrom, LogStatement
<1>2. Known(outer_pc, outer_min)' /\ Due(outer_pc, outer_min)' = 0
  BY DEF Known, Due
<1>3. Known(pc, min_id)'
  BY DEF JobsOK, Known
<1>4. Due(pc, min_id)' = Due(outer_pc, outer_min) /\ Due(pc, min_id) = 0
  BY DEF Due
<1>5. Cardinality(ids') <
        MaxRows + Band + skipped' + Due(pc, min_id)' + Due(outer_pc, outer_min)'
  BY <1>2, <1>4, Sizes DEF JobsOK
<1>6. QED
  BY <1>1, <1>2, <1>3, <1>5 DEF JobsOK, LogStatement

-----------------------------------------------------------------------------
(***************************************************************************)
(* The handlers.  The log neither helps nor hinders them: every step is    *)
(* one of BridgeSignals, or none.                                          *)
(***************************************************************************)
LEMMA BridgeStep ==
  ASSUME [NestedNext]_nested_vars
  PROVE  [BridgeNext]_bridge_vars
<1>1. CASE Elsewhere
  BY <1>1 DEF Elsewhere, BridgeNext, Handler, Statement
<1>2. CASE \E sig \in Sig : Nest(sig)
  BY <1>2 DEF Nest, BridgeNext
<1>3. CASE Store \/ Return
  BY <1>3 DEF Store, Return, BridgeNext, Handler, Statement
<1>4. CASE Prune \/ UNCHANGED nested_vars
  BY <1>4 DEF Prune, nested_vars
<1>5. QED
  BY <1>1, <1>2, <1>3, <1>4 DEF NestedNext

\* A third handler has no signal of its own.
LEMMA RoomForOne ==
  ASSUME IInv, NEW sig \in Sig, Deliver(sig)
  PROVE  Depth <= 1
<1>1. /\ StackOK /\ stack \in Seq(Frame) /\ Depth \in Nat /\ DOMAIN stack = 1..Depth
  BY TopType DEF StackOK
<1>2. \A i \in 1..Depth : stack[i].sig \in Sig /\ stack[i].sig # sig
  <2>1. \A i \in 1..Depth : stack[i] \in Frame
    BY <1>1, ElementOfSeq DEF Depth
  <2>2. QED
    BY <1>1, <2>1 DEF Deliver, Frame
<1>3. SUFFICES ASSUME ~(Depth <= 1) PROVE FALSE
  OBVIOUS
<1>4. 1 \in 1..Depth /\ 2 \in 1..Depth
  BY <1>1, <1>3
<1>5. stack[1].sig # stack[2].sig
  BY <1>1, <1>4 DEF StackOK
<1>6. QED
  BY <1>2, <1>4, <1>5 DEF Sig

\* The running handler goes on: the one below it does not.
LEMMA OnlyTop ==
  ASSUME IInv, IInv', stack # <<>>, NEW g, stack' = [stack EXCEPT ![Depth] = g]
  PROVE  /\ Depth' = Depth /\ stack' # <<>> /\ Top' = g
         /\ \A i \in 1..Depth : i # Depth => stack'[i] = stack[i]
<1>1. /\ Depth \in Nat \ {0} /\ Depth \in 1..Depth /\ DOMAIN stack = 1..Depth
      /\ DOMAIN stack' = 1..Depth' /\ Depth' \in Nat
  <2>1. stack' \in Seq(Frame)
    BY DEF IInv, HandlersOK
  <2>2. DOMAIN stack' = 1..Depth' /\ Depth' \in Nat
    BY <2>1, LenProperties DEF Depth
  <2>3. QED
    BY <2>2, TopType
<1>2. DOMAIN stack' = DOMAIN stack /\ stack'[Depth] = g
      /\ \A i \in 1..Depth : i # Depth => stack'[i] = stack[i]
  BY <1>1
<1>3. Depth' = Depth
  <2>1. Depth \in 1..Depth' /\ (Depth' # 0 => Depth' \in 1..Depth)
    BY <1>1, <1>2
  <2>2. QED
    BY <1>1, <2>1
<1>4. stack' # <<>>
  BY <1>1, <1>3, EmptySeq DEF Depth
<1>5. QED
  BY <1>2, <1>3, <1>4 DEF Top

\* A handler before its INSERT, and what comes from outside.
LEMMA ElsewherePlaces ==
  ASSUME NestInv, IInv', Elsewhere
  PROVE  PlacesOK'
<1>1. UNCHANGED <<pc, outer_pc>> /\ Depth \in Nat
  BY TopType DEF Elsewhere, log_vars, NestInv
<1>2. CASE (\E m \in Msg \cup {NoMsg} : Send(m)) \/ TimerExpires \/ SleepOnMutex
  <2>1. UNCHANGED stack
    BY <1>2 DEF Send, TimerExpires, SleepOnMutex
  <2>2. QED
    BY <1>1, <2>1 DEF NestInv, PlacesOK, At, Top, Depth
<1>3. CASE \/ Sleep \/ Read \/ Dispatch \/ Fetch \/ Lock \/ Update \/ Unlock
           \/ Check \/ Reset \/ Snap
  <2>1. stack # <<>> /\ Top.pc # "rearm"
    BY <1>3 DEF Sleep, Read, Dispatch, Fetch, Lock, Update, Unlock, Check, Reset, Snap, At
  <2>2. \E g : stack' = [stack EXCEPT ![Depth] = g]
    <3>1. CASE Dispatch \/ Fetch \/ Snap
      BY <3>1 DEF Dispatch, Fetch, Snap
    <3>2. CASE Sleep \/ Read \/ Lock \/ Update \/ Unlock \/ Check \/ Reset
      BY <3>2 DEF Sleep, Read, Lock, Update, Unlock, Check, Reset, Goto
    <3>3. QED
      BY <1>3, <3>1, <3>2
  <2>3. Depth' = Depth /\ \A i \in 1..Depth : i # Depth => stack'[i] = stack[i]
    BY <2>1, <2>2, OnlyTop DEF NestInv
  <2>4. pc = "idle"
    BY <2>1 DEF NestInv, PlacesOK, At
  <2>5. outer_pc # "idle" => stack'[1].pc = "rearm"
    BY <2>3 DEF NestInv, PlacesOK
  <2>6. QED
    BY <1>1, <2>3, <2>4, <2>5 DEF NestInv, PlacesOK
<1>4. QED
  BY <1>2, <1>3 DEF Elsewhere

LEMMA NestPlaces ==
  ASSUME NestInv, NEW sig \in Sig, Nest(sig)
  PROVE  PlacesOK' /\ outer_pc = "idle"
<1>1. Deliver(sig) /\ pc' = "idle" /\ outer_pc' = pc /\ Depth <= 1 /\ Depth \in Nat
  BY RoomForOne, TopType DEF Nest, NestInv
<1>2. outer_pc = "idle"
  BY <1>1 DEF NestInv, PlacesOK
<1>3. ASSUME pc # "idle"
      PROVE  Depth' = 2 /\ stack'[1].pc = "rearm"
  <2>1. stack # <<>> /\ Top.pc = "rearm" /\ Depth = 1 /\ stack \in Seq(Frame)
    BY <1>1, <1>3, TopType DEF NestInv, PlacesOK, At, StackOK
  <2>2. Interrupted(sig) = stack
    BY <2>1 DEF Interrupted, At
  <2>3. PICK g \in Frame : stack' = Append(stack, g)
    BY <1>1, <2>2 DEF Deliver, Frame, Label
  <2>4. Len(stack) = 1
    BY <2>1 DEF Depth
  <2>5. Len(stack') = Len(stack) + 1 /\ \A i \in 1..Len(stack) : stack'[i] = stack[i]
    BY <2>1, <2>3, AppendProperties
  <2>6. Len(stack') = 2 /\ stack'[1] = stack[1]
    BY <2>4, <2>5
  <2>7. QED
    BY <2>1, <2>6 DEF Depth, Top
<1>4. QED
  BY <1>1, <1>2, <1>3 DEF PlacesOK

LEMMA StorePlaces ==
  ASSUME NestInv, IInv', Store
  PROVE  PlacesOK'
<1>1. stack # <<>> /\ Goto("rearm") /\ UNCHANGED outer_pc /\ IInv /\ Depth \in Nat
  BY TopType DEF Store, Offer, At, NestInv
<1>2. PICK g : stack' = [stack EXCEPT ![Depth] = g] /\ g.pc = "rearm"
  <2>1. "rearm" \in Label
    BY DEF Label
  <2>2. QED
    BY <1>1, <2>1, GotoFrame
<1>3. /\ Depth' = Depth /\ stack' # <<>> /\ Top' = g
      /\ \A i \in 1..Depth : i # Depth => stack'[i] = stack[i]
  BY <1>1, <1>2, OnlyTop
<1>4. At("rearm")'
  BY <1>2, <1>3 DEF At
<1>5. outer_pc # "idle" => Depth' = 2 /\ stack'[1].pc = "rearm"
  BY <1>3 DEF NestInv, PlacesOK
<1>6. QED
  BY <1>1, <1>4, <1>5 DEF PlacesOK

LEMMA ReturnPlaces ==
  ASSUME NestInv, Return
  PROVE  PlacesOK'
<1>1. pc' = outer_pc /\ outer_pc' = "idle" /\ stack' = SubSeq(stack, 1, Depth - 1)
  BY DEF Return, Rearm
<1>2. ASSUME outer_pc # "idle"
      PROVE  At("rearm")'
  <2>1. Depth = 2 /\ stack[1].pc = "rearm" /\ stack \in Seq(Frame)
    BY <1>2, TopType DEF NestInv, PlacesOK, StackOK
  <2>2. stack' = SubSeq(stack, 1, 1) /\ 1 <= Len(stack)
    BY <1>1, <2>1 DEF Depth
  <2>3. stack' \in Seq(Frame) /\ Len(stack') = 1 /\ stack'[1] = stack[1]
    BY <2>1, <2>2, PrefixFacts
  <2>4. stack' # <<>>
    BY <2>3, EmptySeq
  <2>5. QED
    BY <2>1, <2>3, <2>4 DEF At, Top, Depth
<1>3. QED
  BY <1>1, <1>2 DEF PlacesOK

-----------------------------------------------------------------------------
(***************************************************************************)
(* The invariant of both together.                                         *)
(***************************************************************************)
\* No step but the INSERT and the prune statements touches the log, and none
\* but a handler's begin and end what is known of it.
LEMMA SameJobs ==
  ASSUME JobsOK, UNCHANGED <<log_vars, outer_pc, outer_min>>
  PROVE  JobsOK' /\ (Fresh => Fresh')
<1>1. LogTypeOK' /\ Interval'
  BY DEF JobsOK, LogTypeOK, Interval, IdsFrom, log_vars
<1>2. /\ Known(pc, min_id)' /\ Known(outer_pc, outer_min)' /\ (Fresh => Fresh')
      /\ Due(pc, min_id)' = Due(pc, min_id)
      /\ Due(outer_pc, outer_min)' = Due(outer_pc, outer_min)
  BY DEF JobsOK, Known, Fresh, Due, log_vars
<1>3. QED
  BY <1>1, <1>2 DEF JobsOK, LogStatement, log_vars

\* A statement of DB_AddRow.
LEMMA StatementJobs ==
  ASSUME JobsOK, Store \/ Prune
  PROVE  JobsOK' /\ (Fresh => Fresh')
<1>1. UNCHANGED <<outer_pc, outer_min>>
  BY DEF Store, Prune
<1>2. InsertFails => UNCHANGED log_vars
  BY DEF InsertFails
<1>3. QED
  BY <1>1, <1>2, InsertJobs, LookJobs, DeleteJobs, FailJobs, SameJobs DEF Store, Prune

LEMMA NestedStepInv ==
  ASSUME NestInv, [NestedNext]_nested_vars
  PROVE  NestInv'
<1>1. IInv'
  BY BridgeStep, StepInv DEF NestInv
<1>2. JobsOK /\ IInv
  BY DEF NestInv
<1>3. CASE Elsewhere
  <2>1. JobsOK'
    BY <1>2, <1>3, SameJobs DEF Elsewhere
  <2>2. QED
    BY <1>1, <1>3, <2>1, ElsewherePlaces DEF NestInv
<1>4. ASSUME NEW sig \in Sig, Nest(sig)
      PROVE  NestInv'
  <2>1. PlacesOK' /\ outer_pc = "idle"
    BY <1>4, NestPlaces
  <2>2. JobsOK'
    BY <1>2, <1>4, <2>1, NestJobs DEF Nest
  <2>3. QED
    BY <1>1, <2>1, <2>2 DEF NestInv
<1>5. CASE Store
  BY <1>1, <1>2, <1>5, StatementJobs, StorePlaces DEF NestInv
<1>6. CASE Prune
  <2>1. UNCHANGED <<stack, outer_pc>> /\ pc # "idle"
    BY <1>6 DEF Prune, bridge_vars, Count, FindMin, Delete, PruneFails
  <2>2. PlacesOK'
    BY <2>1 DEF NestInv, PlacesOK, At, Top, Depth
  <2>3. QED
    BY <1>1, <1>2, <1>6, <2>2, StatementJobs DEF NestInv
<1>7. CASE Return
  <2>1. JobsOK'
    BY <1>2, <1>7, ReturnJobs DEF Return
  <2>2. QED
    BY <1>1, <1>7, <2>1, ReturnPlaces DEF NestInv
<1>8. CASE UNCHANGED nested_vars
  <2>1. PlacesOK'
    BY <1>8 DEF NestInv, PlacesOK, At, Top, Depth, nested_vars, bridge_vars, log_vars
  <2>2. JobsOK'
    BY <1>2, <1>8, SameJobs DEF nested_vars
  <2>3. QED
    BY <1>1, <2>1, <2>2 DEF NestInv
<1>9. QED
  BY <1>3, <1>4, <1>5, <1>6, <1>7, <1>8 DEF NestedNext

\* The log an earlier start left is an interval, and over its limit by no more
\* than the passes that were missed.
LEMMA NestedInitInv ==
  ASSUME NestedInit
  PROVE  NestInv /\ Fresh
<1>1. IInv
  BY InitInv DEF NestedInit
<1>2. /\ pc = "idle" /\ outer_pc = "idle" /\ min_id = 0 /\ outer_min = 0
      /\ table \in BOOLEAN /\ skipped = Missed
  BY DEF NestedInit
<1>3. /\ ids \in SUBSET (Nat \ {0}) /\ issued \in Nat /\ Interval
      /\ (~table => ids = {}) /\ Cardinality(ids) \in Nat
  <2>1. CASE ids = {} /\ issued = 0
    <3>1. Cardinality(ids) = 0
      BY <2>1, FS_EmptySet
    <3>2. QED
      BY <2>1, <3>1 DEF Interval
  <2>2. CASE /\ table = TRUE
             /\ \E lo \in 1..MaxId : \E hi \in lo..MaxId : ids = lo..hi /\ issued = hi
    <3>1. PICK lo \in 1..MaxId : \E hi \in lo..MaxId : ids = lo..hi /\ issued = hi
      BY <2>2
    <3>2. PICK hi \in lo..MaxId : ids = lo..hi /\ issued = hi
      BY <3>1
    <3>3. lo \in Nat /\ hi \in Nat /\ lo <= hi /\ lo \in 1..hi /\ lo..hi \subseteq Nat \ {0}
      BY LimitAssumption
    <3>4. Cardinality(lo..hi) = hi - lo + 1
      BY <3>3, IntervalFacts
    <3>5. Interval
      BY <3>2, <3>3 DEF Interval, IdsFrom
    <3>6. QED
      BY <2>2, <3>2, <3>3, <3>4, <3>5
  <2>3. QED
    BY <2>1, <2>2 DEF NestedInit
<1>4. skipped \in Nat /\ Cardinality(ids) < MaxRows + Band + skipped
  BY <1>2, <1>3, LimitAssumption DEF Missed, OverLimit
<1>5. LogTypeOK
  BY <1>2, <1>3, <1>4 DEF LogTypeOK
<1>6. /\ Known(pc, min_id) /\ Known(outer_pc, outer_min) /\ Fresh
      /\ Due(pc, min_id) = 0 /\ Due(outer_pc, outer_min) = 0
  BY <1>2 DEF Known, Fresh, Due
<1>7. JobsOK
  <2>1. Cardinality(ids) < MaxRows + Band + skipped + 0 + 0
    BY <1>3, <1>4, LimitAssumption
  <2>2. QED
    BY <1>2, <1>3, <1>5, <1>6, <2>1 DEF JobsOK, LogStatement
<1>8. QED
  BY <1>1, <1>2, <1>6, <1>7 DEF NestInv, PlacesOK

LEMMA NestedInvariance == NestedSpec => []NestInv
<1>1. NestedInit => NestInv
  BY NestedInitInv
<1>2. NestInv /\ [NestedNext]_nested_vars => NestInv'
  BY NestedStepInv
<1>3. QED
  BY <1>1, <1>2, PTL DEF NestedSpec

-----------------------------------------------------------------------------
\* Handlers in DB_AddRow keep the shape of the state, and only one that has
\* handed its row over has statements left.
THEOREM NestedTyped == NestedSpec => []NestedTypeOK
<1>1. NestedInit => BridgeTypeOK
  BY InitInv DEF NestedInit, IInv, BridgeInit, BridgeTypeOK
<1>2. NestInv /\ NestInv' /\ BridgeTypeOK /\ [NestedNext]_nested_vars => BridgeTypeOK'
  BY BridgeStep, SleeperInv DEF NestInv
<1>3. NestInv /\ BridgeTypeOK => NestedTypeOK
  BY DEF NestInv, JobsOK, PlacesOK, LogStatement, NestedTypeOK
<1>4. QED
  BY <1>1, <1>2, <1>3, NestedInvariance, PTL DEF NestedSpec

\* The ids of the log have no gap, also when a handler deletes a band that
\* another one has deleted (x.id = y.id + 1, up2web_comm.cpp:559).
THEOREM NestedIdsContiguous == NestedSpec => []Contiguous
<1>1. NestInv => Contiguous
  BY DEF NestInv, JobsOK, LogTypeOK, Interval, IdsFrom, Contiguous
<1>2. QED
  BY <1>1, NestedInvariance, PTL

\* Nested handlers do not let the log grow further than handlers in sequence
\* (up2web_comm.cpp:322-347).
THEOREM NestedSizeIsBounded == NestedSpec => []NestedSize
<1>1. ASSUME NestInv PROVE NestedSize
  <2>1. /\ Due(pc, min_id) <= IF pc = "idle" THEN 0 ELSE 1
        /\ Due(outer_pc, outer_min) <= IF outer_pc = "idle" THEN 0 ELSE 1
    BY DEF Due
  <2>2. JobsOK
    BY <1>1 DEF NestInv
  <2>3. Due(pc, min_id) + Due(outer_pc, outer_min) <= Busy
    BY <2>1, <2>2, Sizes DEF Busy
  <2>4. Busy \in Nat
    BY DEF Busy
  <2>5. QED
    BY <2>2, <2>3, <2>4, Sizes DEF NestedSize, JobsOK
<1>2. QED
  BY <1>1, NestedInvariance, PTL

\* An id never names a second row: prunes that overlap do not empty the log
\* (paging by "id", up2web_comm.cpp:423-433).
THEOREM NestedIdsNameOneRow == NestedSpec => IdsNeverReused
<1>1. ASSUME NestInv, [NestedNext]_nested_vars
      PROVE  \A i \in ids' \ ids : i > issued
  <2>1. CASE Insert
    <3>1. NextId = issued + 1 /\ issued \in Nat
      BY <1>1, NextIdFollows, Sizes DEF NestInv, JobsOK
    <3>2. QED
      BY <2>1, <3>1 DEF Insert
  <2>2. CASE ~Insert
    <3>1. ids' \subseteq ids
      BY <1>1, <2>2 DEF NestedNext, Elsewhere, Nest, Store, Prune, Return, InsertFails, Count,
         FindMin, Delete, Kept, PruneFails, nested_vars, log_vars
    <3>2. QED
      BY <3>1
  <2>3. QED
    BY <2>1, <2>2
<1>2. NestInv /\ [NestedNext]_nested_vars => [\A i \in ids' \ ids : i > issued]_log_vars
  BY <1>1
<1>3. QED
  BY <1>2, NestedInvariance, PTL DEF NestedSpec, IdsNeverReused

\* Only a DELETE takes rows out of the log; those that stay are newer, and as
\* many as the log has rows after it.
LEMMA DeletedAreOldest ==
  ASSUME NestInv, [NestedNext]_nested_vars, NEW i \in ids \ ids'
  PROVE  /\ Delete /\ min_id = Min(ids)
         /\ Cardinality(ids') = Cardinality(ids) - Band
         /\ {j \in ids' : j > i} = ids'
<1>1. JobsOK
  BY DEF NestInv
<1>2. Delete
  BY DEF NestedNext, Elsewhere, Nest, Store, Prune, Return, Insert, InsertFails, Count, FindMin,
     PruneFails, nested_vars, log_vars
<1>3. PICK lo \in 1..issued : ids = lo..issued /\ ids' = lo + Band..issued
  BY <1>1, <1>2, DeleteTakes
<1>4. \A j \in ids' : j > i
  BY <1>1, <1>3, Sizes
<1>5. min_id = Min(ids) /\ Cardinality(ids') = Cardinality(ids) - Band
  BY <1>1, <1>2, DeleteTakes
<1>6. QED
  BY <1>2, <1>4, <1>5

\* However the handlers nest, the newest MAXLOGROWNUMS rows but one band are
\* kept (up2web_comm.cpp:331-341).
THEOREM BandsAreRetained == NestedSpec => BandRetained
<1>1. ASSUME NestInv, [NestedNext]_nested_vars
      PROVE  \A i \in ids \ ids' : Cardinality({j \in ids' : j > i}) >= MaxRows - Band
  <2>1. ASSUME NEW i \in ids \ ids'
        PROVE  Cardinality({j \in ids' : j > i}) >= MaxRows - Band
    <3>1. Delete /\ JobsOK /\ Cardinality(ids') = Cardinality(ids) - Band
          /\ {j \in ids' : j > i} = ids'
      BY <1>1, <2>1, DeletedAreOldest DEF NestInv
    <3>2. Cardinality(ids) >= MaxRows
      BY <3>1 DEF Delete, JobsOK, Known
    <3>3. QED
      BY <3>1, <3>2, Sizes
  <2>2. QED
    BY <2>1
<1>2. NestInv /\ [NestedNext]_nested_vars
        => [\A i \in ids \ ids' : Cardinality({j \in ids' : j > i}) >= MaxRows - Band]_nested_vars
  BY <1>1
<1>3. QED
  BY <1>2, NestedInvariance, PTL DEF NestedSpec, BandRetained

-----------------------------------------------------------------------------
(***************************************************************************)
(* Without the timer handlers do not nest, and nobody comes between the    *)
(* statements of a row.                                                    *)
(***************************************************************************)
SteadyInv == NestInv /\ SerialInv /\ outer_pc = "idle" /\ Fresh

LEMMA SteadyStep ==
  ASSUME ~TimerFires, SteadyInv, [NestedNext]_nested_vars
  PROVE  SteadyInv'
<1>1. NestInv' /\ SerialInv' /\ JobsOK
  BY BridgeStep, NestedStepInv, StepSerial DEF SteadyInv, NestInv
<1>2. CASE Elsewhere \/ UNCHANGED nested_vars
  <2>1. UNCHANGED <<log_vars, outer_pc, outer_min>>
    BY <1>2 DEF Elsewhere, nested_vars
  <2>2. QED
    BY <1>1, <2>1, SameJobs DEF SteadyInv
<1>3. ASSUME NEW sig \in Sig, Nest(sig)
      PROVE  SteadyInv'
  <2>1. Deliver(sig) /\ pc' = "idle" /\ outer_pc' = pc
    BY <1>3 DEF Nest
  <2>2. Here = "none" /\ stack = <<>>
    <3>1. Here = "none"
      BY <2>1, DeliverSerial DEF SteadyInv
    <3>2. stack # <<>> => Here \in Label
      BY HereType DEF SteadyInv
    <3>3. QED
      BY <3>1, <3>2 DEF Label
  <2>3. pc = "idle"
    BY <2>2 DEF SteadyInv, NestInv, PlacesOK, At
  <2>4. QED
    BY <1>1, <2>1, <2>3 DEF SteadyInv, Fresh
<1>4. CASE Store \/ Prune
  <2>1. UNCHANGED outer_pc
    BY <1>4 DEF Store, Prune
  <2>2. QED
    BY <1>1, <1>4, <2>1, StatementJobs DEF SteadyInv
<1>5. CASE Return
  BY <1>1, <1>5 DEF Return, SteadyInv, Fresh
<1>6. QED
  BY <1>2, <1>3, <1>4, <1>5 DEF NestedNext

\* Without the timer a row leaves the log only when the newest MAXLOGROWNUMS
\* rows remain (up2web_comm.cpp:331-341).
THEOREM SteadyRowsAreRetained ==
  ASSUME ~TimerFires
  PROVE  NestedSpec => Retention
<1>1. NestedInit => SteadyInv
  BY NestedInitInv, InitSerial DEF NestedInit, SteadyInv
<1>2. SteadyInv /\ [NestedNext]_nested_vars => SteadyInv'
  BY SteadyStep
<1>3. ASSUME SteadyInv, [NestedNext]_nested_vars
      PROVE  \A i \in ids \ ids' : Cardinality({j \in ids' : j > i}) >= MaxRows
  <2>1. ASSUME NEW i \in ids \ ids'
        PROVE  Cardinality({j \in ids' : j > i}) >= MaxRows
    <3>1. Delete /\ JobsOK /\ Cardinality(ids') = Cardinality(ids) - Band
          /\ {j \in ids' : j > i} = ids'
      BY <1>3, <2>1, DeletedAreOldest DEF SteadyInv, NestInv
    <3>2. Cardinality(ids) >= MaxRows + Band
      BY <1>3, <3>1 DEF Delete, SteadyInv, Fresh
    <3>3. QED
      BY <3>1, <3>2, Sizes
  <2>2. QED
    BY <2>1
<1>4. SteadyInv /\ [NestedNext]_nested_vars
        => [\A i \in ids \ ids' : Cardinality({j \in ids' : j > i}) >= MaxRows]_log_vars
  BY <1>3
<1>5. QED
  BY <1>1, <1>2, <1>4, PTL DEF NestedSpec, Retention
=============================================================================
