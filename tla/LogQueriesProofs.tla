-------------------------- MODULE LogQueriesProofs --------------------------
(***************************************************************************)
(* Theorems about the answers to the web server's requests, for every set  *)
(* of rows and requests, every size of the log and every width of int.     *)
(* First what LIMIT, GROUP BY and the self-join return of any log; then    *)
(* what is known of a base while the log changes before its second SELECT. *)
(***************************************************************************)
EXTENDS LogQueries, LogTableProofs

-----------------------------------------------------------------------------
(***************************************************************************)
(* Sets of ids and their order.                                            *)
(***************************************************************************)
LEMMA SmallestExists ==
  ASSUME NEW T, T \subseteq Nat, T # {}
  PROVE  \E x \in T : \A y \in T : x <= y
<1>1. PICK x \in T : \A y \in T : <<y, x>> \notin OpToRel(<, Nat)
  BY NatLessThanWellFounded, WFMin
<1>2. ASSUME NEW y \in T
      PROVE  x <= y
  <2>1. x \in Nat /\ y \in Nat
    OBVIOUS
  <2>2. y < x => <<y, x>> \in OpToRel(<, Nat)
    BY <2>1, Zenon DEF OpToRel
  <2>3. ~(y < x)
    BY <1>1, <2>2, Zenon
  <2>4. QED
    BY <2>1, <2>3
<1>3. QED
  BY <1>2

LEMMA LargestExists ==
  ASSUME NEW k \in Nat, NEW T, T \subseteq 0..k, T # {}
  PROVE  \E x \in T : \A y \in T : y <= x
<1> DEFINE U == {k - i : i \in T}
<1>1. U \subseteq Nat /\ U # {}
  <2>1. \A i \in T : k - i \in Nat
    OBVIOUS
  <2>2. PICK i : i \in T
    OBVIOUS
  <2>3. k - i \in U
    BY <2>2
  <2>4. QED
    BY <2>1, <2>3
<1>2. PICK m \in U : \A u \in U : m <= u
  <2> HIDE DEF U
  <2>1. QED
    BY <1>1, SmallestExists
<1>3. PICK x \in T : m = k - x
  OBVIOUS
<1>4. ASSUME NEW y \in T
      PROVE  y <= x
  <2>1. k - x <= k - y /\ x \in Nat /\ y \in Nat
    BY <1>2, <1>3
  <2>2. QED
    BY <2>1
<1>5. QED
  BY <1>4

\* The ends of a set of ids, as min() and max() find them.
LEMMA EndsOfSet ==
  ASSUME NEW k \in Nat, NEW T, T \subseteq 0..k, T # {}
  PROVE  /\ Min(T) \in T /\ \A y \in T : Min(T) <= y
         /\ Max(T) \in T /\ \A y \in T : y <= Max(T)
<1>1. \E x \in T : \A y \in T : x <= y
  <2>1. T \subseteq Nat
    OBVIOUS
  <2>2. QED
    BY <2>1, SmallestExists
<1>2. \E x \in T : \A y \in T : y <= x
  BY LargestExists
<1>3. Min(T) \in T /\ \A y \in T : Min(T) <= y
  BY <1>1 DEF Min
<1>4. Max(T) \in T /\ \A y \in T : y <= Max(T)
  <2>1. \E x \in T : \A y \in T : x >= y
    BY <1>2
  <2>2. QED
    BY <2>1 DEF Max
<1>5. QED
  BY <1>3, <1>4

\* One of two ids is nearer, and one of a set the nearest.
LEMMA NearerOrder ==
  ASSUME NEW i \in Nat, NEW j \in Nat, NEW up \in BOOLEAN
  PROVE  /\ i = j \/ Nearer(i, j, up) \/ Nearer(j, i, up)
         /\ ~(Nearer(i, j, up) /\ Nearer(j, i, up)) /\ ~Nearer(i, i, up)
<1>1. CASE up
  BY <1>1 DEF Nearer
<1>2. CASE ~up
  BY <1>2 DEF Nearer
<1>3. QED
  BY <1>1, <1>2

LEMMA NearerTransitive ==
  ASSUME NEW i \in Nat, NEW j \in Nat, NEW k \in Nat, NEW up \in BOOLEAN,
         Nearer(i, j, up), Nearer(j, k, up)
  PROVE  Nearer(i, k, up)
<1>1. CASE up
  BY <1>1 DEF Nearer
<1>2. CASE ~up
  BY <1>2 DEF Nearer
<1>3. QED
  BY <1>1, <1>2

LEMMA NearestExists ==
  ASSUME NEW k \in Nat, NEW T, T \subseteq 0..k, T # {}, NEW up \in BOOLEAN
  PROVE  \E x \in T : \A y \in T : y = x \/ Nearer(x, y, up)
<1>1. /\ Min(T) \in T /\ \A y \in T : Min(T) <= y
      /\ Max(T) \in T /\ \A y \in T : y <= Max(T)
  BY EndsOfSet
<1>2. ASSUME NEW y \in T
      PROVE  /\ y = Min(T) \/ Min(T) < y
             /\ y = Max(T) \/ Max(T) > y
  <2>1. y \in Nat /\ Min(T) \in Nat /\ Max(T) \in Nat
    <3>1. \A x \in T : x \in Nat
      OBVIOUS
    <3>2. QED
      BY <1>1, <3>1
  <2>2. Min(T) <= y /\ y <= Max(T)
    BY <1>1
  <2>3. QED
    BY <2>1, <2>2
<1>3. CASE up
  <2>1. \A y \in T : y = Min(T) \/ Nearer(Min(T), y, up)
    BY <1>2, <1>3 DEF Nearer
  <2>2. QED
    BY <1>1, <2>1
<1>4. CASE ~up
  <2>1. \A y \in T : y = Max(T) \/ Nearer(Max(T), y, up)
    BY <1>2, <1>4 DEF Nearer
  <2>2. QED
    BY <1>1, <2>1
<1>5. QED
  BY <1>3, <1>4

-----------------------------------------------------------------------------
(***************************************************************************)
(* What ORDER BY id LIMIT n returns of a set of ids.                       *)
(***************************************************************************)
Before(S, i, up) == {j \in S : Nearer(j, i, up)}

LEMMA LimitBefore ==
  ASSUME NEW S, NEW up \in BOOLEAN, NEW n \in Int
  PROVE  Limit(S, up, n) = {i \in S : n < 0 \/ Cardinality(Before(S, i, up)) < n}
<1>1. CASE up
  <2>1. \A i \in S : Before(S, i, up) = {j \in S : j < i}
    BY <1>1 DEF Before, Nearer
  <2>2. Limit(S, up, n) = {i \in S : n < 0 \/ Cardinality({j \in S : j < i}) < n}
    BY <1>1 DEF Limit
  <2>3. QED
    BY <2>1, <2>2
<1>2. CASE ~up
  <2>1. \A i \in S : Before(S, i, up) = {j \in S : j > i}
    BY <1>2 DEF Before, Nearer
  <2>2. Limit(S, up, n) = {i \in S : n < 0 \/ Cardinality({j \in S : j > i}) < n}
    BY <1>2 DEF Limit
  <2>3. QED
    BY <2>1, <2>2
<1>3. QED
  BY <1>1, <1>2

LEMMA IdsFinite ==
  ASSUME NEW k \in Nat, NEW S, S \subseteq 0..k
  PROVE  S \subseteq Nat /\ IsFiniteSet(S)
<1>1. IsFiniteSet(0..k)
  BY FS_Interval
<1>2. IsFiniteSet(S)
  BY <1>1, FS_Subset
<1>3. QED
  BY <1>2

\* The farther an id, the more ids there are before it.
LEMMA BeforeGrows ==
  ASSUME NEW k \in Nat, NEW S, S \subseteq 0..k, NEW up \in BOOLEAN,
         NEW i \in S, NEW j \in S, Nearer(i, j, up)
  PROVE  /\ Cardinality(Before(S, i, up)) \in Nat
         /\ Cardinality(Before(S, j, up)) \in Nat
         /\ Cardinality(Before(S, i, up)) < Cardinality(Before(S, j, up))
<1>1. S \subseteq Nat /\ IsFiniteSet(S)
  BY IdsFinite
<1>2. Before(S, i, up) \subseteq Before(S, j, up)
  <2>1. ASSUME NEW x \in Before(S, i, up)
        PROVE  x \in Before(S, j, up)
    <3>1. x \in S /\ Nearer(x, i, up) /\ x \in Nat /\ i \in Nat /\ j \in Nat
      BY <1>1 DEF Before
    <3>2. Nearer(x, j, up)
      BY <3>1, NearerTransitive
    <3>3. QED
      BY <3>1, <3>2 DEF Before
  <2>2. QED
    BY <2>1
<1>3. i \in Before(S, j, up) /\ i \notin Before(S, i, up)
  BY <1>1, NearerOrder DEF Before
<1>4. IsFiniteSet(Before(S, j, up)) /\ IsFiniteSet(Before(S, i, up))
  <2>1. Before(S, j, up) \in SUBSET S /\ Before(S, i, up) \in SUBSET S
    BY DEF Before
  <2>2. QED
    BY <1>1, <2>1, FS_Subset
<1>5. /\ Cardinality(Before(S, i, up)) <= Cardinality(Before(S, j, up))
      /\ Cardinality(Before(S, i, up)) # Cardinality(Before(S, j, up))
  BY <1>2, <1>3, <1>4, FS_Subset
<1>6. /\ Cardinality(Before(S, i, up)) \in Nat
      /\ Cardinality(Before(S, j, up)) \in Nat
  BY <1>4, FS_CardinalityType
<1>7. QED
  BY <1>5, <1>6

\* What is left out is farther than all that is taken.
LEMMA LimitTakesNearest ==
  ASSUME NEW k \in Nat, NEW S, S \subseteq 0..k, NEW up \in BOOLEAN, NEW n \in Int,
         NEW a \in Limit(S, up, n), NEW i \in S \ Limit(S, up, n)
  PROVE  Nearer(a, i, up) /\ n >= 0
<1>1. Limit(S, up, n) = {j \in S : n < 0 \/ Cardinality(Before(S, j, up)) < n}
  BY LimitBefore
<1>2. a \in S /\ a # i /\ a \in Nat /\ i \in Nat /\ n >= 0
  <2>1. i \in S /\ a \in S /\ a # i /\ ~(n < 0)
    BY <1>1
  <2>2. a \in Nat /\ i \in Nat
    BY <2>1, IdsFinite
  <2>3. QED
    BY <2>1, <2>2
<1>3. Cardinality(Before(S, a, up)) < n /\ ~(Cardinality(Before(S, i, up)) < n)
  BY <1>1, <1>2
<1>4. ~Nearer(i, a, up)
  <2>1. SUFFICES ASSUME Nearer(i, a, up)
                 PROVE  FALSE
    OBVIOUS
  <2>2. /\ Cardinality(Before(S, i, up)) \in Nat
        /\ Cardinality(Before(S, a, up)) \in Nat
        /\ Cardinality(Before(S, i, up)) < Cardinality(Before(S, a, up))
    BY <1>2, <2>1, BeforeGrows
  <2>3. QED
    BY <1>3, <2>2
<1>5. QED
  BY <1>2, <1>4, NearerOrder

\* No more than n are taken, and n if any is left out.
LEMMA LimitSize ==
  ASSUME NEW k \in Nat, NEW S, S \subseteq 0..k, NEW up \in BOOLEAN, NEW n \in Nat
  PROVE  /\ Cardinality(Limit(S, up, n)) \in Nat
         /\ Cardinality(Limit(S, up, n)) <= n
         /\ S \ Limit(S, up, n) # {} => Cardinality(Limit(S, up, n)) = n
<1> DEFINE L == Limit(S, up, n)
           f == [i \in L |-> Cardinality(Before(S, i, up))]
<1>1. L = {i \in S : Cardinality(Before(S, i, up)) < n}
  BY LimitBefore
<1>2. S \subseteq Nat /\ L \subseteq S /\ IsFiniteSet(S) /\ IsFiniteSet(L)
  <2>1. S \subseteq Nat /\ L \subseteq S
    BY <1>1
  <2>2. IsFiniteSet(S)
    BY IdsFinite
  <2>3. IsFiniteSet(L)
    BY <2>1, <2>2, FS_Subset
  <2>4. QED
    BY <2>1, <2>2, <2>3
<1> HIDE DEF L
<1>3. \A i \in S : Cardinality(Before(S, i, up)) \in Nat
  <2>1. \A i \in S : Before(S, i, up) \in SUBSET S
    BY DEF Before
  <2>2. \A i \in S : IsFiniteSet(Before(S, i, up))
    BY <1>2, <2>1, FS_Subset
  <2>3. QED
    BY <2>2, FS_CardinalityType
<1>4. \A i \in L : Cardinality(Before(S, i, up)) \in 0..n - 1
  BY <1>1, <1>3
<1>5. ASSUME NEW i \in L, NEW j \in L, i # j
      PROVE  Cardinality(Before(S, i, up)) # Cardinality(Before(S, j, up))
  <2>1. i \in S /\ j \in S /\ i \in Nat /\ j \in Nat
    BY <1>2
  <2>2. Nearer(i, j, up) \/ Nearer(j, i, up)
    BY <1>5, <2>1, NearerOrder
  <2>3. CASE Nearer(i, j, up)
    <3>1. /\ Cardinality(Before(S, i, up)) \in Nat
          /\ Cardinality(Before(S, j, up)) \in Nat
          /\ Cardinality(Before(S, i, up)) < Cardinality(Before(S, j, up))
      BY <2>1, <2>3, BeforeGrows
    <3>2. QED
      BY <3>1
  <2>4. CASE Nearer(j, i, up)
    <3>1. /\ Cardinality(Before(S, j, up)) \in Nat
          /\ Cardinality(Before(S, i, up)) \in Nat
          /\ Cardinality(Before(S, j, up)) < Cardinality(Before(S, i, up))
      BY <2>1, <2>4, BeforeGrows
    <3>2. QED
      BY <3>1
  <2>5. QED
    BY <2>2, <2>3, <2>4
<1>6. f \in Injection(L, 0..n - 1)
  BY <1>4, <1>5 DEF Injection, IsInjective
<1>7. Cardinality(L) \in Nat /\ Cardinality(L) <= n
  <2>1. IsFiniteSet(0..n - 1) /\ Cardinality(0..n - 1) = n
    BY FS_Interval
  <2>2. QED
    BY <1>2, <1>6, <2>1, FS_Injection, FS_CardinalityType
<1>8. ASSUME S \ L # {}
      PROVE  Cardinality(L) = n
  <2>1. PICK i \in S \ L : \A y \in S \ L : y = i \/ Nearer(i, y, up)
    BY <1>8, NearestExists
  <2>2. i \in Nat /\ \A j \in S : j \in Nat
    BY <1>2, <2>1
  <2>3. ASSUME NEW j \in L
        PROVE  Nearer(j, i, up)
    <3>1. n \in Int /\ i \in S \ Limit(S, up, n) /\ j \in Limit(S, up, n)
      BY <2>1, <2>3 DEF L
    <3>2. QED
      BY <3>1, LimitTakesNearest
  <2>4. \A j \in S : Nearer(j, i, up) => j \in L
    BY <2>1, <2>2, NearerOrder
  <2>5. Before(S, i, up) = L
    BY <1>2, <2>3, <2>4 DEF Before
  <2>6. ~(Cardinality(L) < n)
    BY <1>1, <2>1, <2>5
  <2>7. QED
    BY <1>7, <2>6
<1>9. QED
  BY <1>7, <1>8 DEF L

-----------------------------------------------------------------------------
(***************************************************************************)
(* The log, and the inductive invariant.                                   *)
(***************************************************************************)
LEMMA IdsRange ==
  ASSUME LogInv
  PROVE  /\ issued \in Nat /\ ids \subseteq 1..issued /\ ids \subseteq 0..issued
         /\ issued # 0 => issued \in ids
         /\ \A i \in ids : \A j \in i..issued : j \in ids
<1>1. issued \in Nat
  BY DEF LogInv, LogTypeOK
<1>2. CASE ids = {} /\ issued = 0
  BY <1>1, <1>2
<1>3. CASE \E lo \in Nat : IdsFrom(lo)
  <2>1. PICK lo \in Nat : lo \in 1..issued /\ ids = lo..issued
    BY <1>3 DEF IdsFrom
  <2>2. QED
    BY <1>1, <2>1
<1>4. QED
  BY <1>2, <1>3 DEF LogInv, Interval

\* The pump's counter does not run backwards in the log.
Sorted == \A i, j \in ids : i < j => data[i].counter <= data[j].counter

\* What is left of the choice of a base while the log goes on.
BaseKept == base_id \in ids \/ issued - base_id >= MaxRows
BaseFirst == req.base = "first" => \A j \in ids : base_id <= j
BaseCounter ==
  req.base = "counter" /\ req.up =>
    \A j \in ids : /\ j < base_id => data[j].counter < req.arg
                   /\ base_id <= j => req.arg <= data[j].counter

QueryInv ==
  /\ LogInv
  /\ QueryTypeOK
  /\ Sorted
  /\ req # None => BaseKept /\ BaseFirst /\ BaseCounter

\* Rows and requests.
LEMMA DataType ==
  ASSUME QueryInv
  PROVE  /\ \A i \in ids : data[i].counter \in Nat /\ data[i].alarms \subseteq Bit
         /\ \A r \in Asking : /\ r.tag \in {"table", "alarms"} /\ r.base \in Base
                              /\ r.arg \in Int /\ r.amount \in Int /\ r.up \in BOOLEAN
                              /\ r.filter \subseteq Bit
         /\ issued \in Nat
<1>1. \A i \in ids : data[i].counter \in Nat /\ data[i].alarms \subseteq Bit
  BY RequestAssumption DEF QueryInv, QueryTypeOK
<1>2. \A r \in Asking : /\ r.tag \in {"table", "alarms"} /\ r.base \in Base
                        /\ r.arg \in Int /\ r.amount \in Int /\ r.up \in BOOLEAN
                        /\ r.filter \subseteq Bit
  BY RequestAssumption DEF Request
<1>3. QED
  BY <1>1, <1>2, IdsRange DEF QueryInv

\* The base is one of its candidates, the first or the last.
LEMMA CandidatesLogged ==
  ASSUME NEW r, r.base \in Base
  PROVE  Candidates(r) \subseteq ids
<1>1. CASE r.base \in {"last", "first"}
  BY <1>1 DEF Candidates
<1>2. CASE r.base = "id"
  BY <1>2 DEF Candidates
<1>3. CASE r.base = "date"
  BY <1>3 DEF Candidates
<1>4. CASE r.base = "counter"
  BY <1>4 DEF Candidates
<1>5. QED
  BY <1>1, <1>2, <1>3, <1>4 DEF Base

LEMMA BaseFound ==
  ASSUME QueryInv, NEW r \in Asking, BaseId(r) >= 0
  PROVE  /\ BaseId(r) \in Candidates(r) /\ BaseId(r) \in ids
         /\ Candidates(r) \subseteq ids
         /\ Up(r) => \A j \in Candidates(r) : BaseId(r) <= j
<1>1. Candidates(r) \subseteq ids
  BY DataType, CandidatesLogged
<1>2. Candidates(r) \subseteq 0..issued /\ issued \in Nat
  BY <1>1, IdsRange DEF QueryInv
<1>3. Candidates(r) # {}
  BY DEF BaseId
<1>4. /\ Min(Candidates(r)) \in Candidates(r)
      /\ \A y \in Candidates(r) : Min(Candidates(r)) <= y
      /\ Max(Candidates(r)) \in Candidates(r)
  BY <1>2, <1>3, EndsOfSet
<1>5. CASE Up(r)
  BY <1>1, <1>3, <1>4, <1>5 DEF BaseId
<1>6. CASE ~Up(r)
  BY <1>1, <1>3, <1>4, <1>6 DEF BaseId
<1>7. QED
  BY <1>5, <1>6

-----------------------------------------------------------------------------
(***************************************************************************)
(* Every step keeps the inductive invariant.                               *)
(***************************************************************************)
\* A step of the parent adds the next row, or takes rows that are old.
LEMMA LogMoves ==
  ASSUME LogInv, LogNext
  PROVE  /\ issued' \in Nat /\ issued <= issued'
         /\ \A i \in ids' \ ids : i > issued /\ ids \subseteq ids'
         /\ \A i \in ids \ ids' : issued' - i >= MaxRows
<1>1. issued \in Nat /\ ids \subseteq 1..issued
  BY IdsRange
<1>2. CASE Insert
  <2>1. NextId = issued + 1 /\ issued' = issued + 1
    BY <1>2, NextIdFollows, InsertProlongs DEF LogInv
  <2>2. QED
    BY <1>1, <1>2, <2>1 DEF Insert
<1>3. CASE Delete
  <2>1. PICK lo \in Nat : /\ lo \in 1..issued /\ ids = lo..issued
                          /\ ids' = lo + Band..issued /\ lo + Band <= issued
    BY <1>3, DeleteTakesBand DEF IdsFrom, LogInv
  <2>2. UNCHANGED issued /\ Cardinality(ids') >= MaxRows
    BY <1>3, DeleteTakesBand DEF Delete
  <2>3. Cardinality(ids') = issued - (lo + Band) + 1
    BY <1>1, <2>1, IntervalFacts, LimitAssumption
  <2>4. \A i \in ids \ ids' : issued - i >= MaxRows
    BY <1>1, <2>1, <2>2, <2>3, LimitAssumption
  <2>5. ids' \ ids = {}
    BY <1>1, <2>1, LimitAssumption
  <2>6. QED
    BY <1>1, <2>2, <2>4, <2>5
<1>4. CASE ~Insert /\ ~Delete
  <2>1. UNCHANGED <<ids, issued>>
    BY <1>4 DEF LogNext, Open, InsertFails, Count, FindMin, PruneFails, Crash, log_vars
  <2>2. QED
    BY <1>1, <2>1
<1>5. QED
  BY <1>2, <1>3, <1>4

LEMMA ParentInv ==
  ASSUME QueryInv, ParentStep
  PROVE  QueryInv'
<1>1. LogInv /\ LogNext /\ UNCHANGED <<req, base_id>> /\ answer' = {}
  BY DEF QueryInv, ParentStep
<1>2. LogInv'
  BY <1>1, LogStepInv
<1>3. /\ issued \in Nat /\ issued' \in Nat /\ issued <= issued'
      /\ \A i \in ids' \ ids : i > issued /\ ids \subseteq ids'
      /\ \A i \in ids \ ids' : issued' - i >= MaxRows
      /\ ids \subseteq 1..issued /\ (issued # 0 => issued \in ids)
      /\ ids' \subseteq Nat
  BY <1>1, <1>2, LogMoves, IdsRange DEF LogInv, LogTypeOK
<1>4. PICK row \in RowValue : data' = [i \in ids' |-> IF i \in ids THEN data[i] ELSE row]
  BY DEF ParentStep
<1>5. Sorted'
  BY DEF ParentStep, Sorted
<1>6. DOMAIN data' = ids' /\ \A i \in ids' : data'[i] \in RowValue
  BY <1>4 DEF QueryInv, QueryTypeOK
<1>7. \A i \in ids : i \in ids' => data'[i] = data[i]
  BY <1>4
<1>8. QueryTypeOK'
  <2>1. base_id' \in (IF req' = None THEN {0} ELSE 1..issued')
    BY <1>1, <1>3 DEF QueryInv, QueryTypeOK
  <2>2. QED
    BY <1>1, <1>2, <1>6, <2>1 DEF LogInv, QueryInv, QueryTypeOK
<1>9. ASSUME req # None
      PROVE  BaseKept' /\ BaseFirst' /\ BaseCounter'
  <2>1. base_id \in 1..issued /\ issued \in ids /\ req \in Asking
        /\ BaseKept /\ BaseFirst /\ BaseCounter
    BY <1>3, <1>9 DEF QueryInv, QueryTypeOK
  <2>2. BaseKept'
    <3>1. MaxRows \in Nat /\ base_id \in Nat /\ base_id' = base_id
      BY <1>1, <1>3, <2>1, LimitAssumption
    <3>2. CASE base_id \in ids
      <4>1. base_id \in ids' \/ issued' - base_id >= MaxRows
        BY <1>3, <3>2
      <4>2. QED
        BY <3>1, <4>1 DEF BaseKept
    <3>3. CASE issued - base_id >= MaxRows
      <4>1. PICK p \in Nat, q \in Nat, b \in Nat, m \in Nat :
              p = issued /\ q = issued' /\ b = base_id /\ m = MaxRows
        BY <1>3, <3>1
      <4>2. p <= q
        BY <1>3, <4>1
      <4>3. p - b >= m
        BY <3>3, <4>1
      <4>4. q - b >= m
        BY <4>2, <4>3
      <4>5. QED
        BY <3>1, <4>1, <4>4 DEF BaseKept
    <3>4. QED
      BY <2>1, <3>2, <3>3 DEF BaseKept
  <2>3. \A j \in ids' \ ids : j \in Nat /\ base_id < j
    BY <1>3, <2>1
  <2>4. BaseFirst'
    BY <1>1, <1>3, <2>1, <2>3 DEF BaseFirst
  <2>5. ASSUME req.base = "counter", req.up, NEW j \in ids'
        PROVE  /\ j < base_id => data'[j].counter < req.arg
               /\ base_id <= j => req.arg <= data'[j].counter
    <3>1. CASE j \in ids
      BY <1>7, <2>1, <2>5, <3>1 DEF BaseCounter
    <3>2. CASE j \notin ids
      <4>1. issued < j /\ issued \in ids' /\ base_id < j
        BY <1>3, <2>1, <2>3, <3>2
      <4>2. data'[issued].counter <= data'[j].counter
        BY <1>5, <4>1 DEF Sorted
      <4>3. req.arg <= data[issued].counter /\ data'[issued] = data[issued]
        BY <1>3, <1>7, <2>1, <2>5, <4>1 DEF BaseCounter
      <4>4. PICK a \in Int, b \in Nat, c \in Nat :
              a = req.arg /\ b = data[issued].counter /\ c = data'[j].counter
        BY <1>6, <2>1, RequestAssumption, DataType
      <4>5. a <= b /\ b <= c
        BY <4>2, <4>3, <4>4
      <4>6. a <= c /\ ~(j < base_id)
        BY <1>3, <2>1, <4>1, <4>5
      <4>7. QED
        BY <4>4, <4>6
    <3>3. QED
      BY <3>1, <3>2
  <2>6. BaseCounter'
    BY <1>1, <2>5 DEF BaseCounter
  <2>7. QED
    BY <2>2, <2>4, <2>6
<1>10. QED
  BY <1>1, <1>2, <1>5, <1>8, <1>9 DEF QueryInv

LEMMA FindBaseInv ==
  ASSUME QueryInv, NEW r \in Asking, FindBase(r)
  PROVE  QueryInv'
<1>1. UNCHANGED <<log_vars, data>> /\ req = None
  BY DEF FindBase
<1>2. LogInv'
  BY <1>1, LogStepInv DEF QueryInv
<1>3. UNCHANGED <<ids, issued, data>> /\ Sorted'
  BY <1>1 DEF QueryInv, Sorted, log_vars
<1>4. CASE answer' = Error /\ UNCHANGED <<req, base_id>>
  <2>1. QueryTypeOK'
    BY <1>2, <1>3, <1>4 DEF QueryInv, QueryTypeOK, LogInv, Error
  <2>2. QED
    BY <1>1, <1>2, <1>3, <1>4, <2>1 DEF QueryInv
<1>5. CASE BaseId(r) >= 0 /\ answer' = {} /\ req' = r /\ base_id' = BaseId(r)
  <2>1. /\ BaseId(r) \in Candidates(r) /\ BaseId(r) \in ids
        /\ Up(r) => \A j \in Candidates(r) : BaseId(r) <= j
    BY <1>5, BaseFound
  <2>2. r # None
    BY RequestAssumption
  <2>3. base_id' \in 1..issued'
    BY <1>3, <1>5, <2>1, IdsRange DEF QueryInv
  <2>4. QueryTypeOK'
    BY <1>2, <1>3, <1>5, <2>2, <2>3 DEF QueryInv, QueryTypeOK, LogInv
  <2>5. BaseKept'
    BY <1>3, <1>5, <2>1 DEF BaseKept
  <2>6. BaseFirst'
    BY <1>3, <1>5, <2>1 DEF BaseFirst, Up, Candidates
  <2>7. BaseCounter'
    <3>1. ASSUME r.base = "counter", r.up, NEW j \in ids
          PROVE  /\ j < BaseId(r) => data[j].counter < r.arg
                 /\ BaseId(r) <= j => r.arg <= data[j].counter
      <4>1. Up(r) /\ Candidates(r) = {i \in ids : data[i].counter >= r.arg}
        BY <3>1 DEF Up, Candidates
      <4>2. PICK b \in ids : b = BaseId(r) /\ data[b].counter >= r.arg
        BY <2>1, <4>1
      <4>3. j \in Nat /\ b \in Nat
        BY <4>2, IdsRange DEF QueryInv
      <4>4. /\ data[j].counter \in Nat /\ data[b].counter \in Nat /\ r.arg \in Int
        BY <4>2, DataType
      <4>5. j < b => ~(data[j].counter >= r.arg)
        BY <2>1, <4>1, <4>2, <4>3
      <4>6. b < j => data[b].counter <= data[j].counter
        BY <4>2 DEF QueryInv, Sorted
      <4>7. QED
        BY <4>2, <4>3, <4>4, <4>5, <4>6
    <3>2. QED
      BY <1>3, <1>5, <3>1 DEF BaseCounter
  <2>8. QED
    BY <1>2, <1>3, <2>4, <2>5, <2>6, <2>7 DEF QueryInv
<1>6. QED
  BY <1>4, <1>5 DEF FindBase

\* An answer is made of rows.
LEMMA RowsLogged ==
  ASSUME NEW r, NEW b
  PROVE  RowsFor(r, b) \subseteq ids
BY DEF RowsFor, TableRows, AlarmRows, Limit, FirstOfCounter, InRange, AlarmChanges

LEMMA AnswerInv ==
  ASSUME QueryInv, Select \/ RequestFails
  PROVE  QueryInv'
<1>1. UNCHANGED <<log_vars, data>> /\ req' = None /\ base_id' = 0
  BY DEF Select, RequestFails
<1>2. LogInv'
  BY <1>1, LogStepInv DEF QueryInv
<1>3. UNCHANGED <<ids, issued, data>> /\ Sorted'
  BY <1>1 DEF QueryInv, Sorted, log_vars
<1>4. answer' \in SUBSET Nat
  <2>1. ids \subseteq Nat /\ Error \subseteq Nat
    BY DEF Error, QueryInv, LogInv, LogTypeOK
  <2>2. CASE Select
    <3>1. answer' = RowsFor(req, base_id)
      BY <2>2 DEF Select
    <3>2. QED
      BY <2>1, <3>1, RowsLogged, Zenon
  <2>3. CASE RequestFails
    BY <2>1, <2>3 DEF RequestFails
  <2>4. QED
    BY <2>2, <2>3
<1>5. QueryTypeOK'
  BY <1>1, <1>2, <1>3, <1>4 DEF QueryInv, QueryTypeOK, LogInv
<1>6. QED
  BY <1>1, <1>2, <1>3, <1>5 DEF QueryInv

LEMMA QueryInitInv ==
  ASSUME QueryInit
  PROVE  QueryInv
<1>1. LogInv /\ ids = {} /\ data = [i \in {} |-> 0]
  BY LogInitInv DEF QueryInit, LogInit
<1>2. QueryTypeOK
  BY <1>1 DEF QueryInit, QueryTypeOK, LogInv
<1>3. QED
  BY <1>1, <1>2 DEF QueryInit, QueryInv, Sorted

LEMMA QueryStepInv ==
  ASSUME QueryInv, [QueryNext]_query_vars
  PROVE  QueryInv'
<1>1. CASE UNCHANGED query_vars
  <2>1. UNCHANGED <<log_vars, data, req, base_id, answer>>
    BY <1>1 DEF query_vars
  <2>2. LogInv'
    BY <2>1, LogStepInv DEF QueryInv
  <2>3. QED
    BY <2>1, <2>2 DEF QueryInv, QueryTypeOK, Sorted, BaseKept, BaseFirst, BaseCounter, LogInv,
       log_vars
<1>2. QED
  BY <1>1, ParentInv, FindBaseInv, AnswerInv DEF QueryNext

THEOREM QueryInvariance == QuerySpec => []QueryInv
<1>1. QueryInit => QueryInv
  BY QueryInitInv
<1>2. QueryInv /\ [QueryNext]_query_vars => QueryInv'
  BY QueryStepInv
<1>3. QED
  BY <1>1, <1>2, PTL DEF QuerySpec

-----------------------------------------------------------------------------
(***************************************************************************)
(* The page an answer holds: a LIMIT of the rows chosen for the request.   *)
(***************************************************************************)
LEMMA MinOfTwo ==
  ASSUME NEW a \in Int, NEW b \in Int
  PROVE  Min({a, b}) = IF a <= b THEN a ELSE b
<1>1. CASE a <= b
  <2>1. a \in {a, b} /\ \A y \in {a, b} : a <= y
    BY <1>1
  <2>2. \A x \in {a, b} : (\A y \in {a, b} : x <= y) => x = a
    BY <1>1
  <2>3. QED
    BY <1>1, <2>1, <2>2 DEF Min
<1>2. CASE ~(a <= b)
  <2>1. b \in {a, b} /\ \A y \in {a, b} : b <= y
    BY <1>2
  <2>2. \A x \in {a, b} : (\A y \in {a, b} : x <= y) => x = b
    BY <1>2
  <2>3. QED
    BY <1>2, <2>1, <2>2 DEF Min
<1>3. QED
  BY <1>1, <1>2

\* An amount is cut at the maximum, and stays negative if it was narrowed so.
LEMMA AmountType ==
  ASSUME NEW n \in Int
  PROVE  /\ Narrow(n) \in Int /\ Amount(n) \in Int
         /\ Amount(n) <= MaxAmount
         /\ Amount(n) < 0 => Narrow(n) < 0
<1>1. Narrow(n) \in Int
  <2>1. PICK h \in Nat \ {0} : h = IntHalf
    BY RequestAssumption
  <2>2. PICK w \in Nat \ {0} : w = 2 * h
    OBVIOUS
  <2>3. (n + h) % w \in Int
    OBVIOUS
  <2>4. Narrow(n) = ((n + h) % w) - h
    BY <2>1, <2>2 DEF Narrow
  <2>5. QED
    BY <2>3, <2>4
<1>2. MaxAmount \in Nat
  BY RequestAssumption
<1>3. Amount(n) = IF Narrow(n) <= MaxAmount THEN Narrow(n) ELSE MaxAmount
  BY <1>1, <1>2, MinOfTwo DEF Amount
<1>4. QED
  BY <1>1, <1>2, <1>3

\* The rows a request is about, before its LIMIT.
Chosen(r, b) ==
  IF r.tag = "table" THEN FirstOfCounter(InRange(b, Up(r)))
  ELSE AlarmChanges(r.filter) \cap InRange(b, Up(r))

LEMMA SelectContext ==
  ASSUME QueryInv, Select
  PROVE  /\ req \in Asking /\ req # None /\ issued \in Nat /\ base_id \in 1..issued
         /\ ids \subseteq 0..issued /\ ids \subseteq Nat
         /\ Up(req) \in BOOLEAN
         /\ Amount(req.amount) \in Int
         /\ Chosen(req, base_id) \subseteq ids
         /\ answer' = Limit(Chosen(req, base_id), Up(req), Amount(req.amount))
<1>1. req \in Asking /\ req # None /\ base_id \in 1..issued
  BY DEF QueryInv, QueryTypeOK, Select
<1>2. issued \in Nat /\ ids \subseteq 0..issued
  BY IdsRange DEF QueryInv
<1>3. ids \subseteq Nat
  BY <1>2
<1>4. Up(req) \in BOOLEAN
  <2>1. req.up \in BOOLEAN
    BY <1>1, DataType
  <2>2. QED
    BY <2>1 DEF Up
<1>5. Amount(req.amount) \in Int
  BY <1>1, DataType, AmountType
<1>6. Chosen(req, base_id) \subseteq ids
  BY DEF Chosen, FirstOfCounter, InRange, AlarmChanges
<1>7. answer' = Limit(Chosen(req, base_id), Up(req), Amount(req.amount))
  <2>1. answer' = RowsFor(req, base_id)
    BY DEF Select
  <2>2. QED
    BY <2>1 DEF RowsFor, TableRows, AlarmRows, Chosen
<1>8. QED
  BY <1>1, <1>2, <1>3, <1>4, <1>5, <1>6, <1>7

\* An answer holds the nearest of the rows chosen, and is full if it lacks one.
LEMMA PageOfAnswer ==
  ASSUME QueryInv, Select
  PROVE  LET n == Amount(req.amount)
             left == Chosen(req, base_id) \ answer'
         IN  /\ answer' \subseteq Chosen(req, base_id)
             /\ \A i \in left, a \in answer' : Nearer(a, i, Up(req))
             /\ left # {} => Cardinality(answer') = n
             /\ n >= 0 => Cardinality(answer') <= n /\ Cardinality(answer') \in Nat
<1>1. PICK k \in Nat : Chosen(req, base_id) \subseteq 0..k
  BY SelectContext
<1>2. PICK n \in Int, up \in BOOLEAN, S \in SUBSET (0..k) :
        /\ n = Amount(req.amount) /\ up = Up(req) /\ S = Chosen(req, base_id)
        /\ answer' = Limit(S, up, n)
  <2>1. /\ issued \in Nat /\ ids \subseteq 0..issued
        /\ Up(req) \in BOOLEAN
        /\ Amount(req.amount) \in Int
        /\ Chosen(req, base_id) \subseteq ids
        /\ answer' = Limit(Chosen(req, base_id), Up(req), Amount(req.amount))
    BY SelectContext
  <2>2. Chosen(req, base_id) \in SUBSET (0..k)
    BY <1>1
  <2>3. QED
    BY <2>1, <2>2
<1>3. Limit(S, up, n) \subseteq S
  BY DEF Limit
<1>4. ASSUME NEW i \in S \ Limit(S, up, n), NEW a \in Limit(S, up, n)
      PROVE  Nearer(a, i, up)
  BY <1>4, LimitTakesNearest
<1>5. n >= 0 => /\ Cardinality(Limit(S, up, n)) \in Nat
                /\ Cardinality(Limit(S, up, n)) <= n
                /\ S \ Limit(S, up, n) # {} => Cardinality(Limit(S, up, n)) = n
  <2>1. ASSUME n >= 0
        PROVE  n \in Nat
    BY <2>1
  <2>2. QED
    BY <2>1, LimitSize
<1>6. S \ Limit(S, up, n) # {} => n >= 0
  <2>1. ASSUME n < 0
        PROVE  Limit(S, up, n) = S
    BY <2>1 DEF Limit
  <2>2. QED
    BY <2>1
<1>7. QED
  BY <1>2, <1>3, <1>4, <1>5, <1>6

\* The earliest row of a reading is one of the rows GROUP BY takes.
LEMMA EarliestTaken ==
  ASSUME LogInv, NEW R, R \subseteq ids, NEW i \in R
  PROVE  \E f \in FirstOfCounter(R) : data[f].counter = data[i].counter
<1> DEFINE T == {j \in R : data[j].counter = data[i].counter}
<1>1. T \subseteq Nat /\ T # {}
  BY IdsRange
<1>2. PICK f \in T : \A j \in T : f <= j
  <2> HIDE DEF T
  <2>1. QED
    BY <1>1, SmallestExists
<1>3. f \in FirstOfCounter(R) /\ data[f].counter = data[i].counter
  BY <1>2 DEF FirstOfCounter
<1>4. QED
  BY <1>3

\* Nearer rows have no farther readings.
LEMMA SortedNearer ==
  ASSUME QueryInv, NEW i \in ids, NEW j \in ids, NEW up \in BOOLEAN,
         Nearer(i, j, up), data[i].counter # data[j].counter
  PROVE  Nearer(data[i].counter, data[j].counter, up)
<1>1. data[i].counter \in Nat /\ data[j].counter \in Nat /\ i \in Nat /\ j \in Nat
  BY DataType, IdsRange DEF QueryInv
<1>2. /\ i < j => data[i].counter <= data[j].counter
      /\ j < i => data[j].counter <= data[i].counter
  BY DEF QueryInv, Sorted
<1>3. CASE up
  BY <1>1, <1>2, <1>3 DEF Nearer
<1>4. CASE ~up
  BY <1>1, <1>2, <1>4 DEF Nearer
<1>5. QED
  BY <1>3, <1>4

-----------------------------------------------------------------------------
\* The log, the request and the answer keep their shape.
THEOREM QueryTyped == QuerySpec => []QueryTypeOK
<1>1. QueryInv => QueryTypeOK
  BY DEF QueryInv
<1>2. QED
  BY <1>1, QueryInvariance, PTL

\* No answer is longer than the maximum, unless its amount was, or became,
\* negative.
THEOREM AnswersAreBounded == QuerySpec => AnswerBounded
<1>1. ASSUME QueryInv, Select
      PROVE  Cardinality(answer') <= MaxAmount \/ Narrow(req.amount) < 0
  <2>1. req.amount \in Int
    BY <1>1, SelectContext, DataType
  <2>2. PICK n \in Int, m \in Nat : n = Amount(req.amount) /\ m = MaxAmount
    BY <2>1, AmountType, RequestAssumption
  <2>3. n <= m /\ (n < 0 => Narrow(req.amount) < 0)
    BY <2>1, <2>2, AmountType
  <2>4. n >= 0 => Cardinality(answer') <= n /\ Cardinality(answer') \in Nat
    BY <1>1, <2>2, PageOfAnswer
  <2>5. QED
    BY <2>2, <2>3, <2>4
<1>2. QueryInv /\ [QueryNext]_query_vars
        => [Select => Cardinality(answer') <= MaxAmount \/ Narrow(req.amount) < 0]_query_vars
  BY <1>1
<1>3. QED
  BY <1>2, QueryInvariance, PTL DEF QuerySpec, AnswerBounded

\* A page of readings is the nearest ones, one row each, and it is full if
\* it leaves one out.
THEOREM PagesOfReadings == QuerySpec => TablePage
<1> DEFINE Reading(S) == {data[i].counter : i \in S}
           n == Amount(req.amount)
           R == InRange(base_id, Up(req))
           left == Reading(R) \ Reading(answer')
           OneEach == \A i, j \in answer' : data[i].counter = data[j].counter => i = j
           Full == left # {} => Cardinality(answer') = n
           Nearest == \A c \in left, a \in answer' : Nearer(data[a].counter, c, Up(req))
<1>1. ASSUME QueryInv, Select, req.tag = "table"
      PROVE  OneEach /\ Full /\ Nearest
  <2>1. PICK F : F = FirstOfCounter(R) /\ F = Chosen(req, base_id)
    BY <1>1 DEF Chosen
  <2>2. R \subseteq ids /\ F \subseteq R /\ answer' \subseteq F
    BY <1>1, <2>1, PageOfAnswer DEF InRange, FirstOfCounter
  <2>3. OneEach
    <3>1. ASSUME NEW i \in answer', NEW j \in answer', data[i].counter = data[j].counter
          PROVE  i = j
      <4>1. i <= j /\ j <= i
        BY <2>1, <2>2, <3>1 DEF FirstOfCounter
      <4>2. i \in Nat /\ j \in Nat
        BY <1>1, <2>2, SelectContext
      <4>3. QED
        BY <4>1, <4>2
    <3>2. QED
      BY <3>1
  <2>4. ASSUME NEW c \in left
        PROVE  \E f \in F \ answer' : data[f].counter = c
    <3>1. PICK i \in R : c = data[i].counter
      OBVIOUS
    <3>2. PICK f \in F : data[f].counter = c
      BY <1>1, <2>1, <2>2, <3>1, EarliestTaken DEF QueryInv
    <3>3. f \notin answer'
      BY <3>2
    <3>4. QED
      BY <3>2, <3>3
  <2>5. Full
    <3>1. left # {} => F \ answer' # {}
      BY <2>4
    <3>2. QED
      BY <1>1, <2>1, <3>1, PageOfAnswer
  <2>6. Nearest
    <3>1. ASSUME NEW c \in left, NEW a \in answer'
          PROVE  Nearer(data[a].counter, c, Up(req))
      <4>1. PICK f \in F \ answer' : data[f].counter = c
        BY <2>4
      <4>2. Nearer(a, f, Up(req))
        BY <1>1, <2>1, PageOfAnswer
      <4>3. data[a].counter # data[f].counter
        BY <4>1
      <4>4. a \in ids /\ f \in ids /\ Up(req) \in BOOLEAN
        BY <1>1, <2>2, SelectContext
      <4>5. QED
        BY <1>1, <4>1, <4>2, <4>3, <4>4, SortedNearer
    <3>2. QED
      BY <3>1
  <2>7. QED
    BY <2>3, <2>5, <2>6
<1>2. QueryInv /\ [QueryNext]_query_vars
        => [(Select /\ req.tag = "table") => OneEach /\ Full /\ Nearest]_query_vars
  BY <1>1
<1>3. QED
  BY <1>2, QueryInvariance, PTL DEF QuerySpec, TablePage

\* A page of alarms misses no change between two rows logged in turn, since
\* the row logged before another has the id before.
THEOREM PagesOfAlarms == QuerySpec => AlarmsPage
<1> DEFINE before(i) == Max({j \in ids : j < i})
           change == {i \in ids : /\ \E j \in ids : j < i
                                  /\ data[i].alarms \cap req.filter
                                       # data[before(i)].alarms \cap req.filter}
           left == (change \cap InRange(base_id, Up(req))) \ answer'
           Changes == answer' \subseteq change
           Full == left # {} => Cardinality(answer') = Amount(req.amount)
           Nearest == \A i \in left, a \in answer' : Nearer(a, i, Up(req))
<1>1. ASSUME QueryInv, Select, req.tag = "alarms"
      PROVE  Changes /\ Full /\ Nearest
  <2>1. /\ issued \in Nat /\ ids \subseteq 0..issued /\ ids \subseteq Nat
        /\ \A i \in ids : \A j \in i..issued : j \in ids
    BY <1>1, IdsRange DEF QueryInv
  <2>2. ASSUME NEW i \in ids
        PROVE  (\E j \in ids : j < i) <=> i - 1 \in ids
    BY <2>1
  <2>3. ASSUME NEW i \in ids, i - 1 \in ids
        PROVE  before(i) = i - 1
    <3>1. i \in Nat /\ i - 1 \in {j \in ids : j < i} /\ \A y \in {j \in ids : j < i} : i - 1 >= y
      BY <2>1, <2>3
    <3>2. \A x \in {j \in ids : j < i} :
            (\A y \in {j \in ids : j < i} : x >= y) => x = i - 1
      BY <2>1, <3>1
    <3>3. QED
      BY <3>1, <3>2 DEF Max
  <2>4. change = AlarmChanges(req.filter)
    <3>1. ASSUME NEW i \in ids
          PROVE  i \in change <=> i \in AlarmChanges(req.filter)
      <4>1. CASE i - 1 \in ids
        BY <2>2, <2>3, <4>1 DEF AlarmChanges
      <4>2. CASE i - 1 \notin ids
        BY <2>2, <4>2 DEF AlarmChanges
      <4>3. QED
        BY <4>1, <4>2
    <3>2. QED
      BY <3>1 DEF AlarmChanges
  <2> HIDE DEF change
  <2>5. Chosen(req, base_id) = change \cap InRange(base_id, Up(req))
    <3>1. req.tag # "table"
      BY <1>1
    <3>2. QED
      BY <2>4, <3>1 DEF Chosen
  <2>6. QED
    BY <1>1, <2>5, PageOfAnswer
<1>2. QueryInv /\ [QueryNext]_query_vars
        => [(Select /\ req.tag = "alarms") => Changes /\ Full /\ Nearest]_query_vars
  BY <1>1
<1>3. QED
  BY <1>2, QueryInvariance, PTL DEF QuerySpec, AlarmsPage

\* The newest reading is in the answer to a request for the last rows.
THEOREM LastReadingIsAnswered == QuerySpec => LastRowAnswered
<1> DEFINE Answered == \/ base_id \in ids
                          /\ \E a \in answer' : data[a].counter = data[base_id].counter
                       \/ issued - base_id >= MaxRows
<1>1. ASSUME QueryInv, Select, req.tag = "table", req.base = "last", Amount(req.amount) # 0
      PROVE  Answered
  <2>1. SUFFICES ASSUME ~(issued - base_id >= MaxRows)
                 PROVE  \E a \in answer' : base_id \in ids /\ data[a].counter = data[base_id].counter
    OBVIOUS
  <2>2. base_id \in ids
    BY <1>1, <2>1, SelectContext DEF QueryInv, BaseKept
  <2>3. Up(req) = FALSE
    BY <1>1 DEF Up
  <2>4. PICK R : R = InRange(base_id, FALSE)
    OBVIOUS
  <2>5. /\ R = InRange(base_id, FALSE) /\ R \subseteq ids /\ base_id \in R
        /\ \A i \in R : i <= base_id
    <3>1. R = {i \in ids : i <= base_id}
      BY <2>4 DEF InRange
    <3>2. base_id <= base_id
      BY <1>1, <2>2, SelectContext
    <3>3. QED
      BY <2>2, <2>4, <3>1, <3>2
  <2>6. Chosen(req, base_id) = FirstOfCounter(R)
    BY <1>1, <2>3, <2>5 DEF Chosen
  <2>7. PICK f \in FirstOfCounter(R) : data[f].counter = data[base_id].counter
    BY <1>1, <2>5, EarliestTaken DEF QueryInv
  <2>8. ASSUME f \notin answer'
        PROVE  FALSE
    <3>1. f \in Chosen(req, base_id) \ answer'
      BY <2>6, <2>7, <2>8
    <3>2. Cardinality(answer') = Amount(req.amount)
      BY <1>1, <3>1, PageOfAnswer
    <3>3. answer' # {}
      BY <1>1, <3>2, FS_EmptySet
    <3>4. PICK a \in answer' : Nearer(a, f, Up(req)) /\ a \in FirstOfCounter(R)
      BY <1>1, <2>6, <3>1, <3>3, PageOfAnswer
    <3>5. a \in R /\ f \in R /\ a > f
      BY <2>3, <2>7, <3>4 DEF FirstOfCounter, Nearer
    <3>6. a \in Nat /\ f \in Nat /\ base_id \in Nat /\ a <= base_id
      BY <1>1, <2>5, <3>5, SelectContext
    <3>7. PICK x \in Nat, y \in Nat :
            x = data[f].counter /\ x = data[base_id].counter /\ y = data[a].counter
      BY <1>1, <2>5, <2>7, <3>5, DataType
    <3>8. x <= y
      BY <1>1, <2>5, <3>5, <3>6, <3>7 DEF QueryInv, Sorted
    <3>9. y <= x
      <4>1. a = base_id \/ a < base_id
        BY <3>6
      <4>2. a \in ids
        BY <2>5, <3>5
      <4>3. a < base_id => y <= x
        BY <1>1, <2>2, <3>7, <4>2 DEF QueryInv, Sorted
      <4>4. a = base_id => y = x
        BY <3>7
      <4>5. QED
        BY <3>7, <4>1, <4>3, <4>4
    <3>10. data[f].counter = data[a].counter
      BY <3>7, <3>8, <3>9
    <3>11. a <= f
      BY <3>4, <3>5, <3>10 DEF FirstOfCounter
    <3>12. QED
      BY <3>5, <3>6, <3>11
  <2>9. QED
    BY <2>2, <2>7, <2>8
<1>2. QueryInv /\ [QueryNext]_query_vars
        => [(Select /\ req.tag = "table" /\ req.base = "last" /\ Amount(req.amount) # 0)
              => Answered]_query_vars
  BY <1>1
<1>3. QED
  BY <1>2, QueryInvariance, PTL DEF QuerySpec, LastRowAnswered

\* The row answered for a reading is the earliest there is of it, but for
\* requests upwards from an id or a date: those start within a group, and there
\* the comment of up2web_comm.cpp:491 is not what the code does.
THEOREM EarliestRowsFromGroupEdge == QuerySpec => EarliestFromGroupEdge
<1> DEFINE Earliest ==
             \A i \in answer', j \in ids : data[i].counter = data[j].counter => i <= j
<1>1. ASSUME QueryInv, Select, req.tag = "table", AtGroupEdge(req),
             NEW i \in answer', NEW j \in ids, data[i].counter = data[j].counter
      PROVE  i <= j
  <2>1. PICK R : R = InRange(base_id, Up(req))
    OBVIOUS
  <2>2. i \in FirstOfCounter(R) /\ i \in R /\ i \in ids
    BY <1>1, <2>1, PageOfAnswer DEF Chosen, FirstOfCounter, InRange
  <2>3. i \in Nat /\ j \in Nat /\ base_id \in Nat /\ req \in Asking /\ req # None
    BY <1>1, <2>2, SelectContext
  <2>4. CASE j \in R
    BY <1>1, <2>2, <2>4 DEF FirstOfCounter
  <2>5. CASE j \notin R /\ ~Up(req)
    <3>1. i <= base_id /\ ~(j <= base_id)
      BY <2>1, <2>2, <2>5 DEF InRange
    <3>2. QED
      BY <2>3, <3>1
  <2>6. CASE j \notin R /\ Up(req)
    <3>1. base_id <= i /\ j < base_id
      <4>1. i >= base_id /\ ~(j >= base_id)
        BY <2>1, <2>2, <2>6 DEF InRange
      <4>2. QED
        BY <2>3, <4>1
    <3>2. BaseFirst /\ BaseCounter
      BY <1>1, <2>3 DEF QueryInv
    <3>3. CASE req.base = "first"
      <4>1. base_id <= j
        BY <3>2, <3>3 DEF BaseFirst
      <4>2. QED
        BY <2>3, <3>1, <4>1
    <3>4. CASE req.base = "counter"
      <4>1. req.up
        BY <2>6, <3>4 DEF Up
      <4>2. data[j].counter < req.arg /\ req.arg <= data[i].counter
        BY <2>2, <3>1, <3>2, <3>4, <4>1 DEF BaseCounter
      <4>3. data[j].counter \in Nat /\ req.arg \in Int
        BY <1>1, <2>3, DataType
      <4>4. QED
        BY <1>1, <4>2, <4>3
    <3>5. req.base \in {"first", "counter"}
      BY <1>1, <2>6 DEF AtGroupEdge
    <3>6. QED
      BY <3>3, <3>4, <3>5
  <2>7. QED
    BY <2>4, <2>5, <2>6
<1>2. QueryInv /\ [QueryNext]_query_vars
        => [(Select /\ req.tag = "table" /\ AtGroupEdge(req)) => Earliest]_query_vars
  BY <1>1
<1>3. QED
  BY <1>2, QueryInvariance, PTL DEF QuerySpec, EarliestFromGroupEdge
=============================================================================
