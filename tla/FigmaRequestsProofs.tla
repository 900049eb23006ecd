-------------------------- MODULE FigmaRequestsProofs --------------------------
(***************************************************************************)
(* FigmaRequests, for any calls, caps, deadlines and limits: both          *)
(* semaphores count exactly through the hand-overs nested in one another,  *)
(* no call leaks a slot, no request outlasts its deadline, and the heavy   *)
(* semaphore is the FIFO pool of SlotPool.                                 *)
(*                                                                         *)
(* What a semaphore does is proved once, in SemaphoreProofs; here every    *)
(* step is shown to be a step or a stutter of each of the two.  What is    *)
(* left is where a call stands in both at once (Placed): a slot reaches a  *)
(* call that waits only because the queues hold nobody else.               *)
(***************************************************************************)
EXTENDS FigmaRequests, FiniteSetTheorems, TLAPS

GP == INSTANCE SemaphoreProofs WITH Tasks <- Frames, Limit <- GovernorLimit,
              active <- govActive, waiters <- govWaiters, phase <- govPhase
HP == INSTANCE SemaphoreProofs WITH Tasks <- Calls, Limit <- HeavyLimit,
              active <- heavyActive, waiters <- heavyWaiters, phase <- heavyPhase

--------------------------------------------------------------------------------
(* The lower of two numbers.                                                *)
LEMMA MinOfTwo ==
  ASSUME NEW a \in Nat, NEW b \in Nat
  PROVE  Min({a, b}) \in Nat /\ Min({a, b}) <= a /\ Min({a, b}) <= b
<1>1. Min({a, b}) = CHOOSE x \in {a, b} : \A y \in {a, b} : x <= y
  BY DEF Min
<1>2. \E x \in {a, b} : \A y \in {a, b} : x <= y
  <2>1. CASE a <= b
    BY <2>1
  <2>2. CASE b <= a
    BY <2>2
  <2>3. QED
    BY <2>1, <2>2
<1>3. Min({a, b}) \in {a, b} /\ \A y \in {a, b} : Min({a, b}) <= y
  BY <1>1, <1>2
<1>4. QED
  BY <1>3

(* A cap that is clamped is within the cap, and within the deadline.        *)
LEMMA EffectiveMsBounds ==
  ASSUME NEW c \in Calls, NEW d \in 0..MaxDeadline
  PROVE  /\ EffectiveMs(c, d) \in Nat /\ EffectiveMs(c, d) <= Cap[c]
         /\ c \in WithDeadline => EffectiveMs(c, d) <= d
<1>1. Cap[c] \in Nat /\ d \in Nat
  BY FigmaRequestsAssumption
<1>2. QED
  BY <1>1, MinOfTwo DEF EffectiveMs

LEMMA SemaphoreConstants == GP!Constants /\ HP!Constants
<1>1. IsFiniteSet(Frames)
  BY FigmaRequestsAssumption, FS_Subset DEF Calls
<1>2. QED
  BY <1>1, FigmaRequestsAssumption
     DEF GP!Constants, HP!Constants, IsFiniteSet, GP!IsFiniteSet, HP!IsFiniteSet

--------------------------------------------------------------------------------
(* Every step is a step of each semaphore, or leaves it alone.              *)
LEMMA RunSteps ==
  ASSUME NEW c \in Calls, NEW d, Run(c, d)
  PROVE  [Governor!Next]_governor /\ [Heavy!Next]_heavy
  BY DEF Run, RunHeavy, Calls, Governor!Next, Governor!Enter, Heavy!Next, Heavy!Enter

LEMMA EveryStepIsASemaphoreStep == [Next]_vars => [Governor!Next]_governor /\ [Heavy!Next]_heavy
<1> SUFFICES ASSUME [Next]_vars PROVE [Governor!Next]_governor /\ [Heavy!Next]_heavy
  OBVIOUS
<1>1. CASE UNCHANGED vars
  BY <1>1 DEF vars, governor, heavy
<1>2. CASE Tick
  BY <1>2 DEF Tick
<1>3. ASSUME NEW c \in Calls,
             StartLookup(c) \/ Answered(c) \/ LookupFails(c) \/ Aborted(c) \/ Return(c)
      PROVE  UNCHANGED <<governor, heavy>>
  BY <1>3 DEF StartLookup, Answered, LookupFails, Aborted, Return, Settled
<1>4. ASSUME NEW c \in Calls, StartCached(c) \/ LookupDone(c)
      PROVE  [Governor!Next]_governor /\ [Heavy!Next]_heavy
  BY <1>4, RunSteps DEF StartCached, LookupDone
<1>5. ASSUME NEW c \in Calls, HeavyResumes(c) \/ HeavyLeft(c)
      PROVE  UNCHANGED governor /\ Heavy!Next
  BY <1>5 DEF HeavyResumes, HeavyLeft, Heavy!Next
<1>6. ASSUME NEW c \in Frames, GovernorLeft(c)
      PROVE  Governor!Next /\ UNCHANGED heavy
  BY <1>6 DEF GovernorLeft, Governor!Next
<1>7. ASSUME NEW c \in Frames, GovernorResumes(c)
      PROVE  Governor!Next /\ [Heavy!Next]_heavy
  BY <1>7 DEF GovernorResumes, RunHeavy, Calls, Governor!Next, Heavy!Next, Heavy!Enter
<1>8. QED
  BY <1>1, <1>2, <1>3, <1>4, <1>5, <1>6, <1>7 DEF Next, Runtime

(* The two semaphores' own invariant, kept by their own steps.              *)
SemaphoresExact == GP!IInv /\ HP!IInv

LEMMA InitSemaphores == Init => SemaphoresExact
<1> SUFFICES ASSUME Init PROVE SemaphoresExact
  OBVIOUS
<1>1. GP!Init /\ HP!Init
  BY DEF Init, Governor!Init, Heavy!Init, GP!Init, HP!Init
<1>2. QED
  BY <1>1, SemaphoreConstants, GP!InitIInv, HP!InitIInv DEF SemaphoresExact

LEMMA GovernorStep == [Governor!Next]_governor => [GP!Next]_(GP!vars)
  BY DEF governor, GP!vars, Governor!Next, Governor!Enter, Governor!Acquire, Governor!Queue,
         Governor!Resume, Governor!Leave, Governor!HandOver, Governor!Free,
         GP!Next, GP!Enter, GP!Acquire, GP!Queue, GP!Resume, GP!Leave, GP!HandOver, GP!Free

LEMMA HeavyStep == [Heavy!Next]_heavy => [HP!Next]_(HP!vars)
  BY DEF heavy, HP!vars, Heavy!Next, Heavy!Enter, Heavy!Acquire, Heavy!Queue,
         Heavy!Resume, Heavy!Leave, Heavy!HandOver, Heavy!Free,
         HP!Next, HP!Enter, HP!Acquire, HP!Queue, HP!Resume, HP!Leave, HP!HandOver, HP!Free

LEMMA NextSemaphores == SemaphoresExact /\ [Next]_vars => SemaphoresExact'
<1> SUFFICES ASSUME SemaphoresExact, [Next]_vars PROVE SemaphoresExact'
  OBVIOUS
<1>1. [GP!Next]_(GP!vars) /\ [HP!Next]_(HP!vars)
  BY EveryStepIsASemaphoreStep, GovernorStep, HeavyStep
<1>2. GP!IInv'
  BY <1>1, SemaphoreConstants, GP!NextIInv DEF SemaphoresExact
<1>3. HP!IInv'
  BY <1>1, SemaphoreConstants, HP!NextIInv DEF SemaphoresExact
<1>4. QED
  BY <1>2, <1>3 DEF SemaphoresExact

(* What they say in this module's own words.                                *)
LEMMA SemaphoresMean ==
  SemaphoresExact => Governor!TypeOK /\ Heavy!TypeOK /\ SlotsExact
<1> SUFFICES ASSUME SemaphoresExact PROVE Governor!TypeOK /\ Heavy!TypeOK /\ SlotsExact
  OBVIOUS
<1>1. Governor!TypeOK /\ Governor!SlotsAccounted
  BY DEF SemaphoresExact, GP!IInv, GP!TypeOK, GP!SlotsAccounted, GP!Holders, GP!Cardinality,
         Governor!TypeOK, Governor!SlotsAccounted, Governor!Holders, Governor!Cardinality
<1>2. Heavy!TypeOK /\ Heavy!SlotsAccounted
  BY DEF SemaphoresExact, HP!IInv, HP!TypeOK, HP!SlotsAccounted, HP!Holders, HP!Cardinality,
         Heavy!TypeOK, Heavy!SlotsAccounted, Heavy!Holders, Heavy!Cardinality
<1>3. QED
  BY <1>1, <1>2 DEF SlotsExact

(* Who is woken when a call leaves a semaphore.                             *)
Handed(p, q) == q = p \/ (p = "queued" /\ q = "granted")

LEMMA GovernorLeaveWakes ==
  ASSUME SemaphoresExact, NEW c \in Frames, Governor!Leave(c)
  PROVE  /\ govPhase[c] = "running" /\ govPhase'[c] = "out"
         /\ \A u \in Frames \ {c} : Handed(govPhase[u], govPhase'[u])
<1>1. GP!Leave(c)
  BY DEF Governor!Leave, Governor!HandOver, Governor!Free, GP!Leave, GP!HandOver, GP!Free
<1>2. QED
  BY <1>1, GP!LeaveWakes DEF SemaphoresExact, Handed

LEMMA HeavyLeaveWakes ==
  ASSUME SemaphoresExact, NEW c \in Calls, Heavy!Leave(c)
  PROVE  /\ heavyPhase[c] = "running" /\ heavyPhase'[c] = "out"
         /\ \A u \in Calls \ {c} : Handed(heavyPhase[u], heavyPhase'[u])
<1>1. HP!Leave(c)
  BY DEF Heavy!Leave, Heavy!HandOver, Heavy!Free, HP!Leave, HP!HandOver, HP!Free
<1>2. QED
  BY <1>1, HP!LeaveWakes DEF SemaphoresExact, Handed

--------------------------------------------------------------------------------
(* Timers and deadlines.                                                    *)
RequestOK ==
  /\ stage \in [Calls -> Stages]
  /\ timer \in [Calls -> Nat] /\ \A c \in Calls : timer[c] <= Cap[c]
  /\ deadline \in [Calls -> 0..MaxDeadline]

LEMMA SendKeeps ==
  ASSUME RequestOK, NeverLate, NEW c \in Calls, NEW d \in 0..MaxDeadline,
         NEW sent \in {"lookup", "sent"}, NEW bailed \in {"settled", "over"},
         Send(c, d, sent, bailed)
  PROVE  RequestOK' /\ NeverLate'
<1> DEFINE ms == EffectiveMs(c, d)
<1>1. ms \in Nat /\ ms <= Cap[c] /\ (c \in WithDeadline => ms <= d)
  BY EffectiveMsBounds
<1>2. /\ stage' = [stage EXCEPT ![c] = IF ms > 0 THEN sent ELSE bailed]
      /\ timer' = [timer EXCEPT ![c] = ms] /\ deadline' = [deadline EXCEPT ![c] = d]
  BY DEF Send
<1> HIDE DEF ms
<1>3. RequestOK'
  BY <1>1, <1>2 DEF RequestOK, Stages
<1>4. ASSUME NEW u \in WithDeadline, OnWire(u)' PROVE timer'[u] <= deadline'[u]
  <2>1. u \in Calls
    BY FigmaRequestsAssumption
  <2>2. CASE u = c
    BY <1>1, <1>2, <2>1, <2>2 DEF RequestOK
  <2>3. CASE u # c
    BY <1>2, <1>4, <2>1, <2>3 DEF RequestOK, NeverLate, OnWire
  <2>4. QED
    BY <2>2, <2>3
<1>5. QED
  BY <1>3, <1>4 DEF NeverLate

(* Off the wire there is nothing to be late.                                *)
LEMMA OffWireKeeps ==
  ASSUME RequestOK, NeverLate, NEW c \in Calls,
         NEW s \in Stages \ {"lookup", "sent"}, stage' = [stage EXCEPT ![c] = s],
         RequestOK', \A u \in Calls \ {c} : timer'[u] = timer[u] /\ deadline'[u] = deadline[u]
  PROVE  NeverLate'
<1> SUFFICES ASSUME NEW u \in WithDeadline, OnWire(u)' PROVE timer'[u] <= deadline'[u]
  BY DEF NeverLate
<1>1. u \in Calls /\ u # c
  BY FigmaRequestsAssumption DEF RequestOK, OnWire
<1>2. QED
  BY <1>1 DEF RequestOK, NeverLate, OnWire

LEMMA WaitKeeps ==
  ASSUME RequestOK, NeverLate, NEW c \in Calls, NEW d \in 0..MaxDeadline, Wait(c, d)
  PROVE  RequestOK' /\ NeverLate'
<1>1. RequestOK' /\ "waiting" \in Stages \ {"lookup", "sent"}
  BY DEF Wait, RequestOK, Stages
<1>2. QED
  BY <1>1, OffWireKeeps DEF Wait, RequestOK

LEMMA RunHeavyKeeps ==
  ASSUME RequestOK, NeverLate, NEW c \in Calls, NEW d \in 0..MaxDeadline,
         Run(c, d) \/ RunHeavy(c, d)
  PROVE  RequestOK' /\ NeverLate'
  BY SendKeeps, WaitKeeps DEF Run, RunHeavy

LEMMA NextRequest == RequestOK /\ NeverLate /\ [Next]_vars => RequestOK' /\ NeverLate'
<1> SUFFICES ASSUME RequestOK, NeverLate, [Next]_vars PROVE RequestOK' /\ NeverLate'
  OBVIOUS
<1>1. ASSUME NEW c \in Calls PROVE Deadlines(c) \subseteq 0..MaxDeadline /\ deadline[c] \in 0..MaxDeadline
  BY FigmaRequestsAssumption DEF Deadlines, RequestOK
<1>0. 0 \in 0..MaxDeadline /\ \A u \in Calls : Cap[u] \in Nat
  BY FigmaRequestsAssumption
<1>2. ASSUME NEW c \in Calls,
             StartCached(c) \/ LookupDone(c) \/ GovernorResumes(c)
      PROVE  RequestOK' /\ NeverLate'
  BY <1>1, <1>2, RunHeavyKeeps DEF StartCached, LookupDone, GovernorResumes
<1>3. ASSUME NEW c \in Calls, StartLookup(c) \/ HeavyResumes(c)
      PROVE  RequestOK' /\ NeverLate'
  BY <1>1, <1>3, SendKeeps DEF StartLookup, HeavyResumes
<1>4. ASSUME NEW c \in Calls, Answered(c) \/ LookupFails(c) \/ Aborted(c)
      PROVE  RequestOK' /\ NeverLate'
  <2>1. PICK s \in {"over", "settled"} : stage' = [stage EXCEPT ![c] = s]
    BY <1>4 DEF Answered, LookupFails, Aborted, Settled
  <2>2. timer' = [timer EXCEPT ![c] = 0] /\ deadline' = deadline
    BY <1>4 DEF Answered, LookupFails, Aborted, Settled
  <2>3. RequestOK' /\ s \in Stages \ {"lookup", "sent"}
    BY <1>0, <2>1, <2>2 DEF RequestOK, Stages
  <2>4. QED
    BY <2>1, <2>2, <2>3, OffWireKeeps DEF RequestOK
<1>5. ASSUME NEW c \in Calls, HeavyLeft(c)
      PROVE  RequestOK' /\ NeverLate'
  <2>1. stage' = [stage EXCEPT ![c] = "over"] /\ timer' = timer /\ deadline' = deadline
    BY <1>5 DEF HeavyLeft
  <2>2. RequestOK' /\ "over" \in Stages \ {"lookup", "sent"}
    BY <2>1 DEF RequestOK, Stages
  <2>3. QED
    BY <2>1, <2>2, OffWireKeeps
<1>6. ASSUME NEW c \in Calls, Return(c)
      PROVE  RequestOK' /\ NeverLate'
  <2>1. /\ stage' = [stage EXCEPT ![c] = "idle"] /\ timer' = [timer EXCEPT ![c] = 0]
        /\ deadline' = [deadline EXCEPT ![c] = 0]
    BY <1>6 DEF Return
  <2>2. RequestOK' /\ "idle" \in Stages \ {"lookup", "sent"}
    BY <1>0, <2>1 DEF RequestOK, Stages
  <2>3. QED
    BY <2>1, <2>2, OffWireKeeps DEF RequestOK
<1>7. CASE Tick
  <2>1. ASSUME NEW u \in Calls
        PROVE  /\ Less(timer[u]) \in Nat /\ Less(timer[u]) <= timer[u] /\ timer[u] <= Cap[u]
               /\ Less(deadline[u]) \in 0..MaxDeadline
               /\ timer[u] <= deadline[u] => Less(timer[u]) <= Less(deadline[u])
    BY FigmaRequestsAssumption DEF RequestOK, Less
  <2>2. /\ stage' = stage /\ timer' = [u \in Calls |-> Less(timer[u])]
        /\ deadline' = [u \in Calls |-> Less(deadline[u])]
    BY <1>7 DEF Tick
  <2>3. \A u \in Calls : timer'[u] <= Cap[u]
    BY <2>1, <2>2, FigmaRequestsAssumption DEF RequestOK
  <2>4. RequestOK'
    BY <2>1, <2>2, <2>3 DEF RequestOK
  <2>5. NeverLate'
    BY <2>1, <2>2, FigmaRequestsAssumption DEF NeverLate, OnWire
  <2>6. QED
    BY <2>4, <2>5
<1>8. CASE UNCHANGED request
  BY <1>8 DEF request, RequestOK, NeverLate, OnWire
<1>9. QED
  BY <1>2, <1>3, <1>4, <1>5, <1>6, <1>7, <1>8 DEF Next, Runtime, vars, request, GovernorLeft, Calls
--------------------------------------------------------------------------------
(* Where a call stands in both semaphores at each stage: while it waits it  *)
(* is in one queue, or was just handed its slot there, and the heavy        *)
(* semaphore is entered only under the governor.                            *)
InGovernor(c, phases) == c \in Frames => govPhase[c] \in phases

PlacedAt(c) ==
  /\ stage[c] \in {"idle", "lookup"} => heavyPhase[c] = "out" /\ InGovernor(c, {"out"})
  /\ stage[c] = "waiting" =>
       \/ heavyPhase[c] \in {"queued", "granted"} /\ InGovernor(c, {"running"})
       \/ heavyPhase[c] = "out" /\ c \in Frames /\ govPhase[c] \in {"queued", "granted"}
  /\ stage[c] \in {"sent", "settled"} =>
       heavyPhase[c] = "running" /\ InGovernor(c, {"running"})
  /\ stage[c] = "over" => heavyPhase[c] = "out" /\ InGovernor(c, {"out", "running"})

Placed == \A c \in Calls : PlacedAt(c)

IInv == RequestOK /\ NeverLate /\ SemaphoresExact /\ Placed

(* A step of one call moves another only by waking it.                      *)
Apart(c) ==
  \A u \in Calls \ {c} :
    /\ stage'[u] = stage[u]
    /\ Handed(heavyPhase[u], heavyPhase'[u])
    /\ u \in Frames => Handed(govPhase[u], govPhase'[u])

LEMMA ApartKeeps ==
  ASSUME NEW c \in Calls, Placed, Apart(c), PlacedAt(c)'
  PROVE  Placed'
<1> SUFFICES ASSUME NEW u \in Calls \ {c} PROVE PlacedAt(u)'
  BY DEF Placed
<1>1. PlacedAt(u) /\ stage'[u] = stage[u] /\ Handed(heavyPhase[u], heavyPhase'[u])
      /\ (u \in Frames => Handed(govPhase[u], govPhase'[u]))
  BY DEF Placed, Apart
<1>2. QED
  BY <1>1 DEF PlacedAt, InGovernor, Handed

LEMMA Typed ==
  IInv => /\ stage \in [Calls -> Stages]
          /\ heavyPhase \in [Calls -> {"out", "queued", "granted", "running"}]
          /\ govPhase \in [Frames -> {"out", "queued", "granted", "running"}]
  BY DEF IInv, RequestOK, SemaphoresExact, GP!IInv, GP!TypeOK, HP!IInv, HP!TypeOK

(* Entering the heavy semaphore under the governor, and going for both.     *)
LEMMA RunHeavyPlaces ==
  ASSUME IInv, NEW c \in Calls, NEW d, RunHeavy(c, d),
         InGovernor(c, {"running"})', \A u \in Frames \ {c} : govPhase'[u] = govPhase[u]
  PROVE  Placed'
<1>1. Apart(c)
  BY Typed DEF RunHeavy, Send, Wait, Heavy!Acquire, Heavy!Queue, Apart, Handed
<1>2. PlacedAt(c)'
  BY Typed DEF RunHeavy, Send, Wait, Heavy!Acquire, Heavy!Queue, PlacedAt
<1>3. QED
  BY <1>1, <1>2, ApartKeeps DEF IInv

LEMMA RunPlaces ==
  ASSUME IInv, NEW c \in Calls, NEW d, Run(c, d), stage[c] \in {"idle", "lookup"}
  PROVE  Placed'
<1>1. heavyPhase[c] = "out" /\ c \notin Frames \cap Subtrees
  BY FigmaRequestsAssumption DEF IInv, Placed, PlacedAt
<1>2. CASE c \in Frames /\ Governor!Acquire(c) /\ RunHeavy(c, d)
  BY <1>2, Typed, RunHeavyPlaces DEF Governor!Acquire, InGovernor
<1>3. CASE c \in Frames /\ Governor!Queue(c) /\ Wait(c, d) /\ UNCHANGED heavy
  <2>1. Apart(c)
    BY <1>3, Typed DEF Wait, Governor!Queue, heavy, Apart, Handed
  <2>2. PlacedAt(c)'
    BY <1>1, <1>3, Typed DEF Wait, Governor!Queue, heavy, PlacedAt
  <2>3. QED
    BY <2>1, <2>2, ApartKeeps DEF IInv
<1>4. CASE c \in Subtrees /\ RunHeavy(c, d) /\ UNCHANGED governor
  BY <1>1, <1>4, RunHeavyPlaces DEF governor, InGovernor
<1>5. QED
  BY <1>2, <1>3, <1>4 DEF Run

LEMMA NextPlaced == IInv /\ [Next]_vars => Placed'
<1> SUFFICES ASSUME IInv, [Next]_vars PROVE Placed'
  OBVIOUS
<1>1. ASSUME NEW c \in Calls, StartCached(c) \/ LookupDone(c) PROVE Placed'
  BY <1>1, RunPlaces DEF StartCached, LookupDone
<1>2. ASSUME NEW c \in Calls, StartLookup(c) PROVE Placed'
  <2>1. Apart(c)
    BY <1>2, Typed DEF StartLookup, Send, heavy, governor, Apart, Handed
  <2>2. PlacedAt(c)'
    <3>1. heavyPhase[c] = "out" /\ InGovernor(c, {"out"})
      BY <1>2 DEF StartLookup, IInv, Placed, PlacedAt
    <3>2. stage'[c] \in {"lookup", "over"} /\ heavyPhase' = heavyPhase /\ govPhase' = govPhase
      BY <1>2, Typed DEF StartLookup, Send, heavy, governor
    <3>3. QED
      BY <3>1, <3>2 DEF PlacedAt, InGovernor
  <2>3. QED
    BY <2>1, <2>2, ApartKeeps DEF IInv
<1>3. ASSUME NEW c \in Frames, GovernorResumes(c) PROVE Placed'
  BY <1>3, Typed, RunHeavyPlaces DEF GovernorResumes, Governor!Resume, InGovernor, Calls
<1>4. ASSUME NEW c \in Calls, HeavyResumes(c) PROVE Placed'
  <2>1. Apart(c)
    BY <1>4, Typed DEF HeavyResumes, Send, Heavy!Resume, governor, Apart, Handed
  <2>2. PlacedAt(c)'
    <3>1. heavyPhase[c] = "granted"
      BY <1>4 DEF HeavyResumes, Heavy!Resume
    <3>2. InGovernor(c, {"running"})
      BY <3>1, Typed DEF IInv, Placed, PlacedAt, Stages
    <3>3. stage'[c] \in {"sent", "settled"} /\ heavyPhase'[c] = "running" /\ govPhase' = govPhase
      BY <1>4, Typed DEF HeavyResumes, Send, Heavy!Resume, governor
    <3>4. QED
      BY <3>2, <3>3 DEF PlacedAt, InGovernor
  <2>3. QED
    BY <2>1, <2>2, ApartKeeps DEF IInv
<1>5. ASSUME NEW c \in Calls, Answered(c) \/ LookupFails(c) \/ Aborted(c) PROVE Placed'
  <2>1. /\ stage[c] \in {"lookup", "sent"}
        /\ stage' = [stage EXCEPT ![c] = IF @ = "lookup" THEN "over" ELSE "settled"]
        /\ heavyPhase' = heavyPhase /\ govPhase' = govPhase
    BY <1>5 DEF Answered, LookupFails, Aborted, Settled, OnWire, heavy, governor
  <2>2. Apart(c) /\ PlacedAt(c)'
    BY <2>1, Typed DEF Apart, Handed, IInv, Placed, PlacedAt, InGovernor
  <2>3. QED
    BY <2>2, ApartKeeps DEF IInv
<1>6. ASSUME NEW c \in Calls, HeavyLeft(c) PROVE Placed'
  <2>1. /\ heavyPhase'[c] = "out" /\ stage[c] = "settled" /\ stage' = [stage EXCEPT ![c] = "over"]
        /\ govPhase' = govPhase
        /\ \A u \in Calls \ {c} : Handed(heavyPhase[u], heavyPhase'[u])
    BY <1>6, HeavyLeaveWakes DEF HeavyLeft, IInv, governor
  <2>2. Apart(c) /\ PlacedAt(c)'
    BY <2>1, Typed DEF Apart, Handed, IInv, Placed, PlacedAt, InGovernor
  <2>3. QED
    BY <2>2, ApartKeeps DEF IInv
<1>7. ASSUME NEW c \in Frames, GovernorLeft(c) PROVE Placed'
  <2>1. /\ govPhase'[c] = "out" /\ stage[c] = "over" /\ stage' = stage /\ heavyPhase' = heavyPhase
        /\ \A u \in Frames \ {c} : Handed(govPhase[u], govPhase'[u])
    BY <1>7, GovernorLeaveWakes DEF GovernorLeft, IInv, request, heavy
  <2>2. c \in Calls /\ Apart(c) /\ PlacedAt(c)'
    BY <2>1, Typed DEF Apart, Handed, IInv, Placed, PlacedAt, InGovernor, Calls
  <2>3. QED
    BY <2>2, ApartKeeps DEF IInv
<1>8. ASSUME NEW c \in Calls, Return(c) PROVE Placed'
  <2>1. /\ stage[c] = "over" /\ stage' = [stage EXCEPT ![c] = "idle"] /\ InGovernor(c, {"out"})
        /\ heavyPhase' = heavyPhase /\ govPhase' = govPhase
    BY <1>8 DEF Return, heavy, governor, InGovernor
  <2>2. Apart(c) /\ PlacedAt(c)'
    BY <2>1, Typed DEF Apart, Handed, IInv, Placed, PlacedAt, InGovernor
  <2>3. QED
    BY <2>2, ApartKeeps DEF IInv
<1>9. CASE UNCHANGED <<stage, governor, heavy>>
  BY <1>9 DEF governor, heavy, IInv, Placed, PlacedAt, InGovernor
<1>10. QED
  BY <1>1, <1>2, <1>3, <1>4, <1>5, <1>6, <1>7, <1>8, <1>9
     DEF Next, Runtime, Tick, vars, governor, heavy

--------------------------------------------------------------------------------
LEMMA InitIInv == Init => IInv
<1> SUFFICES ASSUME Init PROVE IInv
  OBVIOUS
<1>1. RequestOK /\ NeverLate
  BY FigmaRequestsAssumption DEF Init, RequestOK, NeverLate, OnWire, Stages
<1>2. Placed
  BY DEF Init, Governor!Init, Heavy!Init, Placed, PlacedAt, InGovernor, Calls
<1>3. QED
  BY <1>1, <1>2, InitSemaphores DEF IInv

LEMMA NextIInv == IInv /\ [Next]_vars => IInv'
  BY NextRequest, NextSemaphores, NextPlaced DEF IInv

LEMMA SpecIInv == Spec => []IInv
  BY InitIInv, NextIInv, PTL DEF Spec

(* Stages, timers, deadlines and both semaphores keep their types; a timer  *)
(* is never set past the cap of its adapter.                                *)
THEOREM FigmaRequestsTypeOK == Spec => []TypeOK
<1>1. IInv => TypeOK
  BY SemaphoresMean DEF IInv, RequestOK, TypeOK
<1>2. QED
  BY <1>1, SpecIInv, PTL

(* Both semaphores count exactly, through hand-overs nested in one another, *)
(* requests that are never sent and aborts.                                 *)
THEOREM SlotsAlwaysExact == Spec => []SlotsExact
<1>1. IInv => SlotsExact
  BY SemaphoresMean DEF IInv
<1>2. QED
  BY <1>1, SpecIInv, PTL

(* A heavy request is on the wire under its slots, and no call that has not *)
(* got that far, or is over, holds one.                                     *)
THEOREM SlotsAlwaysFollowCalls == Spec => []SlotsFollowCalls
<1>1. IInv => SlotsFollowCalls
  BY DEF IInv, Placed, PlacedAt, InGovernor, SlotsFollowCalls
<1>2. QED
  BY <1>1, SpecIInv, PTL

(* However long a call waited in either queue, its request is aborted by    *)
(* its deadline.                                                            *)
THEOREM RequestsAreNeverLate == Spec => []NeverLate
<1>1. IInv => NeverLate
  BY DEF IInv
<1>2. QED
  BY <1>1, SpecIInv, PTL

(* The heavy semaphore, as its users drive it, is a pool of HeavyLimit      *)
(* slots lent in arrival order.                                             *)
THEOREM HeavyIsAlwaysAPool == Spec => HeavyIsAPool
<1>1. Init => HP!Init
  BY DEF Init, Heavy!Init, HP!Init
<1>2. [Next]_vars => [HP!Next]_(HP!vars)
  BY EveryStepIsASemaphoreStep, HeavyStep
<1>3. HP!Spec => HP!Pool!Spec
  BY SemaphoreConstants, HP!SemaphoreIsAPool
<1>4. HP!Pool!Init => Heavy!Pool!Init
  BY DEF HP!Pool!Init, Heavy!Pool!Init, HP!Holders, Heavy!Holders
<1>5. [HP!Pool!Next]_(HP!Pool!vars) => [Heavy!Pool!Next]_(Heavy!Pool!vars)
  BY DEF HP!Pool!Next, HP!Pool!vars, HP!Pool!Take, HP!Pool!LineUp, HP!Pool!GiveBack,
         HP!Pool!Waiting, HP!Holders, HP!Pool!Cardinality,
         Heavy!Pool!Next, Heavy!Pool!vars, Heavy!Pool!Take, Heavy!Pool!LineUp,
         Heavy!Pool!GiveBack, Heavy!Pool!Waiting, Heavy!Holders, Heavy!Pool!Cardinality
<1>6. QED
  BY <1>1, <1>2, <1>3, <1>4, <1>5, PTL
     DEF Spec, HP!Spec, HP!Pool!Spec, Heavy!Pool!Spec, HeavyIsAPool
================================================================================
