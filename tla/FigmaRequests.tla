----------------------------- MODULE FigmaRequests -----------------------------
(***************************************************************************)
(* Calls to Figma from the moment a tool makes them to the moment they     *)
(* settle: the version lookup, the materialize governor (frame hydrations  *)
(* only), the heavy-request semaphore inside it, the deadline-aware abort  *)
(* timer and the way back through both semaphores.                         *)
(*                                                                         *)
(* What follows without an await is one step: a slot that is free leads at *)
(* once to the next semaphore or to the request.  The event loop runs the  *)
(* continuations that are pending before the next event (a new call, an    *)
(* answer, a timer).  Time is in ticks, timers hold what is left of them,  *)
(* and time does not pass while one is due.                                *)
(***************************************************************************)
EXTENDS Integers, Sequences, FiniteSets, FiniteSetsExt

CONSTANTS Frames,      \* getFrameRaw calls: governor, then semaphore
          Subtrees,    \* other heavy calls: semaphore only
          Cap,         \* requestTimeoutMs of a call's adapter
          WithDeadline, MaxDeadline, \* calls with a deadlineAt, and how far it may be
          GovernorLimit, HeavyLimit

Calls == Frames \cup Subtrees

ASSUME FigmaRequestsAssumption ==
  /\ IsFiniteSet(Calls) /\ Frames \cap Subtrees = {}
  /\ Cap \in [Calls -> Nat \ {0}]
  /\ WithDeadline \subseteq Calls /\ MaxDeadline \in Nat \ {0}
  /\ GovernorLimit \in Nat \ {0} /\ HeavyLimit \in Nat \ {0}

VARIABLES
  stage,     \* where each call stands
  timer,     \* what is left of the abort timer of its request
  deadline,  \* what is left until its deadlineAt
  govActive, govWaiters, govPhase,      \* the governor
  heavyActive, heavyWaiters, heavyPhase \* the semaphore

request  == <<stage, timer, deadline>>
governor == <<govActive, govWaiters, govPhase>>
heavy    == <<heavyActive, heavyWaiters, heavyPhase>>
vars     == <<stage, timer, deadline, govActive, govWaiters, govPhase,
              heavyActive, heavyWaiters, heavyPhase>>

Governor == INSTANCE Semaphore WITH Tasks <- Frames, Limit <- GovernorLimit,
              active <- govActive, waiters <- govWaiters, phase <- govPhase
Heavy    == INSTANCE Semaphore WITH Tasks <- Calls, Limit <- HeavyLimit,
              active <- heavyActive, waiters <- heavyWaiters, phase <- heavyPhase

Stages == {"idle", "lookup", "waiting", "sent", "settled", "over"}
OnWire(c) == stage[c] \in {"lookup", "sent"}

TypeOK ==
  /\ stage \in [Calls -> Stages]
  /\ timer \in [Calls -> Nat] /\ \A c \in Calls : timer[c] <= Cap[c]
  /\ deadline \in [Calls -> 0..MaxDeadline]
  /\ Governor!TypeOK /\ Heavy!TypeOK

Init ==
  /\ stage = [c \in Calls |-> "idle"] /\ timer = [c \in Calls |-> 0]
  /\ deadline = [c \in Calls |-> 0]
  /\ Governor!Init /\ Heavy!Init

--------------------------------------------------------------------------------
(* request(): the cap is clamped when the request is made, whatever waits   *)
(* came before; past the deadline nothing is sent.                          *)
(* Mutant: the deadline is forgotten.                                       *)
EffectiveMsNominal(c, d) == Cap[c]
EffectiveMs(c, d) == IF c \in WithDeadline THEN Min({Cap[c], d}) ELSE Cap[c]

Send(c, d, sent, bailed) ==
  LET ms == EffectiveMs(c, d)
  IN /\ stage' = [stage EXCEPT ![c] = IF ms > 0 THEN sent ELSE bailed]
     /\ timer' = [timer EXCEPT ![c] = ms]
     /\ deadline' = [deadline EXCEPT ![c] = d]

Wait(c, d) == /\ stage' = [stage EXCEPT ![c] = "waiting"]
              /\ deadline' = [deadline EXCEPT ![c] = d]
              /\ UNCHANGED timer

(* runHeavy, and around it the governor.                                    *)
RunHeavy(c, d) == \/ Heavy!Acquire(c) /\ Send(c, d, "sent", "settled")
                  \/ Heavy!Queue(c) /\ Wait(c, d)

Run(c, d) == \/ c \in Frames /\ Governor!Acquire(c) /\ RunHeavy(c, d)
             \/ c \in Frames /\ Governor!Queue(c) /\ Wait(c, d) /\ UNCHANGED heavy
             \/ c \in Subtrees /\ RunHeavy(c, d) /\ UNCHANGED governor

(* No continuation is pending: no slot just handed over, no call settled.   *)
Drained == /\ \A c \in Calls : stage[c] \notin {"settled", "over"} /\ heavyPhase[c] # "granted"
           /\ \A c \in Frames : govPhase[c] # "granted"

(* A call starts with its version: cached, or looked up by a light request. *)
Deadlines(c) == IF c \in WithDeadline THEN 0..MaxDeadline ELSE {0}

StartCached(c) == Drained /\ stage[c] = "idle" /\ \E d \in Deadlines(c) : Run(c, d)
StartLookup(c) == /\ Drained /\ stage[c] = "idle"
                  /\ \E d \in Deadlines(c) : Send(c, d, "lookup", "over")
                  /\ UNCHANGED <<governor, heavy>>
LookupDone(c)  == Drained /\ stage[c] = "lookup" /\ Run(c, deadline[c])

(* A waiter that was handed a slot resumes where it waited.                 *)
GovernorResumes(c) == Governor!Resume(c) /\ RunHeavy(c, deadline[c])
HeavyResumes(c)    == /\ Heavy!Resume(c) /\ Send(c, deadline[c], "sent", "settled")
                      /\ UNCHANGED governor

(* A request settles: an answer or an error at any time, or its abort.      *)
(* Mutant: the call is over without its finally blocks.                     *)
SettledUnreleased(c) ==
  /\ Drained
  /\ stage' = [stage EXCEPT ![c] = "over"]
  /\ timer' = [timer EXCEPT ![c] = 0]
  /\ UNCHANGED <<deadline, governor, heavy>>
Settled(c) ==
  /\ Drained
  /\ stage' = [stage EXCEPT ![c] = IF @ = "lookup" THEN "over" ELSE "settled"]
  /\ timer' = [timer EXCEPT ![c] = 0]
  /\ UNCHANGED <<deadline, governor, heavy>>
Answered(c)    == stage[c] = "sent" /\ Settled(c)
LookupFails(c) == stage[c] = "lookup" /\ Settled(c)
Aborted(c)     == OnWire(c) /\ timer[c] = 0 /\ Settled(c)

(* The finally blocks on the way back, inner first.                         *)
HeavyLeft(c) ==
  /\ stage[c] = "settled" /\ Heavy!Leave(c)
  /\ stage' = [stage EXCEPT ![c] = "over"]
  /\ UNCHANGED <<timer, deadline, governor>>
GovernorLeft(c) ==
  /\ stage[c] = "over" /\ Governor!Leave(c)
  /\ UNCHANGED <<request, heavy>>

(* The call is over for its caller once both semaphores are left.           *)
Return(c) ==
  /\ stage[c] = "over" /\ (c \in Frames => govPhase[c] = "out")
  /\ stage' = [stage EXCEPT ![c] = "idle"]
  /\ deadline' = [deadline EXCEPT ![c] = 0]
  /\ timer' = [timer EXCEPT ![c] = 0]
  /\ UNCHANGED <<governor, heavy>>

Less(n) == IF n = 0 THEN 0 ELSE n - 1
Tick ==
  /\ Drained /\ \A c \in Calls : OnWire(c) => timer[c] > 0
  /\ \E c \in Calls : stage[c] # "idle"
  /\ timer' = [c \in Calls |-> Less(timer[c])]
  /\ deadline' = [c \in Calls |-> Less(deadline[c])]
  /\ UNCHANGED <<stage, governor, heavy>>

(* What the runtime does by itself for a call: its timer, its continuations. *)
Runtime(c) == \/ Aborted(c) \/ HeavyResumes(c) \/ HeavyLeft(c) \/ Return(c)
              \/ c \in Frames /\ (GovernorResumes(c) \/ GovernorLeft(c))

Next == \/ Tick
        \/ \E c \in Calls : \/ Runtime(c) \/ StartCached(c) \/ StartLookup(c)
                            \/ LookupDone(c) \/ Answered(c) \/ LookupFails(c)

(* The event loop starves nobody: a due timer gets its turn among the       *)
(* events, and only finitely many happen in a tick (strong fairness, since  *)
(* each event disables the others until its continuations have run).        *)
(* Nothing is assumed of Figma's answers, nor that calls are made.          *)
Spec == /\ Init /\ [][Next]_vars
        /\ SF_vars(Tick) /\ \A c \in Calls : SF_vars(Runtime(c))
--------------------------------------------------------------------------------
(* Properties.                                                              *)

(* Both semaphores count exactly and queue soundly, through hand-overs      *)
(* nested in one another, bail-outs and aborts.                             *)
SlotsExact == Governor!SlotsAccounted /\ Heavy!SlotsAccounted

(* Slots are held where they are needed and nowhere else: a heavy request   *)
(* is on the wire under its slots, and a call that has not got that far, or *)
(* is over however it ended, has leaked none.                               *)
SlotsFollowCalls ==
  \A c \in Calls :
    /\ stage[c] \in {"sent", "settled"} =>
         heavyPhase[c] = "running" /\ (c \in Frames => govPhase[c] = "running")
    /\ stage[c] \in {"idle", "lookup"} =>
         heavyPhase[c] = "out" /\ (c \in Frames => govPhase[c] = "out")

(* "a stale cap can't run in full behind a slow holder": whatever a call    *)
(* waited for, its request never outlasts its deadline.                     *)
NeverLate == \A c \in WithDeadline : OnWire(c) => timer[c] <= deadline[c]

(* The heavy semaphore is a FIFO pool of HeavyLimit slots, however its      *)
(* users come, wait, fail and leave.                                        *)
HeavyIsAPool == Heavy!Pool!Spec

(* Every call ends, even if Figma never answers: each holder is aborted in  *)
(* time, and its slots reach everyone who waits, through both queues.       *)
EveryCallReturns == \A c \in Calls : stage[c] # "idle" ~> stage[c] = "idle"
================================================================================
