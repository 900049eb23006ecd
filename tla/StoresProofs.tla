----------------------------- MODULE StoresProofs -----------------------------
(***************************************************************************)
(* What the caching adapter keeps, for any callers, sizes, caps, TTLs and  *)
(* budgets: the variables of a file and the failures to read them, the     *)
(* reads that are cached while a file is edited, and the raw frames.       *)
(* The three share no state; each has its inductive invariant here.        *)
(***************************************************************************)
EXTENDS VariablesCache, VersionedReads, FrameHydration, FiniteSetTheorems, TLAPS

--------------------------------------------------------------------------------
(* VariablesCache: NotResurrected and DenialIsWarranted.                    *)
(*                                                                          *)
(* The eclipse guard looks at the positive entry when a failure arrives,    *)
(* not at the success itself; it works because the entry outlives every     *)
(* request that was in flight when it was written.  Eclipsing says that,    *)
(* timer against timer.                                                     *)

(* A request sent before a kept success aborts while the entry lives.       *)
Eclipsing == \A c \in eclipsed : stage[c] = "sent" /\ left[c] < posLeft

(* Without a deadline, a request is sent with its whole cap.                *)
WholeCap == \A c \in Callers \ WithDeadline :
              /\ stage[c] = "queued" => budget[c] = Cap[c]
              /\ stage[c] = "sent" => waited[c] = Cap[c]

(* A live marker is whitelisted evidence and records what was waited.       *)
Evidence ==
  markLeft > 0 => /\ marker.kind \in Cacheable
                  /\ marker.kind = "timeout" /\ ~marker.deadline => marker.waited = marker.cap

IInv == TypeOK /\ Eclipsing /\ WholeCap /\ Evidence /\ NotResurrected

(* Decrementing a timer never leaves its range.                             *)
LEMMA LessBound ==
  ASSUME NEW m \in Nat, NEW n \in 0..m
  PROVE  Less(n) \in 0..m /\ Less(n) <= n /\ (n > 0 => Less(n) = n - 1)
  BY DEF Less

(* The absent marker is one.                                                *)
LEMMA NoMarkerType == NoMarker \in Markers
  BY DEF NoMarker, Markers, Kinds

(* The initial state: nothing cached, nobody calling.                       *)
LEMMA InitIInv == Init => IInv
<1> SUFFICES ASSUME Init PROVE IInv
  OBVIOUS
<1>1. TypeOK
  <2>1. /\ posLeft \in 0..PosTTL /\ markLeft \in 0..ErrTTL /\ softLeft \in 0..SoftTTL
        /\ stage \in [Callers -> Stages]
    BY VariablesCacheAssumption DEF Init, Stages
  <2>2. marker \in Markers
    BY NoMarkerType DEF Init
  <2>3. /\ budget \in [Callers -> Nat] /\ left \in [Callers -> Nat]
        /\ waited \in [Callers -> Nat]
        /\ \A c \in Callers : budget[c] <= Cap[c] /\ left[c] <= Cap[c] /\ waited[c] <= Cap[c]
    BY VariablesCacheAssumption DEF Init
  <2>4. eclipsed \in SUBSET Callers /\ refuted \in BOOLEAN
    BY DEF Init
  <2>5. QED
    BY <2>1, <2>2, <2>3, <2>4 DEF TypeOK
<1>2. Eclipsing /\ WholeCap
  BY DEF Init, Eclipsing, WholeCap
<1>3. Evidence /\ NotResurrected
  BY DEF Init, Evidence, NotResurrected
<1>4. QED
  BY <1>1, <1>2, <1>3 DEF IInv

(* A step of the code keeps the types.                                      *)
LEMMA TypeOKStep == TypeOK /\ [Next]_vars => TypeOK'
<1> SUFFICES ASSUME TypeOK, [Next]_vars PROVE TypeOK'
  OBVIOUS
<1> USE VariablesCacheAssumption
<1>1. ASSUME NEW c \in Callers, CallServed(c) \/ CallDenied(c) \/ CallMisses(c) PROVE TypeOK'
  BY <1>1 DEF TypeOK, CallServed, CallDenied, CallMisses, Enter, Budgets, Stages
<1>2. ASSUME NEW c \in Callers, Dispatch(c) PROVE TypeOK'
  BY <1>2 DEF TypeOK, Dispatch, Stages
<1>3. ASSUME NEW c \in Callers, NEW kept \in BOOLEAN, Succeed(c, kept) PROVE TypeOK'
  <2>1. posLeft' \in 0..PosTTL
    BY <1>3 DEF TypeOK, Succeed
  <2>2. eclipsed' \in SUBSET Callers
    BY <1>3 DEF TypeOK, Succeed, Sent
  <2>3. QED
    BY <1>3, <2>1, <2>2, NoMarkerType DEF TypeOK, Succeed, Stages
<1>4. ASSUME NEW c \in Callers, NEW kind \in Kinds, Fail(c, kind) PROVE TypeOK'
  <2>1. marker' \in Markers /\ markLeft' \in 0..ErrTTL /\ softLeft' \in 0..SoftTTL
    <3>1. CASE Writes(kind)
      <4>1. (c \in WithDeadline) \in BOOLEAN
        OBVIOUS
      <4>2. marker' = [kind |-> kind, cap |-> Cap[c], waited |-> waited[c],
                       deadline |-> c \in WithDeadline]
        BY <1>4, <3>1 DEF Fail
      <4>3. Cap[c] \in Nat /\ waited[c] \in Nat
        BY DEF TypeOK
      <4>4. marker' \in Markers
        BY <4>1, <4>2, <4>3, Zenon DEF Markers
      <4>5. QED
        BY <1>4, <3>1, <4>4 DEF Fail
    <3>2. CASE ~Writes(kind)
      BY <1>4, <3>2 DEF TypeOK, Fail
    <3>3. QED
      BY <3>1, <3>2
  <2>2. refuted' \in BOOLEAN
    <3>1. CASE Writes(kind)
      <4>1. refuted' = (c \in eclipsed)
        BY <1>4, <3>1, Zenon DEF Fail
      <4>2. QED
        BY <4>1
    <3>2. CASE ~Writes(kind)
      BY <1>4, <3>2 DEF TypeOK, Fail
    <3>3. QED
      BY <3>1, <3>2
  <2>3. QED
    BY <1>4, <2>1, <2>2 DEF TypeOK, Fail, Stages
<1>5. ASSUME NEW c \in Callers, Return(c) PROVE TypeOK'
  BY <1>5 DEF TypeOK, Return, Stages
<1>6. ASSUME EvictPositive \/ EvictMarker PROVE TypeOK'
  BY <1>6, NoMarkerType DEF TypeOK, EvictPositive, EvictMarker
<1>7. ASSUME Tick PROVE TypeOK'
  <2>1. posLeft' \in 0..PosTTL /\ markLeft' \in 0..ErrTTL /\ softLeft' \in 0..SoftTTL
    BY <1>7, LessBound DEF TypeOK, Tick
  <2>2. marker' \in Markers
    BY <1>7, NoMarkerType DEF TypeOK, Tick
  <2>3. \A c \in Callers : /\ left'[c] \in Nat /\ left'[c] <= Cap[c]
                           /\ budget'[c] \in Nat /\ budget'[c] <= Cap[c]
    BY <1>7 DEF TypeOK, Tick, Less
  <2>4. /\ left' \in [Callers -> Nat] /\ budget' \in [Callers -> Nat]
    BY <1>7, <2>3 DEF TypeOK, Tick
  <2>5. QED
    BY <1>7, <2>1, <2>2, <2>3, <2>4 DEF TypeOK, Tick
<1>8. ASSUME UNCHANGED vars PROVE TypeOK'
  BY <1>8 DEF TypeOK, vars
<1>9. QED
  BY <1>1, <1>2, <1>3, <1>4, <1>5, <1>6, <1>7, <1>8
  DEF Next, CallerStep, FailFast, TimeOut, BailOut, Fast, Kinds

(* Every number of the state is a natural number: what the leaves below     *)
(* need of the types.                                                       *)
LEMMA Numbers ==
  TypeOK => /\ posLeft \in Nat /\ markLeft \in Nat /\ softLeft \in Nat
            /\ \A c \in Callers : /\ left[c] \in Nat /\ left[c] <= Cap[c] /\ Cap[c] \in Nat
                                  /\ waited[c] \in Nat /\ budget[c] \in Nat
  BY VariablesCacheAssumption DEF TypeOK

(* The positive entry keeps eclipsing the requests it overtook.             *)
LEMMA EclipsingStep == TypeOK /\ Eclipsing /\ [Next]_vars => Eclipsing'
<1> SUFFICES ASSUME TypeOK, Eclipsing, [Next]_vars PROVE Eclipsing'
  OBVIOUS
<1> USE VariablesCacheAssumption, Numbers
<1>1. ASSUME NEW c \in Callers, CallServed(c) \/ CallDenied(c) \/ CallMisses(c) PROVE Eclipsing'
  BY <1>1 DEF TypeOK, Eclipsing, CallServed, CallDenied, CallMisses, Enter
<1>2. ASSUME NEW c \in Callers, Dispatch(c) PROVE Eclipsing'
  BY <1>2 DEF TypeOK, Eclipsing, Dispatch
<1>3. ASSUME NEW c \in Callers, NEW kept \in BOOLEAN, Succeed(c, kept) PROVE Eclipsing'
  <2>1. CASE kept
    BY <1>3, <2>1, PositiveOutlivesCalls DEF TypeOK, Eclipsing, Succeed, Sent
  <2>2. CASE ~kept
    BY <1>3, <2>2 DEF TypeOK, Eclipsing, Succeed
  <2>3. QED
    BY <2>1, <2>2
<1>4. ASSUME NEW c \in Callers, NEW kind \in Kinds, Fail(c, kind) PROVE Eclipsing'
  BY <1>4 DEF TypeOK, Eclipsing, Fail
<1>5. ASSUME NEW c \in Callers, Return(c) PROVE Eclipsing'
  BY <1>5 DEF TypeOK, Eclipsing, Return
<1>6. ASSUME EvictPositive \/ EvictMarker PROVE Eclipsing'
  BY <1>6 DEF Eclipsing, EvictPositive, EvictMarker
<1>7. ASSUME Tick PROVE Eclipsing'
  BY <1>7 DEF TypeOK, Eclipsing, Tick, Less, Sent
<1>8. ASSUME UNCHANGED vars PROVE Eclipsing'
  BY <1>8 DEF Eclipsing, vars
<1>9. QED
  BY <1>1, <1>2, <1>3, <1>4, <1>5, <1>6, <1>7, <1>8
  DEF Next, CallerStep, FailFast, TimeOut, BailOut, Fast, Kinds

(* Nothing shortens a request of a caller without a deadline.               *)
LEMMA WholeCapStep == TypeOK /\ WholeCap /\ [Next]_vars => WholeCap'
<1> SUFFICES ASSUME TypeOK, WholeCap, [Next]_vars PROVE WholeCap'
  OBVIOUS
<1> USE VariablesCacheAssumption
<1>1. ASSUME NEW c \in Callers, CallServed(c) \/ CallDenied(c) \/ CallMisses(c) PROVE WholeCap'
  BY <1>1 DEF TypeOK, WholeCap, CallServed, CallDenied, CallMisses, Enter, Budgets
<1>2. ASSUME NEW c \in Callers, Dispatch(c) PROVE WholeCap'
  BY <1>2 DEF TypeOK, WholeCap, Dispatch
<1>3. ASSUME NEW c \in Callers, NEW kept \in BOOLEAN, Succeed(c, kept) PROVE WholeCap'
  BY <1>3 DEF TypeOK, WholeCap, Succeed
<1>4. ASSUME NEW c \in Callers, NEW kind \in Kinds, Fail(c, kind) PROVE WholeCap'
  BY <1>4 DEF TypeOK, WholeCap, Fail
<1>5. ASSUME NEW c \in Callers, Return(c) PROVE WholeCap'
  BY <1>5 DEF TypeOK, WholeCap, Return
<1>6. ASSUME EvictPositive \/ EvictMarker PROVE WholeCap'
  BY <1>6 DEF WholeCap, EvictPositive, EvictMarker
<1>7. ASSUME Tick PROVE WholeCap'
  BY <1>7 DEF TypeOK, WholeCap, Tick
<1>8. ASSUME UNCHANGED vars PROVE WholeCap'
  BY <1>8 DEF WholeCap, vars
<1>9. QED
  BY <1>1, <1>2, <1>3, <1>4, <1>5, <1>6, <1>7, <1>8
  DEF Next, CallerStep, FailFast, TimeOut, BailOut, Fast, Kinds

(* What a failure writes is evidence, and is not refuted: a request that a  *)
(* kept success overtook still finds the entry alive.                       *)
LEMMA FailKeeps ==
  ASSUME IInv, NEW c \in Callers, NEW kind \in Kinds, Fail(c, kind),
         kind # "bailout" => stage[c] = "sent"
  PROVE  Evidence' /\ NotResurrected'
<1> USE VariablesCacheAssumption, Numbers DEF IInv
<1>1. CASE Writes(kind)
  <2>1. c \notin eclipsed
    BY <1>1 DEF Writes, Eclipsing
  <2>2. NotResurrected'
    BY <1>1, <2>1 DEF Fail, NotResurrected
  <2>3. kind \in Cacheable /\ stage[c] = "sent"
    BY <1>1 DEF Writes, Cacheable
  <2>4. marker' = [kind |-> kind, cap |-> Cap[c], waited |-> waited[c],
                   deadline |-> c \in WithDeadline]
    BY <1>1 DEF Fail
  <2>5. c \notin WithDeadline => waited[c] = Cap[c]
    BY <2>3 DEF WholeCap
  <2>6. Evidence'
    BY <2>3, <2>4, <2>5, Zenon DEF Evidence
  <2>7. QED
    BY <2>2, <2>6
<1>2. CASE ~Writes(kind)
  BY <1>2 DEF Fail, Evidence, NotResurrected
<1>3. QED
  BY <1>1, <1>2

(* The invariant is inductive.                                              *)
LEMMA NextIInv == IInv /\ [Next]_vars => IInv'
<1> SUFFICES ASSUME IInv, [Next]_vars PROVE IInv'
  OBVIOUS
<1>1. TypeOK' /\ Eclipsing' /\ WholeCap'
  BY TypeOKStep, EclipsingStep, WholeCapStep DEF IInv
<1>2. Evidence' /\ NotResurrected'
  <2> USE Numbers DEF IInv
  <2>1. ASSUME NEW c \in Callers,
               CallServed(c) \/ CallDenied(c) \/ CallMisses(c) \/ Dispatch(c) \/ Return(c)
        PROVE  Evidence' /\ NotResurrected'
    BY <2>1 DEF Evidence, NotResurrected, CallServed, CallDenied, CallMisses, Enter,
                Dispatch, Return
  <2>2. ASSUME NEW c \in Callers, NEW kept \in BOOLEAN, Succeed(c, kept)
        PROVE  Evidence' /\ NotResurrected'
    BY <2>2 DEF Evidence, NotResurrected, Succeed
  <2>3. ASSUME NEW c \in Callers, NEW kind \in Fast, FailFast(c, kind)
        PROVE  Evidence' /\ NotResurrected'
    BY <2>3, FailKeeps DEF FailFast, Fast
  <2>4. ASSUME NEW c \in Callers, TimeOut(c) \/ BailOut(c)
        PROVE  Evidence' /\ NotResurrected'
    BY <2>4, FailKeeps DEF TimeOut, BailOut, Kinds
  <2>5. ASSUME EvictPositive \/ EvictMarker
        PROVE  Evidence' /\ NotResurrected'
    BY <2>5 DEF Evidence, NotResurrected, EvictPositive, EvictMarker
  <2>6. ASSUME Tick
        PROVE  Evidence' /\ NotResurrected'
    BY <2>6 DEF Evidence, NotResurrected, Tick, Less
  <2>7. ASSUME UNCHANGED vars
        PROVE  Evidence' /\ NotResurrected'
    BY <2>7 DEF Evidence, NotResurrected, vars
  <2>8. QED
    BY <2>1, <2>2, <2>3, <2>4, <2>5, <2>6, <2>7 DEF Next, CallerStep
<1>3. QED
  BY <1>1, <1>2 DEF IInv

(* The state keeps its types: what is left of a timer never exceeds what it *)
(* was set to, no request waits longer than its cap.                        *)
THEOREM VariablesCacheTypeOK == Spec => []TypeOK
<1>1. Spec => []IInv
  BY InitIInv, NextIInv, PTL DEF Spec
<1>2. IInv => TypeOK
  BY DEF IInv
<1>3. QED
  BY <1>1, <1>2, PTL

(* No failure, however slow, brings back a marker that a success whose      *)
(* response was kept has contradicted.                                      *)
THEOREM NeverResurrected == Spec => []NotResurrected
<1>1. Spec => []IInv
  BY InitIInv, NextIInv, PTL DEF Spec
<1>2. IInv => NotResurrected
  BY DEF IInv
<1>3. QED
  BY <1>1, <1>2, PTL

(* A call is denied from the cache on a warrant only: whitelisted evidence, *)
(* at least the caller's own cap, within the soft life where there is one,  *)
(* and a wait at least as long as the caller's where no deadline cut it.    *)
THEOREM DenialsAreWarranted == Spec => DenialIsWarranted
<1>1. ASSUME IInv, [Next]_vars, NEW c \in Callers, Denied(c)
      PROVE  CallDenied(c)
  <2>1. stage \in [Callers -> Stages]
    BY <1>1 DEF IInv, TypeOK
  <2>2. stage'[c] = "denied" /\ stage[c] # "denied"
    BY <1>1 DEF Denied
  <2>3. stage' # stage
    BY <2>2
  <2>4. ~(Tick \/ EvictPositive \/ EvictMarker \/ UNCHANGED vars)
    BY <2>3 DEF Tick, EvictPositive, EvictMarker, vars
  <2>5. PICK d \in Callers : CallerStep(d)
    BY <1>1, <2>4 DEF Next
  <2>6. \E to \in Stages : stage' = [stage EXCEPT ![d] = to] /\ (to = "denied" => CallDenied(d))
    BY <2>5, Zenon
    DEF CallerStep, CallServed, CallMisses, CallDenied, Enter, Dispatch, Succeed, FailFast, TimeOut,
        BailOut, Fail, Return, Stages
  <2>7. QED
    BY <2>1, <2>2, <2>6
<1>2. ASSUME IInv, NEW c \in Callers, CallDenied(c)
      PROVE  /\ marker.kind \in Cacheable
             /\ Cap[c] <= marker.cap
             /\ marker.kind = "tooLarge" /\ Cap[c] = marker.cap => softLeft > 0
             /\ marker.kind = "timeout" /\ ~marker.deadline => Cap[c] <= marker.waited
  BY <1>2, Numbers, VariablesCacheAssumption
  DEF CallDenied, Denies, SoftOpen, IInv, TypeOK, Evidence, Markers
<1>3. IInv /\ [Next]_vars =>
        [\A c \in Callers : Denied(c) =>
           /\ marker.kind \in Cacheable
           /\ Cap[c] <= marker.cap
           /\ marker.kind = "tooLarge" /\ Cap[c] = marker.cap => softLeft > 0
           /\ marker.kind = "timeout" /\ ~marker.deadline => Cap[c] <= marker.waited]_vars
  BY <1>1, <1>2
<1>4. Spec => []IInv
  BY InitIInv, NextIInv, PTL DEF Spec
<1>5. QED
  BY <1>3, <1>4, PTL DEF Spec, DenialIsWarranted

--------------------------------------------------------------------------------
(* VersionedReads: ReadsAreBounded.                                         *)
(*                                                                          *)
(* How old an answer can be is how old the request was that brought it, so  *)
(* the invariant follows each revision from the request that samples it,    *)
(* through the caches and the callers it passes through, and relates the    *)
(* moment it was last current to the moment each of them began.             *)

(* The revisions Figma has had are replaced in order, none before it came.  *)
HeadOK ==
  /\ clock \in Nat /\ head \in Revisions
  /\ until \in [Revisions -> Nat \cup {None}]
  /\ \A r \in Revisions : IF r < head THEN until[r] \in Nat /\ until[r] <= clock ELSE until[r] = None
  /\ \A q, r \in 1..(head - 1) : q <= r => until[q] <= until[r]

(* What a cache holds is a revision Figma has had, and its answer was young. *)
Kept(entry, ttl) ==
  entry # None => /\ entry \in [value : 1..head, expires : Nat]
                  /\ entry.expires <= clock + ttl
                  /\ CurrentSince(entry.value, entry.expires - ttl - Timeout)
CachesOK ==
  /\ Kept(versionCache, VersionTTL) /\ Kept(structureCache, StructureTTL)
  /\ docCache \in [Revisions -> Revisions \cup {None}]
  /\ pinCache \in [Revisions -> Revisions \cup {None}]
  /\ \A v \in Revisions : docCache[v] # None => docCache[v] \in v..head
  /\ \A v \in Revisions : pinCache[v] \in {v, None} /\ (pinCache[v] # None => v <= head)

(* A flight is of a key that can be asked for; Figma answered it after it   *)
(* set out, and its timer has not yet gone off.                             *)
FlightKeys == Adapters \X {"version", "structure"} \X {None} \cup Adapters \X {"doc", "pin"} \X Revisions
FlightOK(f) ==
  /\ f \in FlightKeys
  /\ flights[f] \in [since : 0..clock, got : (1..head) \cup {None}, again : BOOLEAN]
  /\ Timed(f) => clock <= flights[f].since + Timeout
  /\ ~Timed(f) => f[3] <= head
  /\ f[2] # "pin" /\ flights[f].got # None => CurrentSince(flights[f].got, flights[f].since)
  /\ f[2] = "doc" /\ flights[f].got # None => flights[f].got >= f[3]
FlightsOK ==
  /\ flights \in [DOMAIN flights -> [since : Nat, got : Revisions \cup {None}, again : BOOLEAN]]
  /\ \A f \in DOMAIN flights : FlightOK(f)

(* A caller waits for a flight that is on, which set out at most a Timeout  *)
(* before its call did.                                                     *)
ReaderSet == [at : {"idle", "version", "keyed", "content", "done"}, on : Adapters, kind : ReadKinds,
              version : Revisions \cup {None}, began : Nat \cup {None}, got : Revisions \cup {None}]
Young(c) == CurrentSince(reader[c].version, reader[c].began - VersionTTL - Timeout)
ReaderOK(c) ==
  /\ reader[c].at # "idle" => reader[c].began \in 0..clock
  /\ reader[c].at = "version" =>
       LET f == <<reader[c].on, "version", None>>
       IN  reader[c].kind = "doc" /\ f \in DOMAIN flights /\ reader[c].began <= flights[f].since + Timeout
  /\ reader[c].at \in {"keyed", "content"} /\ reader[c].kind # "structure" => reader[c].version \in 1..head
  /\ reader[c].at \in {"keyed", "content"} /\ reader[c].kind = "doc" => Young(c)
  /\ reader[c].at = "keyed" => reader[c].kind # "structure"
  /\ reader[c].at = "content" => Flight(c, reader[c].version) \in DOMAIN flights
  /\ reader[c].at = "content" /\ reader[c].kind = "structure" =>
       LET f == Flight(c, reader[c].version)
       IN  /\ reader[c].version = None /\ reader[c].began <= flights[f].since + Timeout
           /\ flights[f].since <= IF flights[f].again THEN reader[c].began + Timeout ELSE reader[c].began
  /\ reader[c].at = "done" =>
       /\ reader[c].got \in 1..head
       /\ reader[c].kind = "doc" => CurrentSince(reader[c].got, reader[c].began - VersionTTL - Timeout)
       /\ reader[c].kind = "structure" => CurrentSince(reader[c].got, reader[c].began - StructureTTL - Timeout)
ReadersOK == reader \in [Readers -> ReaderSet] /\ \A c \in Readers : ReaderOK(c)

ReadsIInv == HeadOK /\ CachesOK /\ FlightsOK /\ ReadersOK

--------------------------------------------------------------------------------
(* What is known of the revisions.                                          *)
LEMMA Had ==
  ASSUME HeadOK
  PROVE  /\ 1..head \subseteq Revisions /\ head \in Nat \ {0} /\ LastRevision \in Nat /\ None \notin Revisions
         /\ \A r \in 1..head : until[r] = None \/ until[r] \in Nat
  BY VersionedReadsAssumption DEF HeadOK, Revisions

(* What was current since a moment was current since every earlier one, and *)
(* so were the revisions that came after it.                                *)
LEMMA StillNewer ==
  ASSUME HeadOK, NEW v \in 1..head, NEW r \in v..head, NEW t \in Int, NEW s \in Int, s <= t, CurrentSince(v, t)
  PROVE  CurrentSince(r, s)
<1>1. v \in Revisions /\ r \in Revisions /\ head \in Nat /\ v \in Nat /\ r \in Nat /\ v <= r /\ r <= head
  BY VersionedReadsAssumption DEF HeadOK, Revisions
<1>2. CASE until[r] = None
  BY <1>2 DEF CurrentSince
<1>3. CASE until[r] # None
  <2>1. r < head
    BY <1>1, <1>3 DEF HeadOK
  <2>2. until[v] \in Nat /\ until[r] \in Nat /\ until[v] <= until[r]
    BY <1>1, <2>1 DEF HeadOK
  <2>3. until[v] >= t
    BY <2>2, VersionedReadsAssumption DEF CurrentSince
  <2>4. QED
    BY <2>2, <2>3 DEF CurrentSince
<1>4. QED
  BY <1>2, <1>3

(* An edit replaces a revision that was current until now.                  *)
LEMMA Replaced ==
  ASSUME HeadOK, Publish
  PROVE  /\ HeadOK' /\ head' = head + 1 /\ clock' = clock
         /\ \A r \in 1..head, t \in Int : t <= clock /\ CurrentSince(r, t) => until'[r] = None \/ until'[r] >= t
<1>1. head \in Nat /\ head' \in Revisions /\ head \in Revisions /\ head' = head + 1 /\ clock \in Nat /\ clock' = clock
  BY VersionedReadsAssumption DEF HeadOK, Publish, Revisions
<1>2. until'[head] = clock /\ \A r \in Revisions \ {head} : until'[r] = until[r]
  BY <1>1 DEF HeadOK, Publish
<1>3. until' \in [Revisions -> Nat \cup {None}]
  BY <1>1 DEF HeadOK, Publish
<1>4. \A r \in Revisions : IF r < head' THEN until'[r] \in Nat /\ until'[r] <= clock' ELSE until'[r] = None
  BY <1>1, <1>2 DEF HeadOK, Revisions
<1>5. \A q, r \in 1..(head' - 1) : q <= r => until'[q] <= until'[r]
  <2> SUFFICES ASSUME NEW q \in 1..(head' - 1), NEW r \in 1..(head' - 1), q <= r PROVE until'[q] <= until'[r]
    OBVIOUS
  <2>1. q \in Revisions /\ r \in Revisions /\ q <= head /\ r <= head
    BY <1>1, VersionedReadsAssumption DEF Revisions
  <2>2. CASE r = head
    BY <1>1, <1>2, <1>4, <2>1, <2>2
  <2>3. CASE r # head
    <3>1. q # head /\ q \in 1..(head - 1) /\ r \in 1..(head - 1)
      BY <1>1, <2>1, <2>3
    <3>2. until[q] <= until[r]
      BY <3>1 DEF HeadOK
    <3>3. QED
      BY <1>2, <2>1, <2>3, <3>1, <3>2
  <2>4. QED
    BY <2>2, <2>3
<1>6. ASSUME NEW r \in 1..head, NEW t \in Int, t <= clock, CurrentSince(r, t) PROVE until'[r] = None \/ until'[r] >= t
  <2>1. r \in Revisions
    BY <1>1, VersionedReadsAssumption DEF Revisions
  <2>2. QED
    BY <1>1, <1>2, <1>6, <2>1 DEF CurrentSince
<1>7. QED
  BY <1>1, <1>3, <1>4, <1>5, <1>6 DEF HeadOK

--------------------------------------------------------------------------------
(* The flights.                                                             *)
Now3 == UNCHANGED <<clock, head, until>>

LEMMA FlightStays ==
  ASSUME NEW f \in DOMAIN flights, FlightOK(f), Now3, f \in DOMAIN flights', flights'[f] = flights[f]
  PROVE  FlightOK(f)'
  BY DEF FlightOK, Now3, Timed, CurrentSince

LEMMA JoinKeeps ==
  ASSUME HeadOK, FlightsOK, Now3, NEW f \in FlightKeys, Timed(f) \/ f[3] <= head, Join(f)
  PROVE  /\ FlightsOK' /\ f \in DOMAIN flights'
         /\ \A g \in DOMAIN flights : g \in DOMAIN flights' /\ flights'[g] = flights[g]
         /\ flights'[f].since \in Nat /\ flights'[f].again \in BOOLEAN
         /\ flights'[f].since <= clock /\ (Timed(f) => clock <= flights'[f].since + Timeout)
<1>1. CASE f \in DOMAIN flights
  <2>1. flights' = flights
    BY <1>1 DEF Join
  <2>2. FlightsOK'
    <3>1. \A g \in DOMAIN flights : FlightOK(g)'
      BY <2>1, FlightStays DEF FlightsOK
    <3>2. QED
      BY <2>1, <3>1 DEF FlightsOK
  <2>3. FlightOK(f)
    BY <1>1 DEF FlightsOK
  <2>4. QED
    BY <1>1, <2>1, <2>2, <2>3 DEF FlightOK, HeadOK
<1>2. CASE f \notin DOMAIN flights
  <2> DEFINE new == [since |-> clock, got |-> None, again |-> FALSE]
  <2>1. /\ DOMAIN flights' = DOMAIN flights \cup {f} /\ flights'[f] = new
        /\ \A g \in DOMAIN flights : flights'[g] = flights[g]
        /\ flights' = [g \in DOMAIN flights \cup {f} |-> IF g = f THEN new ELSE flights[g]]
    BY <1>2 DEF Join, Put
  <2>2. new \in [since : Nat, got : Revisions \cup {None}, again : BOOLEAN]
    BY DEF HeadOK
  <2>3. flights' \in [DOMAIN flights' -> [since : Nat, got : Revisions \cup {None}, again : BOOLEAN]]
    BY <2>1, <2>2 DEF FlightsOK
  <2>4. FlightOK(f)'
    <3>1. new \in [since : 0..clock, got : (1..head) \cup {None}, again : BOOLEAN]
      BY DEF HeadOK
    <3>2. clock <= clock + Timeout
      BY VersionedReadsAssumption DEF HeadOK
    <3>3. QED
      BY <2>1, <3>1, <3>2 DEF FlightOK, Now3, Timed
  <2>5. \A g \in DOMAIN flights : FlightOK(g)'
    BY <2>1, FlightStays DEF FlightsOK
  <2>6. FlightsOK'
    BY <2>1, <2>3, <2>4, <2>5 DEF FlightsOK
  <2>7. QED
    BY <2>1, <2>6, VersionedReadsAssumption DEF HeadOK
<1>3. QED
  BY <1>1, <1>2

LEMMA LandedKeeps ==
  ASSUME FlightsOK, Now3, NEW f, flights' = Landed(f)
  PROVE  /\ FlightsOK'
         /\ \A g \in DOMAIN flights \ {f} : g \in DOMAIN flights' /\ flights'[g] = flights[g]
<1>1. DOMAIN flights' = DOMAIN flights \ {f} /\ \A g \in DOMAIN flights \ {f} : flights'[g] = flights[g]
  BY DEF Landed, Restrict
<1>2. \A g \in DOMAIN flights' : FlightOK(g)'
  BY <1>1, FlightStays DEF FlightsOK
<1>3. flights' \in [DOMAIN flights' -> [since : Nat, got : Revisions \cup {None}, again : BOOLEAN]]
  BY <1>1 DEF FlightsOK, Landed, Restrict
<1>4. QED
  BY <1>1, <1>2, <1>3 DEF FlightsOK

LEMMA SampleKeeps ==
  ASSUME HeadOK, FlightsOK, NEW f \in DOMAIN flights, Sample(f)
  PROVE  /\ FlightsOK'
         /\ \A g \in DOMAIN flights : /\ g \in DOMAIN flights' /\ flights'[g].since = flights[g].since
                                      /\ flights'[g].again = flights[g].again
<1>1. PICK r \in {head} \cup (IF f[2] = "pin" THEN {f[3]} ELSE {}) : flights' = [flights EXCEPT ![f].got = r]
  BY DEF Sample
<1>2. Now3
  BY DEF Sample, Now3
<1>3. FlightOK(f)
  BY DEF FlightsOK
<1>4. r \in 1..head /\ r \in Revisions
  <2>1. CASE r = head
    BY <2>1, Had DEF HeadOK
  <2>2. CASE r # head
    <3>1. f[2] = "pin" /\ r = f[3]
      BY <1>1, <2>2
    <3>2. r \in Revisions /\ r <= head
      BY <1>3, <3>1 DEF FlightOK, FlightKeys, Timed
    <3>3. QED
      BY <3>2, Had DEF Revisions, HeadOK
  <2>3. QED
    BY <2>1, <2>2
<1>5. /\ DOMAIN flights' = DOMAIN flights /\ flights'[f] = [flights[f] EXCEPT !.got = r]
      /\ \A g \in DOMAIN flights \ {f} : flights'[g] = flights[g]
  BY <1>1
<1>6. flights[f] \in [since : Nat, got : Revisions \cup {None}, again : BOOLEAN]
  BY DEF FlightsOK
<1>7. /\ flights'[f] \in [since : Nat, got : Revisions \cup {None}, again : BOOLEAN]
      /\ flights'[f].got = r /\ flights'[f].since = flights[f].since /\ flights'[f].again = flights[f].again
  BY <1>4, <1>5, <1>6
<1>8. flights' \in [DOMAIN flights' -> [since : Nat, got : Revisions \cup {None}, again : BOOLEAN]]
  BY <1>1, <1>5, <1>7 DEF FlightsOK
<1>9. FlightOK(f)'
  <2>1. flights'[f] \in [since : 0..clock, got : (1..head) \cup {None}, again : BOOLEAN]
    BY <1>3, <1>4, <1>5 DEF FlightOK
  <2>2. f[2] # "pin" => until[r] = None
    <3>1. f[2] # "pin" => r = head
      BY <1>1
    <3>2. until[head] = None
      BY Had DEF HeadOK
    <3>3. QED
      BY <3>1, <3>2
  <2>3. f[2] = "doc" => r >= f[3]
    BY <1>1, <1>3 DEF FlightOK, Timed, FlightKeys, HeadOK, Revisions
  <2>4. QED
    BY <1>2, <1>3, <1>7, <2>1, <2>2, <2>3 DEF FlightOK, Now3, Timed, CurrentSince
<1>10. \A g \in DOMAIN flights : FlightOK(g)'
  BY <1>2, <1>5, <1>9, FlightStays DEF FlightsOK
<1>11. QED
  BY <1>5, <1>7, <1>8, <1>10 DEF FlightsOK

--------------------------------------------------------------------------------
(* A caller whose flights go on.                                            *)
GoesOn(f) == /\ f \in DOMAIN flights' /\ flights'[f].since = flights[f].since
             /\ flights'[f].again = flights[f].again
LEMMA ReaderStays ==
  ASSUME NEW c \in Readers, ReaderOK(c), Now3, reader'[c] = reader[c],
         \A f \in DOMAIN flights : c \in Aboard(f) => GoesOn(f)
  PROVE  ReaderOK(c)'
<1>1. reader[c].at = "version" => GoesOn(<<reader[c].on, "version", None>>)
  BY DEF ReaderOK, Aboard
<1>2. reader[c].at = "content" => GoesOn(Flight(c, reader[c].version))
  BY DEF ReaderOK, Aboard
<1>3. Flight(c, reader[c].version)' = Flight(c, reader[c].version) /\ Young(c)' = Young(c)
  BY DEF Flight, Young, Now3, CurrentSince
<1>4. QED
  BY <1>1, <1>2, <1>3 DEF ReaderOK, Now3, CurrentSince, GoesOn

(* So do the others when one caller moves.                                  *)
LEMMA OthersStay ==
  ASSUME ReadersOK, Now3, NEW c \in Readers, NEW r \in ReaderSet, reader' = [reader EXCEPT ![c] = r],
         \A f \in DOMAIN flights : GoesOn(f),
         ReaderOK(c)'
  PROVE  ReadersOK'
<1>1. reader' \in [Readers -> ReaderSet] /\ \A d \in Readers \ {c} : reader'[d] = reader[d]
  BY DEF ReadersOK
<1>2. \A d \in Readers \ {c} : ReaderOK(d)'
  BY <1>1, ReaderStays DEF ReadersOK
<1>3. QED
  BY <1>1, <1>2 DEF ReadersOK

(* Those aboard of a flight that lands are told; the others go on.          *)
LEMMA TheOthersStay ==
  ASSUME ReadersOK, Now3, NEW f, flights' = Landed(f), reader' \in [Readers -> ReaderSet],
         \A c \in Readers \ Aboard(f) : reader'[c] = reader[c],
         \A c \in Aboard(f) : ReaderOK(c)'
  PROVE  ReadersOK'
<1>1. \A g \in DOMAIN flights \ {f} : GoesOn(g)
  BY DEF Landed, Restrict, GoesOn
<1>2. \A c \in Readers \ Aboard(f) : ReaderOK(c)'
  BY <1>1, ReaderStays DEF ReadersOK
<1>3. QED
  BY <1>2 DEF ReadersOK

LEMMA Idle ==
  ASSUME NEW a \in Adapters, NEW kind \in ReadKinds
  PROVE  NoRead(a, kind) \in ReaderSet
  BY DEF NoRead, ReaderSet

--------------------------------------------------------------------------------
(* The steps.                                                               *)
LEMMA ReadContentKeeps ==
  ASSUME ReadsIInv, NEW c \in Readers, ReadContent(c)
  PROVE  ReadsIInv'
<1> DEFINE f == <<reader[c].on, "version", None>>
<1>0. HeadOK /\ CachesOK /\ FlightsOK /\ ReadersOK /\ Now3 /\ clock \in Nat
  BY DEF ReadsIInv, ReadContent, Now3, HeadOK
<1>1. reader[c] \in ReaderSet /\ reader[c].kind = "doc" /\ reader[c].on \in Adapters
  BY <1>0 DEF ReadersOK, ReadContent, Asks, ReaderSet
<1>2. HeadOK' /\ CachesOK'
  BY <1>0 DEF HeadOK, CachesOK, Kept, CurrentSince, Now3, ReadContent
<1>3. CASE VersionHit /\ UNCHANGED <<versionCache, flights>> /\ reader' = Begin(c, "keyed", versionCache.value)
  <2> DEFINE r == [reader[c] EXCEPT !.at = "keyed", !.version = versionCache.value, !.began = clock]
  <2>1. reader' = [reader EXCEPT ![c] = r] /\ reader'[c] = r
    BY <1>0, <1>3 DEF ReadersOK, Begin
  <2>2. /\ versionCache.value \in 1..head /\ versionCache.expires \in Nat /\ clock < versionCache.expires
        /\ CurrentSince(versionCache.value, versionCache.expires - VersionTTL - Timeout)
    BY <1>0, <1>3 DEF VersionHit, CachesOK, Kept
  <2>3. versionCache.value \in Revisions /\ versionCache.value \in versionCache.value..head
    BY <1>0, <2>2, Had
  <2>4. r \in ReaderSet
    BY <1>0, <1>1, <2>3 DEF ReaderSet
  <2>5. CurrentSince(versionCache.value, clock - VersionTTL - Timeout)
    <3>1. versionCache.expires - VersionTTL - Timeout \in Int /\ clock - VersionTTL - Timeout \in Int
          /\ clock - VersionTTL - Timeout <= versionCache.expires - VersionTTL - Timeout
      BY <1>0, <2>2, VersionedReadsAssumption
    <3>2. QED
      BY <1>0, <2>2, <2>3, <3>1, StillNewer
  <2>6. /\ reader'[c].at = "keyed" /\ reader'[c].kind = "doc"
        /\ reader'[c].version = versionCache.value /\ reader'[c].began = clock
    BY <1>1, <2>1 DEF ReaderSet
  <2>7. Young(c)'
    BY <1>0, <2>5, <2>6 DEF Young, CurrentSince, Now3
  <2>8. ReaderOK(c)'
    BY <1>0, <2>2, <2>6, <2>7 DEF ReaderOK, Now3
  <2>9. FlightsOK' /\ \A g \in DOMAIN flights : GoesOn(g)
    BY <1>0, <1>3, FlightStays DEF FlightsOK, GoesOn
  <2>10. ReadersOK'
    BY <1>0, <2>1, <2>4, <2>8, <2>9, OthersStay
  <2>11. QED
    BY <1>2, <2>9, <2>10 DEF ReadsIInv
<1>4. CASE Join(f) /\ reader' = Begin(c, "version", None)
  <2> DEFINE r == [reader[c] EXCEPT !.at = "version", !.version = None, !.began = clock]
  <2>1. reader' = [reader EXCEPT ![c] = r] /\ reader'[c] = r
    BY <1>0, <1>4 DEF ReadersOK, Begin
  <2>2. r \in ReaderSet
    BY <1>0, <1>1 DEF ReaderSet
  <2>3. /\ reader'[c].at = "version" /\ reader'[c].kind = "doc" /\ reader'[c].on = reader[c].on
        /\ reader'[c].began = clock
    <3>1. r.at = "version" /\ r.kind = "doc" /\ r.on = reader[c].on /\ r.began = clock
      BY <1>1 DEF ReaderSet
    <3>2. QED
      BY <2>1, <3>1
  <2>4. f \in FlightKeys /\ Timed(f)
    BY <1>1 DEF FlightKeys, Timed
  <2>5. /\ FlightsOK' /\ f \in DOMAIN flights' /\ clock <= flights'[f].since + Timeout
        /\ \A g \in DOMAIN flights : g \in DOMAIN flights' /\ flights'[g] = flights[g]
    BY <1>0, <1>4, <2>4, JoinKeeps
  <2>6. ReaderOK(c)'
    BY <1>0, <2>3, <2>5 DEF ReaderOK, Now3
  <2>7. ReadersOK'
    BY <1>0, <2>1, <2>2, <2>5, <2>6, OthersStay DEF GoesOn
  <2>8. QED
    BY <1>2, <2>5, <2>7 DEF ReadsIInv
<1>5. QED
  BY <1>3, <1>4 DEF ReadContent

LEMMA KeyedKeeps ==
  ASSUME ReadsIInv, NEW c \in Readers, Keyed(c)
  PROVE  ReadsIInv'
<1> DEFINE v    == reader[c].version
           kept == IF reader[c].kind = "doc" THEN docCache[v] ELSE pinCache[v]
           f    == Flight(c, v)
<1>0. HeadOK /\ CachesOK /\ FlightsOK /\ ReadersOK /\ Now3 /\ UNCHANGED caches /\ clock \in Nat
  BY DEF ReadsIInv, Keyed, Now3, HeadOK
<1>1. /\ reader[c] \in ReaderSet /\ reader[c].at = "keyed" /\ reader[c].kind \in {"doc", "pin"}
      /\ v \in 1..head /\ reader[c].began \in 0..clock /\ (reader[c].kind = "doc" => Young(c))
      /\ reader[c].on \in Adapters
  <2>1. reader[c] \in ReaderSet /\ reader[c].at = "keyed" /\ ReaderOK(c)
    BY <1>0 DEF ReadersOK, Keyed
  <2>2. reader[c].kind \in {"doc", "pin"} /\ reader[c].on \in Adapters
    BY <2>1 DEF ReaderSet, ReaderOK, ReadKinds
  <2>3. QED
    BY <2>1, <2>2 DEF ReaderOK
<1>2. HeadOK' /\ CachesOK'
  BY <1>0 DEF HeadOK, CachesOK, Kept, CurrentSince, Now3, caches
<1>3. CASE kept # None /\ reader' = Done(c, kept) /\ UNCHANGED flights
  <2> DEFINE r == [reader[c] EXCEPT !.at = "done", !.got = kept]
  <2>1. reader' = [reader EXCEPT ![c] = r] /\ reader'[c] = r
    BY <1>0, <1>3 DEF ReadersOK, Done
  <2>2. kept \in 1..head /\ kept \in Revisions /\ (reader[c].kind = "doc" => kept \in v..head)
    <3>1. v \in Revisions /\ v \in Nat \ {0} /\ v <= head /\ head \in Nat
      BY <1>0, <1>1, Had
    <3>2. reader[c].kind = "doc" => kept \in v..head
      BY <1>0, <1>3, <3>1 DEF CachesOK
    <3>3. reader[c].kind = "pin" => kept = v
      BY <1>0, <1>3, <3>1 DEF CachesOK
    <3>4. kept \in 1..head
      BY <1>1, <3>1, <3>2, <3>3
    <3>5. QED
      BY <1>0, <3>2, <3>4, Had
  <2>3. r \in ReaderSet
    BY <1>1, <2>2 DEF ReaderSet
  <2>4. /\ reader'[c].at = "done" /\ reader'[c].kind = reader[c].kind
        /\ reader'[c].began = reader[c].began /\ reader'[c].got = kept
    <3> HIDE DEF kept
    <3>1. r.at = "done" /\ r.kind = reader[c].kind /\ r.began = reader[c].began /\ r.got = kept
      BY <1>1 DEF ReaderSet
    <3>2. QED
      BY <2>1, <3>1
  <2>5. reader[c].kind = "doc" => CurrentSince(kept, reader[c].began - VersionTTL - Timeout)
    <3> SUFFICES ASSUME reader[c].kind = "doc" PROVE CurrentSince(kept, reader[c].began - VersionTTL - Timeout)
      OBVIOUS
    <3>1. reader[c].began - VersionTTL - Timeout \in Int
      BY <1>0, <1>1, VersionedReadsAssumption
    <3>2. CurrentSince(v, reader[c].began - VersionTTL - Timeout)
      BY <1>1 DEF Young
    <3>3. QED
      BY <1>0, <1>1, <2>2, <3>1, <3>2, StillNewer
  <2>6. ReaderOK(c)'
    BY <1>0, <1>1, <2>2, <2>4, <2>5 DEF ReaderOK, Now3, CurrentSince
  <2>7. FlightsOK' /\ \A g \in DOMAIN flights : GoesOn(g)
    BY <1>0, <1>3, FlightStays DEF FlightsOK, GoesOn
  <2>8. ReadersOK'
    BY <1>0, <2>1, <2>3, <2>6, <2>7, OthersStay
  <2>9. QED
    BY <1>2, <2>7, <2>8 DEF ReadsIInv
<1>4. CASE reader' = [reader EXCEPT ![c].at = "content"] /\ Join(f)
  <2> DEFINE r == [reader[c] EXCEPT !.at = "content"]
  <2>1. reader' = [reader EXCEPT ![c] = r] /\ reader'[c] = r
    BY <1>0, <1>4 DEF ReadersOK
  <2>2. r \in ReaderSet
    BY <1>1 DEF ReaderSet
  <2>3. /\ reader'[c].at = "content" /\ reader'[c].kind = reader[c].kind /\ reader'[c].on = reader[c].on
        /\ reader'[c].began = reader[c].began /\ reader'[c].version = v
    BY <1>1, <2>1 DEF ReaderSet
  <2>4. f \in FlightKeys /\ f[3] <= head
    <3>1. v \in Revisions /\ v <= head
      BY <1>0, <1>1, Had
    <3>2. QED
      BY <1>1, <3>1 DEF FlightKeys, Flight
  <2>5. /\ FlightsOK' /\ f \in DOMAIN flights'
        /\ \A g \in DOMAIN flights : g \in DOMAIN flights' /\ flights'[g] = flights[g]
    BY <1>0, <1>4, <2>4, JoinKeeps
  <2>6. Young(c)' = Young(c) /\ Flight(c, reader[c].version)' = f
    BY <1>0, <2>3 DEF Young, CurrentSince, Now3, Flight
  <2>7. ReaderOK(c)'
    BY <1>0, <1>1, <2>3, <2>5, <2>6 DEF ReaderOK, Now3
  <2>8. ReadersOK'
    BY <1>0, <2>1, <2>2, <2>5, <2>7, OthersStay DEF GoesOn
  <2>9. QED
    BY <1>2, <2>5, <2>8 DEF ReadsIInv
<1>5. QED
  BY <1>3, <1>4 DEF Keyed

LEMMA ReadPinnedKeeps ==
  ASSUME ReadsIInv, NEW c \in Readers, ReadPinned(c)
  PROVE  ReadsIInv'
<1>0. HeadOK /\ CachesOK /\ FlightsOK /\ ReadersOK /\ Now3 /\ UNCHANGED <<caches, flights>> /\ clock \in Nat
  BY DEF ReadsIInv, ReadPinned, Now3, HeadOK
<1>1. reader[c] \in ReaderSet /\ reader[c].kind = "pin"
  BY <1>0 DEF ReadersOK, ReadPinned, Asks
<1>2. PICK v \in 1..head : reader' = Begin(c, "keyed", v)
  BY DEF ReadPinned
<1> DEFINE r == [reader[c] EXCEPT !.at = "keyed", !.version = v, !.began = clock]
<1>3. reader' = [reader EXCEPT ![c] = r] /\ reader'[c] = r
  BY <1>0, <1>2 DEF ReadersOK, Begin
<1>4. r \in ReaderSet
  BY <1>0, <1>1, Had DEF ReaderSet
<1>5. /\ reader'[c].at = "keyed" /\ reader'[c].kind = "pin" /\ reader'[c].version = v
      /\ reader'[c].began = clock
  BY <1>1, <1>3 DEF ReaderSet
<1>6. ReaderOK(c)'
  BY <1>0, <1>5 DEF ReaderOK, Now3
<1>7. HeadOK' /\ CachesOK'
  BY <1>0 DEF HeadOK, CachesOK, Kept, CurrentSince, Now3, caches
<1>8. FlightsOK' /\ \A g \in DOMAIN flights : GoesOn(g)
  BY <1>0, FlightStays DEF FlightsOK, GoesOn
<1>9. ReadersOK'
  BY <1>0, <1>3, <1>4, <1>6, <1>8, OthersStay
<1>10. QED
  BY <1>7, <1>8, <1>9 DEF ReadsIInv

LEMMA ReadStructureKeeps ==
  ASSUME ReadsIInv, NEW c \in Readers, ReadStructure(c)
  PROVE  ReadsIInv'
<1> DEFINE f == Flight(c, None)
<1>0. HeadOK /\ CachesOK /\ FlightsOK /\ ReadersOK /\ Now3 /\ UNCHANGED caches /\ clock \in Nat
  BY DEF ReadsIInv, ReadStructure, Now3, HeadOK
<1>1. reader[c] \in ReaderSet /\ reader[c].kind = "structure" /\ reader[c].on \in Adapters
  BY <1>0 DEF ReadersOK, ReadStructure, Asks, ReaderSet
<1>2. HeadOK' /\ CachesOK'
  BY <1>0 DEF HeadOK, CachesOK, Kept, CurrentSince, Now3, caches
<1>3. CASE /\ StructureHit /\ UNCHANGED flights
           /\ reader' = [Begin(c, "done", None) EXCEPT ![c].got = structureCache.value]
  <2> DEFINE got == structureCache.value
             r == [reader[c] EXCEPT !.at = "done", !.version = None, !.began = clock, !.got = got]
  <2>1. reader' = [reader EXCEPT ![c] = r] /\ reader'[c] = r
    BY <1>0, <1>1, <1>3 DEF ReadersOK, Begin, ReaderSet
  <2>2. /\ got \in 1..head /\ structureCache.expires \in Nat /\ clock <= structureCache.expires
        /\ CurrentSince(got, structureCache.expires - StructureTTL - Timeout)
    BY <1>0, <1>3 DEF StructureHit, CachesOK, Kept
  <2>3. got \in Revisions /\ got \in got..head
    BY <1>0, <2>2, Had
  <2>4. r \in ReaderSet
    BY <1>0, <1>1, <2>3 DEF ReaderSet
  <2>5. CurrentSince(got, clock - StructureTTL - Timeout)
    <3>1. structureCache.expires - StructureTTL - Timeout \in Int /\ clock - StructureTTL - Timeout \in Int
          /\ clock - StructureTTL - Timeout <= structureCache.expires - StructureTTL - Timeout
      BY <1>0, <2>2, VersionedReadsAssumption
    <3>2. QED
      BY <1>0, <2>2, <2>3, <3>1, StillNewer
  <2>6. /\ reader'[c].at = "done" /\ reader'[c].kind = "structure" /\ reader'[c].began = clock
        /\ reader'[c].got = got
    <3> HIDE DEF got
    <3>1. r.at = "done" /\ r.kind = "structure" /\ r.began = clock /\ r.got = got
      BY <1>1 DEF ReaderSet
    <3>2. QED
      BY <2>1, <3>1
  <2>7. ReaderOK(c)'
    BY <1>0, <2>2, <2>5, <2>6 DEF ReaderOK, Now3, CurrentSince
  <2>8. FlightsOK' /\ \A g \in DOMAIN flights : GoesOn(g)
    BY <1>0, <1>3, FlightStays DEF FlightsOK, GoesOn
  <2>9. ReadersOK'
    BY <1>0, <2>1, <2>4, <2>7, <2>8, OthersStay
  <2>10. QED
    BY <1>2, <2>8, <2>9 DEF ReadsIInv
<1>4. CASE Join(f) /\ reader' = Begin(c, "content", None)
  <2> DEFINE r == [reader[c] EXCEPT !.at = "content", !.version = None, !.began = clock]
  <2>1. reader' = [reader EXCEPT ![c] = r] /\ reader'[c] = r
    BY <1>0, <1>4 DEF ReadersOK, Begin
  <2>2. r \in ReaderSet
    BY <1>0, <1>1 DEF ReaderSet
  <2>3. /\ reader'[c].at = "content" /\ reader'[c].kind = "structure" /\ reader'[c].on = reader[c].on
        /\ reader'[c].began = clock /\ reader'[c].version = None
    <3>1. /\ r.at = "content" /\ r.kind = "structure" /\ r.on = reader[c].on /\ r.began = clock
          /\ r.version = None
      BY <1>1 DEF ReaderSet
    <3>2. QED
      BY <2>1, <3>1
  <2>4. f \in FlightKeys /\ Timed(f)
    BY <1>1 DEF FlightKeys, Timed, Flight
  <2>5. /\ FlightsOK' /\ f \in DOMAIN flights'
        /\ \A g \in DOMAIN flights : g \in DOMAIN flights' /\ flights'[g] = flights[g]
        /\ flights'[f].since \in Nat /\ flights'[f].again \in BOOLEAN
        /\ flights'[f].since <= clock /\ clock <= flights'[f].since + Timeout
    BY <1>0, <1>4, <2>4, JoinKeeps
  <2>6. Flight(c, reader[c].version)' = f
    BY <1>1, <2>3 DEF Flight
  <2>7. flights'[f].since <= IF flights'[f].again THEN clock + Timeout ELSE clock
    BY <1>0, <2>5, VersionedReadsAssumption
  <2>8. ReaderOK(c)'
    BY <1>0, <2>3, <2>5, <2>6, <2>7 DEF ReaderOK, Now3
  <2>9. ReadersOK'
    BY <1>0, <2>1, <2>2, <2>5, <2>8, OthersStay DEF GoesOn
  <2>10. QED
    BY <1>2, <2>5, <2>9 DEF ReadsIInv
<1>5. QED
  BY <1>3, <1>4 DEF ReadStructure

LEMMA IdleIsOK ==
  ASSUME NEW c \in Readers, reader'[c] = NoRead(reader[c].on, reader[c].kind)
  PROVE  ReaderOK(c)'
  BY DEF ReaderOK, NoRead

LEMMA ReadReturnsKeeps ==
  ASSUME ReadsIInv, NEW c \in Readers, ReadReturns(c)
  PROVE  ReadsIInv'
<1>0. HeadOK /\ CachesOK /\ FlightsOK /\ ReadersOK /\ Now3 /\ UNCHANGED <<caches, flights>>
  BY DEF ReadsIInv, ReadReturns, Now3
<1> DEFINE r == NoRead(reader[c].on, reader[c].kind)
<1>1. reader' = [reader EXCEPT ![c] = r] /\ reader'[c] = r /\ r \in ReaderSet
  <2>1. reader[c] \in ReaderSet
    BY <1>0 DEF ReadersOK
  <2>2. reader[c].on \in Adapters /\ reader[c].kind \in ReadKinds
    BY <2>1 DEF ReaderSet
  <2>3. QED
    BY <1>0, <2>2, Idle DEF ReadersOK, ReadReturns
<1>2. HeadOK' /\ CachesOK'
  BY <1>0 DEF HeadOK, CachesOK, Kept, CurrentSince, Now3, caches
<1>3. FlightsOK' /\ \A g \in DOMAIN flights : GoesOn(g)
  BY <1>0, FlightStays DEF FlightsOK, GoesOn
<1>4. ReadersOK'
  BY <1>0, <1>1, <1>3, IdleIsOK, OthersStay
<1>5. QED
  BY <1>2, <1>3, <1>4 DEF ReadsIInv

LEMMA EvictKeeps ==
  ASSUME ReadsIInv, NEW v \in Revisions, Evict(v)
  PROVE  ReadsIInv'
<1>0. /\ HeadOK /\ CachesOK /\ FlightsOK /\ ReadersOK /\ Now3
      /\ UNCHANGED <<versionCache, structureCache, flights, reader>>
  BY DEF ReadsIInv, Evict, Now3
<1>1. HeadOK'
  BY <1>0 DEF HeadOK, Now3
<1>2. /\ docCache' \in [Revisions -> Revisions \cup {None}] /\ pinCache' \in [Revisions -> Revisions \cup {None}]
      /\ \A w \in Revisions : docCache'[w] \in {docCache[w], None} /\ pinCache'[w] \in {pinCache[w], None}
  BY <1>0 DEF Evict, CachesOK
<1>3. CachesOK'
  BY <1>0, <1>2 DEF CachesOK, Kept, CurrentSince, Now3
<1>4. FlightsOK' /\ \A g \in DOMAIN flights : GoesOn(g)
  BY <1>0, FlightStays DEF FlightsOK, GoesOn
<1>5. ReadersOK'
  BY <1>0, <1>4, ReaderStays DEF ReadersOK
<1>6. QED
  BY <1>1, <1>3, <1>4, <1>5 DEF ReadsIInv

LEMMA SamplingKeeps ==
  ASSUME ReadsIInv, NEW f \in DOMAIN flights, Sample(f)
  PROVE  ReadsIInv'
<1>0. HeadOK /\ CachesOK /\ FlightsOK /\ ReadersOK /\ Now3 /\ UNCHANGED <<caches, reader>>
  BY DEF ReadsIInv, Sample, Now3
<1>1. HeadOK' /\ CachesOK'
  BY <1>0 DEF HeadOK, CachesOK, Kept, CurrentSince, Now3, caches
<1>2. FlightsOK' /\ \A g \in DOMAIN flights : GoesOn(g)
  BY <1>0, SampleKeeps DEF GoesOn
<1>3. ReadersOK'
  BY <1>0, <1>2, ReaderStays DEF ReadersOK
<1>4. QED
  BY <1>1, <1>2, <1>3 DEF ReadsIInv

(* Where a caller is that waits for a flight.                               *)
LEMMA WhoIsAboard ==
  ASSUME ReadersOK, NEW f, NEW c \in Aboard(f)
  PROVE  /\ c \in Readers /\ reader[c] \in ReaderSet /\ ReaderOK(c) /\ f \in DOMAIN flights
         /\ \/ reader[c].at = "version" /\ reader[c].kind = "doc" /\ f = <<reader[c].on, "version", None>>
            \/ reader[c].at = "content" /\ f = <<reader[c].on, reader[c].kind, reader[c].version>>
  BY DEF Aboard, ReadersOK, ReaderOK, Flight

LEMMA ArriveVersionKeeps ==
  ASSUME ReadsIInv, NEW f \in DOMAIN flights, ArriveVersion(f)
  PROVE  ReadsIInv'
<1> DEFINE r == flights[f].got
<1>0. HeadOK /\ CachesOK /\ FlightsOK /\ ReadersOK /\ Now3 /\ clock \in Nat
  BY DEF ReadsIInv, ArriveVersion, Now3, HeadOK
<1>1. /\ f[2] = "version" /\ r \in 1..head /\ r \in Revisions /\ r \in r..head
      /\ flights[f].since \in 0..clock /\ clock <= flights[f].since + Timeout
      /\ CurrentSince(r, flights[f].since)
  <2>1. FlightOK(f) /\ f[2] = "version" /\ r # None
    BY <1>0 DEF FlightsOK, ArriveVersion
  <2>2. r \in 1..head /\ flights[f].since \in 0..clock
    BY <2>1 DEF FlightOK
  <2>3. QED
    BY <1>0, <2>1, <2>2, Had DEF FlightOK, Timed
<1> HIDE DEF r
<1>2. ASSUME NEW t \in Int, t <= flights[f].since PROVE CurrentSince(r, t)
  BY <1>0, <1>1, <1>2, StillNewer
<1>3. CachesOK'
  <2>1. versionCache' = [value |-> r, expires |-> clock + VersionTTL]
    BY DEF ArriveVersion, r
  <2>2. CurrentSince(r, clock - Timeout)
    BY <1>0, <1>1, <1>2, VersionedReadsAssumption
  <2>3. clock + VersionTTL \in Nat
    BY <1>0, VersionedReadsAssumption
  <2>4. Kept(versionCache, VersionTTL)'
    <3>1. versionCache' \in [value : 1..head, expires : Nat] /\ versionCache'.value = r /\ versionCache'.expires = clock + VersionTTL
      BY <1>1, <2>1, <2>2, <2>3
    <3>2. until'[r] = None \/ until'[r] >= versionCache'.expires - VersionTTL - Timeout
      <4>1. versionCache'.expires - VersionTTL - Timeout = clock - Timeout
        BY <1>0, <3>1, VersionedReadsAssumption
      <4>2. QED
        BY <1>0, <2>2, <4>1 DEF CurrentSince, Now3
    <3>3. versionCache'.expires <= clock + VersionTTL
      BY <1>0, <3>1, VersionedReadsAssumption
    <3>4. QED
      BY <1>0, <3>1, <3>2, <3>3 DEF Kept, Now3, CurrentSince
  <2>5. QED
    BY <1>0, <2>4 DEF CachesOK, Kept, CurrentSince, Now3, ArriveVersion
<1>4. FlightsOK' /\ HeadOK' /\ flights' = Landed(f)
  BY <1>0, LandedKeeps DEF ArriveVersion, HeadOK, Now3
<1>5. reader' = [c \in Readers |-> IF c \in Aboard(f) THEN [reader[c] EXCEPT !.at = "keyed", !.version = r] ELSE reader[c]]
  BY DEF ArriveVersion, Told, r
<1>6. ASSUME NEW c \in Aboard(f) PROVE ReaderOK(c)' /\ reader'[c] \in ReaderSet
  <2>1. /\ c \in Readers /\ reader[c] \in ReaderSet /\ ReaderOK(c)
        /\ \/ reader[c].at = "version" /\ reader[c].kind = "doc" /\ f = <<reader[c].on, "version", None>>
           \/ reader[c].at = "content" /\ f = <<reader[c].on, reader[c].kind, reader[c].version>>
    BY <1>0, WhoIsAboard
  <2>2. reader[c].kind # "version"
    BY <2>1 DEF ReaderSet, ReadKinds
  <2>3. reader[c].at = "version" /\ reader[c].kind = "doc" /\ f = <<reader[c].on, "version", None>>
    BY <1>1, <2>1, <2>2
  <2>4. reader[c].began \in 0..clock /\ reader[c].began <= flights[f].since + Timeout
    BY <2>1, <2>3 DEF ReaderOK
  <2>5. CurrentSince(r, reader[c].began - VersionTTL - Timeout)
    BY <1>0, <1>1, <1>2, <2>4, VersionedReadsAssumption
  <2>6. reader'[c] = [reader[c] EXCEPT !.at = "keyed", !.version = r]
    BY <1>5, <2>1
  <2>7. /\ reader'[c].at = "keyed" /\ reader'[c].kind = "doc" /\ reader'[c].version = r
        /\ reader'[c].began = reader[c].began /\ reader'[c] \in ReaderSet
    BY <1>1, <2>1, <2>3, <2>6 DEF ReaderSet
  <2>8. Young(c)'
    BY <1>0, <2>5, <2>7 DEF Young, CurrentSince, Now3
  <2>9. QED
    BY <1>0, <1>1, <2>4, <2>7, <2>8 DEF ReaderOK, Now3
<1>7. /\ reader' \in [Readers -> ReaderSet]
      /\ \A c \in Readers \ Aboard(f) : reader'[c] = reader[c]
  <2>1. \A c \in Readers : reader'[c] \in ReaderSet
    BY <1>0, <1>5, <1>6 DEF ReadersOK
  <2>2. QED
    BY <1>5, <2>1
<1>8. ReadersOK'
  BY <1>0, <1>4, <1>6, <1>7, TheOthersStay
<1>9. QED
  BY <1>3, <1>4, <1>8 DEF ReadsIInv

LEMMA ArriveKeeps ==
  ASSUME ReadsIInv, NEW f \in DOMAIN flights, Arrive(f)
  PROVE  ReadsIInv'
<1> DEFINE r == flights[f].got
<1>0. HeadOK /\ CachesOK /\ FlightsOK /\ ReadersOK /\ Now3 /\ clock \in Nat /\ UNCHANGED versionCache
  BY DEF ReadsIInv, Arrive, Now3, HeadOK
<1>1. /\ f \in FlightKeys /\ f[2] \in {"doc", "pin", "structure"} /\ r \in 1..head /\ r \in Revisions /\ r \in r..head
      /\ flights[f].since \in 0..clock /\ flights[f].again \in BOOLEAN
      /\ f[2] = "structure" => clock <= flights[f].since + Timeout
      /\ f[2] # "pin" => CurrentSince(r, flights[f].since)
      /\ f[2] = "doc" => r \in f[3]..head
      /\ f[2] \in {"doc", "pin"} => f[3] \in Revisions /\ f[3] \in 1..head
  <2>1. FlightOK(f) /\ f[2] # "version" /\ r # None
    BY <1>0 DEF FlightsOK, Arrive
  <2>2. r \in 1..head /\ flights[f].since \in 0..clock /\ flights[f].again \in BOOLEAN
    BY <2>1 DEF FlightOK
  <2>3. f \in FlightKeys /\ f[2] \in {"doc", "pin", "structure"}
    BY <2>1 DEF FlightOK, FlightKeys
  <2>4. f[2] \in {"doc", "pin"} => f[3] \in Revisions /\ f[3] <= head
    BY <2>1 DEF FlightOK, FlightKeys, Timed
  <2>5. f[2] \in {"doc", "pin"} => f[3] \in 1..head
    BY <1>0, <2>4, VersionedReadsAssumption DEF Revisions, HeadOK
  <2>6. f[2] = "doc" => r \in f[3]..head
    BY <1>0, <2>1, <2>2, <2>5 DEF FlightOK
  <2>7. r \in Revisions /\ r \in r..head
    BY <1>0, <2>2, Had
  <2>8. QED
    BY <2>1, <2>2, <2>3, <2>4, <2>5, <2>6, <2>7 DEF FlightOK, Timed
<1> HIDE DEF r
<1>2. ASSUME NEW t \in Int, t <= flights[f].since, f[2] # "pin" PROVE CurrentSince(r, t)
  BY <1>0, <1>1, <1>2, StillNewer
<1>3. CachesOK'
  <2>1. Kept(structureCache, StructureTTL)'
    <3>1. CASE f[2] = "structure"
      <4>1. structureCache' = [value |-> r, expires |-> clock + StructureTTL]
        BY <3>1 DEF Arrive, r
      <4>2. CurrentSince(r, clock - Timeout)
        BY <1>0, <1>1, <1>2, <3>1, VersionedReadsAssumption
      <4>3. clock + StructureTTL \in Nat
        BY <1>0, VersionedReadsAssumption
      <4>4. QED
        <5>1. structureCache' \in [value : 1..head, expires : Nat] /\ structureCache'.value = r /\ structureCache'.expires = clock + StructureTTL
          BY <1>1, <4>1, <4>2, <4>3
        <5>2. until'[r] = None \/ until'[r] >= structureCache'.expires - StructureTTL - Timeout
          <6>1. structureCache'.expires - StructureTTL - Timeout = clock - Timeout
            BY <1>0, <5>1, VersionedReadsAssumption
          <6>2. QED
            BY <1>0, <4>2, <6>1 DEF CurrentSince, Now3
        <5>3. structureCache'.expires <= clock + StructureTTL
          BY <1>0, <5>1, VersionedReadsAssumption
        <5>4. QED
          BY <1>0, <5>1, <5>2, <5>3 DEF Kept, Now3, CurrentSince
    <3>2. CASE f[2] # "structure"
      BY <1>0, <3>2 DEF Arrive, CachesOK, Kept, CurrentSince, Now3
    <3>3. QED
      BY <3>1, <3>2
  <2>2. /\ docCache' \in [Revisions -> Revisions \cup {None}]
        /\ \A v \in Revisions : docCache'[v] # None => docCache'[v] \in v..head
    <3>1. docCache' = IF f[2] = "doc" THEN [docCache EXCEPT ![f[3]] = r] ELSE docCache
      BY DEF Arrive, r
    <3>2. QED
      BY <1>0, <1>1, <3>1 DEF CachesOK
  <2>3. /\ pinCache' \in [Revisions -> Revisions \cup {None}]
        /\ \A v \in Revisions : pinCache'[v] \in {v, None} /\ (pinCache'[v] # None => v <= head)
    <3>1. pinCache' = IF f[2] = "pin" /\ r = f[3] THEN [pinCache EXCEPT ![f[3]] = r] ELSE pinCache
      BY DEF Arrive, Keeps, r
    <3>2. QED
      BY <1>0, <1>1, <3>1 DEF CachesOK
  <2>4. QED
    BY <1>0, <2>1, <2>2, <2>3 DEF CachesOK, Kept, CurrentSince, Now3
<1>4. FlightsOK' /\ HeadOK' /\ flights' = Landed(f)
  BY <1>0, LandedKeeps DEF Arrive, HeadOK, Now3
<1>5. reader' = [c \in Readers |-> IF c \in Aboard(f) THEN [reader[c] EXCEPT !.at = "done", !.got = r] ELSE reader[c]]
  BY DEF Arrive, Told, r
<1>6. ASSUME NEW c \in Aboard(f) PROVE ReaderOK(c)' /\ reader'[c] \in ReaderSet
  <2>1. /\ c \in Readers /\ reader[c] \in ReaderSet /\ ReaderOK(c)
        /\ \/ reader[c].at = "version" /\ reader[c].kind = "doc" /\ f = <<reader[c].on, "version", None>>
           \/ reader[c].at = "content" /\ f = <<reader[c].on, reader[c].kind, reader[c].version>>
    BY <1>0, WhoIsAboard
  <2>2. reader[c].at = "content" /\ f = <<reader[c].on, reader[c].kind, reader[c].version>> /\ reader[c].kind = f[2]
    BY <1>1, <2>1
  <2>3. reader[c].began \in 0..clock
    BY <2>1, <2>2 DEF ReaderOK
  <2>4. reader[c].kind = "doc" => CurrentSince(r, reader[c].began - VersionTTL - Timeout)
    <3> SUFFICES ASSUME reader[c].kind = "doc" PROVE CurrentSince(r, reader[c].began - VersionTTL - Timeout)
      OBVIOUS
    <3>1. CurrentSince(reader[c].version, reader[c].began - VersionTTL - Timeout)
      BY <2>1, <2>2 DEF ReaderOK, Young
    <3>2. reader[c].version \in 1..head /\ r \in reader[c].version..head
      BY <1>1, <2>2
    <3>3. reader[c].began - VersionTTL - Timeout \in Int
      BY <1>0, <2>3, VersionedReadsAssumption
    <3>4. QED
      BY <1>0, <3>1, <3>2, <3>3, StillNewer
  <2>5. reader[c].kind = "structure" => CurrentSince(r, reader[c].began - StructureTTL - Timeout)
    <3> SUFFICES ASSUME reader[c].kind = "structure" PROVE CurrentSince(r, reader[c].began - StructureTTL - Timeout)
      OBVIOUS
    <3>1. reader[c].began <= flights[f].since + Timeout
      BY <2>1, <2>2 DEF ReaderOK, Flight
    <3>2. QED
      BY <1>0, <1>1, <1>2, <2>2, <2>3, <3>1, VersionedReadsAssumption
  <2>6. reader'[c] = [reader[c] EXCEPT !.at = "done", !.got = r]
    BY <1>5, <2>1
  <2>7. /\ reader'[c].at = "done" /\ reader'[c].kind = reader[c].kind /\ reader'[c].got = r
        /\ reader'[c].began = reader[c].began /\ reader'[c] \in ReaderSet
    BY <1>1, <2>1, <2>6 DEF ReaderSet
  <2>8. QED
    BY <1>0, <1>1, <2>3, <2>4, <2>5, <2>7 DEF ReaderOK, Now3, CurrentSince
<1>7. /\ reader' \in [Readers -> ReaderSet]
      /\ \A c \in Readers \ Aboard(f) : reader'[c] = reader[c]
  <2>1. \A c \in Readers : reader'[c] \in ReaderSet
    BY <1>0, <1>5, <1>6 DEF ReadersOK
  <2>2. QED
    BY <1>5, <2>1
<1>8. ReadersOK'
  BY <1>0, <1>4, <1>6, <1>7, TheOthersStay
<1>9. QED
  BY <1>3, <1>4, <1>8 DEF ReadsIInv

LEMMA FailsKeeps ==
  ASSUME ReadsIInv, NEW f \in DOMAIN flights, Fails(f)
  PROVE  ReadsIInv'
<1>0. HeadOK /\ CachesOK /\ FlightsOK /\ ReadersOK /\ Now3 /\ UNCHANGED caches /\ clock \in Nat
  BY DEF ReadsIInv, Fails, Now3, HeadOK
<1>1. HeadOK' /\ CachesOK'
  BY <1>0 DEF HeadOK, CachesOK, Kept, CurrentSince, Now3, caches
<1>2. CASE /\ f[2] = "structure" /\ ~flights[f].again /\ UNCHANGED reader
           /\ flights' = [flights EXCEPT ![f] = [since |-> clock, got |-> None, again |-> TRUE]]
  <2> DEFINE new == [since |-> clock, got |-> None, again |-> TRUE]
  <2>1. DOMAIN flights' = DOMAIN flights /\ flights'[f] = new /\ \A g \in DOMAIN flights \ {f} : flights'[g] = flights[g]
    BY <1>2
  <2>2. new \in [since : 0..clock, got : (1..head) \cup {None}, again : BOOLEAN]
    BY <1>0
  <2>3. flights' \in [DOMAIN flights' -> [since : Nat, got : Revisions \cup {None}, again : BOOLEAN]]
    BY <1>0, <1>2 DEF FlightsOK
  <2>4. FlightOK(f)'
    <3>1. f \in FlightKeys /\ Timed(f)
      BY <1>0, <1>2 DEF FlightsOK, FlightOK, Timed
    <3>2. QED
      BY <1>0, <2>1, <2>2, <3>1, VersionedReadsAssumption DEF FlightOK, Now3, Timed
  <2>5. FlightsOK'
    BY <1>0, <2>1, <2>3, <2>4, FlightStays DEF FlightsOK
  <2>6. ASSUME NEW c \in Readers PROVE ReaderOK(c)'
    <3>1. CASE c \notin Aboard(f)
      <4>1. \A g \in DOMAIN flights : c \in Aboard(g) => GoesOn(g)
        BY <2>1, <3>1 DEF GoesOn
      <4>2. QED
        BY <1>0, <1>2, <4>1, ReaderStays DEF ReadersOK
    <3>2. CASE c \in Aboard(f)
      <4>1. /\ reader[c] \in ReaderSet /\ ReaderOK(c)
            /\ reader[c].at = "content" /\ f = <<reader[c].on, reader[c].kind, reader[c].version>>
        BY <1>0, <1>2, <3>2, WhoIsAboard
      <4>2. reader[c].kind = "structure" /\ reader[c].version = None /\ reader[c].began \in 0..clock
        BY <1>2, <4>1 DEF ReaderOK
      <4>3. flights[f].since <= reader[c].began /\ clock <= flights[f].since + Timeout /\ flights[f].since \in Nat
        <5>1. FlightOK(f) /\ Timed(f)
          BY <1>0, <1>2 DEF FlightsOK, Timed
        <5>2. flights[f].since <= reader[c].began
          BY <1>2, <4>1, <4>2 DEF ReaderOK, Flight
        <5>3. QED
          BY <1>0, <5>1, <5>2 DEF FlightOK
      <4>4. clock <= reader[c].began + Timeout /\ reader[c].began <= clock + Timeout
        BY <1>0, <4>2, <4>3, VersionedReadsAssumption
      <4>5. Flight(c, reader[c].version)' = f /\ reader'[c] = reader[c] /\ f \in DOMAIN flights'
        BY <1>2, <2>1, <4>1 DEF Flight
      <4>6. flights'[f].since = clock /\ flights'[f].again
        BY <2>1
      <4>7. QED
        BY <1>0, <4>1, <4>2, <4>4, <4>5, <4>6 DEF ReaderOK, Now3
    <3>3. QED
      BY <3>1, <3>2
  <2>7. QED
    BY <1>0, <1>1, <1>2, <2>5, <2>6 DEF ReadsIInv, ReadersOK
<1>3. CASE flights' = Landed(f) /\ reader' = Told(f, LAMBDA c : NoRead(reader[c].on, reader[c].kind))
  <2>1. reader' = [c \in Readers |-> IF c \in Aboard(f) THEN NoRead(reader[c].on, reader[c].kind) ELSE reader[c]]
    BY <1>3 DEF Told
  <2>2. FlightsOK'
    BY <1>0, <1>3, LandedKeeps
  <2>3. ASSUME NEW c \in Aboard(f) PROVE ReaderOK(c)' /\ reader'[c] \in ReaderSet
    <3>1. c \in Readers /\ reader[c] \in ReaderSet
      BY <1>0, WhoIsAboard
    <3>2. reader[c].on \in Adapters /\ reader[c].kind \in ReadKinds
      BY <3>1 DEF ReaderSet
    <3>3. QED
      BY <2>1, <3>1, <3>2, IdleIsOK, Idle
  <2>4. reader' \in [Readers -> ReaderSet] /\ \A c \in Readers \ Aboard(f) : reader'[c] = reader[c]
    <3>1. \A c \in Readers : reader'[c] \in ReaderSet
      BY <1>0, <2>1, <2>3 DEF ReadersOK
    <3>2. QED
      BY <2>1, <3>1
  <2>5. ReadersOK'
    BY <1>0, <1>3, <2>3, <2>4, TheOthersStay
  <2>6. QED
    BY <1>1, <2>2, <2>5 DEF ReadsIInv
<1>4. QED
  BY <1>2, <1>3 DEF Fails

LEMMA PublishKeeps ==
  ASSUME ReadsIInv, Publish
  PROVE  ReadsIInv'
<1>0. HeadOK /\ CachesOK /\ FlightsOK /\ ReadersOK /\ UNCHANGED <<clock, caches, flights, reader>>
  BY DEF ReadsIInv, Publish
<1>1. /\ HeadOK' /\ head' = head + 1 /\ clock' = clock
      /\ \A r \in 1..head, t \in Int : t <= clock /\ CurrentSince(r, t) => until'[r] = None \/ until'[r] >= t
  BY <1>0, Replaced
<1>2. clock \in Nat /\ head \in Nat \ {0} /\ 1..head \subseteq 1..head' /\ \A v \in Nat : v..head \subseteq v..head'
  BY <1>0, <1>1, Had DEF HeadOK
<1>3. ASSUME NEW entry, NEW ttl \in Nat, Kept(entry, ttl), entry # None
      PROVE  /\ entry \in [value : 1..head', expires : Nat] /\ entry.expires <= clock' + ttl
             /\ until'[entry.value] = None \/ until'[entry.value] >= entry.expires - ttl - Timeout
  <2>1. /\ entry \in [value : 1..head, expires : Nat] /\ entry.expires <= clock + ttl
        /\ CurrentSince(entry.value, entry.expires - ttl - Timeout)
    BY <1>3 DEF Kept
  <2>2. entry.expires \in Nat /\ entry.value \in 1..head
    BY <2>1
  <2>3. entry.expires - ttl - Timeout \in Int /\ entry.expires - ttl - Timeout <= clock
    BY <1>2, <2>1, <2>2, VersionedReadsAssumption
  <2>4. QED
    BY <1>1, <1>2, <2>1, <2>2, <2>3
<1>4. CachesOK'
  <2>1. Kept(versionCache, VersionTTL)' /\ Kept(structureCache, StructureTTL)'
    BY <1>0, <1>3, VersionedReadsAssumption DEF CachesOK, Kept, CurrentSince, caches
  <2>2. \A v \in Revisions : v \in Nat
    BY DEF Revisions
  <2>3. QED
    BY <1>0, <1>1, <1>2, <2>1, <2>2 DEF CachesOK, caches
<1>5. ASSUME NEW f \in DOMAIN flights PROVE FlightOK(f)'
  <2>1. FlightOK(f)
    BY <1>0 DEF FlightsOK
  <2>2. flights'[f] = flights[f] /\ flights'[f] \in [since : 0..clock', got : (1..head') \cup {None}, again : BOOLEAN]
    BY <1>0, <1>2, <2>1 DEF FlightOK
  <2>3. f[2] # "pin" /\ flights[f].got # None => CurrentSince(flights[f].got, flights[f].since)'
    <3> SUFFICES ASSUME f[2] # "pin" /\ flights[f].got # None PROVE CurrentSince(flights[f].got, flights[f].since)'
      OBVIOUS
    <3>1. CurrentSince(flights[f].got, flights[f].since) /\ flights[f].got \in 1..head /\ flights[f].since \in 0..clock
      BY <2>1 DEF FlightOK
    <3>2. until'[flights[f].got] = None \/ until'[flights[f].got] >= flights[f].since
      BY <1>1, <3>1
    <3>3. QED
      BY <2>2, <3>2 DEF CurrentSince
  <2>4. ~Timed(f) => f[3] <= head'
    <3>1. ~Timed(f) => f[3] \in Nat
      BY <2>1, VersionedReadsAssumption DEF FlightOK, FlightKeys, Timed, Revisions
    <3>2. QED
      BY <1>1, <1>2, <2>1, <3>1 DEF FlightOK
  <2>5. QED
    BY <1>0, <2>1, <2>2, <2>3, <2>4 DEF FlightOK, Timed
<1>6. FlightsOK'
  BY <1>0, <1>5 DEF FlightsOK
<1>7. ASSUME NEW c \in Readers PROVE ReaderOK(c)'
  <2>1. ReaderOK(c) /\ reader'[c] = reader[c] /\ flights' = flights /\ clock' = clock
    BY <1>0 DEF ReadersOK
  <2>2. ASSUME NEW r \in 1..head, NEW ttl \in Nat, reader[c].began \in 0..clock,
               CurrentSince(r, reader[c].began - ttl - Timeout)
        PROVE  until'[r] = None \/ until'[r] >= reader[c].began - ttl - Timeout
    <3>1. reader[c].began - ttl - Timeout \in Int /\ reader[c].began - ttl - Timeout <= clock
      BY <1>2, <2>2, VersionedReadsAssumption
    <3>2. QED
      BY <1>1, <2>2, <3>1
  <2>3. reader[c].at \in {"keyed", "content"} /\ reader[c].kind = "doc" => Young(c)'
    <3> SUFFICES ASSUME reader[c].at \in {"keyed", "content"}, reader[c].kind = "doc" PROVE Young(c)'
      OBVIOUS
    <3>1. Young(c) /\ reader[c].began \in 0..clock /\ reader[c].version \in 1..head
      BY <2>1 DEF ReaderOK
    <3>2. QED
      BY <2>1, <2>2, <3>1, VersionedReadsAssumption DEF Young, CurrentSince
  <2>4. Flight(c, reader[c].version)' = Flight(c, reader[c].version)
    BY <2>1 DEF Flight
  <2>5. reader[c].at = "done" =>
          /\ reader[c].got \in 1..head'
          /\ reader[c].kind = "doc" => CurrentSince(reader[c].got, reader[c].began - VersionTTL - Timeout)'
          /\ reader[c].kind = "structure" => CurrentSince(reader[c].got, reader[c].began - StructureTTL - Timeout)'
    <3> SUFFICES ASSUME reader[c].at = "done"
                 PROVE  /\ reader[c].got \in 1..head'
                        /\ reader[c].kind = "doc" => CurrentSince(reader[c].got, reader[c].began - VersionTTL - Timeout)'
                        /\ reader[c].kind = "structure" => CurrentSince(reader[c].got, reader[c].began - StructureTTL - Timeout)'
      OBVIOUS
    <3>1. /\ reader[c].got \in 1..head /\ reader[c].began \in 0..clock
          /\ reader[c].kind = "doc" => CurrentSince(reader[c].got, reader[c].began - VersionTTL - Timeout)
          /\ reader[c].kind = "structure" => CurrentSince(reader[c].got, reader[c].began - StructureTTL - Timeout)
      BY <2>1 DEF ReaderOK
    <3>2. QED
      BY <1>2, <2>1, <2>2, <3>1, VersionedReadsAssumption DEF CurrentSince
  <2>6. QED
    BY <1>2, <2>1, <2>3, <2>4, <2>5 DEF ReaderOK
<1>8. QED
  BY <1>0, <1>1, <1>4, <1>6, <1>7 DEF ReadsIInv, ReadersOK

LEMMA TickKeeps ==
  ASSUME ReadsIInv, ReadsTick
  PROVE  ReadsIInv'
<1>0. /\ HeadOK /\ CachesOK /\ FlightsOK /\ ReadersOK /\ UNCHANGED <<head, until, caches, flights, reader>>
      /\ clock' = clock + 1 /\ clock \in Nat
  BY DEF ReadsIInv, ReadsTick, HeadOK
<1>1. HeadOK'
  BY <1>0 DEF HeadOK
<1>2. CachesOK'
  <2>1. Kept(versionCache, VersionTTL)' /\ Kept(structureCache, StructureTTL)'
    BY <1>0, VersionedReadsAssumption DEF CachesOK, Kept, CurrentSince, caches
  <2>2. QED
    BY <1>0, <2>1 DEF CachesOK, caches
<1>3. ASSUME NEW f \in DOMAIN flights PROVE FlightOK(f)'
  <2>1. FlightOK(f) /\ flights'[f] = flights[f]
    BY <1>0 DEF FlightsOK
  <2>2. flights'[f] \in [since : 0..clock', got : (1..head') \cup {None}, again : BOOLEAN]
    BY <1>0, <2>1 DEF FlightOK
  <2>3. Timed(f) => clock' <= flights[f].since + Timeout
    <3>1. Timed(f) => clock < flights[f].since + Timeout
      BY DEF ReadsTick
    <3>2. flights[f].since \in Nat
      BY <1>0, <2>1 DEF FlightOK
    <3>3. QED
      BY <1>0, <3>1, <3>2, VersionedReadsAssumption
  <2>4. QED
    BY <1>0, <2>1, <2>2, <2>3 DEF FlightOK, Timed, CurrentSince
<1>4. FlightsOK'
  BY <1>0, <1>3 DEF FlightsOK
<1>5. ASSUME NEW c \in Readers PROVE ReaderOK(c)'
  <2>1. ReaderOK(c) /\ reader'[c] = reader[c]
    BY <1>0 DEF ReadersOK
  <2>2. Young(c)' = Young(c) /\ Flight(c, reader[c].version)' = Flight(c, reader[c].version)
    BY <1>0 DEF Young, Flight, CurrentSince
  <2>3. reader[c].began \in 0..clock => reader[c].began \in 0..clock'
    BY <1>0
  <2>4. QED
    BY <1>0, <2>1, <2>2, <2>3 DEF ReaderOK, CurrentSince
<1>6. QED
  BY <1>0, <1>1, <1>2, <1>4, <1>5 DEF ReadsIInv, ReadersOK

--------------------------------------------------------------------------------
LEMMA InitReadsIInv == ReadsInit => ReadsIInv
<1> SUFFICES ASSUME ReadsInit PROVE ReadsIInv
  OBVIOUS
<1>1. HeadOK
  <2>1. LastRevision \in Nat \ {0} /\ None \notin Nat
    BY VersionedReadsAssumption
  <2>2. clock = 0 /\ head = 1 /\ until = [r \in Revisions |-> None]
    BY DEF ReadsInit, NothingRead
  <2>3. 1 \in Revisions /\ \A r \in Revisions : ~(r < 1)
    BY <2>1 DEF Revisions
  <2>4. QED
    BY <2>1, <2>2, <2>3 DEF HeadOK
<1>2. CachesOK
  BY DEF ReadsInit, NothingRead, CachesOK, Kept
<1>3. FlightsOK
  BY DEF ReadsInit, NothingRead, FlightsOK
<1>4. ReadersOK
  <2>1. reader \in [Readers -> {NoRead(a, kind) : a \in Adapters, kind \in ReadKinds}]
    BY DEF ReadsInit
  <2>2. ASSUME NEW c \in Readers PROVE reader[c] \in ReaderSet /\ ReaderOK(c)
    <3>1. PICK a \in Adapters, kind \in ReadKinds : reader[c] = NoRead(a, kind)
      BY <2>1
    <3>2. reader[c] \in ReaderSet
      BY <3>1, Idle
    <3>3. ReaderOK(c)
      BY <3>1 DEF ReaderOK, NoRead
    <3>4. QED
      BY <3>2, <3>3
  <2>3. QED
    BY <2>1, <2>2 DEF ReadersOK
<1>5. QED
  BY <1>1, <1>2, <1>3, <1>4 DEF ReadsIInv

LEMMA NextReadsIInv == ReadsIInv /\ [ReadsNext]_reads => ReadsIInv'
<1> SUFFICES ASSUME ReadsIInv, [ReadsNext]_reads PROVE ReadsIInv'
  OBVIOUS
<1>1. CASE Publish
  BY <1>1, PublishKeeps
<1>2. CASE ReadsTick
  BY <1>2, TickKeeps
<1>3. CASE \E f \in DOMAIN flights : Sample(f) \/ ArriveVersion(f) \/ Arrive(f) \/ Fails(f)
  BY <1>3, SamplingKeeps, ArriveVersionKeeps, ArriveKeeps, FailsKeeps
<1>4. CASE \E c \in Readers : ReadContent(c) \/ Keyed(c) \/ ReadPinned(c) \/ ReadStructure(c) \/ ReadReturns(c)
  BY <1>4, ReadContentKeeps, KeyedKeeps, ReadPinnedKeeps, ReadStructureKeeps, ReadReturnsKeeps
<1>5. CASE \E v \in Revisions : Evict(v)
  BY <1>5, EvictKeeps
<1>6. CASE UNCHANGED reads
  <2>1. /\ HeadOK /\ CachesOK /\ FlightsOK /\ ReadersOK /\ Now3
        /\ UNCHANGED <<versionCache, structureCache, docCache, pinCache, flights, reader>>
    BY <1>6 DEF ReadsIInv, reads, caches, Now3
  <2>2. HeadOK' /\ CachesOK'
    BY <2>1 DEF HeadOK, CachesOK, Kept, CurrentSince, Now3
  <2>3. FlightsOK' /\ \A f \in DOMAIN flights : GoesOn(f)
    BY <2>1, FlightStays DEF FlightsOK, GoesOn
  <2>4. ReadersOK'
    BY <2>1, <2>3, ReaderStays DEF ReadersOK
  <2>5. QED
    BY <2>2, <2>3, <2>4 DEF ReadsIInv
<1>7. QED
  BY <1>1, <1>2, <1>3, <1>4, <1>5, <1>6 DEF ReadsNext

LEMMA BoundsFollow == ReadsIInv => ReadsAreBounded
<1> SUFFICES ASSUME ReadsIInv PROVE ReadsAreBounded
  OBVIOUS
<1>0. HeadOK /\ CachesOK /\ FlightsOK /\ ReadersOK /\ clock \in Nat
  BY DEF ReadsIInv, HeadOK
<1>1. ASSUME NEW c \in Readers, reader[c].at = "done"
      PROVE  \/ reader[c].kind = "doc" /\ CurrentSince(reader[c].got, reader[c].began - VersionTTL - Timeout)
             \/ reader[c].kind = "structure" /\ CurrentSince(reader[c].got, reader[c].began - StructureTTL - Timeout)
             \/ reader[c].kind = "pin"
  <2>1. ReaderOK(c) /\ reader[c] \in ReaderSet
    BY <1>0 DEF ReadersOK
  <2>2. reader[c].kind \in {"doc", "pin", "structure"}
    BY <2>1 DEF ReaderSet, ReadKinds
  <2>3. QED
    BY <1>1, <2>1, <2>2 DEF ReaderOK
<1>2. ASSUME NEW c \in Readers, reader[c].kind = "structure", reader[c].at = "content"
      PROVE  clock <= reader[c].began + 2 * Timeout
  <2> DEFINE f == Flight(c, reader[c].version)
  <2>1. ReaderOK(c)
    BY <1>0 DEF ReadersOK
  <2>2. /\ f \in DOMAIN flights /\ reader[c].began \in 0..clock
        /\ flights[f].since <= IF flights[f].again THEN reader[c].began + Timeout ELSE reader[c].began
    BY <1>2, <2>1 DEF ReaderOK
  <2>3. FlightOK(f) /\ f[2] = "structure"
    BY <1>0, <1>2, <2>2 DEF FlightsOK, Flight
  <2>4. clock <= flights[f].since + Timeout /\ flights[f].since \in 0..clock
    BY <2>3 DEF FlightOK, Timed
  <2> HIDE DEF f
  <2>5. Timeout \in Nat /\ 2 * Timeout = Timeout + Timeout
    BY VersionedReadsAssumption
  <2>6. QED
    BY <1>0, <2>2, <2>4, <2>5
<1>3. ASSUME NEW v \in Revisions
      PROVE  pinCache[v] \in {v, None} /\ (docCache[v] # None => docCache[v] >= v)
  BY <1>0 DEF CachesOK, HeadOK, Revisions
<1>4. QED
  BY <1>1, <1>2, <1>3 DEF ReadsAreBounded

(* ReadsAreBounded of VersionedReads: whatever the callers, adapters, TTLs  *)
(* and edits, the answer of a call was current at most VersionTTL (for the  *)
(* structure, StructureTTL) and one Timeout before the call began, and a    *)
(* projection that is kept is of the version it is kept under.              *)
THEOREM ReadsAlwaysBounded == ReadsSpec => []ReadsAreBounded
<1>1. ReadsInit => ReadsIInv
  BY InitReadsIInv
<1>2. ReadsIInv /\ [ReadsNext]_reads => ReadsIInv'
  BY NextReadsIInv
<1>3. ReadsIInv => ReadsAreBounded
  BY BoundsFollow
<1>4. QED
  BY <1>1, <1>2, <1>3, PTL DEF ReadsSpec

--------------------------------------------------------------------------------
(* FrameHydration: the two budgets, and what a caller is told.              *)
(*                                                                          *)
(* Fitting keeps the records that fit together with all that are younger.   *)
(* That what it keeps fits as a whole needs its oldest record, which exists *)
(* because the seats, and the ranks of access, are naturals.                *)

(* Every inhabited set of naturals has a least one.                         *)
LEMMA LeastNatural ==
  ASSUME NEW T \in SUBSET Nat, T # {}
  PROVE  \E n \in T : \A m \in T : n <= m
<1>1. PICK n \in T : \A m \in T : ~ (<<m, n>> \in OpToRel(<, Nat))
  BY NatLessThanWellFounded, WFMin
<1>2. ASSUME NEW m \in T PROVE n <= m
  <2>1. m \in Nat /\ n \in Nat /\ ~ (m < n)
    BY <1>1 DEF OpToRel
  <2>2. QED
    BY <2>1
<1>3. QED
  BY <1>2

--------------------------------------------------------------------------------
(* What records weigh.                                                      *)
Holding == [Slots -> {0} \cup FetchDepths]
BytesOf(h, S) == UNION {{s} \X (1..Resident[h[s]]) : s \in {t \in S : h[t] > 0}}

LEMMA DepthsAreNaturals ==
  /\ \A d \in FetchDepths : d \in Nat /\ d > 1 /\ Resident[d] \in Nat \ {0} /\ Resident[d] <= PerTenant
  /\ Now \in Nat /\ PerTenant \in Nat /\ Global \in Nat /\ PerTenant <= Global
<1>1. Now \in Nat
  BY FrameAssumption, FS_CardinalityType DEF Now
<1>2. QED
  BY <1>1, FrameAssumption DEF FetchDepths

LEMMA BytesFinite ==
  ASSUME NEW h \in Holding, NEW S \in SUBSET Slots
  PROVE  IsFiniteSet(BytesOf(h, S)) /\ Weight(h, S) = Cardinality(BytesOf(h, S)) /\ Weight(h, S) \in Nat
<1>1. IsFiniteSet(Slots \X (1..PerTenant))
  <2>1. IsFiniteSet(1..PerTenant)
    BY DepthsAreNaturals, FS_Interval
  <2>2. QED
    BY <2>1, FrameAssumption, FS_Product
<1>2. BytesOf(h, S) \subseteq Slots \X (1..PerTenant)
  <2>1. ASSUME NEW s \in S, h[s] > 0 PROVE 1..Resident[h[s]] \subseteq 1..PerTenant
    <3>1. h[s] \in FetchDepths
      BY <2>1 DEF Holding
    <3>2. Resident[h[s]] \in Nat /\ Resident[h[s]] <= PerTenant /\ PerTenant \in Nat
      BY <3>1, DepthsAreNaturals
    <3>3. QED
      BY <3>2
  <2>2. QED
    BY <2>1 DEF BytesOf
<1>3. IsFiniteSet(BytesOf(h, S))
  BY <1>1, <1>2, FS_Subset
<1>4. Weight(h, S) = Cardinality(BytesOf(h, S))
  BY DEF Weight, BytesOf
<1>5. QED
  BY <1>3, <1>4, FS_CardinalityType

(* More records, as deep, weigh no less.                                    *)
LEMMA WeightMonotone ==
  ASSUME NEW g \in Holding, NEW h \in Holding, NEW S \in SUBSET Slots, NEW T \in SUBSET Slots,
         \A s \in S : g[s] > 0 => s \in T /\ h[s] = g[s]
  PROVE  Weight(g, S) <= Weight(h, T)
<1>1. BytesOf(g, S) \subseteq BytesOf(h, T)
  BY DEF BytesOf
<1>2. QED
  BY <1>1, BytesFinite, FS_Subset

LEMMA WeightOfNothing ==
  ASSUME NEW h \in Holding, NEW S \in SUBSET Slots, \A s \in S : h[s] = 0
  PROVE  Weight(h, S) = 0
<1>1. BytesOf(h, S) = {}
  BY DEF BytesOf
<1>2. QED
  BY <1>1, BytesFinite, FS_EmptySet

LEMMA UpTo ==
  ASSUME NEW n \in Nat
  PROVE  IsFiniteSet(1..n) /\ Cardinality(1..n) = n
  BY FS_Interval

LEMMA WeightOfOne ==
  ASSUME NEW h \in Holding, NEW s \in Slots, h[s] \in FetchDepths
  PROVE  Weight(h, {s}) <= PerTenant
<1>1. h[s] > 0 /\ Resident[h[s]] \in Nat /\ Resident[h[s]] <= PerTenant
  BY DepthsAreNaturals
<1>2. BytesOf(h, {s}) = {s} \X (1..Resident[h[s]])
  BY <1>1 DEF BytesOf
<1>3. /\ IsFiniteSet(1..Resident[h[s]]) /\ Cardinality(1..Resident[h[s]]) = Resident[h[s]]
  BY <1>1, UpTo
<1>4. IsFiniteSet({s}) /\ Cardinality({s}) = 1
  BY FS_Singleton
<1>5. Cardinality({s} \X (1..Resident[h[s]])) = 1 * Resident[h[s]]
  BY <1>3, <1>4, FS_Product
<1>6. Weight(h, {s}) = Cardinality({s} \X (1..Resident[h[s]]))
  BY <1>2, BytesFinite
<1>7. QED
  BY <1>1, <1>5, <1>6

--------------------------------------------------------------------------------
(* Of any records, one is the oldest.                                       *)
LEMMA OldestExists ==
  ASSUME NEW la \in [Slots -> Nat], NEW p \in [Slots -> Nat], NEW S \in SUBSET Slots, S # {}
  PROVE  \E m \in S : \A t \in S : ~Older(la, p, t, m)
<1>0. {la[s] : s \in S} \in SUBSET Nat /\ {la[s] : s \in S} # {}
  OBVIOUS
<1>1. PICK a \in {la[s] : s \in S} : \A b \in {la[s] : s \in S} : a <= b
  BY <1>0, LeastNatural
<1>2. {p[s] : s \in {t \in S : la[t] = a}} \in SUBSET Nat /\ {p[s] : s \in {t \in S : la[t] = a}} # {}
  BY <1>1
<1>3. PICK i \in {p[s] : s \in {t \in S : la[t] = a}} :
        \A j \in {p[s] : s \in {t \in S : la[t] = a}} : i <= j
  BY <1>2, LeastNatural
<1>4. PICK m \in S : la[m] = a /\ p[m] = i
  BY <1>3
<1>5. ASSUME NEW t \in S PROVE ~Older(la, p, t, m)
  <2>1. a <= la[t] /\ (la[t] = a => i <= p[t])
    BY <1>1, <1>3
  <2>2. la[t] \in Nat /\ p[t] \in Nat /\ a \in Nat /\ i \in Nat
    BY <1>4
  <2>3. QED
    BY <1>4, <2>1, <2>2 DEF Older
<1>6. QED
  BY <1>5

(* What eviction leaves fits the budget.                                    *)
LEMMA FittingFits ==
  ASSUME NEW h \in Holding, NEW la \in [Slots -> Nat], NEW p \in [Slots -> Nat],
         NEW S \in SUBSET Slots, NEW cap \in Nat
  PROVE  Weight(h, Fitting(h, la, p, S, cap)) <= cap
<1> DEFINE stay == Fitting(h, la, p, S, cap)
<1>1. stay \subseteq S
  BY DEF Fitting
<1>2. CASE stay = {}
  BY <1>2, WeightOfNothing
<1>3. CASE stay # {}
  <2>1. PICK m \in stay : \A t \in stay : ~Older(la, p, t, m)
    BY <1>1, <1>3, OldestExists
  <2>2. Weight(h, {t \in S : ~Older(la, p, t, m)}) <= cap
    BY <2>1 DEF Fitting
  <2>3. Weight(h, stay) <= Weight(h, {t \in S : ~Older(la, p, t, m)})
    <3>1. stay \subseteq {t \in S : ~Older(la, p, t, m)}
      BY <1>1, <2>1
    <3> HIDE DEF stay
    <3>2. QED
      BY <1>1, <3>1, WeightMonotone
  <2>4. Weight(h, stay) \in Nat /\ Weight(h, {t \in S : ~Older(la, p, t, m)}) \in Nat
    BY <1>1, BytesFinite
  <2>5. QED
    BY <2>2, <2>3, <2>4
<1>4. QED
  BY <1>2, <1>3

--------------------------------------------------------------------------------
(* The store's operations.                                                  *)
StoreOK ==
  /\ held \in Holding
  /\ stale \in SUBSET {s \in Slots : held[s] > 0}
  /\ lastAccess \in [Slots -> 0..Now]
  /\ seat \in [Slots -> Nat] /\ \A s \in Slots : seat[s] > 0 <=> held[s] > 0

LEMMA SeatsOfThoseWhoStay ==
  ASSUME NEW p \in [Slots -> Nat], NEW stay \in SUBSET Slots
  PROVE  /\ Seats(p, stay) \in [Slots -> Nat]
         /\ \A s \in Slots : Seats(p, stay)[s] > 0 <=> s \in stay
<1>1. ASSUME NEW s \in stay
      PROVE  Cardinality({t \in stay : p[t] <= p[s]}) \in Nat \ {0}
  <2>1. IsFiniteSet({t \in stay : p[t] <= p[s]})
    BY FrameAssumption, FS_Subset
  <2>2. s \in {t \in stay : p[t] <= p[s]}
    OBVIOUS
  <2>3. QED
    BY <2>1, <2>2, FS_EmptySet, FS_CardinalityType
<1>2. QED
  BY <1>1 DEF Seats

LEMMA SeatedIsTyped ==
  ASSUME StoreOK, NEW s \in Slots
  PROVE  Seated(s) \in [Slots -> Nat]
<1>1. IsFiniteSet({t \in Slots : Resides(t)})
  BY FrameAssumption, FS_Subset
<1>2. QED
  BY <1>1, FS_CardinalityType DEF Seated, StoreOK

(* A touch and an expiry; neither adds a record.                            *)
LEMMA ExpireKeeps ==
  ASSUME StoreOK, WithinBudgets, NEW s \in Slots, Expire(s)
  PROVE  /\ StoreOK' /\ WithinBudgets'
         /\ \A t \in Slots : held'[t] = held[t] \/ held'[t] = 0
<1>1. CASE s \in stale
  <2>1. /\ held' = [held EXCEPT ![s] = 0] /\ stale' = stale \ {s}
        /\ seat' = Seats(seat, {t \in Slots : Resides(t)} \ {s})
        /\ lastAccess' = [lastAccess EXCEPT ![s] = 0]
    BY <1>1 DEF Expire
  <2>2. held' \in Holding /\ lastAccess' \in [Slots -> 0..Now]
    BY <2>1, DepthsAreNaturals DEF StoreOK, Holding
  <2>3. seat' \in [Slots -> Nat] /\ \A t \in Slots : seat'[t] > 0 <=> t \in {u \in Slots : Resides(u)} \ {s}
    BY <2>1, SeatsOfThoseWhoStay DEF StoreOK
  <2>4. \A t \in Slots : held'[t] > 0 <=> t \in {u \in Slots : Resides(u)} \ {s}
    BY <2>1 DEF StoreOK, Holding, Resides
  <2>5. stale' \in SUBSET {t \in Slots : held'[t] > 0}
    BY <2>1, <2>4 DEF StoreOK, Resides
  <2>6. StoreOK'
    BY <2>2, <2>3, <2>4, <2>5 DEF StoreOK
  <2>7. \A t \in Slots : held'[t] = held[t] \/ held'[t] = 0
    BY <2>1 DEF StoreOK, Holding
  <2>8. ASSUME NEW S \in SUBSET Slots, NEW b \in Nat, Weight(held, S) <= b PROVE Weight(held', S) <= b
    <3>1. \A t \in S : held'[t] > 0 => t \in S /\ held[t] = held'[t]
      BY <2>7
    <3>2. Weight(held', S) <= Weight(held, S) /\ Weight(held', S) \in Nat /\ Weight(held, S) \in Nat
      BY <2>2, <3>1, WeightMonotone, BytesFinite DEF StoreOK
    <3>3. QED
      BY <2>8, <3>2
  <2>9. WithinBudgets'
    BY <2>8, DepthsAreNaturals DEF WithinBudgets
  <2>10. QED
    BY <2>6, <2>7, <2>9
<1>2. CASE s \notin stale
  BY <1>2 DEF Expire, records, StoreOK, WithinBudgets
<1>3. QED
  BY <1>1, <1>2

(* What setIfDeeper leaves, once its locals are named.                      *)
LEMMA SetIfDeeperKeeps ==
  ASSUME StoreOK, WithinBudgets, NEW s \in Slots, NEW depth \in FetchDepths, SetIfDeeper(s, depth)
  PROVE  /\ StoreOK' /\ WithinBudgets'
         /\ \A t \in Slots : Live(t) => held'[t] >= held[t] \/ held'[t] = 0
         /\ Rivals(s) = {} => held'[s] >= depth
<1>0. depth \in Nat /\ depth > 1 /\ Now \in Nat /\ PerTenant \in Nat /\ Global \in Nat /\ PerTenant <= Global
  BY DepthsAreNaturals
<1>1. CASE Shields(s, depth)
  <2>1. UNCHANGED records
    BY <1>1 DEF SetIfDeeper
  <2>2. \A t \in Slots : held[t] \in Nat
    BY DepthsAreNaturals DEF StoreOK, Holding
  <2>3. QED
    BY <1>0, <1>1, <2>1, <2>2 DEF records, StoreOK, WithinBudgets, Shields
<1>2. CASE ~Shields(s, depth)
  <2> DEFINE h  == [held EXCEPT ![s] = depth]
             la == [lastAccess EXCEPT ![s] = Now]
             p  == Seated(s)
             mine   == {t \in Slots : OwnerOf[t] = OwnerOf[s] /\ h[t] > 0}
             others == {t \in Slots : OwnerOf[t] # OwnerOf[s] /\ h[t] > 0}
             kept   == Fitting(h, la, p, mine, PerTenant) \cup others
             stay   == Fitting(h, la, p, kept, Global)
  <2>1. /\ held' = [t \in Slots |-> IF t \in stay THEN h[t] ELSE 0]
        /\ lastAccess' = [t \in Slots |-> IF t \in stay THEN la[t] ELSE 0]
        /\ seat' = Seats(p, stay) /\ stale' = (stale \ {s}) \cap stay
    BY <1>2 DEF SetIfDeeper
  <2>2. h \in Holding /\ la \in [Slots -> Nat] /\ la \in [Slots -> 0..Now] /\ p \in [Slots -> Nat]
    BY <1>0, SeatedIsTyped DEF StoreOK, Holding
  <2>3. /\ Fitting(h, la, p, mine, PerTenant) \subseteq mine /\ stay \subseteq kept
        /\ kept \subseteq {t \in Slots : h[t] > 0}
    BY DEF Fitting
  <2>4. Weight(h, stay) <= Global
    BY <1>0, <2>2, <2>3, FittingFits
  <2>5. Weight(h, Fitting(h, la, p, mine, PerTenant)) <= PerTenant
    BY <1>0, <2>2, FittingFits
  <2>6. h[s] = depth /\ \A t \in Slots \ {s} : h[t] = held[t]
    BY DEF StoreOK, Holding
  <2>7. la[s] = Now /\ \A t \in Slots \ {s} : la[t] = lastAccess[t]
    BY DEF StoreOK
  <2> HIDE DEF h, la, p, stay
  <2>8. held' \in Holding /\ \A t \in Slots : held'[t] > 0 <=> t \in stay
    <3>1. \A t \in Slots : h[t] \in {0} \cup FetchDepths
      BY <2>2 DEF Holding
    <3>2. \A t \in stay : t \in Slots /\ h[t] > 0
      BY <2>3
    <3>3. held' \in Holding
      BY <2>1, <3>1 DEF Holding
    <3>4. \A t \in Slots : held'[t] = IF t \in stay THEN h[t] ELSE 0
      BY <2>1
    <3>5. QED
      BY <3>2, <3>3, <3>4
  <2>9. StoreOK'
    <3>1. lastAccess' \in [Slots -> 0..Now]
      BY <1>0, <2>1, <2>2
    <3>2. stay \in SUBSET Slots
      BY <2>3
    <3>3. seat' \in [Slots -> Nat] /\ \A t \in Slots : seat'[t] > 0 <=> held'[t] > 0
      BY <2>1, <2>2, <2>8, <3>2, SeatsOfThoseWhoStay
    <3>4. stale' \in SUBSET {t \in Slots : held'[t] > 0}
      BY <2>1, <2>8, <3>2
    <3>5. QED
      BY <2>8, <3>1, <3>3, <3>4 DEF StoreOK
  <2>10. Weight(held', Slots) <= Global
    <3>1. \A t \in Slots : held'[t] > 0 => t \in stay /\ h[t] = held'[t]
      BY <2>1, <2>8
    <3>2. Weight(held', Slots) <= Weight(h, stay)
      BY <2>2, <2>3, <2>8, <3>1, WeightMonotone
    <3>3. Weight(held', Slots) \in Nat /\ Weight(h, stay) \in Nat
      BY <2>2, <2>3, <2>8, BytesFinite
    <3>4. QED
      BY <1>0, <2>4, <3>2, <3>3
  <2>11. ASSUME NEW u \in Slots
         PROVE  Weight(held', {t \in Slots : OwnerOf[t] = OwnerOf[u]}) <= PerTenant
    <3> DEFINE U == {t \in Slots : OwnerOf[t] = OwnerOf[u]}
    <3>1. CASE OwnerOf[u] = OwnerOf[s]
      <4>1. \A t \in U : held'[t] > 0 => t \in Fitting(h, la, p, mine, PerTenant) /\ h[t] = held'[t]
        BY <2>1, <2>3, <2>8, <3>1
      <4>2. Weight(held', U) <= Weight(h, Fitting(h, la, p, mine, PerTenant))
        BY <2>2, <2>3, <2>8, <4>1, WeightMonotone
      <4>3. Weight(held', U) \in Nat /\ Weight(h, Fitting(h, la, p, mine, PerTenant)) \in Nat
        BY <2>2, <2>3, <2>8, BytesFinite
      <4>4. QED
        BY <1>0, <2>5, <4>2, <4>3
    <3>2. CASE OwnerOf[u] # OwnerOf[s]
      <4>1. \A t \in U : held'[t] > 0 => t \in U /\ held[t] = held'[t]
        BY <2>1, <2>6, <3>2
      <4>2. Weight(held', U) <= Weight(held, U) /\ Weight(held', U) \in Nat /\ Weight(held, U) \in Nat
        BY <2>8, <4>1, WeightMonotone, BytesFinite DEF StoreOK
      <4>3. Weight(held, U) <= PerTenant
        BY DEF WithinBudgets
      <4>4. QED
        BY <1>0, <4>2, <4>3
    <3>3. QED
      BY <3>1, <3>2
  <2>12. ASSUME NEW t \in Slots, Live(t) PROVE held'[t] >= held[t] \/ held'[t] = 0
    <3>0. held[t] \in Nat
      BY DepthsAreNaturals DEF StoreOK, Holding
    <3>1. h[t] >= held[t]
      BY <1>0, <1>2, <2>6, <2>12, <3>0 DEF Shields
    <3>2. QED
      BY <2>1, <3>0, <3>1
  <2>13. ASSUME Rivals(s) = {} PROVE held'[s] >= depth
    <3>1. ASSUME NEW S \in SUBSET {t \in Slots : h[t] > 0}, s \in S
          PROVE  Weight(h, {t \in S : ~Older(la, p, t, s)}) <= PerTenant
      <4>1. ASSUME NEW t \in S, t # s PROVE Older(la, p, t, s)
        <5>1. held[t] > 0 /\ lastAccess[t] # Now /\ lastAccess[t] \in 0..Now
          BY <2>6, <2>13, <4>1 DEF Rivals, Resides, StoreOK
        <5>2. QED
          BY <1>0, <2>7, <4>1, <5>1 DEF Older
      <4>2. {t \in S : ~Older(la, p, t, s)} \subseteq {s}
        BY <4>1
      <4>3. Weight(h, {t \in S : ~Older(la, p, t, s)}) <= Weight(h, {s})
        BY <2>2, <4>2, WeightMonotone
      <4>4. Weight(h, {s}) <= PerTenant
        BY <2>2, <2>6, WeightOfOne
      <4>5. Weight(h, {t \in S : ~Older(la, p, t, s)}) \in Nat /\ Weight(h, {s}) \in Nat
        BY <2>2, BytesFinite
      <4>6. QED
        BY <1>0, <4>3, <4>4, <4>5
    <3>2. s \in mine
      BY <1>0, <2>6
    <3>3. s \in Fitting(h, la, p, mine, PerTenant)
      BY <3>1, <3>2 DEF Fitting
    <3>4. Weight(h, {t \in kept : ~Older(la, p, t, s)}) <= PerTenant
      BY <2>3, <3>1, <3>3
    <3>5. Weight(h, {t \in kept : ~Older(la, p, t, s)}) \in Nat
      BY <2>2, <2>3, BytesFinite
    <3>6. Weight(h, {t \in kept : ~Older(la, p, t, s)}) <= Global
      BY <1>0, <3>4, <3>5
    <3>7. s \in stay
      BY <3>3, <3>6 DEF stay, Fitting
    <3>8. QED
      BY <1>0, <2>1, <2>6, <3>7
  <2>14. QED
    BY <2>9, <2>10, <2>11, <2>12, <2>13 DEF WithinBudgets
<1>3. QED
  BY <1>1, <1>2

LEMMA DenseBounds ==
  ASSUME StoreOK
  PROVE  Dense(lastAccess) \in [Slots -> 0..Now]
<1> SUFFICES ASSUME NEW s \in Slots PROVE Dense(lastAccess)[s] \in 0..Now
  BY DEF Dense
<1> DEFINE U == {u \in Slots : Resides(u) /\ lastAccess[u] < lastAccess[s]}
           V == {lastAccess[t] : t \in U}
<1>1. IsFiniteSet(U) /\ Cardinality(U) <= Now /\ Cardinality(U) \in Nat
  BY FrameAssumption, FS_Subset, FS_CardinalityType DEF Now
<1>2. [t \in U |-> lastAccess[t]] \in Surjection(U, V)
  BY DEF Surjection
<1>3. IsFiniteSet(V) /\ Cardinality(V) <= Cardinality(U)
  BY <1>1, <1>2, FS_Surjection
<1>4. Cardinality(V) \in Nat
  BY <1>3, FS_CardinalityType
<1>5. Dense(lastAccess)[s] = Cardinality(V)
  BY DEF Dense
<1>6. QED
  BY <1>1, <1>3, <1>4, <1>5, DepthsAreNaturals

--------------------------------------------------------------------------------
(* The calls.                                                               *)
CallsOK == call \in [Hydrators -> FrameCalls]
FramesIInv == StoreOK /\ CallsOK /\ WithinBudgets /\ NeverUnderReports

LEMMA InFlightCall ==
  ASSUME CallsOK, NEW c \in Hydrators, InFlight(c)
  PROVE  /\ call[c].slot \in Slots /\ call[c].want \in Depths
         /\ call[c].want \in Nat \ {0} /\ call[c].want + 1 \in FetchDepths
<1>1. call[c] \in FrameCalls /\ call[c].at = "fetching"
  BY DEF CallsOK, InFlight
<1>2. call[c] \in [at : {"fetching"}, slot : Slots, want : Depths]
  <2>1. call[c] # NoCall /\ call[c] # Rejected
    BY <1>1 DEF NoCall, Rejected
  <2>2. call[c] \notin [at : {"answered"}, depth : FetchDepths, effective : Nat]
    BY <1>1
  <2>3. QED
    BY <1>1, <2>1, <2>2 DEF FrameCalls
<1>3. call[c].slot \in Slots /\ call[c].want \in Depths
  BY <1>2
<1>4. QED
  BY <1>3, FrameAssumption DEF FetchDepths

(* A call that ends with an answer that looks no deeper than it may.        *)
LEMMA AnswerKeeps ==
  ASSUME CallsOK, NeverUnderReports, NEW c \in Hydrators,
         NEW h \in FetchDepths, NEW e \in Nat, e < h,
         call' = [call EXCEPT ![c] = Answered(h, e)]
  PROVE  CallsOK' /\ NeverUnderReports'
<1>1. Answered(h, e) \in FrameCalls
  BY DEF Answered, FrameCalls
<1>2. CallsOK' /\ call'[c] = Answered(h, e) /\ \A u \in Hydrators \ {c} : call'[u] = call[u]
  BY <1>1 DEF CallsOK
<1>3. NeverUnderReports'
  BY <1>2 DEF NeverUnderReports, Answered
<1>4. QED
  BY <1>2, <1>3

(* A call that goes on without one.                                         *)
LEMMA SilenceKeeps ==
  ASSUME CallsOK, NeverUnderReports, NEW c \in Hydrators,
         NEW l \in FrameCalls, l.at # "answered", call' = [call EXCEPT ![c] = l]
  PROVE  CallsOK' /\ NeverUnderReports'
<1>1. CallsOK' /\ call'[c] = l /\ \A u \in Hydrators \ {c} : call'[u] = call[u]
  BY DEF CallsOK
<1>2. NeverUnderReports'
  BY <1>1 DEF NeverUnderReports
<1>3. QED
  BY <1>1, <1>2

(* What each step of the store and of a call does to the invariant, and to  *)
(* the depths held.                                                         *)
FallsOnlyToNothing == \A s \in Slots : Live(s) => held'[s] >= held[s] \/ held'[s] = 0

LEMMA SameHeld ==
  ASSUME StoreOK, \A s \in Slots : held'[s] = held[s] \/ held'[s] = 0
  PROVE  FallsOnlyToNothing
<1>1. \A s \in Slots : held[s] \in Nat
  BY DepthsAreNaturals DEF StoreOK, Holding
<1>2. QED
  BY <1>1 DEF FallsOnlyToNothing

LEMMA TouchKeeps ==
  ASSUME StoreOK, WithinBudgets, NEW s \in Slots, TouchOn(s), UNCHANGED <<held, stale, seat>>
  PROVE  StoreOK' /\ WithinBudgets' /\ FallsOnlyToNothing
<1>1. lastAccess' \in [Slots -> 0..Now]
  BY DepthsAreNaturals DEF TouchOn, StoreOK
<1>2. QED
  BY <1>1, SameHeld DEF StoreOK, WithinBudgets

LEMMA UntouchedKeeps ==
  ASSUME StoreOK, WithinBudgets, UNCHANGED records
  PROVE  StoreOK' /\ WithinBudgets' /\ FallsOnlyToNothing
  BY SameHeld DEF StoreOK, WithinBudgets, records

LEMMA HitDepth ==
  ASSUME StoreOK, NEW s \in Slots, NEW want \in Nat \ {0}, Hit(s, want)
  PROVE  held[s] \in FetchDepths /\ held[s] >= want /\ held[s] \in Nat /\ held[s] > 1
  BY DepthsAreNaturals DEF StoreOK, Holding, Hit, Live, Resides

LEMMA ClampBounds ==
  ASSUME NEW want \in Nat, NEW depth \in Nat, depth > 1
  PROVE  Clamp(want, depth) \in Nat /\ Clamp(want, depth) < depth
<1> DEFINE S == {want, depth - 1}
<1>1. Min(S) = CHOOSE x \in S : \A y \in S : x <= y
  BY DEF Min
<1>2. \E x \in S : \A y \in S : x <= y
  <2>1. CASE want <= depth - 1
    BY <2>1
  <2>2. CASE depth - 1 <= want
    BY <2>2
  <2>3. QED
    BY <2>1, <2>2
<1>3. Min(S) \in S /\ \A y \in S : Min(S) <= y
  BY <1>1, <1>2
<1>4. QED
  BY <1>3 DEF Clamp

LEMMA CallStepKeeps ==
  ASSUME FramesIInv, NEW c \in Hydrators,
         \/ Settle(c) \/ FrameReturns(c)
         \/ \E s \in Slots, d \in Depths : FrameHits(c, s, d) \/ FrameMisses(c, s, d)
  PROVE  FramesIInv' /\ FallsOnlyToNothing
<1> USE DEF FramesIInv
<1>1. ASSUME NEW s \in Slots, NEW d \in Depths, FrameHits(c, s, d) PROVE FramesIInv' /\ FallsOnlyToNothing
  <2>1. d \in Nat /\ d + 1 \in Nat \ {0} /\ d < d + 1
    BY FrameAssumption
  <2>2. held[s] \in FetchDepths /\ d < held[s]
    BY <1>1, <2>1, HitDepth DEF FrameHits
  <2>3. CallsOK' /\ NeverUnderReports'
    BY <1>1, <2>1, <2>2, AnswerKeeps DEF FrameHits
  <2>4. QED
    BY <1>1, <2>3, TouchKeeps DEF FrameHits
<1>2. ASSUME NEW s \in Slots, NEW d \in Depths, FrameMisses(c, s, d) PROVE FramesIInv' /\ FallsOnlyToNothing
  <2>1. Fetching(s, d) \in FrameCalls /\ Fetching(s, d).at # "answered"
    BY DEF Fetching, FrameCalls
  <2>2. CallsOK' /\ NeverUnderReports'
    BY <1>2, <2>1, SilenceKeeps DEF FrameMisses
  <2>3. QED
    BY <1>2, <2>2, ExpireKeeps, SameHeld DEF FrameMisses
<1>3. ASSUME Fetched(c) \/ FetchedOversized(c) PROVE FramesIInv' /\ FallsOnlyToNothing
  <2>1. /\ call[c].slot \in Slots /\ call[c].want \in Nat /\ call[c].want + 1 \in FetchDepths
        /\ call[c].want < call[c].want + 1
    BY <1>3, InFlightCall DEF Fetched, FetchedOversized
  <2>2. call' = [call EXCEPT ![c] = Answered(call[c].want + 1, call[c].want)]
    BY <1>3 DEF Fetched, FetchedOversized
  <2>3. CallsOK' /\ NeverUnderReports'
    BY <2>1, <2>2, AnswerKeeps
  <2>4. StoreOK' /\ WithinBudgets' /\ FallsOnlyToNothing
    BY <1>3, <2>1, SetIfDeeperKeeps, UntouchedKeeps DEF Fetched, FetchedOversized, FallsOnlyToNothing
  <2>5. QED
    BY <2>3, <2>4
<1>4. ASSUME TooLargeClamped(c) PROVE FramesIInv' /\ FallsOnlyToNothing
  <2> DEFINE s == call[c].slot
  <2>1. s \in Slots /\ call[c].want \in Nat
    BY <1>4, InFlightCall DEF TooLargeClamped
  <2>2. held[s] \in FetchDepths /\ held[s] \in Nat /\ held[s] > 1
    BY <1>4, <2>1, HitDepth DEF TooLargeClamped
  <2>3. Clamp(call[c].want, held[s]) \in Nat /\ Clamp(call[c].want, held[s]) < held[s]
    BY <2>1, <2>2, ClampBounds
  <2>4. call' = [call EXCEPT ![c] = Answered(held[s], Clamp(call[c].want, held[s]))]
    BY <1>4 DEF TooLargeClamped
  <2>5. CallsOK' /\ NeverUnderReports'
    BY <2>2, <2>3, <2>4, AnswerKeeps
  <2>6. QED
    BY <1>4, <2>1, <2>5, TouchKeeps DEF TooLargeClamped
<1>5. Rejected \in FrameCalls /\ Rejected.at # "answered" /\ NoCall \in FrameCalls /\ NoCall.at # "answered"
  BY DEF Rejected, NoCall, FrameCalls
<1>6. ASSUME TooLargeRejected(c) PROVE FramesIInv' /\ FallsOnlyToNothing
  <2>1. CallsOK' /\ NeverUnderReports'
    BY <1>5, <1>6, SilenceKeeps DEF TooLargeRejected
  <2>2. call[c].slot \in Slots
    BY <1>6, InFlightCall DEF TooLargeRejected
  <2>3. QED
    BY <1>6, <2>1, <2>2, ExpireKeeps, SameHeld DEF TooLargeRejected
<1>7. ASSUME FetchFails(c) \/ FrameReturns(c) PROVE FramesIInv' /\ FallsOnlyToNothing
  <2>1. CallsOK' /\ NeverUnderReports'
    BY <1>5, <1>7, SilenceKeeps DEF FetchFails, FrameReturns
  <2>2. QED
    BY <1>7, <2>1, UntouchedKeeps DEF FetchFails, FrameReturns
<1>8. QED
  BY <1>1, <1>2, <1>3, <1>4, <1>6, <1>7 DEF Settle

LEMMA FramesStep == FramesIInv /\ [FramesNext]_frames => FramesIInv' /\ FallsOnlyToNothing
<1> SUFFICES ASSUME FramesIInv, [FramesNext]_frames PROVE FramesIInv' /\ FallsOnlyToNothing
  OBVIOUS
<1> USE DEF FramesIInv
<1>1. CASE FramesTick
  BY <1>1, DenseBounds, SameHeld DEF FramesTick, StoreOK, CallsOK, WithinBudgets, NeverUnderReports
<1>2. ASSUME NEW s \in Slots, Lapse(s) PROVE FramesIInv' /\ FallsOnlyToNothing
  <2>1. StoreOK'
    BY <1>2 DEF Lapse, Live, Resides, StoreOK
  <2>2. QED
    BY <1>2, <2>1, SameHeld DEF Lapse, CallsOK, WithinBudgets, NeverUnderReports
<1>3. CASE UNCHANGED frames
  BY <1>3, UntouchedKeeps DEF frames, records, CallsOK, NeverUnderReports
<1>4. QED
  BY <1>1, <1>2, <1>3, CallStepKeeps DEF FramesNext

LEMMA FramesInitially == FramesInit => FramesIInv
<1> SUFFICES ASSUME FramesInit PROVE FramesIInv
  OBVIOUS
<1>1. StoreOK
  BY DepthsAreNaturals DEF FramesInit, StoreOK, Holding
<1>2. CallsOK /\ NeverUnderReports
  BY DEF FramesInit, CallsOK, NeverUnderReports, NoCall, FrameCalls
<1>3. \A S \in SUBSET Slots : Weight(held, S) = 0
  BY <1>1, WeightOfNothing DEF FramesInit, StoreOK
<1>4. WithinBudgets
  <2>1. Weight(held, Slots) = 0
    BY <1>3
  <2>2. \A s \in Slots : Weight(held, {t \in Slots : OwnerOf[t] = OwnerOf[s]}) = 0
    BY <1>3
  <2>3. QED
    BY <2>1, <2>2, DepthsAreNaturals DEF WithinBudgets
<1>5. QED
  BY <1>1, <1>2, <1>4 DEF FramesIInv

LEMMA FramesAlways == FramesSpec => []FramesIInv
  BY FramesInitially, FramesStep, PTL DEF FramesSpec

(* FramesTypeOK of FrameHydration: the store holds depths that were fetched, *)
(* only what is held expires or has a seat, and a call is idle, fetching or  *)
(* settled.                                                                  *)
THEOREM FramesKeepTypes == FramesSpec => []FramesTypeOK
<1>1. FramesIInv => FramesTypeOK
  BY DEF FramesIInv, StoreOK, CallsOK, Holding, FramesTypeOK
<1>2. QED
  BY <1>1, FramesAlways, PTL

(* NeverUnderReports of FrameHydration: a caller is never given an effective *)
(* depth at which nodes of the raw it got had lost their children, hydrated, *)
(* hit, clamped or oversized.                                                *)
THEOREM NeverUnderReported == FramesSpec => []NeverUnderReports
<1>1. FramesIInv => NeverUnderReports
  BY DEF FramesIInv
<1>2. QED
  BY <1>1, FramesAlways, PTL

(* WithinBudgets of FrameHydration: after every step the records of each     *)
(* owner fit the tenant's budget and all of them the global one, whatever    *)
(* the sizes, the owners and the order of access.                            *)
THEOREM AlwaysWithinBudgets == FramesSpec => []WithinBudgets
<1>1. FramesIInv => WithinBudgets
  BY DEF FramesIInv
<1>2. QED
  BY <1>1, FramesAlways, PTL

(* NeverRegresses of FrameHydration: no step replaces a live raw by a        *)
(* shallower one; it goes altogether, if it goes.                            *)
THEOREM DepthsNeverRegress == FramesSpec => NeverRegresses
<1>1. FramesIInv /\ [FramesNext]_frames =>
        [\A s \in Slots : Live(s) => held'[s] >= held[s] \/ held'[s] = 0]_frames
  BY FramesStep DEF FallsOnlyToNothing
<1>2. QED
  BY <1>1, FramesAlways, PTL DEF FramesSpec, NeverRegresses

(* HydratedMeansHeld of FrameHydration: the raw a call has just put in the  *)
(* store is there after the eviction that it caused, however full the store *)
(* was, unless another record was used in the same millisecond.             *)
THEOREM HydratedIsHeld == FramesSpec => HydratedMeansHeld
<1>1. ASSUME FramesIInv, NEW c \in Hydrators, InFlight(c), Rivals(call[c].slot) = {}, Fetched(c)
      PROVE  held'[call[c].slot] > call[c].want
  <2> DEFINE s == call[c].slot
  <2>1. s \in Slots /\ call[c].want \in Nat /\ call[c].want + 1 \in FetchDepths
    BY <1>1, InFlightCall DEF FramesIInv
  <2>2. held' \in Holding /\ held'[s] >= call[c].want + 1
    BY <1>1, <2>1, SetIfDeeperKeeps DEF FramesIInv, Fetched, StoreOK
  <2>3. held'[s] \in Nat
    BY <2>1, <2>2, DepthsAreNaturals DEF Holding
  <2>4. QED
    BY <2>1, <2>2, <2>3
<1>2. FramesIInv /\ [FramesNext]_frames =>
        [\A c \in Hydrators :
           InFlight(c) /\ Rivals(call[c].slot) = {} =>
             held'[call[c].slot] > call[c].want \/ ~Fetched(c)]_frames
  BY <1>1
<1>3. QED
  BY <1>2, FramesAlways, PTL DEF FramesSpec, HydratedMeansHeld
================================================================================
