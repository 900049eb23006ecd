----------------------------- MODULE TenantsProofs -----------------------------
(***************************************************************************)
(* What the multi-tenant server keeps of a user.  For every set of labels, *)
(* tokens and portal requests and every bound: the types, at most one      *)
(* default, which is lost by removal alone, and the verdicts of Figma      *)
(* written to the tokens they are about.  For every set of keys and of     *)
(* uploads that overlap: what an uploaded table holds once one is stored.  *)
(***************************************************************************)
EXTENDS Accounts, Uploads, TLAPS

-----------------------------------------------------------------------------
(* Accounts.                                                               *)

(* A row is known by its id and by its label.                              *)
Distinct ==
  /\ \A t \in tokens : t.id <= lastId
  /\ \A t, u \in tokens : t.id = u.id \/ t.label = u.label => t = u

(* A job names a token that was stored: if a row still has that id, it is  *)
(* that token.                                                             *)
NamesIn(j, rows, last) == j \in Job /\ j.id <= last /\ \A t \in rows : t.id = j.id => t.pat = j.pat
Names(j) == NamesIn(j, tokens, lastId)
Borne(j, verdict, refused) == verdict \in Status /\ (verdict = "invalid" => j.pat \in refused)
Warranted(j, verdict) == Borne(j, verdict, turnedAway)

Adding(r)  == req[r].at \in {"checking", "counting", "inserting"} => req[r].label \in Labels /\ req[r].job \in Job
Probing(r) == req[r].at \in {"probing", "writing"} => Names(req[r].job)
Writing(r) == req[r].at = "writing" => Warranted(req[r].job, req[r].verdict)
Underway ==
  /\ \A r \in Clients : Adding(r) /\ Probing(r) /\ Writing(r)
  /\ \A j \in queue : Names(j)
  /\ night # Nil => Names(night.job) /\ Warranted(night.job, night.verdict)

(* OneDefault needs the labels to be distinct; the verdicts need the ids    *)
(* never to be used again.                                                 *)
AccountsInv == AccountsTypeOK /\ Distinct /\ Underway /\ OneDefault /\ VerdictsAreTheirs

LEMMA IdleTyped == Idle \in Request
BY DEF Idle, Request, Steps

LEMMA InitialAccounts == AccountsInit => AccountsInv
<1>1. ASSUME AccountsInit PROVE AccountsTypeOK
  BY <1>1, IdleTyped, AccountsAssumption DEF AccountsInit, AccountsTypeOK
<1>2. ASSUME AccountsInit PROVE Distinct /\ Underway /\ OneDefault /\ VerdictsAreTheirs
  BY <1>2 DEF AccountsInit, Distinct, Underway, Adding, Probing, Writing, Idle, OneDefault, VerdictsAreTheirs
<1> QED  BY <1>1, <1>2 DEF AccountsInv

-----------------------------------------------------------------------------
(* The types.                                                              *)
LEMMA IdsAreNat == AccountsTypeOK => Ids \subseteq Nat
BY DEF AccountsTypeOK, Ids, Token

LEMMA TypeStep == AccountsTypeOK /\ Underway /\ [AccountsNext]_accounts => AccountsTypeOK'
<1> SUFFICES ASSUME AccountsTypeOK, Underway, [AccountsNext]_accounts PROVE AccountsTypeOK'
  OBVIOUS
<1> USE AccountsAssumption, IdleTyped
<1>1. ASSUME NEW r \in Clients, Add(r) PROVE AccountsTypeOK'
  <2>1. ASSUME NEW l \in Labels, NEW p \in Pats
        PROVE [Idle EXCEPT !.at = "checking", !.label = l, !.job = [id |-> 0, pat |-> p]] \in Request
    BY DEF Idle, Request, Steps, Job
  <2>2. req' \in [Clients -> Request]
    BY <1>1, <2>1 DEF Add, AccountsTypeOK
  <2>3. made' \in 0..MaxRequests
    BY <1>1 DEF Add, Free, AccountsTypeOK
  <2> QED  BY <1>1, <2>2, <2>3 DEF Add, AccountsTypeOK
<1>2. ASSUME NEW r \in Clients, SetDefault(r) PROVE AccountsTypeOK'
  <2>1. ASSUME NEW l \in Labels
        PROVE [Idle EXCEPT !.at = "clearing", !.label = l, !.sees = Ids] \in Request
    BY IdsAreNat DEF Idle, Request, Steps
  <2>2. req' \in [Clients -> Request]
    BY <1>2, <2>1 DEF SetDefault, AccountsTypeOK
  <2>3. made' \in 0..MaxRequests
    BY <1>2 DEF SetDefault, Free, AccountsTypeOK
  <2> QED  BY <1>2, <2>2, <2>3 DEF SetDefault, AccountsTypeOK
<1>3. ASSUME NEW r \in Clients, Validate(r) PROVE AccountsTypeOK'
  <2>1. ASSUME NEW t \in tokens
        PROVE [Idle EXCEPT !.at = "probing", !.label = t.label, !.job = [id |-> t.id, pat |-> t.pat]]
              \in Request
    BY DEF Idle, Request, Steps, Job, AccountsTypeOK, Token
  <2>2. req' \in [Clients -> Request]
    BY <1>3, <2>1 DEF Validate, AccountsTypeOK
  <2>3. made' \in 0..MaxRequests
    BY <1>3 DEF Validate, Free, AccountsTypeOK
  <2> QED  BY <1>3, <2>2, <2>3 DEF Validate, AccountsTypeOK
<1>4. ASSUME NEW r \in Clients, Check(r) \/ Count(r) PROVE AccountsTypeOK'
  <2>1. /\ [req[r] EXCEPT !.at = "counting"] \in Request
        /\ [req[r] EXCEPT !.at = "inserting", !.first = tokens = {}] \in Request
    BY DEF AccountsTypeOK, Request, Steps
  <2>2. CASE Check(r)
    BY <2>1, <2>2 DEF Check, Awaits, Answers, End, AccountsTypeOK, Underway, Adding, Job
  <2>3. CASE Count(r)
    BY <2>1, <2>3 DEF Count, AccountsTypeOK
  <2> QED  BY <1>4, <2>2, <2>3
<1>5. ASSUME NEW r \in Clients, Insert(r) PROVE AccountsTypeOK'
  <2>1. NewRow(r) \in Token
    BY <1>5 DEF Insert, Awaits, NewRow, Token, Status, AccountsTypeOK, Request, Underway, Adding, Job
  <2> QED  BY <1>5, <2>1 DEF Insert, End, AccountsTypeOK
<1>6. ASSUME NEW r \in Clients, Clear(r) PROVE AccountsTypeOK'
  <2>1. [req[r] EXCEPT !.at = "marking", !.locked = req[r].sees \cap Ids] \in Request
    BY DEF AccountsTypeOK, Request, Steps
  <2> QED  BY <1>6, <2>1 DEF Clear, AccountsTypeOK
<1>7. ASSUME NEW r \in Clients, Mark(r) PROVE AccountsTypeOK'
  <2>1. ASSUME NEW t \in tokens PROVE Default(t, req[r].label, req[r].locked) \in Token
    BY DEF Default, Token, AccountsTypeOK
  <2> QED  BY <1>7, <2>1 DEF Mark, End, AccountsTypeOK
<1>8. ASSUME NEW r \in Clients, RollBack(r) \/ Fail(r) PROVE AccountsTypeOK'
  BY <1>8 DEF RollBack, Fail, End, AccountsTypeOK
<1>9. ASSUME NEW r \in Clients, Probe(r) PROVE AccountsTypeOK'
  <2>1. ASSUME NEW verdict \in Status
        PROVE [req[r] EXCEPT !.at = "writing", !.verdict = verdict] \in Request
    BY DEF AccountsTypeOK, Request, Steps
  <2>2. req' \in [Clients -> Request]
    BY <1>9, <2>1 DEF Probe, AccountsTypeOK
  <2>3. turnedAway' \subseteq Pats
    BY <1>9 DEF Probe, Awaits, Answers, AccountsTypeOK, Underway, Probing, Names, NamesIn, Job
  <2> QED  BY <1>9, <2>2, <2>3 DEF Probe, AccountsTypeOK
<1>10. ASSUME NEW id, NEW status \in Status, updateValidation(id, status) PROVE tokens' \subseteq Token
  BY <1>10 DEF updateValidation, AccountsTypeOK, Token
<1>11. ASSUME NEW r \in Clients, WriteVerdict(r) PROVE AccountsTypeOK'
  BY <1>10, <1>11 DEF WriteVerdict, Awaits, End, AccountsTypeOK, Underway, Writing, Warranted, Borne
<1>12. CASE Remove
  BY <1>12 DEF Remove, AccountsTypeOK
<1>13. CASE Revoke
  BY <1>13 DEF Revoke, AccountsTypeOK
<1>14. CASE Nightly
  <2>1. {[id |-> t.id, pat |-> t.pat] : t \in tokens} \subseteq Job
    BY DEF AccountsTypeOK, Token, Job
  <2> QED  BY <1>14, <2>1 DEF Nightly, AccountsTypeOK
<1>15. CASE NightAsk
  BY <1>15 DEF NightAsk, Answers, AccountsTypeOK, Job
<1>16. CASE NightWrite
  BY <1>10, <1>16 DEF NightWrite, AccountsTypeOK, Underway, Warranted, Borne
<1>17. CASE NightSkip
  BY <1>17 DEF NightSkip, AccountsTypeOK
<1>18. CASE UNCHANGED accounts
  BY <1>18 DEF accounts, AccountsTypeOK
<1> QED
  BY <1>1, <1>2, <1>3, <1>4, <1>5, <1>6, <1>7, <1>8, <1>9, <1>11, <1>12, <1>13, <1>14, <1>15, <1>16,
     <1>17, <1>18 DEF AccountsNext, RequestStep, NightStep

-----------------------------------------------------------------------------
(* Most steps leave the table alone; the verdicts and the marks rewrite    *)
(* rows without touching what identifies them.                             *)
LEMMA RowsKept ==
  ASSUME AccountsTypeOK, [AccountsNext]_accounts,
         ~(\E r \in Clients : Insert(r) \/ Mark(r) \/ WriteVerdict(r)), ~Remove, ~NightWrite
  PROVE  tokens' = tokens /\ lastId' = lastId
<1> QED
  BY DEF AccountsNext, RequestStep, NightStep, Add, SetDefault, Validate, Check, Count, Clear, RollBack,
         Fail, Probe, Revoke, Nightly, NightAsk, NightSkip, accounts

Kin(t, u) == t.id = u.id /\ t.label = u.label /\ t.pat = u.pat   \* the same row, rewritten

LEMMA MarkRewrites ==
  ASSUME AccountsTypeOK, NEW r \in Clients, Mark(r)
  PROVE  /\ lastId' = lastId
         /\ \A u \in tokens' : \E t \in tokens : /\ u = Default(t, req[r].label, req[r].locked)
                                                /\ Kin(t, u) /\ u.status = t.status
<1>1. ASSUME NEW t \in tokens
      PROVE  LET u == Default(t, req[r].label, req[r].locked) IN Kin(t, u) /\ u.status = t.status
  BY DEF Default, Kin, AccountsTypeOK, Token
<1> QED  BY <1>1 DEF Mark

LEMMA VerdictRewrites ==
  ASSUME AccountsTypeOK, NEW id, NEW status, updateValidation(id, status)
  PROVE  \A u \in tokens' : \E t \in tokens :
           Kin(t, u) /\ u.default = t.default /\ u.status = IF t.id = id THEN status ELSE t.status
<1>1. ASSUME NEW t \in tokens
      PROVE  LET u == IF t.id = id THEN [t EXCEPT !.status = status] ELSE t
             IN  Kin(t, u) /\ u.default = t.default /\ u.status = IF t.id = id THEN status ELSE t.status
  BY DEF Kin, AccountsTypeOK, Token
<1> QED  BY <1>1 DEF updateValidation

(* A row that was rewritten is still known by its id and its label.        *)
LEMMA DistinctStep == AccountsTypeOK /\ Distinct /\ [AccountsNext]_accounts => Distinct'
<1> SUFFICES ASSUME AccountsTypeOK, Distinct, [AccountsNext]_accounts PROVE Distinct'
  OBVIOUS
<1>1. ASSUME NEW r \in Clients, Insert(r) PROVE Distinct'
  <2>1. lastId \in Nat /\ NewRow(r).id = lastId + 1 /\ NewRow(r).label = req[r].label
    BY DEF NewRow, AccountsTypeOK
  <2>2. \A t \in tokens : t.id \in Nat /\ t.id # lastId + 1
    BY <2>1 DEF Distinct, AccountsTypeOK, Token
  <2>3. CASE tokens' = tokens
    BY <1>1, <2>1, <2>2, <2>3 DEF Insert, Distinct
  <2>4. CASE tokens' = tokens \cup {NewRow(r)} /\ ~Taken(req[r].label)
    BY <1>1, <2>1, <2>2, <2>4 DEF Insert, Distinct, Taken
  <2> QED  BY <1>1, <2>3, <2>4 DEF Insert, Clashes
<1>2. ASSUME NEW r \in Clients, Mark(r) PROVE Distinct'
  <2>1. ASSUME NEW t \in tokens, NEW u \in tokens,
               Default(t, req[r].label, req[r].locked).id = Default(u, req[r].label, req[r].locked).id
               \/ Default(t, req[r].label, req[r].locked).label = Default(u, req[r].label, req[r].locked).label
        PROVE  t = u
    BY <2>1 DEF Default, Distinct, AccountsTypeOK, Token
  <2>2. \A t \in tokens : Default(t, req[r].label, req[r].locked).id = t.id
    BY DEF Default, AccountsTypeOK, Token
  <2> QED  BY <1>2, <2>1, <2>2 DEF Mark, Distinct
<1>3. ASSUME NEW id, NEW status, updateValidation(id, status), lastId' = lastId PROVE Distinct'
  <2> DEFINE Changed(t) == IF t.id = id THEN [t EXCEPT !.status = status] ELSE t
  <2>1. \A t \in tokens : Changed(t).id = t.id /\ Changed(t).label = t.label
    BY DEF AccountsTypeOK, Token
  <2>2. tokens' = {Changed(t) : t \in tokens}
    BY <1>3 DEF updateValidation
  <2> HIDE DEF Changed
  <2> QED  BY <1>3, <2>1, <2>2 DEF Distinct
<1>4. ASSUME NEW r \in Clients, WriteVerdict(r) PROVE Distinct'
  BY <1>3, <1>4 DEF WriteVerdict
<1>5. CASE NightWrite
  BY <1>3, <1>5 DEF NightWrite
<1>6. CASE Remove
  BY <1>6 DEF Remove, Distinct
<1>7. CASE tokens' = tokens /\ lastId' = lastId
  BY <1>7 DEF Distinct
<1> QED  BY <1>1, <1>2, <1>4, <1>5, <1>6, <1>7, RowsKept

-----------------------------------------------------------------------------
(* One default: a row inserted as the default found none, and the row that *)
(* is marked is the only one left.                                         *)
LEMMA OneDefaultStep ==
  AccountsTypeOK /\ Distinct /\ OneDefault /\ [AccountsNext]_accounts => OneDefault'
<1> SUFFICES ASSUME AccountsTypeOK, Distinct, OneDefault, [AccountsNext]_accounts PROVE OneDefault'
  OBVIOUS
<1>1. ASSUME NEW r \in Clients, Insert(r) PROVE OneDefault'
  <2>1. NewRow(r).default = req[r].first
    BY DEF NewRow
  <2> QED  BY <1>1, <2>1 DEF Insert, Clashes, HasDefault, OneDefault
<1>2. ASSUME NEW r \in Clients, Mark(r) PROVE OneDefault'
  <2> DEFINE Changed(t) == Default(t, req[r].label, req[r].locked)
  <2>1. \A t \in tokens : Changed(t).default => t.label = req[r].label
    <3>1. PICK m \in tokens : m.label = req[r].label
                            /\ \A d \in tokens \ {m} : d.default => d.id \in req[r].locked
      BY <1>2 DEF Mark
    <3>2. \A t \in tokens : Changed(t).default = (t.label = req[r].label \/ (t.default /\ t.id \notin req[r].locked))
      BY DEF Default, AccountsTypeOK, Token
    <3> QED  BY <3>1, <3>2
  <2>2. tokens' = {Changed(t) : t \in tokens}
    BY <1>2 DEF Mark
  <2> HIDE DEF Changed
  <2> QED  BY <2>1, <2>2 DEF OneDefault, Distinct
<1>3. ASSUME NEW id, NEW status, updateValidation(id, status) PROVE OneDefault'
  <2> DEFINE Changed(t) == IF t.id = id THEN [t EXCEPT !.status = status] ELSE t
  <2>1. \A t \in tokens : Changed(t).default = t.default
    BY DEF AccountsTypeOK, Token
  <2>2. tokens' = {Changed(t) : t \in tokens}
    BY <1>3 DEF updateValidation
  <2> HIDE DEF Changed
  <2> QED  BY <2>1, <2>2 DEF OneDefault
<1>4. ASSUME NEW r \in Clients, WriteVerdict(r) PROVE OneDefault'
  BY <1>3, <1>4 DEF WriteVerdict
<1>5. CASE NightWrite
  BY <1>3, <1>5 DEF NightWrite
<1>6. CASE Remove
  BY <1>6 DEF Remove, OneDefault
<1>7. CASE tokens' = tokens
  BY <1>7 DEF OneDefault
<1> QED  BY <1>1, <1>2, <1>4, <1>5, <1>6, <1>7, RowsKept

-----------------------------------------------------------------------------
(* The jobs.  A row is one that was there, perhaps rewritten, or has a new *)
(* id; so a job still names its token, and what Figma refused stays so.    *)
LEMMA RowsAreKin ==
  ASSUME AccountsTypeOK, [AccountsNext]_accounts
  PROVE  /\ lastId' \in Nat /\ lastId <= lastId'
         /\ \A u \in tokens' : u.id = lastId + 1 \/ \E t \in tokens : Kin(t, u)
<1>1. CASE \E r \in Clients : Insert(r)
  BY <1>1 DEF Insert, NewRow, Kin, AccountsTypeOK
<1>2. CASE \E r \in Clients : Mark(r)
  BY <1>2, MarkRewrites DEF AccountsTypeOK
<1>3. CASE \E r \in Clients : WriteVerdict(r)
  BY <1>3, VerdictRewrites DEF WriteVerdict, AccountsTypeOK
<1>4. CASE NightWrite
  BY <1>4, VerdictRewrites DEF NightWrite, AccountsTypeOK
<1>5. CASE Remove
  BY <1>5 DEF Remove, Kin, AccountsTypeOK
<1>6. CASE tokens' = tokens /\ lastId' = lastId
  BY <1>6 DEF Kin, AccountsTypeOK
<1> QED  BY <1>1, <1>2, <1>3, <1>4, <1>5, <1>6, RowsKept

LEMMA NamesKept ==
  ASSUME AccountsTypeOK, [AccountsNext]_accounts, NEW j, Names(j)
  PROVE  NamesIn(j, tokens', lastId')
<1>1. j \in Job /\ j.id \in Nat /\ j.id <= lastId /\ lastId \in Nat
  BY DEF Names, NamesIn, Job, AccountsTypeOK
<1>2. j.id <= lastId' /\ j.id # lastId + 1
  BY <1>1, RowsAreKin
<1>3. \A u \in tokens' : u.id = j.id => u.pat = j.pat
  BY <1>2, RowsAreKin DEF Kin, Names, NamesIn
<1> QED  BY <1>1, <1>2, <1>3 DEF NamesIn

LEMMA RefusalsKept ==
  ASSUME AccountsTypeOK, [AccountsNext]_accounts
  PROVE  turnedAway \subseteq turnedAway'
BY DEF AccountsNext, RequestStep, NightStep, Add, SetDefault, Validate, Check, Count, Insert, Clear, Mark,
       RollBack, Fail, Probe, WriteVerdict, Remove, Revoke, Nightly, NightAsk, NightWrite, NightSkip,
       Answers, accounts

(* A row just read is named by the job made of it.                         *)
LEMMA RowNamed ==
  ASSUME AccountsTypeOK, Distinct, NEW t \in tokens
  PROVE  Names([id |-> t.id, pat |-> t.pat])
BY DEF Names, NamesIn, Job, Distinct, AccountsTypeOK, Token

(* What a request holds is what it held, or what its own step brings.      *)
Sound(q, rows, last, refused) ==
  /\ q.at \in {"checking", "counting", "inserting"} => q.label \in Labels /\ q.job \in Job
  /\ q.at \in {"probing", "writing"} => NamesIn(q.job, rows, last)
  /\ q.at = "writing" => Borne(q.job, q.verdict, refused)
Now(q)  == Sound(q, tokens, lastId, turnedAway)
Next(q) == Sound(q, tokens', lastId', turnedAway')

LEMMA SoundKept ==
  ASSUME AccountsTypeOK, [AccountsNext]_accounts, NEW q, Now(q)
  PROVE  Next(q)
BY NamesKept, RefusalsKept DEF Now, Next, Sound, Names, Borne

LEMMA UnderwayStep == AccountsTypeOK /\ Distinct /\ Underway /\ [AccountsNext]_accounts => Underway'
<1> SUFFICES ASSUME AccountsTypeOK, Distinct, Underway, [AccountsNext]_accounts PROVE Underway'
  OBVIOUS
<1>1. \A r \in Clients : Now(req[r])
  BY DEF Now, Sound, Underway, Adding, Probing, Writing, Names, Warranted
<1>2. \A r \in Clients : req'[r] = req[r] => Next(req'[r])
  BY <1>1, SoundKept
<1>3. Next(Idle)
  BY DEF Next, Sound, Idle
<1>4. ASSUME NEW s \in Clients, Add(s) PROVE \A r \in Clients : Next(req'[r])
  <2>1. req'[s].at = "checking" /\ req'[s].label \in Labels /\ req'[s].job \in Job
    BY <1>4 DEF Add, Idle, Job, AccountsTypeOK
  <2>2. \A r \in Clients \ {s} : req'[r] = req[r]
    BY <1>4 DEF Add, AccountsTypeOK
  <2>3. Next(req'[s])
    BY <2>1 DEF Next, Sound
  <2> QED  BY <1>2, <2>2, <2>3
<1>5. ASSUME NEW s \in Clients, SetDefault(s) \/ Clear(s) PROVE \A r \in Clients : Next(req'[r])
  <2>1. req'[s].at \in {"clearing", "marking"}
    BY <1>5 DEF SetDefault, Clear, Idle, AccountsTypeOK, Request
  <2>2. \A r \in Clients \ {s} : req'[r] = req[r]
    BY <1>5 DEF SetDefault, Clear, AccountsTypeOK
  <2>3. Next(req'[s])
    BY <2>1 DEF Next, Sound
  <2> QED  BY <1>2, <2>2, <2>3
<1>6. ASSUME NEW s \in Clients, Validate(s) PROVE \A r \in Clients : Next(req'[r])
  <2>1. PICK t \in tokens :
          req' = [req EXCEPT ![s] = [Idle EXCEPT !.at = "probing", !.label = t.label,
                                                 !.job = [id |-> t.id, pat |-> t.pat]]]
    BY <1>6 DEF Validate
  <2>2. NamesIn([id |-> t.id, pat |-> t.pat], tokens', lastId')
    BY RowNamed, NamesKept
  <2>3. /\ req'[s].at = "probing" /\ req'[s].job = [id |-> t.id, pat |-> t.pat]
        /\ \A r \in Clients \ {s} : req'[r] = req[r]
    BY <2>1 DEF Idle, AccountsTypeOK
  <2>4. Next(req'[s])
    BY <2>2, <2>3 DEF Next, Sound
  <2> QED  BY <1>2, <2>3, <2>4
<1>7. ASSUME NEW s \in Clients, End(s) PROVE \A r \in Clients : Next(req'[r])
  <2>1. req'[s] = Idle /\ \A r \in Clients \ {s} : req'[r] = req[r]
    BY <1>7 DEF End, AccountsTypeOK
  <2> QED  BY <1>2, <1>3, <2>1
<1>8. ASSUME NEW s \in Clients, Check(s) \/ Count(s) PROVE \A r \in Clients : Next(req'[r])
  <2>1. CASE End(s)
    BY <1>7, <2>1
  <2>2. CASE /\ req[s].at \in {"checking", "counting"}
             /\ req'[s].at \in {"counting", "inserting"}
             /\ req'[s].label = req[s].label /\ req'[s].job = req[s].job
             /\ \A r \in Clients \ {s} : req'[r] = req[r]
    <3>1. Next(req'[s])
      BY <1>1, <2>2 DEF Now, Next, Sound
    <3> QED  BY <1>2, <2>2, <3>1
  <2>3. CASE Check(s)
    BY <2>1, <2>2, <2>3 DEF Check, Awaits, AccountsTypeOK, Request
  <2>4. CASE Count(s)
    BY <2>2, <2>4 DEF Count, Awaits, AccountsTypeOK, Request
  <2> QED  BY <1>8, <2>3, <2>4
<1>9. ASSUME NEW s \in Clients, Probe(s) PROVE \A r \in Clients : Next(req'[r])
  <2>1. PICK verdict \in Status :
          /\ Answers(req[s].job.pat, verdict)
          /\ req' = [req EXCEPT ![s].at = "writing", ![s].verdict = verdict]
    BY <1>9 DEF Probe
  <2>2. NamesIn(req[s].job, tokens', lastId')
    BY <1>1, <1>9, NamesKept DEF Probe, Awaits, Now, Sound, Names
  <2>3. /\ req'[s].job = req[s].job /\ req'[s].verdict = verdict /\ req'[s].at = "writing"
        /\ \A r \in Clients \ {s} : req'[r] = req[r]
    BY <2>1 DEF AccountsTypeOK, Request
  <2>4. Borne(req[s].job, verdict, turnedAway')
    BY <2>1 DEF Answers, Borne, Status
  <2>5. Next(req'[s])
    BY <2>2, <2>3, <2>4 DEF Next, Sound
  <2> QED  BY <1>2, <2>3, <2>5
<1>10. \A r \in Clients : Next(req'[r])
  <2>1. CASE req' = req
    BY <1>2, <2>1
  <2> QED
    BY <1>4, <1>5, <1>6, <1>7, <1>8, <1>9, <2>1
    DEF AccountsNext, RequestStep, NightStep, Insert, Mark, RollBack, WriteVerdict, Fail, Remove, Revoke,
        Nightly, NightAsk, NightWrite, NightSkip, accounts
<1>11. \A j \in queue : NamesIn(j, tokens', lastId')
  BY NamesKept DEF Underway
<1>12. \A j \in queue' : NamesIn(j, tokens', lastId')
  <2>1. CASE queue' \subseteq queue
    BY <1>11, <2>1
  <2>2. CASE Nightly
    BY <2>2, RowNamed, NamesKept DEF Nightly
  <2> QED
    BY <2>1, <2>2
    DEF AccountsNext, RequestStep, NightStep, Add, SetDefault, Validate, Check, Count, Insert, Clear, Mark,
        RollBack, Fail, Probe, WriteVerdict, Remove, Revoke, NightAsk, NightWrite, NightSkip, accounts
<1>13. night' # Nil => NamesIn(night'.job, tokens', lastId') /\ Borne(night'.job, night'.verdict, turnedAway')
  <2>1. CASE night' = night
    BY <2>1, NamesKept, RefusalsKept DEF Underway, Warranted, Borne
  <2>2. CASE NightAsk
    <3>1. PICK j \in queue, verdict \in Status :
            Answers(j.pat, verdict) /\ night' = [job |-> j, verdict |-> verdict]
      BY <2>2 DEF NightAsk
    <3>2. Borne(j, verdict, turnedAway')
      BY <3>1 DEF Answers, Borne, Status
    <3> QED  BY <1>11, <3>1, <3>2
  <2>3. CASE night' = Nil
    BY <2>3
  <2> QED
    BY <2>1, <2>2, <2>3
    DEF AccountsNext, RequestStep, NightStep, Add, SetDefault, Validate, Check, Count, Insert, Clear, Mark,
        RollBack, Fail, Probe, WriteVerdict, Remove, Revoke, Nightly, NightWrite, NightSkip, accounts
<1> QED
  BY <1>10, <1>12, <1>13
  DEF Underway, Adding, Probing, Writing, Names, Warranted, Next, Sound

-----------------------------------------------------------------------------
(* A verdict is written to the row its job names, and to no other.         *)
LEMMA WrittenToItsToken ==
  ASSUME AccountsTypeOK, VerdictsAreTheirs, NEW j, NEW verdict, Names(j), Warranted(j, verdict),
         updateValidation(j.id, verdict), turnedAway' = turnedAway
  PROVE  VerdictsAreTheirs'
<1>1. \A u \in tokens' : \E t \in tokens :
        Kin(t, u) /\ u.status = IF t.id = j.id THEN verdict ELSE t.status
  BY VerdictRewrites
<1> QED  BY <1>1 DEF Kin, Names, NamesIn, Warranted, Borne, VerdictsAreTheirs

LEMMA VerdictStep ==
  AccountsTypeOK /\ Underway /\ VerdictsAreTheirs /\ [AccountsNext]_accounts => VerdictsAreTheirs'
<1> SUFFICES ASSUME AccountsTypeOK, Underway, VerdictsAreTheirs, [AccountsNext]_accounts
             PROVE  VerdictsAreTheirs'
  OBVIOUS
<1>1. ASSUME NEW r \in Clients, Insert(r) PROVE VerdictsAreTheirs'
  BY <1>1 DEF Insert, NewRow, VerdictsAreTheirs
<1>2. ASSUME NEW r \in Clients, Mark(r) PROVE VerdictsAreTheirs'
  BY <1>2, MarkRewrites DEF Mark, Kin, VerdictsAreTheirs
<1>3. ASSUME NEW r \in Clients, WriteVerdict(r) PROVE VerdictsAreTheirs'
  BY <1>3, WrittenToItsToken DEF WriteVerdict, Awaits, Underway, Probing, Writing
<1>4. CASE NightWrite
  BY <1>4, WrittenToItsToken DEF NightWrite, Underway
<1>5. CASE Remove
  BY <1>5 DEF Remove, VerdictsAreTheirs
<1>6. CASE tokens' = tokens
  BY <1>6, RefusalsKept DEF VerdictsAreTheirs
<1> QED  BY <1>1, <1>2, <1>3, <1>4, <1>5, <1>6, RowsKept

-----------------------------------------------------------------------------
LEMMA AccountsInvStep == AccountsInv /\ [AccountsNext]_accounts => AccountsInv'
BY TypeStep, DistinctStep, UnderwayStep, OneDefaultStep, VerdictStep DEF AccountsInv

LEMMA AccountsAlwaysSound == AccountsSpec => []AccountsInv
BY InitialAccounts, AccountsInvStep, PTL DEF AccountsSpec

(* The variables keep the types of db.ts.                                  *)
THEOREM AccountsTypesHold == AccountsSpec => []AccountsTypeOK
<1>1. AccountsInv => AccountsTypeOK
  BY DEF AccountsInv
<1> QED  BY <1>1, AccountsAlwaysSound, PTL

(* However additions, removals and changes of the default interleave, the  *)
(* user never has two default tokens (db.ts).                              *)
THEOREM AtMostOneDefault == AccountsSpec => []OneDefault
<1>1. AccountsInv => OneDefault
  BY DEF AccountsInv
<1> QED  BY <1>1, AccountsAlwaysSound, PTL

(* A verdict of Figma reaches the token it is about or none (db.ts,        *)
(* updateValidation; accounts-api.ts; nightly-validation.ts).              *)
THEOREM VerdictsAlwaysTheirs == AccountsSpec => []VerdictsAreTheirs
<1>1. AccountsInv => VerdictsAreTheirs
  BY DEF AccountsInv
<1> QED  BY <1>1, AccountsAlwaysSound, PTL

(* A user who has a default token loses it by removing it, and in no other *)
(* way (db.ts, setDefaultToken).                                           *)
THEOREM DefaultAlwaysKept == AccountsSpec => DefaultKept
<1>1. ASSUME AccountsInv, [AccountsNext]_accounts
      PROVE  [HasDefault /\ ~HasDefault' => \E d \in tokens : d.default /\ d.id \notin Ids']_accounts
  <2> SUFFICES ASSUME HasDefault, ~HasDefault' PROVE \E d \in tokens : d.default /\ d.id \notin Ids'
    OBVIOUS
  <2>0. AccountsTypeOK /\ Distinct /\ [AccountsNext]_accounts
    BY <1>1 DEF AccountsInv
  <2>1. ASSUME NEW r \in Clients, Insert(r) PROVE FALSE
    BY <2>1 DEF Insert, HasDefault
  <2>2. ASSUME NEW r \in Clients, Mark(r) PROVE FALSE
    <3>1. PICK t \in tokens : t.label = req[r].label
      BY <2>2 DEF Mark
    <3>2. Default(t, req[r].label, req[r].locked).default = TRUE
      BY <2>0, <3>1 DEF Default, AccountsTypeOK, Token
    <3> QED  BY <2>2, <3>2 DEF Mark, HasDefault
  <2>3. ASSUME NEW id, NEW status, updateValidation(id, status) PROVE FALSE
    <3>1. PICK t \in tokens : t.default
      BY DEF HasDefault
    <3>2. (IF t.id = id THEN [t EXCEPT !.status = status] ELSE t).default
      BY <2>0, <3>1 DEF AccountsTypeOK, Token
    <3> QED  BY <2>3, <3>2 DEF updateValidation, HasDefault
  <2>4. ASSUME NEW r \in Clients, WriteVerdict(r) PROVE FALSE
    BY <2>3, <2>4 DEF WriteVerdict
  <2>5. CASE NightWrite
    BY <2>3, <2>5 DEF NightWrite
  <2>6. CASE Remove
    <3>1. PICK t \in tokens : tokens' = tokens \ {t}
      BY <2>6 DEF Remove
    <3>2. t.default
      BY <3>1 DEF HasDefault
    <3>3. \A u \in tokens' : u.id # t.id
      BY <2>0, <3>1 DEF Distinct
    <3>4. t.id \notin Ids'
      BY <3>3 DEF Ids
    <3> QED  BY <3>2, <3>4
  <2>7. CASE tokens' = tokens
    BY <2>7 DEF HasDefault
  <2> QED  BY <2>0, <2>1, <2>2, <2>4, <2>5, <2>6, <2>7, RowsKept
<1> QED  BY <1>1, AccountsAlwaysSound, PTL DEF AccountsSpec, DefaultKept

-----------------------------------------------------------------------------
(* Uploads.                                                                *)

(* What an upload is, and what an accepted one has to write.                *)
Upload == [at : {"new", "refused", "deleting", "inserting", "stored", "failed"}, docs : BOOLEAN,
           keys : SUBSET Keys, sees : SUBSET (Keys \X Uploads), gone : SUBSET (Keys \X Uploads), put : SUBSET Keys]
UploadsTypes ==
  /\ table \in [Keys -> Row \cup {Unwritten}] /\ up \in [Uploads -> Upload]
  /\ overlap \in [Uploads -> SUBSET Uploads]
Usable == \A u \in Open : up[u].docs => up[u].keys # {}

(* Those that are open have all met; and a row that an upload has not seen  *)
(* or not deleted was written by one that it met.                           *)
Met == \A u, v \in Open : u # v => v \in overlap[u]
Known(k, S, u) == table[k] # Unwritten => At(k) \in S \/ table[k].by \in overlap[u]
Seen ==
  /\ \A u \in Uploads : up[u].at = "deleting" => \A k \in Keys : Known(k, up[u].sees, u)
  /\ \A u \in Uploads : up[u].at = "inserting" => \A k \in Keys : Known(k, up[u].gone, u)

UploadsInv == UploadsTypes /\ Usable /\ Met /\ Seen

LEMMA InitialUploads == UploadsInit => UploadsInv
<1> SUFFICES ASSUME UploadsInit PROVE UploadsInv
  OBVIOUS
<1>1. New \in Upload
  BY DEF New, Upload
<1>2. UploadsTypes
  BY <1>1 DEF UploadsInit, UploadsTypes
<1>3. Open = {} /\ \A u \in Uploads : up[u].at = "new"
  BY DEF UploadsInit, New, Open
<1>4. QED
  BY <1>2, <1>3 DEF UploadsInv, Usable, Met, Seen

LEMMA RowsOfTable ==
  ASSUME UploadsTypes
  PROVE  /\ TableRows \in SUBSET (Keys \X Uploads)
         /\ \A k \in Keys : table[k] # Unwritten => At(k) \in TableRows /\ table[k] \in Row
<1>1. \A k \in Keys : table[k] # Unwritten => table[k] \in Row
  BY DEF UploadsTypes
<1>2. \A k \in Keys : table[k] # Unwritten => table[k].made \in Uploads
  BY <1>1 DEF Row
<1>3. QED
  BY <1>1, <1>2 DEF TableRows, At

(* A step of one upload that leaves the table and the history.              *)
LEMMA QuietStep ==
  ASSUME UploadsInv, NEW u \in Uploads, NEW r \in Upload, up' = [up EXCEPT ![u] = r], UNCHANGED <<table, overlap>>,
         r.at \in {"deleting", "inserting"} => u \in Open /\ (r.docs => r.keys # {}),
         r.at = "deleting" => \A k \in Keys : Known(k, r.sees, u),
         r.at = "inserting" => \A k \in Keys : Known(k, r.gone, u)
  PROVE  UploadsInv'
<1>0. UploadsTypes /\ Usable /\ Met /\ Seen
  BY DEF UploadsInv
<1>1. up'[u] = r /\ up' \in [Uploads -> Upload] /\ \A v \in Uploads \ {u} : up'[v] = up[v]
  BY <1>0 DEF UploadsTypes
<1>2. UploadsTypes'
  BY <1>0, <1>1 DEF UploadsTypes
<1>3. Open' \subseteq Open
  BY <1>1 DEF Open
<1>4. Usable'
  <2>1. \A v \in Open' : (v # u => up'[v] = up[v]) /\ (v = u => up'[v] = r /\ r.at \in {"deleting", "inserting"})
    BY <1>1 DEF Open
  <2>2. QED
    BY <1>0, <1>3, <2>1 DEF Usable
<1>5. Met'
  BY <1>0, <1>3 DEF Met
<1>6. \A k, S, v : Known(k, S, v)' = Known(k, S', v)
  BY DEF Known, At
<1>7. Seen'
  BY <1>0, <1>1 DEF Seen, Known, At
<1>8. QED
  BY <1>2, <1>4, <1>5, <1>7 DEF UploadsInv

LEMMA BeginKeeps ==
  ASSUME UploadsInv, NEW u \in Uploads, Begin(u)
  PROVE  UploadsInv'
<1>0. UploadsTypes /\ Usable /\ Met /\ Seen /\ up[u].at = "new" /\ UNCHANGED table
  BY DEF UploadsInv, Begin
<1>1. PICK docs \in BOOLEAN, keys \in SUBSET Keys :
        /\ keys # {} => docs
        /\ up' = [up EXCEPT ![u] = IF Refused(docs, keys) THEN [New EXCEPT !.at = "refused"]
                                   ELSE [New EXCEPT !.at = "deleting", !.docs = docs, !.keys = keys,
                                                    !.sees = TableRows]]
        /\ overlap' = IF Refused(docs, keys) THEN overlap
                      ELSE [v \in Uploads |-> IF v = u THEN Open
                                              ELSE IF v \in Open THEN overlap[v] \cup {u} ELSE overlap[v]]
  BY DEF Begin
<1>2. CASE Refused(docs, keys)
  <2> DEFINE r == [New EXCEPT !.at = "refused"]
  <2>1. r \in Upload /\ r.at = "refused"
    BY DEF New, Upload
  <2>2. QED
    BY <1>0, <1>1, <1>2, <2>1, QuietStep
<1>3. CASE ~Refused(docs, keys)
  <2> DEFINE r == [New EXCEPT !.at = "deleting", !.docs = docs, !.keys = keys, !.sees = TableRows]
  <2>1. r \in Upload /\ r.at = "deleting" /\ r.sees = TableRows /\ r.docs = docs /\ r.keys = keys
    BY <1>0, RowsOfTable DEF New, Upload
  <2>2. /\ up'[u] = r /\ up' \in [Uploads -> Upload] /\ \A v \in Uploads \ {u} : up'[v] = up[v]
    BY <1>0, <1>1, <1>3, <2>1 DEF UploadsTypes
  <2>3. Open' = Open \cup {u} /\ u \notin Open
    BY <1>0, <2>1, <2>2 DEF Open
  <2>4. /\ overlap' \in [Uploads -> SUBSET Uploads] /\ overlap'[u] = Open
        /\ \A v \in Uploads \ {u} : overlap[v] \subseteq overlap'[v]
        /\ \A v \in Open : u \in overlap'[v]
    BY <1>0, <1>1, <1>3, <2>3 DEF UploadsTypes, Open
  <2>5. UploadsTypes'
    BY <1>0, <2>2, <2>4 DEF UploadsTypes
  <2>6. Usable'
    <3>1. up'[u].docs => up'[u].keys # {}
      BY <1>3, <2>1, <2>2 DEF Refused
    <3>2. \A v \in Open : up'[v] = up[v]
      BY <2>2, <2>3 DEF Open
    <3>3. QED
      BY <1>0, <2>3, <3>1, <3>2 DEF Usable
  <2>7. Met'
    BY <1>0, <2>3, <2>4 DEF Met, Open
  <2>8. Seen'
    <3>1. \A k \in Keys : table[k] # Unwritten => At(k) \in TableRows
      BY <1>0, RowsOfTable
    <3>2. \A k \in Keys : At(k)' = At(k)
      BY <1>0 DEF At
    <3>3. up'[u].at = "deleting" /\ \A k \in Keys : Known(k, up[u].sees, u)'
      BY <1>0, <2>1, <2>2, <3>1, <3>2 DEF Known
    <3>4. ASSUME NEW v \in Uploads \ {u}
          PROVE  /\ up'[v].at = "deleting" => \A k \in Keys : Known(k, up[v].sees, v)'
                 /\ up'[v].at = "inserting" => \A k \in Keys : Known(k, up[v].gone, v)'
      BY <1>0, <2>2, <2>4, <3>2 DEF Seen, Known
    <3>5. QED
      BY <3>3, <3>4 DEF Seen
  <2>9. QED
    BY <2>5, <2>6, <2>7, <2>8 DEF UploadsInv
<1>4. QED
  BY <1>2, <1>3

LEMMA CommitKeeps ==
  ASSUME UploadsInv, NEW u \in Uploads, Commit(u)
  PROVE  UploadsInv'
<1>0. /\ UploadsTypes /\ Usable /\ Met /\ Seen /\ UNCHANGED overlap /\ up[u].at = "inserting"
      /\ up' = [up EXCEPT ![u].at = "stored", ![u].sees = {}, ![u].gone = {}]
      /\ table' = [k \in Keys |-> IF k \in up[u].put THEN Written(u, k) ELSE Left(u, k)]
  BY DEF UploadsInv, Commit
<1> DEFINE r == [up[u] EXCEPT !.at = "stored", !.sees = {}, !.gone = {}]
<1>1. up[u] \in Upload /\ r \in Upload /\ r.at = "stored"
  <2>1. up[u] \in Upload
    BY <1>0 DEF UploadsTypes
  <2>2. QED
    BY <2>1 DEF Upload
<1>2. up'[u] = r /\ up' \in [Uploads -> Upload] /\ \A v \in Uploads \ {u} : up'[v] = up[v]
  BY <1>0, <1>1 DEF UploadsTypes
<1>3. Open' = Open \ {u} /\ u \in Open
  BY <1>0, <1>1, <1>2 DEF Open
<1>4. ASSUME NEW k \in Keys
      PROVE  /\ k \in up[u].put => table'[k] \in Row /\ table'[k].by = u
             /\ k \notin up[u].put => table'[k] \in {Unwritten, table[k]}
  <2>1. table[k] # Unwritten => table[k].made \in Uploads
    BY <1>0, RowsOfTable DEF Row
  <2>2. Written(u, k) \in Row /\ Written(u, k).by = u
    BY <2>1 DEF Written, Row
  <2>3. Left(u, k) \in {Unwritten, table[k]}
    BY DEF Left
  <2>4. QED
    BY <1>0, <2>2, <2>3
<1>5. UploadsTypes'
  BY <1>0, <1>2, <1>4 DEF UploadsTypes
<1>6. Usable' /\ Met'
  BY <1>0, <1>2, <1>3 DEF Usable, Met, Open
<1>7. ASSUME NEW v \in Uploads \ {u}, v \in Open, NEW k \in Keys, NEW S, Known(k, S, v)
      PROVE  table'[k] # Unwritten => At(k)' \in S \/ table'[k].by \in overlap'[v]
  <2>1. u \in overlap[v]
    BY <1>0, <1>3, <1>7 DEF Met
  <2>2. QED
    BY <1>0, <1>4, <1>7, <2>1 DEF Known, At
<1>8. Seen'
  <2>1. up'[u].at = "stored"
    BY <1>1, <1>2
  <2>2. ASSUME NEW v \in Uploads \ {u}
        PROVE  /\ up'[v].at = "deleting" => \A k \in Keys : Known(k, up[v].sees, v)'
               /\ up'[v].at = "inserting" => \A k \in Keys : Known(k, up[v].gone, v)'
    BY <1>0, <1>2, <1>7 DEF Seen, Open, Known
  <2>3. QED
    BY <2>1, <2>2 DEF Seen
<1>9. QED
  BY <1>5, <1>6, <1>8 DEF UploadsInv

LEMMA UploadsStep == UploadsInv /\ [UploadsNext]_uploads => UploadsInv'
<1> SUFFICES ASSUME UploadsInv, [UploadsNext]_uploads PROVE UploadsInv'
  OBVIOUS
<1>0. UploadsTypes /\ Usable /\ Met /\ Seen
  BY DEF UploadsInv
<1>1. ASSUME NEW u \in Uploads, Delete(u) PROVE UploadsInv'
  <2> DEFINE r == [up[u] EXCEPT !.at = "inserting", !.gone = up[u].sees \cap TableRows]
  <2>1. up[u] \in Upload /\ up[u].at = "deleting" /\ u \in Open
    BY <1>0, <1>1 DEF UploadsTypes, Delete, Open
  <2>2. up' = [up EXCEPT ![u] = r] /\ UNCHANGED <<table, overlap>>
    BY <1>0, <1>1 DEF Delete, UploadsTypes
  <2>3. r \in Upload /\ r.at = "inserting" /\ r.docs = up[u].docs /\ r.keys = up[u].keys /\ r.gone = up[u].sees \cap TableRows
    BY <2>1 DEF Upload
  <2>4. \A k \in Keys : Known(k, r.gone, u)
    BY <1>0, <2>1, <2>3, RowsOfTable DEF Seen, Known
  <2>5. QED
    BY <1>0, <2>1, <2>2, <2>3, <2>4, QuietStep DEF Usable
<1>2. ASSUME NEW u \in Uploads, Upsert(u) PROVE UploadsInv'
  <2>1. up[u] \in Upload /\ up[u].at = "inserting" /\ u \in Open /\ UNCHANGED <<table, overlap>>
    BY <1>0, <1>2 DEF UploadsTypes, Upsert, Open
  <2>2. PICK k \in up[u].keys \ up[u].put : up' = [up EXCEPT ![u].put = up[u].put \cup {k}]
    BY <1>2 DEF Upsert
  <2> DEFINE r == [up[u] EXCEPT !.put = up[u].put \cup {k}]
  <2>3. r \in Upload /\ r.at = "inserting" /\ r.docs = up[u].docs /\ r.keys = up[u].keys /\ r.gone = up[u].gone
    BY <2>1, <2>2 DEF Upload
  <2>4. up' = [up EXCEPT ![u] = r]
    BY <1>0, <2>2 DEF UploadsTypes
  <2>5. QED
    BY <1>0, <2>1, <2>3, <2>4, QuietStep DEF Usable, Seen
<1>3. ASSUME NEW u \in Uploads, Abort(u) PROVE UploadsInv'
  <2> DEFINE r == [New EXCEPT !.at = "failed"]
  <2>1. r \in Upload /\ r.at = "failed"
    BY DEF New, Upload
  <2>2. QED
    BY <1>3, <2>1, QuietStep DEF Abort
<1>4. CASE UNCHANGED uploads
  BY <1>0, <1>4 DEF uploads, UploadsInv, UploadsTypes, Usable, Met, Seen, Known, At, Open
<1>5. QED
  BY <1>1, <1>2, <1>3, <1>4, BeginKeeps, CommitKeeps DEF UploadsNext

(* StoredReplaces of Uploads, for any keys and any uploads that overlap in   *)
(* any way: an upload that is stored reads as it was sent, and what else the *)
(* table then holds came from an upload that ran beside it.                 *)
THEOREM StoredAlwaysReplaces == UploadsSpec => StoredReplaces
<1>1. ASSUME UploadsInv, [UploadsNext]_uploads, NEW u \in Uploads, up[u].at # "stored", up'[u].at = "stored"
      PROVE  /\ \A k \in up[u].keys : table'[k] # Unwritten /\ table'[k].by = u
             /\ \A k \in Keys \ up[u].keys : table'[k] # Unwritten => table'[k].by \in overlap[u]
             /\ up[u].docs => \E k \in Keys : table'[k] # Unwritten
  <2>0. UploadsTypes /\ Usable /\ Met /\ Seen
    BY <1>1 DEF UploadsInv
  <2>1. Commit(u)
    <3>1. ASSUME NEW v \in Uploads, Begin(v) \/ Delete(v) \/ Upsert(v) \/ Abort(v) PROVE up'[u].at # "stored"
      <4>1. CASE v = u
        <5>1. up[u] \in Upload
          BY <2>0 DEF UploadsTypes
        <5>2. Delete(u) \/ Upsert(u) => up'[u].at = "inserting"
          BY <2>0, <5>1 DEF Delete, Upsert, UploadsTypes, Upload
        <5>3. Begin(u) => up'[u].at \in {"refused", "deleting"}
          BY <2>0 DEF Begin, New, UploadsTypes
        <5>4. Abort(u) => up'[u].at = "failed"
          BY <2>0 DEF Abort, New, UploadsTypes
        <5>5. QED
          BY <3>1, <4>1, <5>2, <5>3, <5>4
      <4>2. CASE v # u
        BY <1>1, <2>0, <3>1, <4>2 DEF Begin, Delete, Upsert, Abort, UploadsTypes
      <4>3. QED
        BY <4>1, <4>2
    <3>2. ASSUME NEW v \in Uploads \ {u}, Commit(v) PROVE up'[u].at # "stored"
      BY <1>1, <2>0, <3>2 DEF Commit, UploadsTypes
    <3>3. UNCHANGED uploads => up'[u].at # "stored"
      BY <1>1 DEF uploads
    <3>4. QED
      BY <1>1, <3>1, <3>2, <3>3 DEF UploadsNext
  <2>2. /\ up[u] \in Upload /\ up[u].put = up[u].keys /\ up[u].keys \subseteq Keys /\ up[u].at = "inserting" /\ u \in Open
        /\ table' = [k \in Keys |-> IF k \in up[u].put THEN Written(u, k) ELSE Left(u, k)]
    BY <2>0, <2>1 DEF Commit, UploadsTypes, Upload, Open
  <2>3. \A k \in up[u].keys : table'[k] # Unwritten /\ table'[k].by = u
    <3> SUFFICES ASSUME NEW k \in up[u].keys PROVE table'[k] # Unwritten /\ table'[k].by = u
      OBVIOUS
    <3>1. table[k] # Unwritten => table[k].made \in Uploads
      BY <2>0, <2>2, RowsOfTable DEF Row
    <3>2. Written(u, k) \in Row /\ Written(u, k).by = u
      BY <3>1 DEF Written, Row
    <3>3. table'[k] = Written(u, k)
      BY <2>2
    <3>4. QED
      BY <3>2, <3>3, UploadsAssumption
  <2>4. \A k \in Keys \ up[u].keys : table'[k] # Unwritten => table'[k].by \in overlap[u]
    BY <2>0, <2>2 DEF Seen, Known, Left
  <2>5. up[u].docs => \E k \in Keys : table'[k] # Unwritten
    BY <2>0, <2>2, <2>3 DEF Usable
  <2>6. QED
    BY <2>3, <2>4, <2>5
<1>2. UploadsInv /\ [UploadsNext]_uploads =>
        [\A u \in Uploads : up[u].at # "stored" /\ up'[u].at = "stored" =>
           /\ \A k \in up[u].keys : table'[k] # Unwritten /\ table'[k].by = u
           /\ \A k \in Keys \ up[u].keys : table'[k] # Unwritten => table'[k].by \in overlap[u]
           /\ up[u].docs => \E k \in Keys : table'[k] # Unwritten]_uploads
  BY <1>1
<1>3. QED
  BY <1>2, InitialUploads, UploadsStep, PTL DEF UploadsSpec, StoredReplaces
================================================================================
