-------------------------------- MODULE Accounts --------------------------------
(***************************************************************************)
(* The Figma tokens of one user of the multi-tenant server: the portal's   *)
(* routes of accounts-api.ts over the table figma_tokens (db.ts), and the  *)
(* nightly validation.  Every statement names the user, so one is enough.  *)
(*                                                                         *)
(* A statement of Postgres is one step, at READ COMMITTED: it sees what is *)
(* committed when it starts, waits for the rows another transaction holds, *)
(* and goes on with what that transaction left.  The steps of a request    *)
(* are the statements and the calls of Figma it awaits.                    *)
(***************************************************************************)
EXTENDS Integers, FiniteSets

CONSTANTS Labels,      \* the names a user gives to tokens
          Pats,        \* personal access tokens of Figma
          Clients,     \* portal requests that may run at once
          MaxRequests, \* bound: requests of the user, and rows the nightly run fails on
          Nil         \* no row at hand

ASSUME AccountsAssumption == MaxRequests \in Nat /\ Nil \notin Pats

VARIABLES
  tokens,    \* the rows of figma_tokens
  lastId,    \* the sequence of figma_tokens.id
  req,       \* what each portal request holds
  queue,     \* the rows the nightly run has yet to validate
  night,     \* the row the nightly run is at, with Figma's verdict
  revoked,   \* Figma: tokens it no longer accepts, for good
  turnedAway,\* history: tokens Figma answered with an error status
  made       \* of these, so far

accounts == <<tokens, lastId, req, queue, night, revoked, turnedAway, made>>

Status == {"active", "invalid"}
Token  == [id : Nat, label : Labels, pat : Pats, status : Status, default : BOOLEAN]
Job    == [id : Nat, pat : Pats]
Ids    == {t.id : t \in tokens}

(* A request: the step it awaits; the label and token it is about; whether *)
(* it saw an empty table (isDefault); the rows its UPDATE found, and holds *)
(* locked; and the verdict it brings from Figma.                           *)
Idle == [at |-> "idle", label |-> Nil, job |-> Nil, first |-> FALSE,
         sees |-> {}, locked |-> {}, verdict |-> Nil]
Steps   == {"checking", "counting", "inserting", "clearing", "marking", "probing", "writing"}
Request == [at : {"idle"} \cup Steps, label : Labels \cup {Nil}, job : Job \cup {Nil}, first : BOOLEAN,
            sees : SUBSET Nat, locked : SUBSET Nat, verdict : Status \cup {Nil}]
Free(r)   == req[r].at = "idle" /\ made < MaxRequests
Awaits(r, step) == req[r].at = step
End(r)    == req' = [req EXCEPT ![r] = Idle]
Held(r)   == UNION {req[s].locked : s \in Clients \ {r}}   \* rows other transactions lock
Locked    == UNION {req[s].locked : s \in Clients}

AccountsInit ==
  /\ tokens = {} /\ lastId = 0 /\ queue = {} /\ night = Nil
  /\ revoked = {} /\ turnedAway = {} /\ made = 0
  /\ req = [r \in Clients |-> Idle]

-----------------------------------------------------------------------------
(* Figma: GET /v1/me with the user's token.  An answer that is no 2xx is a *)
(* refusal whatever its status, a revoked token gets no other; a call that *)
(* fails altogether throws.                                                *)
Accepts(p)  == p \notin revoked
Answers(p, verdict) ==
  /\ verdict = "active" => Accepts(p)
  /\ turnedAway' = IF verdict = "active" THEN turnedAway ELSE turnedAway \cup {p}

Revoke ==
  /\ \E p \in Pats \ revoked : revoked' = revoked \cup {p}
  /\ UNCHANGED <<tokens, lastId, req, queue, night, turnedAway, made>>

-----------------------------------------------------------------------------
(* POST /accounts: validate the token, count the user's rows, insert.      *)
Add(r) ==
  /\ Free(r) /\ made' = made + 1
  /\ \E l \in Labels, p \in Pats :
       req' = [req EXCEPT ![r] = [Idle EXCEPT !.at = "checking", !.label = l, !.job = [id |-> 0, pat |-> p]]]
  /\ UNCHANGED <<tokens, lastId, queue, night, revoked, turnedAway>>

Check(r) ==
  /\ Awaits(r, "checking")
  /\ \E verdict \in Status :
       /\ Answers(req[r].job.pat, verdict)
       /\ IF verdict = "active" THEN req' = [req EXCEPT ![r].at = "counting"] ELSE End(r)
  /\ UNCHANGED <<tokens, lastId, queue, night, revoked, made>>

Count(r) ==
  /\ Awaits(r, "counting")
  /\ req' = [req EXCEPT ![r].at = "inserting", ![r].first = tokens = {}]
  /\ UNCHANGED <<tokens, lastId, queue, night, revoked, turnedAway, made>>

(* The two unique indexes, on the label and on the default, refuse a row   *)
(* with 23505; the second waits for a transaction that holds the default.  *)
(* The sequence moves on either way.                                       *)
Taken(l)      == \E t \in tokens : t.label = l
HasDefault    == \E t \in tokens : t.default
ClashesByLabel(l, d) == Taken(l)   \* mutant: no index over the default
Clashes(l, d) == Taken(l) \/ (d /\ HasDefault)
NewRow(r) == [id |-> lastId + 1, label |-> req[r].label, pat |-> req[r].job.pat,
              status |-> "active", default |-> req[r].first]
Insert(r) ==
  /\ Awaits(r, "inserting")
  /\ req[r].first => \A t \in tokens : t.default => t.id \notin Locked
  /\ lastId' = lastId + 1 /\ End(r)
  /\ tokens' = IF Clashes(req[r].label, req[r].first) THEN tokens ELSE tokens \cup {NewRow(r)}
  /\ UNCHANGED <<queue, night, revoked, turnedAway, made>>

(* DELETE /accounts/:label.  No other token becomes the default.           *)
Remove ==
  /\ made < MaxRequests /\ made' = made + 1
  /\ \E t \in tokens : t.id \notin Locked /\ tokens' = tokens \ {t}
  /\ UNCHANGED <<lastId, req, queue, night, revoked, turnedAway>>

-----------------------------------------------------------------------------
(* PUT /accounts/:label/default: one transaction.  The first UPDATE clears *)
(* every row it saw when it started, once it holds them; the second marks  *)
(* the label's row.  Nobody sees the cleared rows before the COMMIT, which *)
(* is taken with the second UPDATE: what could come between waits for it.  *)
SetDefault(r) ==
  /\ Free(r) /\ made' = made + 1
  /\ \E l \in Labels :
       req' = [req EXCEPT ![r] = [Idle EXCEPT !.at = "clearing", !.label = l, !.sees = Ids]]
  /\ UNCHANGED <<tokens, lastId, queue, night, revoked, turnedAway>>

Clear(r) ==
  /\ Awaits(r, "clearing")
  /\ req[r].sees \cap Ids \cap Held(r) = {}
  /\ req' = [req EXCEPT ![r].at = "marking", ![r].locked = req[r].sees \cap Ids]
  /\ UNCHANGED <<tokens, lastId, queue, night, revoked, turnedAway, made>>

Default(t, l, cleared) ==
  [t EXCEPT !.default = t.label = l \/ (t.default /\ t.id \notin cleared)]
MarkedOrNot(r) ==   \* mutant: COMMIT, not ROLLBACK, when no row has the label
  /\ Awaits(r, "marking")
  /\ \A d \in tokens : d.label = req[r].label => d.id \notin Held(r)
  /\ tokens' = {Default(t, req[r].label, req[r].locked) : t \in tokens} /\ End(r)
  /\ UNCHANGED <<lastId, queue, night, revoked, turnedAway, made>>
Mark(r) ==
  /\ Awaits(r, "marking")
  /\ \E t \in tokens :
       /\ t.label = req[r].label /\ t.id \notin Held(r)
       /\ \A d \in tokens \ {t} : d.default => d.id \in req[r].locked
  /\ tokens' = {Default(t, req[r].label, req[r].locked) : t \in tokens} /\ End(r)
  /\ UNCHANGED <<lastId, queue, night, revoked, turnedAway, made>>

(* No such label: ROLLBACK and 404.  A statement that fails, on the index  *)
(* over the default or on the connection: ROLLBACK and throw.              *)
RollBack(r) ==
  /\ req[r].at \in {"clearing", "marking"} /\ End(r)
  /\ UNCHANGED <<tokens, lastId, queue, night, revoked, turnedAway, made>>

-----------------------------------------------------------------------------
(* POST /accounts/:label/validate: read the row, ask Figma, write the      *)
(* verdict to the row of that id.                                          *)
Validate(r) ==
  /\ Free(r) /\ made' = made + 1
  /\ \E t \in tokens :
       req' = [req EXCEPT ![r] = [Idle EXCEPT !.at = "probing", !.label = t.label,
                                              !.job = [id |-> t.id, pat |-> t.pat]]]
  /\ UNCHANGED <<tokens, lastId, queue, night, revoked, turnedAway>>

Probe(r) ==
  /\ Awaits(r, "probing")
  /\ \E verdict \in Status :
       /\ Answers(req[r].job.pat, verdict)
       /\ req' = [req EXCEPT ![r].at = "writing", ![r].verdict = verdict]
  /\ UNCHANGED <<tokens, lastId, queue, night, revoked, made>>

UpdatedForUser(id, status) ==   \* mutant: WHERE keycloak_user_id alone
  /\ id \notin Locked /\ tokens' = {[t EXCEPT !.status = status] : t \in tokens}
updateValidation(id, status) ==
  /\ id \notin Locked
  /\ tokens' = {IF t.id = id THEN [t EXCEPT !.status = status] ELSE t : t \in tokens}
WriteVerdict(r) ==
  /\ Awaits(r, "writing") /\ updateValidation(req[r].job.id, req[r].verdict) /\ End(r)
  /\ UNCHANGED <<lastId, queue, night, revoked, turnedAway, made>>

(* The call of Figma, or a statement, throws: nothing was written.         *)
Fail(r) ==
  /\ req[r].at \in {"checking", "counting", "inserting", "probing", "writing"} /\ End(r)
  /\ UNCHANGED <<tokens, lastId, queue, night, revoked, turnedAway, made>>

-----------------------------------------------------------------------------
(* The nightly run: list the rows, then one after the other ask and write. *)
(* Its timer would start the next one a day later.                         *)
Nightly ==
  /\ queue = {} /\ night = Nil
  /\ queue' = {[id |-> t.id, pat |-> t.pat] : t \in tokens}
  /\ UNCHANGED <<tokens, lastId, req, night, revoked, turnedAway, made>>

NightGivesUp ==   \* mutant: a refused token ends the run
  /\ night = Nil
  /\ \E j \in queue, verdict \in Status :
       /\ Answers(j.pat, verdict)
       /\ IF verdict = "active" THEN night' = [job |-> j, verdict |-> verdict] /\ queue' = queue \ {j}
          ELSE night' = Nil /\ queue' = {}
  /\ UNCHANGED <<tokens, lastId, req, revoked, made>>
NightAsk ==
  /\ night = Nil
  /\ \E j \in queue, verdict \in Status :
       /\ Answers(j.pat, verdict)
       /\ night' = [job |-> j, verdict |-> verdict] /\ queue' = queue \ {j}
  /\ UNCHANGED <<tokens, lastId, req, revoked, made>>

NightWrite ==
  /\ night # Nil /\ updateValidation(night.job.id, night.verdict) /\ night' = Nil
  /\ UNCHANGED <<lastId, req, queue, revoked, turnedAway, made>>

(* A row that fails is logged and skipped: nightly.row_failed.             *)
NightSkip ==
  /\ made < MaxRequests /\ made' = made + 1
  /\ \/ night = Nil /\ (\E j \in queue : queue' = queue \ {j}) /\ night' = Nil
     \/ night # Nil /\ night' = Nil /\ queue' = queue
  /\ UNCHANGED <<tokens, lastId, req, revoked, turnedAway>>

RequestStep(r) ==
  Check(r) \/ Count(r) \/ Insert(r) \/ Clear(r) \/ Mark(r) \/ RollBack(r)
  \/ Probe(r) \/ WriteVerdict(r) \/ Fail(r)
NightStep == Nightly \/ NightAsk \/ NightWrite
AccountsNext ==
  \/ \E r \in Clients : Add(r) \/ SetDefault(r) \/ Validate(r) \/ RequestStep(r)
  \/ Remove \/ Revoke \/ NightStep \/ NightSkip

AccountsSpec == AccountsInit /\ [][AccountsNext]_accounts
(* A request's steps are taken, the timer of the nightly run fires and the *)
(* run goes on.                                                            *)
AccountsFairSpec ==
  /\ AccountsSpec /\ WF_accounts(NightStep)
  /\ \A r \in Clients : WF_accounts(RequestStep(r))

-----------------------------------------------------------------------------
(* The variables have the types of db.ts.                                  *)
AccountsTypeOK ==
  /\ tokens \subseteq Token /\ lastId \in Nat /\ made \in 0..MaxRequests
  /\ req \in [Clients -> Request]
  /\ queue \subseteq Job
  /\ night \in [job : Job, verdict : Status] \cup {Nil}
  /\ revoked \subseteq Pats /\ turnedAway \subseteq Pats

(* db.ts: a user has at most one default token, whatever additions,        *)
(* removals and changes of the default run at once.                        *)
OneDefault == \A t, u \in tokens : t.default /\ u.default => t = u

(* db.ts, setDefaultToken: a user who has a default token loses it only by *)
(* removing that token; a change of the default that fails keeps the old.  *)
DefaultKept ==
  [][HasDefault /\ ~HasDefault' => \E d \in tokens : d.default /\ d.id \notin Ids']_accounts

(* db.ts, updateValidation: a token reads invalid only if Figma answered   *)
(* that very token with an error, though its row may be removed and its    *)
(* label given to another token while the answer is awaited.               *)
VerdictsAreTheirs == \A t \in tokens : t.status = "invalid" => t.pat \in turnedAway

(* validate-pat.ts: only a token Figma rejects is marked invalid.  It does *)
(* not hold: an answer of 429 or 503 marks one, too.                       *)
RejectionNeedsRevocation == \A t \in tokens : t.status = "invalid" => t.pat \in revoked

(* nightly-validation.ts: once the user's requests and the failures are    *)
(* over, every token Figma has revoked ends up invalid and stays so,       *)
(* though an answer given before the revocation may be written after it.   *)
RevokedEndInvalid ==
  <>[](\A t \in tokens : t.pat \in revoked => t.status = "invalid")
=============================================================================
