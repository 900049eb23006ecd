-------------------------------- MODULE Uploads --------------------------------
(***************************************************************************)
(* A table that a user's uploads replace as a whole: the mappings of Code  *)
(* Connect that CI sends (code-connect-ingest.ts, code-connect-db.ts), and *)
(* the snapshot of one library's variables that the plugin sends           *)
(* (variable-snapshot-ingest.ts, variable-snapshot-db.ts).                 *)
(*                                                                         *)
(* One transaction deletes the rows and inserts the new ones, a statement  *)
(* at a time, at READ COMMITTED: the DELETE sees what is committed when it *)
(* starts, waits for the rows another transaction holds, and takes them if *)
(* they are still there.  A row is known by the upload that inserted it;   *)
(* an upsert keeps the row and changes its content.                        *)
(***************************************************************************)
EXTENDS FiniteSets

CONSTANTS Keys,     \* node and label of a mapping, or key of a variable
          Uploads,  \* the requests
          Unwritten \* no row

(* A key's row: the upload that inserted it and the upload it was last     *)
(* written by.                                                             *)
Row == [made : Uploads, by : Uploads]
ASSUME UploadsAssumption == Unwritten \notin Row

VARIABLES
  table,   \* committed rows: inserted by, content of
  up,      \* what each upload is doing
  overlap  \* history: the uploads that ran at some time while this one did

uploads == <<table, up, overlap>>

(* An upload: the items the body lists, none of which may be usable; the   *)
(* keys its usable ones yield; the rows its DELETE started from, those it  *)
(* holds deleted, the keys it has written.                                 *)
New  == [at |-> "new", docs |-> FALSE, keys |-> {}, sees |-> {}, gone |-> {}, put |-> {}]
Open == {u \in Uploads : up[u].at \in {"deleting", "inserting"}}
Others(u) == Open \ {u}
At(k) == <<k, table[k].made>>   \* the identity of the row at k
TableRows == {At(k) : k \in {j \in Keys : table[j] # Unwritten}}
(* A row another transaction has deleted or written, and not committed.    *)
Withheld(x, u) == \E v \in Others(u) : x \in up[v].gone \/ (x \in TableRows /\ x[1] \in up[v].put)

UploadsInit ==
  /\ table = [k \in Keys |-> Unwritten] /\ up = [u \in Uploads |-> New]
  /\ overlap = [u \in Uploads |-> {}]

(* The request arrives: nothing usable in a body that lists something is a *)
(* 422, an empty list clears the table.  Then BEGIN and the DELETE starts. *)
Refused(docs, keys) == docs /\ keys = {}
Begin(u) ==
  /\ up[u].at = "new"
  /\ \E docs \in BOOLEAN, keys \in SUBSET Keys :
       /\ keys # {} => docs
       /\ up' = [up EXCEPT ![u] = IF Refused(docs, keys) THEN [New EXCEPT !.at = "refused"]
                                  ELSE [New EXCEPT !.at = "deleting", !.docs = docs, !.keys = keys,
                                                   !.sees = TableRows]]
       /\ overlap' = IF Refused(docs, keys) THEN overlap
                     ELSE [v \in Uploads |-> IF v = u THEN Open
                                             ELSE IF v \in Open THEN overlap[v] \cup {u} ELSE overlap[v]]
  /\ UNCHANGED table

DeleteOwnKeys(u) ==   \* mutant: only the keys about to be written
  /\ up[u].at = "deleting"
  /\ \A x \in up[u].sees \cap TableRows : ~Withheld(x, u)
  /\ up' = [up EXCEPT ![u].at = "inserting", ![u].gone = {x \in up[u].sees \cap TableRows : x[1] \in up[u].keys}]
  /\ UNCHANGED <<table, overlap>>
Delete(u) ==
  /\ up[u].at = "deleting"
  /\ \A x \in up[u].sees \cap TableRows : ~Withheld(x, u)
  /\ up' = [up EXCEPT ![u].at = "inserting", ![u].gone = up[u].sees \cap TableRows]
  /\ UNCHANGED <<table, overlap>>

(* INSERT ... ON CONFLICT DO UPDATE of the next key: it waits for another  *)
(* transaction that has written or deleted the row of that key.            *)
Upsert(u) ==
  /\ up[u].at = "inserting"
  /\ \E k \in up[u].keys \ up[u].put :
       /\ \A v \in Others(u) : k \notin up[v].put /\ \A x \in up[v].gone : x[1] # k
       /\ up' = [up EXCEPT ![u].put = up[u].put \cup {k}]
  /\ UNCHANGED <<table, overlap>>

(* COMMIT: a key whose row was not deleted before keeps the row.           *)
Written(u, k) ==
  [made |-> IF table[k] # Unwritten /\ At(k) \notin up[u].gone THEN table[k].made ELSE u, by |-> u]
Left(u, k) == IF table[k] # Unwritten /\ At(k) \in up[u].gone THEN Unwritten ELSE table[k]
Commit(u) ==
  /\ up[u].at = "inserting" /\ up[u].put = up[u].keys
  /\ table' = [k \in Keys |-> IF k \in up[u].put THEN Written(u, k) ELSE Left(u, k)]
  /\ up' = [up EXCEPT ![u].at = "stored", ![u].sees = {}, ![u].gone = {}]
  /\ UNCHANGED overlap

(* A statement fails, or two uploads wait for each other and Postgres ends *)
(* one of them: ROLLBACK.                                                  *)
Abort(u) ==
  /\ u \in Open /\ up' = [up EXCEPT ![u] = [New EXCEPT !.at = "failed"]]
  /\ UNCHANGED <<table, overlap>>

UploadsNext == \E u \in Uploads : Begin(u) \/ Delete(u) \/ Upsert(u) \/ Commit(u) \/ Abort(u)
UploadsSpec == UploadsInit /\ [][UploadsNext]_uploads

-----------------------------------------------------------------------------
(* code-connect-ingest.ts, "full per-user replace", as far as it holds     *)
(* while uploads overlap: when an upload is stored, each of its keys reads *)
(* what it sent, and whatever else the table holds was sent by an upload   *)
(* that ran at the same time; a body without a usable item wiped nothing.  *)
StoredReplaces ==
  [][\A u \in Uploads : up[u].at # "stored" /\ up'[u].at = "stored" =>
       /\ \A k \in up[u].keys : table'[k] # Unwritten /\ table'[k].by = u
       /\ \A k \in Keys \ up[u].keys : table'[k] # Unwritten => table'[k].by \in overlap[u]
       /\ up[u].docs => \E k \in Keys : table'[k] # Unwritten]_uploads
=============================================================================
