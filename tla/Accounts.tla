------------------------------ MODULE Accounts ------------------------------
(***************************************************************************)
(* The vocabulary of internal/store: handles, token records, the map that  *)
(* cred.json holds, and what each of the four operations of store.Store    *)
(* asks, changes and returns.  A TokenRecord is an element of Records; its *)
(* fields matter only to the commands, never to the store.                 *)
(***************************************************************************)
CONSTANTS Handles,     \* "provider:label" strings
          Records,     \* token records
          NoRecord     \* no entry under a handle

ASSUME NoRecordAssumption == NoRecord \notin Records

Accts == [Handles -> Records \union {NoRecord}]

NoAccounts == [h \in Handles |-> NoRecord]

\* A call of the Store interface.  Get, List and Delete carry no record, and
\* List no handle (any handle stands for "none").
Requests ==
    [kind : {"put"}, handle : Handles, rec : Records]
      \union [kind : {"get", "list", "delete"}, handle : Handles, rec : {NoRecord}]

Writes(req) == req.kind \in {"put", "delete"}

\* ErrNotFound: Get and Delete of a handle that has no record.
Missing(req, accts) ==
    req.kind \in {"get", "delete"} /\ accts[req.handle] = NoRecord

\* The map after the operation.
Edit(req, accts) ==
    IF Writes(req) THEN [accts EXCEPT ![req.handle] = req.rec] ELSE accts

\* The records the caller gets back.
View(req, accts) ==
    [h \in Handles |->
        IF req.kind = "list" \/ (req.kind = "get" /\ h = req.handle)
        THEN accts[h] ELSE NoRecord]

\* Errors: ErrNotFound, ErrCorruptRecord, and every other one (keychain
\* unavailable or denied, an I/O error).
Errors == {"notfound", "corrupt", "failed"}

Replies == [status : {"none", "ok"} \union Errors, seen : Accts]

NoReply == [status |-> "none", seen |-> NoAccounts]
Refusal(err) == [status |-> err, seen |-> NoAccounts]
Success(req, accts) == [status |-> "ok", seen |-> View(req, accts)]
=============================================================================
