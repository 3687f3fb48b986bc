------------------------------ MODULE BlobClient ------------------------------
(***************************************************************************)
(* The requests of a node to Azure (src/azure.rs, src/auth/mod.rs): the    *)
(* retries of BlobClient::send and get_blob_range, and the token that all  *)
(* clients of the node share, a BearerSource with its cache and its        *)
(* refresh lock.  Every worker of BlobFetcherPool has clients of its own   *)
(* and the same BearerSource, so a request is a task on any of them.       *)
(*                                                                         *)
(* A token is the number of the key period it was issued in; Azure accepts *)
(* those of the current one.  Delays are left out.                         *)
(*                                                                         *)
(* Names shared with PeerIndex are prefixed: SourcesProofs extends both.   *)
(***************************************************************************)
EXTENDS Integers, FiniteSets

CONSTANTS
  Requests,
  NoRequest,
  Ranges,          \* the requests for a chunk; others are HEADs and pages of listings
  MaxAttempts,     \* max_retries + 1
  Mishaps,         \* what goes wrong: "transient", "fatal", "body", "due", "token_error"
  MaxRotations     \* bound: rotations of the key

ASSUME AttemptsAssumption == MaxAttempts \in Nat \ {0} /\ MaxRotations \in Nat
ASSUME RequestsAssumption == NoRequest \notin Requests

VARIABLES
  era,        \* the key period
  cached,     \* BearerSource::cached : the token, or None
  due,        \* the cached token is within REFRESH_SKEW_SECS of its end
  lock,       \* who has refresh_lock
  req,        \* the requests
  since       \* history: for each request, the period in which it last invalidated,
              \* and whether a refresh was under way then

clientVars == <<era, cached, due, lock, req, since>>

None == -1

Start ==
  [pc |-> "token", outer |-> 1, attempt |-> 1, sends |-> 0, token |-> None,
   invalidated |-> FALSE, got |-> "nothing"]
Idle == [Start EXCEPT !.pc = "idle"]

ClientInit ==
  /\ era = 0 /\ cached = 0 /\ due = FALSE /\ lock = NoRequest
  /\ req = [r \in Requests |-> Idle]
  /\ since = [r \in Requests |-> [era |-> 0, overlap |-> FALSE]]

At(r, label) == req[r].pc = label
Goto(r, label) == req' = [req EXCEPT ![r].pc = label]

\* The request ends with a result, after n sends more.
Ends(r, result, n) ==
  req' = [req EXCEPT ![r] = [Idle EXCEPT !.pc = "done", !.sends = req[r].sends + n,
                                         !.got = result]]

\* Another turn of the loop in send, with a token of its own.
Retry(r, invalidated) ==
  req' = [req EXCEPT ![r].pc = "token", ![r].attempt = @ + 1, ![r].sends = @ + 1,
                     ![r].token = None, ![r].invalidated = invalidated]

Begin(r) ==
  /\ At(r, "idle") /\ req' = [req EXCEPT ![r] = Start]
  /\ UNCHANGED <<era, cached, due, lock, since>>

(***************************************************************************)
(* BearerSource::token                                                     *)
(***************************************************************************)

HasToken(r) == req' = [req EXCEPT ![r].pc = "send", ![r].token = cached]

FastPath(r) ==
  /\ At(r, "token")
  /\ IF cached # None /\ ~due THEN HasToken(r) ELSE Goto(r, "lock")
  /\ UNCHANGED <<era, cached, due, lock, since>>

Lock(r) ==
  /\ At(r, "lock") /\ lock = NoRequest /\ lock' = r
  /\ Goto(r, "recheck")
  /\ UNCHANGED <<era, cached, due, since>>

\* The token of another request's refresh will do.  The time was read before the wait
\* for the lock, so a token that has come due since may do as well.
Recheck(r) ==
  /\ At(r, "recheck")
  /\ \/ cached # None /\ HasToken(r) /\ lock' = NoRequest
     \/ (cached = None \/ due) /\ Goto(r, "fetch") /\ UNCHANGED lock
  /\ UNCHANGED <<era, cached, due, since>>

\* The identity service issues a token, or it fails and so does the request.
Fetch(r) ==
  /\ At(r, "fetch")
  /\ \/ req' = [req EXCEPT ![r].pc = "store", ![r].token = era] /\ UNCHANGED lock
     \/ "token_error" \in Mishaps /\ Ends(r, "failed", 0) /\ lock' = NoRequest
  /\ UNCHANGED <<era, cached, due, since>>

Store(r) ==
  /\ At(r, "store")
  /\ cached' = req[r].token /\ due' = FALSE /\ lock' = NoRequest
  /\ Goto(r, "send")
  /\ UNCHANGED <<era, since>>

(***************************************************************************)
(* BlobClient::send                                                        *)
(***************************************************************************)

\* Mutant: the cached token stays.
Rejected_Kept(r) ==
  /\ At(r, "send") /\ req[r].token # era
  /\ IF req[r].invalidated THEN Ends(r, "rejected", 1) ELSE Retry(r, TRUE)
  /\ since' = [since EXCEPT ![r] = [era |-> era, overlap |-> FALSE]]
  /\ UNCHANGED <<era, cached, due, lock>>

\* 401: the first time, the cached token goes, whichever it is, and send turns once
\* more, were it the last attempt.
Rejected(r) ==
  /\ At(r, "send") /\ req[r].token # era
  /\ IF req[r].invalidated
       THEN Ends(r, "rejected", 1) /\ UNCHANGED <<cached, due, since>>
       ELSE /\ cached' = None /\ due' = FALSE
            /\ Retry(r, TRUE)
            /\ since' = [since EXCEPT ![r] =
                           [era |-> era, overlap |-> \E o \in Requests : At(o, "store")]]
  /\ UNCHANGED <<era, lock>>

\* Mutant: the attempt is not counted.
Transient_Uncounted(r) ==
  /\ "transient" \in Mishaps /\ At(r, "send")
  /\ Goto(r, "token")
  /\ UNCHANGED <<era, cached, due, lock, since>>

\* A status worth a retry, or an error of the connection.
Transient(r) ==
  /\ "transient" \in Mishaps /\ At(r, "send")
  /\ IF req[r].attempt < MaxAttempts THEN Retry(r, req[r].invalidated) ELSE Ends(r, "failed", 1)
  /\ UNCHANGED <<era, cached, due, lock, since>>

\* Any other status or error.
Fatal(r) ==
  /\ "fatal" \in Mishaps /\ At(r, "send")
  /\ Ends(r, "failed", 1)
  /\ UNCHANGED <<era, cached, due, lock, since>>

Accepted(r) ==
  /\ At(r, "send") /\ req[r].token = era
  /\ req' = [req EXCEPT ![r].pc = "body", ![r].sends = @ + 1, ![r].token = None]
  /\ UNCHANGED <<era, cached, due, lock, since>>

(***************************************************************************)
(* The body                                                                *)
(***************************************************************************)

BodyComes(r) ==
  /\ At(r, "body") /\ Ends(r, "ok", 0)
  /\ UNCHANGED <<era, cached, due, lock, since>>

\* Mutant: one round too many.
BodyBreaks_Once(r) ==
  /\ "body" \in Mishaps /\ At(r, "body")
  /\ \/ /\ r \in Ranges /\ req[r].outer <= MaxAttempts
        /\ req' = [req EXCEPT ![r].pc = "token", ![r].outer = @ + 1, ![r].attempt = 1,
                               ![r].invalidated = FALSE]
     \/ Ends(r, "failed", 0)
  /\ UNCHANGED <<era, cached, due, lock, since>>

\* get_blob_range sends anew, with a loop of its own, unless the error is of a kind it
\* does not retry; the other calls give up.
BodyBreaks(r) ==
  /\ "body" \in Mishaps /\ At(r, "body")
  /\ \/ /\ r \in Ranges /\ req[r].outer < MaxAttempts
        /\ req' = [req EXCEPT ![r].pc = "token", ![r].outer = @ + 1, ![r].attempt = 1,
                               ![r].invalidated = FALSE]
     \/ Ends(r, "failed", 0)
  /\ UNCHANGED <<era, cached, due, lock, since>>

(***************************************************************************)
(* Azure, and time                                                         *)
(***************************************************************************)

Rotate ==
  /\ era < MaxRotations /\ era' = era + 1
  /\ UNCHANGED <<cached, due, lock, req, since>>

Due ==
  /\ "due" \in Mishaps /\ cached # None /\ ~due /\ due' = TRUE
  /\ UNCHANGED <<era, cached, lock, req, since>>

(***************************************************************************)
(* The specification                                                       *)
(***************************************************************************)

Step(r) ==
  \/ FastPath(r) \/ Lock(r) \/ Recheck(r) \/ Fetch(r) \/ Store(r)
  \/ Rejected(r) \/ Transient(r) \/ Fatal(r) \/ Accepted(r) \/ BodyComes(r) \/ BodyBreaks(r)

ClientFinished == (\A r \in Requests : At(r, "done")) /\ UNCHANGED clientVars

ClientNext ==
  \/ \E r \in Requests : Begin(r) \/ Step(r)
  \/ Rotate \/ Due \/ ClientFinished

ClientSpec == ClientInit /\ [][ClientNext]_clientVars

\* Azure and the identity service answer, or their connections fail.  A request that
\* finds the lock free time and again gets it (tokio's Mutex is first come, first served).
ClientFairSpec ==
  ClientSpec /\ \A r \in Requests : WF_clientVars(Step(r)) /\ SF_clientVars(Lock(r))

(***************************************************************************)
(* Properties                                                              *)
(***************************************************************************)

Labels == {"idle", "token", "lock", "recheck", "fetch", "store", "send", "body", "done"}

\* The state variables have their types, and the refresh lock is where its holder says.
ClientTypeOK ==
  /\ era \in Nat /\ cached \in Nat \cup {None} /\ due \in BOOLEAN
  /\ lock \in Requests \cup {NoRequest}
  /\ \A r \in Requests :
       /\ req[r].pc \in Labels /\ req[r].attempt \in Nat /\ req[r].outer \in 1..MaxAttempts
       /\ req[r].pc \in {"recheck", "fetch", "store"} <=> lock = r

\* However the failures of connections, bodies and tokens mix, a chunk is asked for at
\* most (MaxAttempts + 1) times in each of MaxAttempts rounds (send's loop runs once
\* more for a rejected token), and another request at most MaxAttempts + 1 times.
SendsBounded ==
  \A r \in Requests :
    req[r].sends <= (MaxAttempts + 1) * (IF r \in Ranges THEN MaxAttempts ELSE 1)

\* A request ends with Azure's 401 only if the key was rotated again after it had
\* thrown the token away, or if a refresh was under way just then, whose token, older
\* than the rejection, was taken for a new one (invalidate, and token's second look).
RejectedWithCause ==
  \A r \in Requests :
    req[r].got = "rejected" => era > since[r].era \/ since[r].overlap

\* Every request ends, whatever fails and however the key is rotated: neither the loops
\* of send and get_blob_range nor the refresh lock keeps it for ever.
RequestsEnd == \A r \in Requests : At(r, "token") ~> At(r, "done")
=============================================================================
