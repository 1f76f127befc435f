----------------------------- MODULE SetKeyspace ----------------------------
(***************************************************************************)
(* What the module promises its clients: every key holds a set of values,  *)
(* a command reads or changes the sets in one step, and its answer is a    *)
(* function of them and of what was asked.  The client may have to wait    *)
(* for the answer; nothing changes meanwhile.  No containers, no loops.    *)
(***************************************************************************)
EXTENDS Integers, FiniteSets, Sequences

CONSTANTS
  Key,        \* key names
  Value,      \* the values a set can hold
  Bang,       \* the argument of CARD that is not a key name
  Named,      \* the value that each integer argument names; others name none
  Request,    \* what clients ask: a command, its key and its other arguments
  NoRequest

VARIABLES
  store,   \* the set of every key, empty for a key that does not exist
  alien,   \* keys that hold a value of another Redis type
  request, \* the command asked and not yet served
  answer,  \* the answer to the last command served
  pending  \* whether the client still waits for it

vars == <<store, alien, request, answer, pending>>

Int64(n)   == <<"integer", n>>
Members(S) == <<"members", S>>
Error      == <<"error">>
NoAnswer   == <<"none">>

(***************************************************************************)
(* What the request says.                                                  *)
(***************************************************************************)

Arguments == {request.args[i] : i \in DOMAIN request.args}

Integer64 == DOMAIN Named

ValuesNamed == {Named[a] : a \in Arguments}

KeysNamed == IF request.cmd = "card" THEN Arguments \ {Bang} ELSE {request.key}

Bangs == {i \in DOMAIN request.args : request.args[i] = Bang}

Included == {request.args[i] : i \in {j \in DOMAIN request.args : \A b \in Bangs : j < b}}

Excluded == {request.args[i] : i \in {j \in DOMAIN request.args : \E b \in Bangs : b < j}}

Malformed ==
  CASE request.cmd \in {"add", "remove"} -> Arguments = {} \/ ~(Arguments \subseteq Integer64)
    [] request.cmd = "card"              -> Arguments = {} \/ Cardinality(Bangs) > 1
    [] request.cmd = "members"           -> request.args # <<>>
    [] request.cmd = "ismember"          -> Len(request.args) # 1

SetsOf(K) == UNION {store[k] : k \in K}

(***************************************************************************)
(* The commands.                                                           *)
(***************************************************************************)

Init ==
  /\ store = [k \in Key |-> {}]
  /\ alien = {}
  /\ request = NoRequest
  /\ answer = NoAnswer
  /\ pending = FALSE

Ask ==
  /\ ~pending
  /\ request = NoRequest
  /\ request' \in Request
  /\ answer' = NoAnswer
  /\ UNCHANGED <<store, alien, pending>>

\* A request is served once, and answered at once or later.
Take ==
  /\ ~pending
  /\ request # NoRequest
  /\ request' = NoRequest
  /\ pending' \in BOOLEAN

Serve(cmd) ==
  /\ Take
  /\ request.cmd = cmd
  /\ ~Malformed
  /\ KeysNamed \intersect alien = {}

Answer ==
  /\ pending
  /\ pending' = FALSE
  /\ UNCHANGED <<store, alien, request, answer>>

Add ==
  /\ Serve("add")
  /\ store' = [store EXCEPT ![request.key] = @ \union ValuesNamed]
  /\ answer' = Int64(1)
  /\ UNCHANGED alien

Remove ==
  /\ Serve("remove")
  /\ store' = [store EXCEPT ![request.key] = @ \ ValuesNamed]
  /\ answer' = Int64(1)
  /\ UNCHANGED alien

\* |union of the keys before the "!" minus those behind it|
Card ==
  /\ Serve("card")
  /\ answer' = Int64(Cardinality(SetsOf(Included) \ SetsOf(Excluded)))
  /\ UNCHANGED <<store, alien>>

List ==
  /\ Serve("members")
  /\ answer' = Members(store[request.key])
  /\ UNCHANGED <<store, alien>>

Has(S, a) == a \in Integer64 /\ Named[a] \in S

\* What is no integer is in no set; a server may also refuse it.
IsMember ==
  /\ Serve("ismember")
  /\ \/ answer' = Int64(IF Has(store[request.key], request.args[1]) THEN 1 ELSE 0)
     \/ request.args[1] \notin Integer64 /\ answer' = Error
  /\ UNCHANGED <<store, alien>>

\* A malformed command, or one on a key of another type, changes nothing.
Refuse ==
  /\ Take
  /\ Malformed \/ KeysNamed \intersect alien # {}
  /\ answer' = Error
  /\ UNCHANGED <<store, alien>>

\* Another command of the server overwrites or deletes the key.
Overwrite(k) ==
  /\ ~pending
  /\ store' = [store EXCEPT ![k] = {}]
  /\ alien' = alien \union {k}
  /\ UNCHANGED <<request, answer, pending>>

Delete(k) ==
  /\ ~pending
  /\ store' = [store EXCEPT ![k] = {}]
  /\ alien' = alien \ {k}
  /\ UNCHANGED <<request, answer, pending>>

Next ==
  \/ Ask
  \/ Add \/ Remove \/ Card \/ List \/ IsMember \/ Refuse
  \/ Answer
  \/ \E k \in Key : Overwrite(k) \/ Delete(k)

Spec == Init /\ [][Next]_vars

=============================================================================
