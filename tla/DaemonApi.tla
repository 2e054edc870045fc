------------------------------ MODULE DaemonApi ------------------------------
(***************************************************************************)
(* What a mutating HTTP request goes through (main.ts): the shutdown guard, *)
(* the recorded responses of idempotency keys, the credentials of phones,   *)
(* its handler, and the response.  Handlers of three kinds: the pairing of  *)
(* phones and their messages (mobile-control-service.ts), and any other     *)
(* route, whose work is modelled elsewhere.                                 *)
(*                                                                         *)
(* The hooks of a request run in one turn of the event loop; then its body  *)
(* arrives, then its handler starts.  Clients lose responses and retry.     *)
(***************************************************************************)
EXTENDS Naturals, Sequences, FiniteSets

CONSTANTS
  Keys,         \* idempotency keys; a client uses each for one request
  Dangerous,    \* open approvals of actions of risk DANGEROUS ...
  Ordinary,     \* ... and open approvals and decisions of other kinds
  MaxDevices,   \* bound: pairings begun
  MaxInFlight,  \* bound: requests at one time
  MaxRestarts   \* bound: restarts of the daemon

ASSUME ApiConstants ==
  /\ "none" \notin Keys /\ Dangerous \cap Ordinary = {} /\ "none" \notin Dangerous \cup Ordinary
  /\ MaxDevices \in Nat /\ MaxInFlight \in Nat \ {0} /\ MaxRestarts \in Nat

VARIABLES
  daemon,    \* "up", "draining" (shuttingDown) or "exited"
  recorded,  \* table idempotency_keys: keys with a recorded response
  use,       \* what each key was first sent with
  heard,     \* keys a client has had a response to
  calls,     \* requests past the hooks
  devices,   \* docs "mobile_device", in the order of their creation
  tokens,    \* pendingTokens, by device; in memory only
  closed,    \* who resolved an approval or a decision: {} nobody yet, {0} the
             \* desktop, {n} phone n
  restarts

vars == <<daemon, recorded, use, heard, calls, devices, tokens, closed, restarts>>

Phones == 1..MaxDevices
Items == Dangerous \cup Ordinary
Roles == {"VIEWER", "OPERATOR", "ADMIN"}
Requests == [kind: {"work", "begin"}, phone: {0}, item: {"none"}]
       \cup [kind: {"complete", "revoke"}, phone: Phones, item: {"none"}]
       \cup [kind: {"message"}, phone: Phones, item: Items]
NoUse == [kind |-> "none", phone |-> 0, item |-> "none"]
Call == [request: Requests, key: Keys \cup {"none"}, pc: {"body", "handler"},
         again: BOOLEAN, role: Roles \cup {"none"}]

Init ==
  /\ daemon = "up" /\ recorded = {} /\ use = [k \in Keys |-> NoUse] /\ heard = {}
  /\ calls = {} /\ devices = <<>> /\ tokens = [n \in Phones |-> "none"]
  /\ closed = [i \in Items |-> {}]
  /\ restarts = 0

-----------------------------------------------------------------------------
(* The hooks.                                                               *)

\* mutant: any device there is a document of passes.
KnownDevice(n) == n \in DOMAIN devices

\* authenticate: what the device document says when the request arrives is what
\* the handler will act on.
authenticate(n) == n \in DOMAIN devices /\ devices[n].status = "PAIRED"

Admit(request, key) ==
  /\ Cardinality(calls) < MaxInFlight
  /\ calls' = calls \cup {[request |-> request, key |-> key, pc |-> "body", again |-> key \in heard,
                           role |-> IF request.kind = "message" THEN devices[request.phone].role ELSE "none"]}

\* A request arrives: a recorded response is replayed, a phone without credentials
\* turned away.  A draining daemon refuses everything, and nothing changes.
Arrives(request, key) ==
  /\ daemon = "up"
  /\ key # "none" => use[key] \in {NoUse, request}
  /\ use' = IF key = "none" THEN use ELSE [use EXCEPT ![key] = request]
  /\ \/ key \in recorded /\ heard' = heard \cup {key} /\ UNCHANGED calls
     \/ /\ key \notin recorded /\ UNCHANGED heard
        /\ request.kind = "message" => authenticate(request.phone)
        /\ Admit(request, key)
  /\ UNCHANGED <<daemon, recorded, devices, tokens, closed, restarts>>

-----------------------------------------------------------------------------
(* The handlers.                                                            *)

beginPairing ==
  /\ Len(devices) < MaxDevices
  /\ \E role \in Roles : devices' = Append(devices, [status |-> "PENDING_PAIRING", role |-> role])
  /\ tokens' = [tokens EXCEPT ![Len(devices) + 1] = "fresh"]
  /\ UNCHANGED closed

\* mutant: the exchange does not look at the device.
TrustsToken(n) ==
  /\ n \in DOMAIN devices /\ tokens' = [tokens EXCEPT ![n] = "none"]
  /\ devices' = IF tokens[n] = "fresh" THEN [devices EXCEPT ![n].status = "PAIRED"] ELSE devices
  /\ UNCHANGED closed

\* A token is used up by the first exchange, late or not; the rest is refused.
completePairing(n) ==
  /\ n \in DOMAIN devices /\ tokens' = [tokens EXCEPT ![n] = "none"]
  /\ devices' = IF tokens[n] = "fresh" /\ devices[n].status # "REVOKED"
                THEN [devices EXCEPT ![n].status = "PAIRED"] ELSE devices
  /\ UNCHANGED closed

\* A pending token outlives the revocation of its device.
revoke(n) ==
  /\ n \in DOMAIN devices /\ devices' = [devices EXCEPT ![n].status = "REVOKED"]
  /\ UNCHANGED <<tokens, closed>>

\* ROLE_PERMISSIONS: viewers look, dangerous actions are an administrator's.
Permitted(role, item) == role = "ADMIN" \/ (role = "OPERATOR" /\ item \in Ordinary)

\* handleMessage with a DECISION_ANSWER or an APPROVAL_OUTCOME: anything but an
\* open item and a permitted role is answered with a refusal.
handleMessage(c) ==
  /\ closed' = IF closed[c.request.item] = {} /\ Permitted(c.role, c.request.item)
               THEN [closed EXCEPT ![c.request.item] = {c.request.phone}] ELSE closed
  /\ UNCHANGED <<devices, tokens>>

\* The work of every other route; it may be the resolution of an item.
work ==
  /\ closed' \in {closed} \cup {[closed EXCEPT ![i] = {0}] : i \in {j \in Items : closed[j] = {}}}
  /\ UNCHANGED <<devices, tokens>>

\* The body is there: the handler runs, up to its first await at least.
HandlerStarts(c) ==
  /\ daemon # "exited" /\ c.pc = "body"
  /\ calls' = (calls \ {c}) \cup {[c EXCEPT !.pc = "handler"]}
  /\ CASE c.request.kind = "begin" -> beginPairing
       [] c.request.kind = "complete" -> completePairing(c.request.phone)
       [] c.request.kind = "revoke" -> revoke(c.request.phone)
       [] c.request.kind = "message" -> handleMessage(c)
       [] c.request.kind = "work" -> work
  /\ UNCHANGED <<daemon, recorded, use, heard, restarts>>

\* The onSend hook records a 2xx response, then it is sent, and may get lost.
\* Other responses leave no trace: a retry of a request whose error answer was heard
\* runs the handler again, so heard counts recorded answers alone.  (That the table
\* itself refuses the write, which the hook would swallow, is left out: every document
\* is in the same database.)
Responds(c) ==
  /\ daemon # "exited" /\ c.pc = "handler" /\ calls' = calls \ {c}
  /\ \/ /\ recorded' = recorded \cup ({c.key} \ {"none"})
        /\ heard' \in {heard, heard \cup ({c.key} \ {"none"})}
     \/ UNCHANGED <<recorded, heard>>
  /\ UNCHANGED <<daemon, use, devices, tokens, closed, restarts>>

\* The body never arrives, or cannot be parsed.
Aborts(c) ==
  /\ daemon # "exited" /\ c.pc = "body" /\ calls' = calls \ {c}
  /\ UNCHANGED <<daemon, recorded, use, heard, devices, tokens, closed, restarts>>

-----------------------------------------------------------------------------
(* Time and the process.                                                    *)

\* PAIRING_TOKEN_TTL_MS have passed.
TokenExpires(n) ==
  /\ tokens[n] = "fresh" /\ tokens' = [tokens EXCEPT ![n] = "stale"]
  /\ UNCHANGED <<daemon, recorded, use, heard, calls, devices, closed, restarts>>

shutdown ==
  /\ daemon = "up" /\ daemon' = "draining"
  /\ UNCHANGED <<recorded, use, heard, calls, devices, tokens, closed, restarts>>

\* app.close() waits for the requests past the hooks.
Exit ==
  /\ daemon = "draining" /\ calls = {} /\ daemon' = "exited"
  /\ UNCHANGED <<recorded, use, heard, calls, devices, tokens, closed, restarts>>

\* mutant: responses are kept in memory.
VolatileKeys ==
  /\ restarts < MaxRestarts /\ restarts' = restarts + 1
  /\ daemon' = "up" /\ calls' = {} /\ tokens' = [n \in Phones |-> "none"] /\ recorded' = {}
  /\ UNCHANGED <<use, heard, devices, closed>>

\* A new process, after an exit or a crash.
Restart ==
  /\ restarts < MaxRestarts /\ restarts' = restarts + 1
  /\ daemon' = "up" /\ calls' = {} /\ tokens' = [n \in Phones |-> "none"]
  /\ UNCHANGED <<recorded, use, heard, devices, closed>>

-----------------------------------------------------------------------------

Next ==
  \/ \E request \in Requests, key \in Keys \cup {"none"} : Arrives(request, key)
  \/ \E c \in calls : HandlerStarts(c) \/ Responds(c) \/ Aborts(c)
  \/ \E n \in Phones : TokenExpires(n)
  \/ shutdown \/ Exit \/ Restart

Spec == Init /\ [][Next]_vars
-----------------------------------------------------------------------------

TypeOK ==
  /\ daemon \in {"up", "draining", "exited"}
  /\ recorded \subseteq Keys /\ heard \subseteq Keys
  /\ use \in [Keys -> Requests \cup {NoUse}]
  /\ calls \subseteq Call
  /\ devices \in Seq([status: {"PENDING_PAIRING", "PAIRED", "REVOKED"}, role: Roles])
  /\ tokens \in [Phones -> {"none", "fresh", "stale"}]
  /\ closed \in [Items -> {{}} \cup {{n} : n \in 0..MaxDevices}]
  /\ restarts \in 0..MaxRestarts

\* "a retried mutating request with the same key replays the recorded response
\* instead of executing twice" (main.ts:411), as far as it goes: a retry sent
\* after a response to its key was heard never reaches a handler, however many
\* duplicates are under way, also in the next process.
RetryNeverRepeats == \A c \in calls : ~c.again

\* A revoked phone stays revoked: no token that is still pending, no duplicate of
\* an earlier exchange and no message in flight brings it back.
RevocationIsFinal ==
  [][\A n \in DOMAIN devices : devices[n].status = "REVOKED" => devices'[n].status = "REVOKED"]_vars

\* No message of a phone that passed authenticate waits for its body.
Silent(n) == \A c \in calls : c.request.kind = "message" /\ c.request.phone = n => c.pc # "body"

\* A message that was under way when its phone was revoked is still acted on, from
\* the device read before; once those are over a revoked phone is out for good: no
\* further message of it is let in and it resolves no approval and no decision,
\* whatever exchanges, retries and restarts follow (revoke, authenticate).
SilencedForGood ==
  [][\A n \in DOMAIN devices :
       devices[n].status = "REVOKED" /\ Silent(n) =>
         Silent(n)' /\ \A i \in Items : n \in closed'[i] => n \in closed[i]]_vars
=============================================================================
