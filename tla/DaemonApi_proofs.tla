--------------------------- MODULE DaemonApi_proofs ---------------------------
(***************************************************************************)
(* The properties of DaemonApi, for any number of keys, devices, requests    *)
(* in flight and restarts.                                                  *)
(***************************************************************************)
EXTENDS DaemonApi, TLAPS

Device == [status: {"PENDING_PAIRING", "PAIRED", "REVOKED"}, role: Roles]

\* What RetryNeverRepeats rests on: nobody has heard an answer that is not
\* recorded.  The hook writes before it sends.
HeardIsRecorded ==
  /\ recorded \subseteq Keys /\ heard \subseteq recorded
  /\ RetryNeverRepeats

\* The shapes the handlers rely on.
Documents ==
  /\ calls \subseteq Call /\ devices \in Seq(Device)
  /\ closed \in [Items -> SUBSET Nat]

IInv == HeardIsRecorded /\ Documents

-----------------------------------------------------------------------------

LEMMA ApiInit == Init => IInv
BY ApiConstants DEF Init, IInv, HeardIsRecorded, RetryNeverRepeats, Documents

\* A call comes in without an answer that was heard, with the role of a paired device.
LEMMA ArrivesStep ==
  ASSUME IInv, NEW request \in Requests, NEW key \in Keys \cup {"none"}, Arrives(request, key)
  PROVE  IInv' /\ devices' = devices
<1> USE ApiConstants DEF IInv, HeardIsRecorded, RetryNeverRepeats, Documents
<1>1. UNCHANGED <<devices, closed, recorded>> BY DEF Arrives
<1>2. CASE key \in recorded /\ heard' = heard \cup {key} /\ UNCHANGED calls
  BY <1>1, <1>2
<1>3. CASE key \notin recorded /\ UNCHANGED heard /\ Admit(request, key)
            /\ (request.kind = "message" => authenticate(request.phone))
  <2> DEFINE r == IF request.kind = "message" THEN devices[request.phone].role ELSE "none"
             c == [request |-> request, key |-> key, pc |-> "body", again |-> key \in heard, role |-> r]
  <2>0. ASSUME NEW n \in DOMAIN devices PROVE devices[n].role \in Roles
    <3>1. devices[n] \in Device OBVIOUS
    <3> QED BY <3>1 DEF Device
  <2>1. r \in Roles \cup {"none"} BY <1>3, <2>0 DEF authenticate
  <2>2. key \notin heard BY <1>3
  <2>3. calls' = calls \cup {c} BY <1>3 DEF Admit
  <2>4. c \in Call
    <3>1. (key \in heard) \in BOOLEAN OBVIOUS
    <3> HIDE DEF r
    <3> QED BY <2>1, <3>1 DEF Call
  <2>5. ~c.again BY <2>2
  <2> QED BY <1>1, <1>3, <2>3, <2>4, <2>5
<1> QED BY <1>1, <1>2, <1>3 DEF Arrives

\* A change of status leaves a sequence of devices.
LEMMA StatusUpdate ==
  ASSUME NEW list \in Seq(Device), NEW n \in DOMAIN list,
         NEW status \in {"PENDING_PAIRING", "PAIRED", "REVOKED"}
  PROVE  [list EXCEPT ![n].status = status] \in Seq(Device)
<1>1. list[n] \in Device OBVIOUS
<1>2. [list[n] EXCEPT !.status = status] \in Device BY <1>1 DEF Device
<1> QED BY <1>2

\* The handlers: devices keep their shape and stay revoked, and a phone resolves an
\* item only through a message of its own that waited for its body.
LEMMA HandlerEffect ==
  ASSUME IInv, NEW c \in calls, HandlerStarts(c)
  PROVE  /\ devices' \in Seq(Device)
         /\ closed' \in [Items -> SUBSET Nat]
         /\ \A n \in DOMAIN devices, i \in Items : Silent(n) /\ n \in closed'[i] => n \in closed[i]
         /\ \A n \in DOMAIN devices : devices[n].status = "REVOKED" => devices'[n].status = "REVOKED"
<1> USE ApiConstants DEF IInv, Documents
<1>0. c \in Call /\ c.request \in Requests BY DEF Call
<1>1. CASE beginPairing
  <2>1. PICK role \in Roles : devices' = Append(devices, [status |-> "PENDING_PAIRING", role |-> role])
    BY <1>1 DEF beginPairing
  <2>2. [status |-> "PENDING_PAIRING", role |-> role] \in Device BY DEF Device
  <2> QED BY <1>1, <2>1, <2>2 DEF beginPairing
<1>2. CASE completePairing(c.request.phone)
  <2>1. \/ devices' = devices
        \/ /\ c.request.phone \in DOMAIN devices /\ devices[c.request.phone].status # "REVOKED"
           /\ devices' = [devices EXCEPT ![c.request.phone].status = "PAIRED"]
    BY <1>2 DEF completePairing
  <2>2. devices' \in Seq(Device) BY <2>1, StatusUpdate
  <2> QED BY <1>2, <2>1, <2>2 DEF completePairing
<1>3. CASE revoke(c.request.phone)
  <2>1. \A n \in DOMAIN devices : devices[n] \in Device OBVIOUS
  <2>2. devices' = [devices EXCEPT ![c.request.phone].status = "REVOKED"] /\ c.request.phone \in DOMAIN devices
    BY <1>3 DEF revoke
  <2>3. devices' \in Seq(Device) BY <2>1, <2>2, StatusUpdate
  <2> QED BY <1>3, <2>2, <2>3 DEF revoke
<1>4. CASE handleMessage(c) /\ c.request.kind = "message"
  <2>1. c.request.item \in Items /\ c.request.phone \in Nat
    BY <1>0, <1>4 DEF Requests, Phones
  <2>2. CASE closed' = closed
    BY <1>4, <2>2 DEF handleMessage
  <2>3. CASE closed' = [closed EXCEPT ![c.request.item] = {c.request.phone}]
    <3>1. ~Silent(c.request.phone)
      BY <1>4 DEF HandlerStarts, Silent
    <3> QED BY <1>4, <2>1, <2>3, <3>1 DEF handleMessage
  <2> QED BY <1>4, <2>2, <2>3 DEF handleMessage
<1>5. CASE work
  <2>1. closed' = closed \/ \E i \in Items : closed' = [closed EXCEPT ![i] = {0}]
    BY <1>5 DEF work
  <2>2. \A n \in DOMAIN devices : n # 0
    OBVIOUS
  <2> QED BY <1>5, <2>1, <2>2 DEF work
<1> QED BY <1>0, <1>1, <1>2, <1>3, <1>4, <1>5 DEF HandlerStarts, Requests

LEMMA HandlerStep ==
  ASSUME IInv, NEW c \in calls, HandlerStarts(c)
  PROVE  IInv'
<1>1. devices' \in Seq(Device) /\ closed' \in [Items -> SUBSET Nat]
  BY HandlerEffect
<1>2. calls' = (calls \ {c}) \cup {[c EXCEPT !.pc = "handler"]} /\ UNCHANGED <<recorded, heard>>
  BY DEF HandlerStarts
<1>3. c \in Call /\ ~c.again BY DEF IInv, Documents, HeardIsRecorded, RetryNeverRepeats
<1>4. [c EXCEPT !.pc = "handler"] \in Call /\ ~[c EXCEPT !.pc = "handler"].again
  BY <1>3 DEF Call
<1> QED BY <1>1, <1>2, <1>4 DEF IInv, Documents, HeardIsRecorded, RetryNeverRepeats

\* The response is recorded before it can be heard.
LEMMA ResponseStep ==
  ASSUME IInv, NEW c \in calls, Responds(c) \/ Aborts(c)
  PROVE  IInv' /\ UNCHANGED <<devices, closed>> /\ calls' \subseteq calls
<1>1. c.key \in Keys \cup {"none"} BY DEF IInv, Documents, Call
<1>2. calls' \subseteq calls /\ UNCHANGED <<devices, closed>> BY DEF Responds, Aborts
<1>3. recorded' \subseteq Keys /\ heard' \subseteq recorded'
  BY <1>1 DEF Responds, Aborts, IInv, HeardIsRecorded
<1> QED BY <1>2, <1>3 DEF IInv, HeardIsRecorded, RetryNeverRepeats, Documents

LEMMA OtherStep ==
  ASSUME IInv, \/ \E n \in Phones : TokenExpires(n)
               \/ shutdown \/ Exit \/ Restart \/ UNCHANGED vars
  PROVE  IInv' /\ UNCHANGED <<devices, closed>> /\ calls' \subseteq calls
<1>1. calls' \subseteq calls /\ UNCHANGED <<devices, closed, recorded, heard>>
  BY DEF TokenExpires, shutdown, Exit, Restart, vars
<1> QED BY <1>1 DEF IInv, HeardIsRecorded, RetryNeverRepeats, Documents

-----------------------------------------------------------------------------

\* The invariant holds of every daemon.
THEOREM ApiInvariant == Spec => []IInv
<1>1. IInv /\ [Next]_vars => IInv'
  BY ArrivesStep, HandlerStep, ResponseStep, OtherStep DEF Next
<1> QED BY ApiInit, <1>1, PTL DEF Spec

\* A retry sent after an answer was heard never reaches a handler (the onRequest
\* and onSend hooks of main.ts), whatever else is under way.
THEOREM RetryNeverRepeatsAlways == Spec => []RetryNeverRepeats
<1>1. IInv => RetryNeverRepeats BY DEF IInv, HeardIsRecorded
<1> QED BY ApiInvariant, <1>1, PTL

\* A revoked phone is not brought back (MobilePairingService).
THEOREM RevocationIsFinalAlways == Spec => RevocationIsFinal
<1> DEFINE A == \A n \in DOMAIN devices : devices[n].status = "REVOKED" => devices'[n].status = "REVOKED"
<1>1. IInv /\ [Next]_vars => [A]_vars
  BY ArrivesStep, HandlerEffect, ResponseStep, OtherStep DEF Next
<1> QED BY ApiInvariant, <1>1, PTL DEF Spec, RevocationIsFinal

\* Nothing lets a message of a revoked phone in, or makes one that is handled wait again.
LEMMA SilenceLasts ==
  ASSUME IInv, [Next]_vars, NEW n \in DOMAIN devices, devices[n].status = "REVOKED", Silent(n)
  PROVE  Silent(n)'
<1>1. CASE \E request \in Requests, key \in Keys \cup {"none"} : Arrives(request, key)
  <2>1. PICK request \in Requests, key \in Keys \cup {"none"} : Arrives(request, key)
    BY <1>1
  <2>2. CASE UNCHANGED calls
    BY <2>2 DEF Silent
  <2>3. CASE Admit(request, key) /\ (request.kind = "message" => authenticate(request.phone))
    <3>1. ~(request.kind = "message" /\ request.phone = n)
      BY <2>3 DEF authenticate
    <3> DEFINE c == [request |-> request, key |-> key, pc |-> "body", again |-> key \in heard,
                     role |-> IF request.kind = "message" THEN devices[request.phone].role ELSE "none"]
    <3>2. c.request = request /\ calls' = calls \cup {c}
      BY <2>3 DEF Admit
    <3> HIDE DEF c
    <3> QED BY <3>1, <3>2 DEF Silent
  <2> QED BY <2>1, <2>2, <2>3 DEF Arrives
<1>2. ASSUME NEW c \in calls, HandlerStarts(c)
      PROVE  Silent(n)'
  <2>1. c \in Call /\ calls' = (calls \ {c}) \cup {[c EXCEPT !.pc = "handler"]}
    BY <1>2 DEF HandlerStarts, IInv, Documents
  <2>2. [c EXCEPT !.pc = "handler"].pc = "handler"
    BY <2>1 DEF Call
  <2> QED BY <2>1, <2>2 DEF Silent
<1>3. CASE calls' \subseteq calls
  BY <1>3 DEF Silent
<1> QED BY <1>1, <1>2, <1>3, ResponseStep, OtherStep DEF Next

\* Once the messages that were under way at its revocation are over, a phone is out for
\* good (MobilePairingService, the onRequest hook of routes.ts).
THEOREM SilencedForGoodAlways == Spec => SilencedForGood
<1> DEFINE A == \A n \in DOMAIN devices :
                  devices[n].status = "REVOKED" /\ Silent(n) =>
                    Silent(n)' /\ \A i \in Items : n \in closed'[i] => n \in closed[i]
<1>1. IInv /\ [Next]_vars => [A]_vars
  <2> SUFFICES ASSUME IInv, [Next]_vars, NEW n \in DOMAIN devices, devices[n].status = "REVOKED", Silent(n)
               PROVE  Silent(n)' /\ \A i \in Items : n \in closed'[i] => n \in closed[i]
    OBVIOUS
  <2>1. CASE closed' = closed
    BY <2>1, SilenceLasts
  <2>2. CASE \E request \in Requests, key \in Keys \cup {"none"} : Arrives(request, key)
    BY <2>1, <2>2 DEF Arrives
  <2>3. CASE \E c \in calls : HandlerStarts(c)
    BY <2>3, HandlerEffect, SilenceLasts
  <2> QED BY <2>1, <2>2, <2>3, ResponseStep, OtherStep DEF Next
<1> QED BY ApiInvariant, <1>1, PTL DEF Spec, SilencedForGood
=============================================================================
