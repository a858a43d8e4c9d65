-------------------------- MODULE RpcSessionProofs --------------------------
(***************************************************************************)
(* Proofs about RpcSession for every number of slots, logins, requests,    *)
(* servers and capabilities.                                               *)
(*                                                                         *)
(* The argument: capabilities are generated in order and a login needs one *)
(* without a session row, so no two logins ever share a capability         *)
(* (Capabilities).  A mutation is prepared under the capability of its     *)
(* request, so it carries the nonce of the login that built the request    *)
(* (Provenance).  The open session is the latest and is bound to the       *)
(* active slot (Sessions); within it, the sequence number separates what   *)
(* is committed from what may still be (Progress), and the ledger holds    *)
(* exactly what is committed (LedgerComplete, LedgerSound).                *)
(*                                                                         *)
(* The last part shows that RpcSession implements ExactlyOnce.  To the     *)
(* invariant this adds that the sequence number of a session row is that   *)
(* of an effect (LastIsCommitted), so a request refused by it really was   *)
(* overtaken.                                                              *)
(***************************************************************************)
EXTENDS RpcExactlyOnce, TLAPS

Issued(n) == n \in Nonce /\ n <= nonce

(* Session rows: only issued logins have one, it agrees with the binding   *)
(* of the login, and its slot exists.                                      *)
Sessions ==
  \A n \in Nonce :
    /\ n > nonce => sess[n] = NoRow /\ bound[n] = Unbound
    /\ n <= nonce => bound[n].usn # 0 /\ bound[n].cap # None
    /\ sess[n].usn = 0 => sess[n] = NoRow
    /\ sess[n].usn # 0 =>
         /\ bound[n].usn = sess[n].usn
         /\ bound[n].cap = sess[n].cap
         /\ bound[n].gen = gen[sess[n].usn]
         /\ slot[sess[n].usn] # None
    /\ sess[n].open => n = nonce /\ sess[n].usn = active /\ active # 0

(* Capabilities: the latest one is used by no login but the latest, and    *)
(* while it is, the row that blocks its reuse is there.                    *)
Capabilities ==
  /\ \A n \in Nonce : Issued(n) => bound[n].cap \in spent
  /\ cap # None => cap \in spent
  /\ \A n \in Nonce : Issued(n) /\ bound[n].cap = cap
                        => n = nonce /\ sess[n].usn # 0
  /\ \A n, k \in Nonce : Issued(n) /\ Issued(k) /\ bound[n].cap = bound[k].cap => n = k
  /\ \A s \in Server : current = s => srvCap[s] = cap /\ phase[s] = "up"

(* A session held anywhere in memory was begun under the holder's          *)
(* capability, and a request or mutation carries the capability of the     *)
(* login that built it.                                                    *)
BoundTo(held, c) ==
  held # NoSession =>
    /\ Issued(held.nonce)
    /\ held.usn \in Usn
    /\ bound[held.nonce].usn = held.usn
    /\ bound[held.nonce].cap = c

Provenance ==
  /\ \A s \in Server : /\ phase[s] = "off" => session[s] = NoSession
                       /\ phase[s] # "up" => login[s] = NoSession
  /\ \A s \in Server : /\ BoundTo(login[s], srvCap[s])
                       /\ BoundTo(session[s], srvCap[s])
  /\ client.nonce # 0 => Issued(client.nonce) /\ bound[client.nonce].cap = client.cap
  /\ \A r \in sent : /\ Issued(r.from) /\ bound[r.from].cap = r.cap
                     /\ r.cmd \in IssuedCommand
  /\ \A m \in prepared : /\ Issued(m.nonce) /\ bound[m.nonce].usn = m.usn
                         /\ bound[m.nonce].cap = m.req.cap
                         /\ m.req \in sent

(* What is committed is at or below its session's sequence number; so is   *)
(* what was refused.                                                       *)
Progress ==
  /\ \A i \in 1 .. Len(history) :
       /\ Issued(history[i].nonce) /\ history[i].req \in sent
       /\ sess[history[i].nonce].usn # 0
            => history[i].req.seq <= sess[history[i].nonce].seq
  /\ \A r \in replies :
       /\ r.req \in sent
       /\ r.kind = "stale" /\ sess[r.req.from].usn # 0
            => r.req.seq <= sess[r.req.from].seq

EffectKey(e) == IdempotencyKey([nonce |-> e.nonce, req |-> e.req])

(* Whatever a login with a row has committed is in the ledger.             *)
LedgerComplete ==
  \A i \in 1 .. Len(history) :
    sess[history[i].nonce].usn # 0 =>
      \E row \in ledger : row.usn = history[i].usn /\ row.key = EffectKey(history[i])

(* Every ledger row was written by the effect it points to.                *)
LedgerSound ==
  \A row \in ledger :
    /\ row.effect \in 1 .. Len(history)
    /\ row.key = EffectKey(history[row.effect])
    /\ row.seq = row.key.seq /\ row.op = row.key.op

IInv ==
  /\ TypeOK
  /\ Sessions
  /\ Capabilities
  /\ Provenance
  /\ Progress
  /\ LedgerComplete
  /\ LedgerSound
  /\ SelectionExists
  /\ InSessionOrder
  /\ NoForeignWrite
  /\ RefusedHasNoEffect
  /\ ReplyIsOwnEffect

-----------------------------------------------------------------------------
USE ConstantsAssumption

(* Every variable keeps its type, one step per kind of action.             *)
LEMMA InitType == Init => TypeOK
BY DEF Init, TypeOK, Usn, NullableUsn, Nonce, NullableNonce, NoRow, SessionRow, NoSession,
   LoginSession, NoClient, ClientState, Unbound, Binding

LEMMA StartType ==
  ASSUME TypeOK, NEW s \in Server, NEW c \in Capability, Start(s, c)
  PROVE  TypeOK'
<1>1. 1 \in Usn
  BY DEF Usn
<1>2. slot' \in [Usn -> Name \cup {None}] /\ gen' \in [Usn -> Nat] /\ active' \in NullableUsn
  BY <1>1 DEF TypeOK, Start, NullableUsn, Usn
<1> QED
  BY <1>2 DEF TypeOK, Start, wire

LEMMA LoginType ==
  ASSUME TypeOK, NEW s \in Server, BeginLogin(s)
  PROVE  TypeOK'
<1> DEFINE u == IF pending # 0 THEN pending ELSE active
           n == nonce + 1
<1>1. n \in Nonce /\ n \in NullableNonce /\ u \in NullableUsn
  BY DEF TypeOK, BeginLogin, Nonce, NullableNonce
<1>2. sess' \in [Nonce -> SessionRow]
  <2>1. ASSUME NEW k \in Nonce PROVE Ended(sess[k]) \in SessionRow
    BY DEF TypeOK, SessionRow, Ended
  <2>2. [usn |-> u, cap |-> srvCap[s], seq |-> 0, open |-> TRUE] \in SessionRow
    BY <1>1 DEF TypeOK, SessionRow
  <2> QED
    BY <2>1, <2>2 DEF TypeOK, BeginLogin
<1>3. login' \in [Server -> LoginSession]
  BY <1>1 DEF TypeOK, BeginLogin, LoginSession
<1>4. bound' \in [Nonce -> Binding]
  <2>1. gen[u] \in Nat
    BY <1>1 DEF TypeOK, BeginLogin, NullableUsn, Usn
  <2> QED
    BY <1>1, <2>1 DEF TypeOK, BeginLogin, Binding
<1>5. active' \in NullableUsn /\ pending' \in NullableUsn /\ nonce' \in NullableNonce
  BY <1>1 DEF BeginLogin, NullableUsn
<1> QED
  BY <1>2, <1>3, <1>4, <1>5 DEF TypeOK, BeginLogin, wire

LEMMA PublishType ==
  ASSUME TypeOK, NEW s \in Server, PublishSession(s)
  PROVE  TypeOK'
<1>1. NoSession \in LoginSession
  BY DEF NoSession, LoginSession, NullableNonce, NullableUsn
<1>2. client' \in ClientState
  BY DEF TypeOK, PublishSession, ClientState, LoginSession
<1> QED
  BY <1>1, <1>2 DEF TypeOK, PublishSession, rows, ghost

LEMMA SendType ==
  ASSUME TypeOK, Sessions, Provenance,
         NEW c \in IssuedCommand, NEW u \in NullableUsn, Send(c, u)
  PROVE  TypeOK'
<1>1. client' \in ClientState
  BY DEF TypeOK, Send, ClientState
<1>2. c \in Command
  BY DEF IssuedCommand
<1>3. client.nonce \in Nonce /\ client.seq + 1 \in 1 .. MaxSeq
  BY DEF TypeOK, Send, ClientState, Nonce, NullableNonce
<1>4. client.cap \in Capability
  BY DEF TypeOK, Send, ClientState, Sessions, Provenance, Issued
<1> QED
  BY <1>1, <1>2, <1>3, <1>4 DEF TypeOK, Send, Request, rows, process, ghost

LEMMA DispatchType ==
  ASSUME TypeOK, Provenance, NEW s \in Server, NEW r \in sent, Dispatch(s, r)
  PROVE  TypeOK'
<1>1. session[s].nonce \in Nonce /\ session[s].usn \in Usn
  BY DEF Provenance, BoundTo, Issued, Dispatch
<1>2. [srv |-> s, nonce |-> session[s].nonce, usn |-> session[s].usn, req |-> r] \in Mutation
  BY <1>1 DEF TypeOK, Mutation
<1> QED
  BY <1>2 DEF TypeOK, Dispatch, rows, process, wire, ghost

LEMMA StopType ==
  ASSUME TypeOK, NEW s \in Server, Stop(s) \/ Exit(s) \/ Crash
  PROVE  TypeOK'
<1>1. NoSession \in LoginSession /\ NoClient \in ClientState
  BY DEF NoSession, LoginSession, NullableNonce, NullableUsn, NoClient, ClientState
<1>2. CASE Stop(s)
  BY <1>1, <1>2 DEF TypeOK, Stop, rows, ghost
<1>3. CASE Exit(s)
  BY <1>1, <1>3 DEF TypeOK, Exit, rows, wire, ghost
<1>4. CASE Crash
  BY <1>1, <1>4 DEF TypeOK, Crash, rows, ghost
<1> QED
  BY <1>2, <1>3, <1>4

(* What a prepared mutation is made of.                                    *)
LEMMA MutationType ==
  ASSUME TypeOK, NEW m \in prepared
  PROVE  /\ m.nonce \in Nonce /\ m.usn \in Usn /\ m.req \in Request
         /\ m.req.seq \in 1 .. MaxSeq /\ m.req.u_seq \in NullableUsn
         /\ m.req.cmd \in Command /\ m.req.from \in Nonce
         /\ m.req.cmd.op \in {"write", "create", "select", "delete"}
         /\ m.req.cmd.target \in NullableUsn /\ m.req.cmd.name \in Name \cup {None}
         /\ IdempotencyKey(m) \in Key
<1>1. m \in Mutation
  BY DEF TypeOK
<1>2. m.nonce \in Nonce /\ m.usn \in Usn /\ m.req \in Request
  BY <1>1 DEF Mutation
<1>3. /\ m.req.seq \in 1 .. MaxSeq /\ m.req.u_seq \in NullableUsn
      /\ m.req.cmd \in Command /\ m.req.from \in Nonce
  BY <1>2 DEF Request
<1>4. /\ m.req.cmd.op \in {"write", "create", "select", "delete"}
      /\ m.req.cmd.target \in NullableUsn /\ m.req.cmd.name \in Name \cup {None}
  BY <1>3 DEF Command
<1>5. IdempotencyKey(m) \in Key
  BY <1>2, <1>3, <1>4 DEF IdempotencyKey, Key, NullableNonce, NullableUsn, Nonce
<1> QED
  BY <1>2, <1>3, <1>4, <1>5

(* Answering and recording keep the types of what they write.              *)
LEMMA AnswerType ==
  ASSUME TypeOK, NEW m \in prepared, NEW kind \in {"ok", "stale", "conflict"},
         NEW effect \in Nat, Answer(m, kind, effect)
  PROVE  replies' \subseteq Reply /\ prepared' \subseteq Mutation
<1>1. [req |-> m.req, kind |-> kind, effect |-> effect] \in Reply
  BY MutationType DEF Reply
<1> QED
  BY <1>1 DEF TypeOK, Answer

LEMMA RecordType ==
  ASSUME TypeOK, NEW m \in prepared, NEW gone, Record(m, gone)
  PROVE  /\ sess' \in [Nonce -> SessionRow] /\ ledger' \subseteq LedgerRow
         /\ history' \in Seq(Effect) /\ Len(history') = Len(history) + 1
         /\ history'[Len(history) + 1] = [req |-> m.req, nonce |-> m.nonce,
                                          usn |-> m.usn, gen |-> gen[m.usn]]
         /\ \A i \in 1 .. Len(history) : history'[i] = history[i]
         /\ replies' \subseteq Reply /\ prepared' \subseteq Mutation
<1> DEFINE e == [req |-> m.req, nonce |-> m.nonce, usn |-> m.usn, gen |-> gen[m.usn]]
           row == [usn |-> m.usn, key |-> IdempotencyKey(m), seq |-> m.req.seq,
                   op |-> m.req.cmd.op, effect |-> Len(history) + 1]
<1>1. e \in Effect
  BY MutationType DEF TypeOK, Effect
<1>2. history \in Seq(Effect) /\ Len(history) \in Nat /\ history' = Append(history, e)
  BY DEF TypeOK, Record
<1>3. row \in LedgerRow
  BY <1>2, MutationType DEF LedgerRow
<1>4. ASSUME NEW k \in Nonce
      PROVE  NoRow \in SessionRow /\ Advanced(sess[k], m.req.seq) \in SessionRow /\ sess[k] \in SessionRow
  BY MutationType DEF TypeOK, NoRow, Advanced, SessionRow, NullableUsn
<1>5. sess' \in [Nonce -> SessionRow]
  BY <1>4 DEF Record
<1>6. ledger' \subseteq LedgerRow
  BY <1>3 DEF TypeOK, Record
<1>7. replies' \subseteq Reply /\ prepared' \subseteq Mutation
  BY <1>2, AnswerType DEF Record
<1> HIDE DEF e
<1>8. /\ history' \in Seq(Effect) /\ Len(history') = Len(history) + 1
      /\ history'[Len(history) + 1] = e
      /\ \A i \in 1 .. Len(history) : history'[i] = history[i]
  BY <1>1, <1>2
<1> QED
  BY <1>5, <1>6, <1>7, <1>8 DEF e

LEMMA CommitType ==
  ASSUME TypeOK, NEW m \in prepared, CommitRpcMutation(m)
  PROVE  TypeOK'
<1>1. CASE RollBack(m)
  BY <1>1 DEF TypeOK, RollBack, rows, process, wire, ghost
<1>2. CASE Replay(m)
  <2>1. PICK row \in Recorded(m) :
          IF row.seq = m.req.seq /\ row.op = m.req.cmd.op
          THEN Answer(m, "ok", row.effect) ELSE Answer(m, "conflict", 0)
    BY <1>2 DEF Replay
  <2>2. row.effect \in Nat
    BY <2>1 DEF TypeOK, Recorded, LedgerRow
  <2>3. replies' \subseteq Reply /\ prepared' \subseteq Mutation
    BY <2>1, <2>2, AnswerType
  <2> QED
    BY <1>2, <2>3 DEF TypeOK, Replay, rows, process, wire, ghost
<1>3. CASE RefuseOvertaken(m)
  <2>1. replies' \subseteq Reply /\ prepared' \subseteq Mutation
    BY <1>3, AnswerType DEF RefuseOvertaken
  <2> QED
    BY <1>3, <2>1 DEF TypeOK, RefuseOvertaken, rows, process, wire, ghost
<1>8. ASSUME NEW gone, Record(m, gone)
      PROVE  /\ sess' \in [Nonce -> SessionRow] /\ ledger' \subseteq LedgerRow
             /\ history' \in Seq(Effect) /\ replies' \subseteq Reply /\ prepared' \subseteq Mutation
             /\ UNCHANGED <<nonce, process, wire, bound>>
  BY <1>8, RecordType DEF Record
<1>9. m.req.cmd.name \in Name \cup {None} /\ m.req.cmd.target \in NullableUsn
  BY MutationType
<1>4. CASE Write(m)
  BY <1>4, <1>8 DEF TypeOK, Write, process, wire
<1>5. CASE CreateSlot(m)
  <2>1. Record(m, {}) /\ pending' = pending
    BY <1>5 DEF CreateSlot
  <2>2. PICK u \in Usn : /\ slot' = [slot EXCEPT ![u] = m.req.cmd.name]
                         /\ gen' = [gen EXCEPT ![u] = @ + 1]
                         /\ active' = IF active = 0 THEN u ELSE active
    BY <1>5 DEF CreateSlot
  <2>3. slot' \in [Usn -> Name \cup {None}] /\ gen' \in [Usn -> Nat]
    BY <2>2, <1>9 DEF TypeOK
  <2>4. active' \in NullableUsn
    BY <2>2 DEF TypeOK, NullableUsn, Usn
  <2> QED
    BY <2>1, <2>3, <2>4, <1>8 DEF TypeOK, process, wire
<1>6. CASE RequestSwitch(m)
  BY <1>6, <1>8, <1>9 DEF TypeOK, RequestSwitch, process, wire
<1>7. CASE DeleteInactiveSlot(m)
  <2>1. slot' \in [Usn -> Name \cup {None}]
    BY <1>7 DEF TypeOK, DeleteInactiveSlot
  <2> QED
    BY <2>1, <1>7, <1>8 DEF TypeOK, DeleteInactiveSlot, process, wire
<1> QED
  BY <1>1, <1>2, <1>3, <1>4, <1>5, <1>6, <1>7 DEF CommitRpcMutation

LEMMA TypeStep ==
  ASSUME IInv, [Next]_vars
  PROVE  TypeOK'
<1>1. TypeOK /\ Sessions /\ Provenance
  BY DEF IInv
<1>2. CASE UNCHANGED vars
  BY <1>1, <1>2 DEF TypeOK, vars, rows, process, wire, ghost
<1>3. CASE Next
  BY <1>1, <1>3, StartType, LoginType, PublishType, SendType, DispatchType, StopType, CommitType
  DEF Next, Crash
<1> QED
  BY <1>2, <1>3

-----------------------------------------------------------------------------
(* The initial states, and the steps that record nothing.                  *)
LEMMA InitInvariant == Init => IInv
<1> SUFFICES ASSUME Init PROVE IInv
  OBVIOUS
<1>1. TypeOK
  BY InitType
<1>2. history = <<>> /\ ledger = {} /\ replies = {} /\ Len(history) = 0
  BY DEF Init
<1>3. Sessions
  BY DEF Init, Sessions, Nonce, NoRow
<1>4. Capabilities
  BY DEF Init, Capabilities, Issued, Nonce
<1>5. Provenance
  BY DEF Init, Provenance, BoundTo, NoClient
<1>6. SelectionExists
  BY DEF Init, SelectionExists
<1>7. Progress /\ LedgerComplete /\ LedgerSound
  BY <1>2 DEF Progress, LedgerComplete, LedgerSound
<1>8. InSessionOrder /\ NoForeignWrite /\ RefusedHasNoEffect /\ ReplyIsOwnEffect
  BY <1>2 DEF InSessionOrder, NoForeignWrite, RefusedHasNoEffect, ReplyIsOwnEffect
<1> QED
  BY <1>1, <1>3, <1>4, <1>5, <1>6, <1>7, <1>8 DEF IInv

(* The record of what was committed, refused and answered.                 *)
Books ==
  /\ Progress /\ LedgerComplete /\ LedgerSound
  /\ InSessionOrder /\ NoForeignWrite /\ RefusedHasNoEffect /\ ReplyIsOwnEffect

LEMMA BooksUntouched ==
  ASSUME IInv, UNCHANGED <<nonce, sess, ledger, replies, history, bound>>, sent \subseteq sent'
  PROVE  Books'
<1>1. Progress'
  BY DEF IInv, Progress, Issued
<1>2. LedgerComplete' /\ LedgerSound'
  BY DEF IInv, LedgerComplete, LedgerSound
<1>3. InSessionOrder' /\ NoForeignWrite'
  BY DEF IInv, InSessionOrder, NoForeignWrite
<1>4. RefusedHasNoEffect' /\ ReplyIsOwnEffect'
  BY DEF IInv, RefusedHasNoEffect, ReplyIsOwnEffect
<1> QED
  BY <1>1, <1>2, <1>3, <1>4 DEF Books

LEMMA StartStep ==
  ASSUME IInv, NEW s \in Server, NEW c \in Capability, Start(s, c)
  PROVE  Sessions' /\ Capabilities' /\ Provenance' /\ SelectionExists' /\ Books'
<1>1. TypeOK /\ 1 \in Usn
  BY DEF IInv, Usn
<1>2. ASSUME \A u \in Usn : slot[u] = None PROVE Sessions' /\ SelectionExists'
  <2>1. \A n \in Nonce : sess[n].usn = 0 /\ sess[n] = NoRow /\ ~ sess[n].open
    <3>1. ASSUME NEW n \in Nonce PROVE sess[n].usn \in NullableUsn
      BY <1>1 DEF TypeOK, SessionRow
    <3>2. ASSUME NEW n \in Nonce PROVE sess[n].usn = 0
      BY <3>1, <1>2 DEF IInv, Sessions, NullableUsn, Usn
    <3> QED
      BY <3>2 DEF IInv, Sessions, NoRow
  <2>2. Sessions'
    BY <2>1 DEF IInv, Sessions, Start, NoRow
  <2>3. pending = 0 /\ active = 0 /\ active' = 1 /\ pending' = 0 /\ slot'[1] # None
    BY <1>1, <1>2 DEF IInv, SelectionExists, TypeOK, NullableUsn, Usn, Start
  <2> QED
    BY <2>2, <2>3 DEF SelectionExists
<1>3. ASSUME ~ \A u \in Usn : slot[u] = None PROVE Sessions' /\ SelectionExists'
  <2>1. UNCHANGED <<slot, gen, active, pending, nonce, sess, bound>>
    BY <1>3 DEF Start
  <2> QED
    BY <2>1 DEF IInv, Sessions, SelectionExists
<1>4. Sessions' /\ SelectionExists'
  BY <1>2, <1>3
<1>5. Capabilities'
  BY <1>1 DEF IInv, Capabilities, Start, Issued, TypeOK
<1>6. Provenance'
  BY <1>1 DEF IInv, Provenance, Start, Issued, BoundTo, TypeOK, wire
<1>7. Books'
  BY BooksUntouched DEF Start, wire
<1> QED
  BY <1>4, <1>5, <1>6, <1>7

LEMMA LoginStep ==
  ASSUME IInv, NEW s \in Server, BeginLogin(s)
  PROVE  Sessions' /\ Capabilities' /\ Provenance' /\ SelectionExists' /\ Books'
<1>a. PICK n \in Nonce : n = nonce + 1
  BY DEF BeginLogin
<1>b. PICK u \in Usn : u = IF pending # 0 THEN pending ELSE active
  BY DEF BeginLogin, IInv, TypeOK, NullableUsn, Usn
<1>1. TypeOK /\ nonce \in Nat /\ ~ Issued(n)
  BY <1>a DEF IInv, TypeOK, NullableNonce, Nonce, Issued
<1>2. /\ nonce' = n /\ active' = u /\ pending' = 0 /\ slot' = slot /\ gen' = gen
      /\ bound' = [bound EXCEPT ![n] = [usn |-> u, gen |-> gen[u], cap |-> srvCap[s]]]
      /\ UNCHANGED <<ledger, phase, srvCap, session, current, cap, spent, client, sent,
                     prepared, replies, history>>
  BY <1>a, <1>b DEF BeginLogin, wire
<1>3. slot[u] # None
  BY <1>b DEF IInv, SelectionExists, Usn
<1>4. sess'[n] = [usn |-> u, cap |-> srvCap[s], seq |-> 0, open |-> TRUE]
  BY <1>a, <1>b DEF BeginLogin
<1>5. ASSUME NEW k \in Nonce, k # n
      PROVE  /\ sess'[k] = Ended(sess[k])
             /\ sess'[k].usn = sess[k].usn /\ sess'[k].cap = sess[k].cap
             /\ sess'[k].seq = sess[k].seq /\ ~ sess'[k].open
             /\ bound'[k] = bound[k]
             /\ Issued(k)' <=> Issued(k)
  <2>1. sess'[k] = Ended(sess[k])
    BY <1>5, <1>a DEF BeginLogin
  <2>2. bound'[k] = bound[k]
    BY <1>1, <1>2, <1>5 DEF TypeOK
  <2>3. Issued(k)' <=> Issued(k)
    BY <1>a, <1>1, <1>2, <1>5 DEF Issued, Nonce
  <2> QED
    BY <2>1, <2>2, <2>3 DEF Ended
<1>6. bound'[n] = [usn |-> u, gen |-> gen[u], cap |-> srvCap[s]] /\ Issued(n)'
  BY <1>1, <1>2 DEF TypeOK, Issued, Nonce
<1>7. srvCap[s] = cap /\ cap # None /\ \A k \in Nonce : sess[k].cap # cap
  <2>1. srvCap[s] = cap /\ \A k \in Nonce : sess[k].cap # cap
    BY DEF IInv, Capabilities, BeginLogin, CapabilityUnused
  <2>2. sess[n] = NoRow
    BY <1>a, <1>1 DEF IInv, Sessions, Nonce
  <2> QED
    BY <1>1, <2>1, <2>2 DEF NoRow
<1>8. ASSUME NEW k \in Nonce, Issued(k) PROVE bound[k].cap # cap
  BY <1>7, <1>8 DEF IInv, Capabilities, Sessions
<1>9. Sessions'
  <2> SUFFICES ASSUME NEW k \in Nonce
               PROVE  /\ k > nonce' => sess'[k] = NoRow /\ bound'[k] = Unbound
                      /\ k <= nonce' => bound'[k].usn # 0 /\ bound'[k].cap # None
                      /\ sess'[k].usn = 0 => sess'[k] = NoRow
                      /\ sess'[k].usn # 0 =>
                           /\ bound'[k].usn = sess'[k].usn
                           /\ bound'[k].cap = sess'[k].cap
                           /\ bound'[k].gen = gen'[sess'[k].usn]
                           /\ slot'[sess'[k].usn] # None
                      /\ sess'[k].open => k = nonce' /\ sess'[k].usn = active' /\ active' # 0
    BY DEF Sessions
  <2>1. u # 0
    BY <1>1 DEF Usn
  <2>2. CASE k = n
    BY <2>1, <2>2, <1>1, <1>2, <1>3, <1>4, <1>6, <1>7 DEF Nonce
  <2>3. CASE k # n
    <3>1. /\ sess[k].usn = 0 => sess[k] = NoRow
          /\ sess[k].usn # 0 =>
               /\ bound[k].usn = sess[k].usn
               /\ bound[k].cap = sess[k].cap
               /\ bound[k].gen = gen[sess[k].usn]
               /\ slot[sess[k].usn] # None
          /\ k > nonce => sess[k] = NoRow /\ bound[k] = Unbound
          /\ k <= nonce => bound[k].usn # 0 /\ bound[k].cap # None
      BY DEF IInv, Sessions
    <3>2. Ended(NoRow) = NoRow
      BY DEF Ended, NoRow
    <3>3. k > nonce' => k > nonce
      BY <1>a, <1>1, <1>2 DEF Nonce
    <3>4. k <= nonce' => k <= nonce
      BY <1>a, <1>1, <1>2, <2>3 DEF Nonce
    <3> QED
      BY <2>3, <1>2, <1>5, <3>1, <3>2, <3>3, <3>4
  <2> QED
    BY <2>2, <2>3
<1>10. Capabilities'
  <2>1. \A k \in Nonce : Issued(k)' => bound'[k].cap \in spent'
    BY <1>2, <1>5, <1>6, <1>7 DEF IInv, Capabilities
  <2>2. \A k \in Nonce : Issued(k)' /\ bound'[k].cap = cap => k = n
    BY <1>5, <1>8
  <2>3. \A k, j \in Nonce : Issued(k)' /\ Issued(j)' /\ bound'[k].cap = bound'[j].cap => k = j
    <3> SUFFICES ASSUME NEW k \in Nonce, NEW j \in Nonce, Issued(k)', Issued(j)',
                        bound'[k].cap = bound'[j].cap
                 PROVE  k = j
      OBVIOUS
    <3>1. CASE k = n \/ j = n
      BY <3>1, <2>2, <1>6, <1>7
    <3>2. CASE k # n /\ j # n
      BY <3>2, <1>5 DEF IInv, Capabilities
    <3> QED
      BY <3>1, <3>2
  <2>4. sess'[n].usn # 0
    BY <1>1, <1>4 DEF Usn
  <2> QED
    BY <1>2, <2>1, <2>2, <2>3, <2>4 DEF IInv, Capabilities
<1>11. ASSUME NEW k \in Nonce, Issued(k)
       PROVE  k # n /\ Issued(k)' /\ bound'[k] = bound[k]
  BY <1>1, <1>5, <1>11
<1>12. Provenance'
  <2>1. \A t \in Server : /\ phase'[t] = "off" => session'[t] = NoSession
                          /\ phase'[t] # "up" => login'[t] = NoSession
    BY <1>2 DEF IInv, Provenance, BeginLogin
  <2>2. ASSUME NEW t \in Server PROVE BoundTo(session[t], srvCap[t])'
    BY <1>2, <1>11 DEF IInv, Provenance, BoundTo, Issued
  <2>3. ASSUME NEW t \in Server PROVE BoundTo(login[t], srvCap[t])'
    <3>1. CASE t # s
      <4>1. login'[t] = login[t]
        BY <1>1, <3>1 DEF BeginLogin, TypeOK
      <4> QED
        BY <4>1, <1>2, <1>11 DEF IInv, Provenance, BoundTo, Issued
    <3>2. CASE t = s
      <4>1. login'[t] = [nonce |-> n, usn |-> u]
        BY <1>a, <1>b, <1>1, <3>2 DEF BeginLogin, TypeOK
      <4> QED
        BY <4>1, <3>2, <1>2, <1>6 DEF BoundTo
    <3> QED
      BY <3>1, <3>2
  <2>4. client'.nonce # 0 => Issued(client.nonce)' /\ bound'[client'.nonce].cap = client'.cap
    BY <1>2, <1>11 DEF IInv, Provenance, Issued
  <2>5. \A r \in sent' : Issued(r.from)' /\ bound'[r.from].cap = r.cap /\ r.cmd \in IssuedCommand
    BY <1>2, <1>11 DEF IInv, Provenance, Issued
  <2>6. \A m \in prepared' : /\ Issued(m.nonce)' /\ bound'[m.nonce].usn = m.usn
                             /\ bound'[m.nonce].cap = m.req.cap /\ m.req \in sent'
    BY <1>2, <1>11 DEF IInv, Provenance, Issued
  <2> QED
    BY <2>1, <2>2, <2>3, <2>4, <2>5, <2>6, <1>2 DEF Provenance
<1>13. SelectionExists'
  BY <1>2, <1>3 DEF SelectionExists
<1>14. Books'
  <2>1. ASSUME NEW i \in 1 .. Len(history)
        PROVE  /\ history[i].nonce \in Nonce /\ history[i].nonce # n
               /\ Issued(history[i].nonce)'
               /\ sess'[history[i].nonce].usn = sess[history[i].nonce].usn
               /\ sess'[history[i].nonce].seq = sess[history[i].nonce].seq
               /\ bound'[history[i].nonce] = bound[history[i].nonce]
    <3>1. history[i].nonce \in Nonce /\ Issued(history[i].nonce)
      BY DEF IInv, Progress, Issued
    <3> QED
      BY <3>1, <1>5, <1>11, <1>2 DEF Issued
  <2>2. Progress'
    <3>1. ASSUME NEW r \in replies
          PROVE  /\ sess'[r.req.from].usn = sess[r.req.from].usn
                 /\ sess'[r.req.from].seq = sess[r.req.from].seq
      BY <1>5, <1>11 DEF IInv, Progress, Provenance, Issued
    <3> QED
      BY <2>1, <3>1, <1>2 DEF IInv, Progress
  <2>3. LedgerComplete' /\ LedgerSound'
    BY <2>1, <1>2 DEF IInv, LedgerComplete, LedgerSound
  <2>4. InSessionOrder' /\ RefusedHasNoEffect' /\ ReplyIsOwnEffect'
    BY <1>2 DEF IInv, InSessionOrder, RefusedHasNoEffect, ReplyIsOwnEffect
  <2>5. NoForeignWrite'
    BY <1>2, <2>1 DEF IInv, NoForeignWrite
  <2> QED
    BY <2>2, <2>3, <2>4, <2>5 DEF Books
<1> QED
  BY <1>9, <1>10, <1>12, <1>13, <1>14

(* Steps that leave the rows and the bindings alone.                       *)
LEMMA RowsUntouched ==
  ASSUME IInv, UNCHANGED <<rows, ghost>>
  PROVE  Sessions' /\ SelectionExists'
BY DEF IInv, Sessions, SelectionExists, rows, ghost

LEMMA PublishStep ==
  ASSUME IInv, NEW s \in Server, PublishSession(s)
  PROVE  Sessions' /\ Capabilities' /\ Provenance' /\ SelectionExists' /\ Books'
<1>1. TypeOK
  BY DEF IInv
<1>2. Sessions' /\ SelectionExists'
  BY RowsUntouched DEF PublishSession
<1>3. Capabilities'
  BY DEF IInv, Capabilities, PublishSession, Issued, rows, ghost
<1>4. Provenance'
  <2>1. /\ UNCHANGED <<nonce, bound, phase, srvCap, sent, prepared>>
        /\ login' = [login EXCEPT ![s] = NoSession]
        /\ session' = [session EXCEPT ![s] = login[s]]
        /\ client'.nonce = login[s].nonce /\ client'.cap = srvCap[s]
        /\ login[s] # NoSession
    BY DEF PublishSession, rows, ghost
  <2>2. BoundTo(login[s], srvCap[s]) /\ phase[s] = "up"
    BY <2>1 DEF IInv, Provenance
  <2>3. ASSUME NEW t \in Server
        PROVE  /\ phase'[t] = "off" => session'[t] = NoSession
               /\ phase'[t] # "up" => login'[t] = NoSession
    BY <1>1, <2>1, <2>2 DEF IInv, Provenance, TypeOK
  <2>4. ASSUME NEW t \in Server
        PROVE  BoundTo(login[t], srvCap[t])' /\ BoundTo(session[t], srvCap[t])'
    BY <1>1, <2>1, <2>2 DEF IInv, Provenance, TypeOK, BoundTo, Issued
  <2>5. Issued(client.nonce)' /\ bound'[client'.nonce].cap = client'.cap
    BY <2>1, <2>2 DEF BoundTo, Issued
  <2> QED
    BY <2>1, <2>3, <2>4, <2>5 DEF IInv, Provenance, Issued
<1>5. Books'
  BY BooksUntouched DEF PublishSession, rows, ghost
<1> QED
  BY <1>2, <1>3, <1>4, <1>5

LEMMA SendStep ==
  ASSUME IInv, NEW c \in IssuedCommand, NEW u \in NullableUsn, Send(c, u)
  PROVE  Sessions' /\ Capabilities' /\ Provenance' /\ SelectionExists' /\ Books'
<1>1. Sessions' /\ SelectionExists'
  BY RowsUntouched DEF Send
<1>2. Capabilities'
  BY DEF IInv, Capabilities, Send, Issued, rows, process, ghost
<1>3. Provenance'
  BY DEF IInv, Provenance, Send, Issued, BoundTo, rows, process, ghost
<1>4. Books'
  BY BooksUntouched DEF Send, rows, ghost
<1> QED
  BY <1>1, <1>2, <1>3, <1>4

LEMMA DispatchStep ==
  ASSUME IInv, NEW s \in Server, NEW r \in sent, Dispatch(s, r)
  PROVE  Sessions' /\ Capabilities' /\ Provenance' /\ SelectionExists' /\ Books'
<1>1. Sessions' /\ SelectionExists'
  BY RowsUntouched DEF Dispatch
<1>2. Capabilities'
  BY DEF IInv, Capabilities, Dispatch, Issued, rows, process, ghost
<1>3. Provenance'
  BY DEF IInv, Provenance, Dispatch, Issued, BoundTo, rows, process, wire, ghost
<1>4. Books'
  BY BooksUntouched DEF Dispatch, rows, wire, ghost
<1> QED
  BY <1>1, <1>2, <1>3, <1>4

LEMMA StopStep ==
  ASSUME IInv, NEW s \in Server, Stop(s) \/ Exit(s) \/ Crash
  PROVE  Sessions' /\ Capabilities' /\ Provenance' /\ SelectionExists' /\ Books'
<1>1. TypeOK
  BY DEF IInv
<1>2. UNCHANGED <<rows, ghost, sent, cap, spent, replies, history>> /\ prepared' \subseteq prepared
  BY DEF Stop, Exit, Crash, wire
<1>3. Sessions' /\ SelectionExists' /\ Books'
  BY <1>2, RowsUntouched, BooksUntouched DEF rows, ghost
<1>4. CASE Stop(s)
  <2>1. Capabilities'
    BY <1>2, <1>4 DEF IInv, Capabilities, Stop, Issued, rows, ghost
  <2>2. Provenance'
    BY <1>1, <1>2, <1>4 DEF IInv, Provenance, Stop, Issued, BoundTo, rows, ghost, TypeOK, NoClient
  <2> QED
    BY <1>3, <2>1, <2>2
<1>5. CASE Exit(s)
  <2>1. Capabilities'
    BY <1>1, <1>2, <1>5 DEF IInv, Capabilities, Exit, Issued, rows, ghost, TypeOK
  <2>2. Provenance'
    BY <1>1, <1>2, <1>5 DEF IInv, Provenance, Exit, Issued, BoundTo, rows, wire, ghost, TypeOK
  <2> QED
    BY <1>3, <2>1, <2>2
<1>6. CASE Crash
  <2>1. Capabilities'
    BY <1>2, <1>6 DEF IInv, Capabilities, Crash, Issued, rows, ghost
  <2>2. Provenance'
    BY <1>2, <1>6 DEF IInv, Provenance, Crash, Issued, BoundTo, rows, ghost, NoClient
  <2> QED
    BY <1>3, <2>1, <2>2
<1> QED
  BY <1>4, <1>5, <1>6

-----------------------------------------------------------------------------
(* A prepared mutation belongs to the login that built its request, and    *)
(* the capability of a request determines that login.                      *)
LEMMA MutationOrigin ==
  ASSUME IInv, NEW m \in prepared
  PROVE  /\ m.req \in sent /\ m.req.from = m.nonce
         /\ m.nonce \in Nonce /\ Issued(m.nonce)
         /\ bound[m.nonce].usn = m.usn
<1>1. /\ m.req \in sent /\ Issued(m.nonce) /\ bound[m.nonce].usn = m.usn
      /\ bound[m.nonce].cap = m.req.cap
  BY DEF IInv, Provenance
<1>2. Issued(m.req.from) /\ bound[m.req.from].cap = m.req.cap
  BY <1>1 DEF IInv, Provenance
<1>3. m.nonce \in Nonce /\ m.req.from \in Nonce
  BY <1>1, <1>2 DEF Issued
<1>4. m.req.from = m.nonce
  BY <1>1, <1>2, <1>3 DEF IInv, Capabilities
<1> QED
  BY <1>1, <1>3, <1>4

(* If its session is active, that session is the latest and its slot is    *)
(* the active one.                                                         *)
LEMMA ActiveIsLatest ==
  ASSUME IInv, NEW m \in prepared, ActiveSession(m)
  PROVE  /\ m.nonce = nonce /\ m.usn = active /\ m.usn \in Usn /\ m.usn # 0
         /\ sess[m.nonce].usn = m.usn /\ bound[m.nonce].gen = gen[m.usn]
<1>1. m.nonce \in Nonce /\ m.usn \in Usn
  BY MutationType DEF IInv
<1>2. sess[m.nonce].usn = m.usn /\ sess[m.nonce].open /\ m.usn # 0
  BY <1>1 DEF ActiveSession, Usn
<1> QED
  BY <1>1, <1>2 DEF IInv, Sessions

(* Two requests of one login with the same gameplay key are the same       *)
(* request.                                                                *)
LEMMA SameRequest ==
  ASSUME IInv, NEW m \in prepared, NEW i \in 1 .. Len(history),
         EffectKey(history[i]) = IdempotencyKey(m), ~ IsAdmin(m.req)
  PROVE  history[i].req = m.req
<1> DEFINE h == history[i].req
<1>1. h \in sent /\ history[i].nonce = h.from
  BY DEF IInv, Progress, NoForeignWrite
<1>2. h \in Request /\ m.req \in Request
  BY <1>1, MutationOrigin DEF IInv, TypeOK
<1>3. h.cmd.op = m.req.cmd.op /\ m.req.cmd.op = "write"
  BY DEF EffectKey, IdempotencyKey, IsAdmin
<1>4. h.seq = m.req.seq /\ history[i].nonce = m.nonce /\ h.u_seq = m.req.u_seq
  BY <1>3 DEF EffectKey, IdempotencyKey, IsAdmin
<1>5. h.from = m.req.from
  BY <1>1, <1>4, MutationOrigin
<1>6. h.cap = m.req.cap
  BY <1>1, <1>5, MutationOrigin DEF IInv, Provenance
<1>7. h.cmd = m.req.cmd
  <2>1. h.cmd \in IssuedCommand /\ m.req.cmd \in IssuedCommand
    BY <1>1, MutationOrigin DEF IInv, Provenance
  <2>2. h.cmd.target = 0 /\ m.req.cmd.target = 0 /\ h.cmd.name = None /\ m.req.cmd.name = None
    BY <1>3, <2>1 DEF IssuedCommand
  <2> QED
    BY <1>3, <2>1, <2>2 DEF IssuedCommand, Command
<1> QED
  BY <1>2, <1>4, <1>5, <1>6, <1>7 DEF Request

(* Any effect of a request is in the ledger under that request's key.      *)
LEMMA CommittedIsRecorded ==
  ASSUME IInv, NEW m \in prepared, ActiveSession(m), NEW i \in 1 .. Len(history),
         history[i].req = m.req
  PROVE  Recorded(m) # {}
<1>1. history[i].nonce = m.nonce /\ bound[history[i].nonce].usn = history[i].usn
  BY MutationOrigin DEF IInv, NoForeignWrite
<1>2. history[i].usn = m.usn /\ sess[history[i].nonce].usn # 0
  BY <1>1, MutationOrigin, ActiveIsLatest
<1>3. EffectKey(history[i]) = IdempotencyKey(m)
  BY <1>1 DEF EffectKey, IdempotencyKey
<1>4. PICK row \in ledger : row.usn = history[i].usn /\ row.key = EffectKey(history[i])
  BY <1>2 DEF IInv, LedgerComplete
<1> QED
  BY <1>2, <1>3, <1>4 DEF Recorded

-----------------------------------------------------------------------------
(* An answer that commits nothing.                                         *)
LEMMA ReplayStep ==
  ASSUME IInv, NEW m \in prepared, Replay(m)
  PROVE  Books'
<1>1. ActiveSession(m) /\ UNCHANGED <<rows, process, wire, history, ghost>>
  BY DEF Replay
<1>2. PICK row \in Recorded(m) :
        IF row.seq = m.req.seq /\ row.op = m.req.cmd.op
        THEN Answer(m, "ok", row.effect) ELSE Answer(m, "conflict", 0)
  BY DEF Replay
<1>3. row \in ledger /\ row.key = IdempotencyKey(m)
  BY <1>2 DEF Recorded
<1>4. /\ row.effect \in 1 .. Len(history) /\ EffectKey(history[row.effect]) = IdempotencyKey(m)
      /\ row.seq = row.key.seq /\ row.op = row.key.op
  BY <1>3 DEF IInv, LedgerSound
<1>5. row.seq = m.req.seq /\ row.op = m.req.cmd.op
  BY <1>3, <1>4 DEF IdempotencyKey
<1>6. replies' = replies \cup {[req |-> m.req, kind |-> "ok", effect |-> row.effect]}
  BY <1>2, <1>5 DEF Answer
<1>7. Progress' /\ RefusedHasNoEffect'
  BY <1>1, <1>6, MutationOrigin DEF IInv, Progress, RefusedHasNoEffect, Issued, rows, wire
<1>8. ReplyIsOwnEffect'
  <2>1. ~ IsAdmin(m.req) => history[row.effect].req = m.req
    BY <1>4, SameRequest
  <2> QED
    BY <1>1, <1>4, <1>6, <2>1 DEF IInv, ReplyIsOwnEffect
<1>9. LedgerComplete' /\ LedgerSound' /\ InSessionOrder' /\ NoForeignWrite'
  BY <1>1 DEF IInv, LedgerComplete, LedgerSound, InSessionOrder, NoForeignWrite, rows, ghost
<1> QED
  BY <1>7, <1>8, <1>9 DEF Books

LEMMA OvertakenStep ==
  ASSUME IInv, NEW m \in prepared, RefuseOvertaken(m)
  PROVE  Books'
<1>1. /\ ActiveSession(m) /\ Recorded(m) = {} /\ ~ SequenceAdvances(m)
      /\ UNCHANGED <<rows, process, wire, history, ghost>>
      /\ replies' = replies \cup {[req |-> m.req, kind |-> "stale", effect |-> 0]}
  BY DEF RefuseOvertaken, Answer
<1>2. \A i \in 1 .. Len(history) : history[i].req # m.req
  BY <1>1, CommittedIsRecorded
<1>3. m.req.seq <= sess[m.req.from].seq
  <2>1. m.req.seq \in Nat /\ sess[m.nonce].seq \in Nat
    BY MutationType DEF IInv, TypeOK, SessionRow
  <2> QED
    BY <1>1, <2>1, MutationOrigin DEF SequenceAdvances
<1>4. Progress'
  BY <1>1, <1>3, MutationOrigin DEF IInv, Progress, Issued, rows, wire
<1>5. RefusedHasNoEffect' /\ ReplyIsOwnEffect'
  BY <1>1, <1>2 DEF IInv, RefusedHasNoEffect, ReplyIsOwnEffect
<1>6. LedgerComplete' /\ LedgerSound' /\ InSessionOrder' /\ NoForeignWrite'
  BY <1>1 DEF IInv, LedgerComplete, LedgerSound, InSessionOrder, NoForeignWrite, rows, ghost
<1> QED
  BY <1>4, <1>5, <1>6 DEF Books

-----------------------------------------------------------------------------
(* A command that is committed.  `gone' is empty or the deleted slot, never *)
(* the slot of the session itself.                                         *)
LEMMA RecordStep ==
  ASSUME IInv, NEW m \in prepared, NEW gone, m.usn \notin gone, 0 \notin gone, Record(m, gone)
  PROVE  Books'
<1> DEFINE e == [req |-> m.req, nonce |-> m.nonce, usn |-> m.usn, gen |-> gen[m.usn]]
           row == [usn |-> m.usn, key |-> IdempotencyKey(m), seq |-> m.req.seq,
                   op |-> m.req.cmd.op, effect |-> Len(history) + 1]
           L == Len(history)
<1>1. /\ ActiveSession(m) /\ Recorded(m) = {} /\ SequenceAdvances(m)
      /\ ledger' = {x \in ledger : x.usn \notin gone} \cup {row}
      /\ replies' = replies \cup {[req |-> m.req, kind |-> "ok", effect |-> L + 1]}
      /\ nonce' = nonce /\ sent' = sent /\ bound' = bound
  BY DEF Record, Answer, wire
<1>2. /\ L \in Nat /\ Len(history') = L + 1 /\ history'[L + 1] = e
      /\ \A i \in 1 .. L : history'[i] = history[i]
  BY RecordType DEF IInv, TypeOK
<1>3. /\ e.req = m.req /\ e.nonce = m.nonce /\ e.usn = m.usn /\ e.gen = gen[m.usn]
      /\ row.usn = m.usn /\ row.key = IdempotencyKey(m) /\ row.effect = L + 1
      /\ row.seq = row.key.seq /\ row.op = row.key.op
      /\ EffectKey(e) = IdempotencyKey(m)
  BY DEF EffectKey, IdempotencyKey
<1> HIDE DEF e, row
<1>4. \A i \in 1 .. L + 1 : i \in 1 .. L \/ i = L + 1
  BY <1>2
<1>5. /\ m.req \in sent /\ m.req.from = m.nonce /\ m.nonce \in Nonce /\ Issued(m.nonce)
      /\ bound[m.nonce].usn = m.usn /\ m.nonce = nonce /\ m.usn # 0
      /\ bound[m.nonce].gen = gen[m.usn] /\ sess[m.nonce].usn = m.usn
  BY <1>1, MutationOrigin, ActiveIsLatest
<1>6. m.req.seq \in Nat /\ \A n \in Nonce : sess[n].seq \in Nat
  BY MutationType DEF IInv, TypeOK, SessionRow
<1>7. sess[m.nonce].seq < m.req.seq
  BY <1>1 DEF SequenceAdvances
<1>8. ASSUME NEW n \in Nonce, sess'[n].usn # 0
      PROVE  /\ sess'[n].usn = sess[n].usn /\ sess[n].usn # 0 /\ sess[n].usn \notin gone
             /\ sess'[n].seq \in Nat /\ sess[n].seq <= sess'[n].seq
             /\ n = m.nonce => sess'[n].seq = m.req.seq
  <2>1. sess'[n] = IF sess[n].usn \in gone THEN NoRow
                   ELSE IF n = m.nonce THEN Advanced(sess[n], m.req.seq) ELSE sess[n]
    BY DEF Record
  <2>2. sess[n].usn \notin gone
    BY <1>8, <2>1 DEF NoRow
  <2>3. CASE n = m.nonce
    BY <1>6, <1>7, <1>8, <2>1, <2>2, <2>3 DEF Advanced
  <2>4. CASE n # m.nonce
    BY <1>6, <1>8, <2>1, <2>2, <2>4
  <2> QED
    BY <2>2, <2>3, <2>4
<1>9. ASSUME NEW i \in 1 .. L
      PROVE  /\ history'[i] = history[i] /\ history[i].nonce \in Nonce /\ Issued(history[i].nonce)
             /\ history[i].req \in sent /\ history[i].req.from = history[i].nonce
             /\ history[i].usn = bound[history[i].nonce].usn
             /\ history[i].req.seq \in Nat
             /\ sess[history[i].nonce].usn # 0
                  => history[i].req.seq <= sess[history[i].nonce].seq
  <2>1. history[i].req \in sent /\ Issued(history[i].nonce)
    BY DEF IInv, Progress
  <2>2. history[i].req \in Request
    BY <2>1 DEF IInv, TypeOK
  <2>3. history[i].req.seq \in Nat
    BY <2>2 DEF Request
  <2> QED
    BY <1>2, <2>1, <2>3 DEF IInv, Progress, NoForeignWrite, Issued
<1>10. ASSUME NEW r \in replies
       PROVE  /\ r.req \in sent /\ r.req.from \in Nonce /\ r.req.seq \in Nat
              /\ r.kind = "stale" /\ sess[r.req.from].usn # 0
                   => r.req.seq <= sess[r.req.from].seq
  <2>1. r.req \in Request
    BY DEF IInv, Progress, TypeOK
  <2> QED
    BY <2>1 DEF IInv, Progress, Request
<1>11. Progress'
  <2>1. ASSUME NEW i \in 1 .. Len(history')
        PROVE  /\ Issued(history[i].nonce)' /\ history'[i].req \in sent'
               /\ sess'[history'[i].nonce].usn # 0
                    => history'[i].req.seq <= sess'[history'[i].nonce].seq
    <3>1. CASE i \in 1 .. L
      <4> DEFINE n == history[i].nonce
      <4>1. /\ history'[i].nonce = n /\ history'[i].req = history[i].req
            /\ n \in Nonce /\ Issued(n) /\ history[i].req \in sent /\ history[i].req.seq \in Nat
            /\ sess[n].usn # 0 => history[i].req.seq <= sess[n].seq
        BY <3>1, <1>9
      <4>2. Issued(history[i].nonce)' /\ history'[i].req \in sent'
        BY <4>1, <1>1 DEF Issued
      <4>3. ASSUME sess'[n].usn # 0
            PROVE  history[i].req.seq <= sess'[n].seq
        <5> HIDE DEF n
        <5>1. /\ sess[n].usn # 0 /\ sess'[n].seq \in Nat /\ sess[n].seq \in Nat
              /\ sess[n].seq <= sess'[n].seq
          BY <4>1, <4>3, <1>6, <1>8
        <5> QED
          BY <4>1, <5>1
      <4> QED
        BY <4>1, <4>2, <4>3
    <3>2. CASE i = L + 1
      BY <3>2, <1>1, <1>2, <1>3, <1>5, <1>6, <1>8 DEF Issued
    <3> QED
      BY <1>2, <1>4, <3>1, <3>2
  <2>2. ASSUME NEW r \in replies'
        PROVE  /\ r.req \in sent'
               /\ r.kind = "stale" /\ sess'[r.req.from].usn # 0
                    => r.req.seq <= sess'[r.req.from].seq
    <3>1. CASE r \in replies
      BY <3>1, <1>1, <1>6, <1>8, <1>10
    <3>2. CASE r \notin replies
      BY <3>2, <1>1, <1>5
    <3> QED
      BY <3>1, <3>2
  <2> QED
    BY <2>1, <2>2 DEF Progress
<1>12. LedgerComplete'
  <2> SUFFICES ASSUME NEW i \in 1 .. Len(history'), sess'[history'[i].nonce].usn # 0
               PROVE  \E x \in ledger' : x.usn = history'[i].usn /\ x.key = EffectKey(history'[i])
    BY DEF LedgerComplete, EffectKey, IdempotencyKey, IsAdmin
  <2>1. CASE i \in 1 .. L
    <3>1. /\ sess[history[i].nonce].usn # 0 /\ sess[history[i].nonce].usn \notin gone
          /\ history'[i] = history[i]
      BY <2>1, <1>8, <1>9
    <3>2. history[i].usn \notin gone
      BY <2>1, <3>1, <1>9 DEF IInv, Sessions
    <3>3. PICK x \in ledger : x.usn = history[i].usn /\ x.key = EffectKey(history[i])
      BY <2>1, <3>1 DEF IInv, LedgerComplete
    <3> QED
      BY <1>1, <3>1, <3>2, <3>3
  <2>2. CASE i = L + 1
    BY <2>2, <1>1, <1>2, <1>3
  <2> QED
    BY <1>2, <1>4, <2>1, <2>2
<1>13. LedgerSound'
  <2> SUFFICES ASSUME NEW x \in ledger'
               PROVE  /\ x.effect \in 1 .. Len(history')
                      /\ x.key = EffectKey(history'[x.effect])
                      /\ x.seq = x.key.seq /\ x.op = x.key.op
    BY DEF LedgerSound, EffectKey, IdempotencyKey, IsAdmin
  <2>1. CASE x \in ledger
    BY <2>1, <1>2 DEF IInv, LedgerSound
  <2>2. CASE x = row
    BY <2>2, <1>2, <1>3
  <2> QED
    BY <1>1, <2>1, <2>2
<1>14. InSessionOrder'
  <2> SUFFICES ASSUME NEW i \in 1 .. Len(history'), NEW j \in 1 .. Len(history'),
                      i < j, history'[i].nonce = history'[j].nonce
               PROVE  history'[i].req.seq < history'[j].req.seq
    BY DEF InSessionOrder
  <2>1. i \in 1 .. L
    BY <1>2
  <2>2. CASE j \in 1 .. L
    BY <2>1, <2>2, <1>9 DEF IInv, InSessionOrder
  <2>3. CASE j = L + 1
    <3>1. history[i].nonce = m.nonce /\ history[i].req.seq <= sess[m.nonce].seq
      BY <2>1, <2>3, <1>2, <1>3, <1>5, <1>9
    <3>2. history'[i].req.seq = history[i].req.seq /\ history'[j].req.seq = m.req.seq
      BY <2>1, <2>3, <1>2, <1>3
    <3> QED
      BY <2>1, <3>1, <3>2, <1>5, <1>6, <1>7, <1>9
  <2> QED
    BY <1>2, <1>4, <2>2, <2>3
<1>15. NoForeignWrite'
  <2> SUFFICES ASSUME NEW i \in 1 .. Len(history')
               PROVE  /\ history'[i].nonce = history'[i].req.from
                      /\ bound'[history'[i].nonce].usn = history'[i].usn
                      /\ bound'[history'[i].nonce].gen = history'[i].gen
    BY DEF NoForeignWrite
  <2>1. CASE i \in 1 .. L
    BY <2>1, <1>1, <1>9 DEF IInv, NoForeignWrite
  <2>2. CASE i = L + 1
    BY <2>2, <1>1, <1>2, <1>3, <1>5
  <2> QED
    BY <1>2, <1>4, <2>1, <2>2
<1>16. RefusedHasNoEffect'
  <2> SUFFICES ASSUME NEW r \in replies', r.kind = "stale", NEW i \in 1 .. Len(history')
               PROVE  history'[i].req # r.req
    BY DEF RefusedHasNoEffect
  <2>1. r \in replies
    BY <1>1
  <2>2. CASE i \in 1 .. L
    BY <2>1, <2>2, <1>2 DEF IInv, RefusedHasNoEffect
  <2>3. CASE i = L + 1
    <3>1. ASSUME r.req = m.req PROVE FALSE
      BY <2>1, <3>1, <1>5, <1>6, <1>7, <1>10
    <3> QED
      BY <2>3, <3>1, <1>2, <1>3
  <2> QED
    BY <1>2, <1>4, <2>2, <2>3
<1>17. ReplyIsOwnEffect'
  <2> SUFFICES ASSUME NEW r \in replies', ~ IsAdmin(r.req), r.kind # "stale"
               PROVE  /\ r.kind = "ok"
                      /\ r.effect \in 1 .. Len(history')
                      /\ history'[r.effect].req = r.req
    BY DEF ReplyIsOwnEffect, IsAdmin
  <2>1. CASE r \in replies
    BY <2>1, <1>2 DEF IInv, ReplyIsOwnEffect
  <2>2. CASE r \notin replies
    BY <2>2, <1>1, <1>2, <1>3
  <2> QED
    BY <2>1, <2>2
<1> QED
  BY <1>11, <1>12, <1>13, <1>14, <1>15, <1>16, <1>17 DEF Books

(* The rows of the sessions that stay are those of slots that stay.        *)
LEMMA RecordSessions ==
  ASSUME IInv, NEW m \in prepared, NEW gone, m.usn \notin gone, 0 \notin gone, Record(m, gone),
         active' = active,
         \A u \in Usn : slot[u] # None /\ u \notin gone => slot'[u] # None /\ gen'[u] = gen[u]
  PROVE  Sessions' /\ Capabilities' /\ Provenance'
<1>1. /\ m.nonce = nonce /\ m.usn = active /\ m.usn # 0 /\ sess[m.nonce].usn = m.usn
      /\ m.nonce \in Nonce
  BY ActiveIsLatest, MutationOrigin DEF Record
<1>2. UNCHANGED <<nonce, process, wire, bound>> /\ prepared' \subseteq prepared
  BY DEF Record, Answer
<1>3. ASSUME NEW n \in Nonce
      PROVE  /\ n <= nonce => bound[n].usn # 0 /\ bound[n].cap # None
             /\ n > nonce => sess[n] = NoRow /\ bound[n] = Unbound
             /\ sess[n].usn = 0 => sess[n] = NoRow
             /\ sess[n].usn # 0 =>
                  /\ bound[n].usn = sess[n].usn /\ bound[n].cap = sess[n].cap
                  /\ bound[n].gen = gen[sess[n].usn] /\ slot[sess[n].usn] # None
             /\ sess[n].open => n = nonce /\ sess[n].usn = active /\ active # 0
             /\ sess[n].usn \in NullableUsn
  BY DEF IInv, Sessions, TypeOK, SessionRow
<1>4. ASSUME NEW n \in Nonce
      PROVE  \/ sess'[n] = NoRow
             \/ /\ sess[n].usn \notin gone
                /\ sess'[n].usn = sess[n].usn /\ sess'[n].cap = sess[n].cap
                /\ sess'[n].open => sess[n].open
                /\ n # m.nonce => sess'[n] = sess[n]
  BY DEF Record, Advanced
<1>5. sess'[m.nonce].usn = m.usn
  BY <1>1 DEF Record, Advanced
<1>6. Sessions'
  <2> SUFFICES ASSUME NEW n \in Nonce
               PROVE  /\ n > nonce' => sess'[n] = NoRow /\ bound'[n] = Unbound
                      /\ n <= nonce' => bound'[n].usn # 0 /\ bound'[n].cap # None
                      /\ sess'[n].usn = 0 => sess'[n] = NoRow
                      /\ sess'[n].usn # 0 =>
                           /\ bound'[n].usn = sess'[n].usn
                           /\ bound'[n].cap = sess'[n].cap
                           /\ bound'[n].gen = gen'[sess'[n].usn]
                           /\ slot'[sess'[n].usn] # None
                      /\ sess'[n].open => n = nonce' /\ sess'[n].usn = active' /\ active' # 0
    BY DEF Sessions
  <2>1. n <= nonce' => bound'[n].usn # 0 /\ bound'[n].cap # None
    BY <1>2, <1>3
  <2>2. CASE sess'[n] = NoRow
    BY <2>1, <2>2, <1>2, <1>3 DEF NoRow
  <2>3. CASE sess'[n] # NoRow
    <3>1. /\ sess[n].usn \notin gone /\ sess'[n].usn = sess[n].usn /\ sess'[n].cap = sess[n].cap
          /\ (sess'[n].open => sess[n].open)
          /\ (n # m.nonce => sess'[n] = sess[n])
      BY <2>3, <1>4
    <3>a. /\ n > nonce => sess[n] = NoRow /\ bound[n] = Unbound
          /\ sess[n].usn = 0 => sess[n] = NoRow
          /\ sess[n].open => n = nonce /\ sess[n].usn = active /\ active # 0
      BY <1>3
    <3>b. n = m.nonce => sess[n].usn # 0
      BY <1>1
    <3>c. sess[n] # NoRow
      BY <2>3, <3>1, <3>a, <3>b DEF NoRow
    <3>2. sess[n].usn # 0 /\ ~ (n > nonce)
      BY <3>a, <3>c
    <3>3. sess[n].usn \in Usn
      BY <3>2, <1>3 DEF NullableUsn, Usn
    <3>4. /\ bound'[n].usn = sess'[n].usn /\ bound'[n].cap = sess'[n].cap
          /\ bound'[n].gen = gen'[sess'[n].usn] /\ slot'[sess'[n].usn] # None
      BY <3>1, <3>2, <3>3, <1>2, <1>3
    <3>5. sess'[n].open => n = nonce' /\ sess'[n].usn = active' /\ active' # 0
      BY <3>1, <3>a, <1>2
    <3> QED
      BY <2>1, <3>1, <3>2, <3>4, <3>5, <1>2
  <2> QED
    BY <2>2, <2>3
<1>7. Capabilities'
  BY <1>1, <1>2, <1>5 DEF IInv, Capabilities, Issued, process
<1>8. Provenance'
  BY <1>2 DEF IInv, Provenance, Issued, BoundTo, process, wire
<1> QED
  BY <1>6, <1>7, <1>8

LEMMA CommitStep ==
  ASSUME IInv, NEW m \in prepared, CommitRpcMutation(m)
  PROVE  Sessions' /\ Capabilities' /\ Provenance' /\ SelectionExists' /\ Books'
<1>1. ASSUME UNCHANGED <<rows, process, wire, ghost>>, prepared' \subseteq prepared
      PROVE  Sessions' /\ Capabilities' /\ Provenance' /\ SelectionExists'
  <2>1. Sessions' /\ SelectionExists'
    BY <1>1, RowsUntouched
  <2>2. Capabilities'
    BY <1>1 DEF IInv, Capabilities, Issued, rows, process, ghost
  <2>3. Provenance'
    BY <1>1 DEF IInv, Provenance, Issued, BoundTo, rows, process, wire, ghost
  <2> QED
    BY <2>1, <2>2, <2>3
<1>2. ASSUME ActiveSession(m)
      PROVE  m.usn = active /\ m.usn # 0 /\ active # 0
  BY <1>2, ActiveIsLatest
<1>3. /\ TypeOK /\ m.req.cmd \in IssuedCommand
      /\ m.req.cmd.target \in NullableUsn /\ m.req.cmd.name \in Name \cup {None}
  BY MutationType, MutationOrigin DEF IInv, Provenance
<1>4. CASE RollBack(m)
  <2>1. UNCHANGED <<rows, process, wire, replies, history, ghost>> /\ prepared' \subseteq prepared
    BY <1>4 DEF RollBack
  <2>2. Books'
    BY <2>1, BooksUntouched DEF rows, wire, ghost
  <2> QED
    BY <2>1, <2>2, <1>1
<1>5. CASE Replay(m)
  <2>1. UNCHANGED <<rows, process, wire, ghost>> /\ prepared' \subseteq prepared
    BY <1>5 DEF Replay, Answer
  <2> QED
    BY <2>1, <1>1, <1>5, ReplayStep
<1>6. CASE RefuseOvertaken(m)
  <2>1. UNCHANGED <<rows, process, wire, ghost>> /\ prepared' \subseteq prepared
    BY <1>6 DEF RefuseOvertaken, Answer
  <2> QED
    BY <2>1, <1>1, <1>6, OvertakenStep
<1>7. CASE Write(m)
  <2>1. Record(m, {}) /\ UNCHANGED <<slot, active, pending, gen>>
    BY <1>7 DEF Write
  <2>2. Sessions' /\ Capabilities' /\ Provenance'
    BY <2>1, RecordSessions
  <2>3. SelectionExists'
    BY <2>1 DEF IInv, SelectionExists
  <2> QED
    BY <2>1, <2>2, <2>3, RecordStep
<1>8. CASE CreateSlot(m)
  <2>1. Record(m, {}) /\ pending' = pending /\ m.req.cmd.op = "create"
    BY <1>8 DEF CreateSlot
  <2>2. PICK u \in Usn : /\ IsNextUsn(u)
                         /\ slot' = [slot EXCEPT ![u] = m.req.cmd.name]
                         /\ gen' = [gen EXCEPT ![u] = @ + 1]
                         /\ active' = IF active = 0 THEN u ELSE active
    BY <1>8 DEF CreateSlot
  <2>3. slot[u] = None
    BY <2>2 DEF IsNextUsn, Usn
  <2>4. active' = active /\ active # 0
    BY <2>1, <2>2, <1>2 DEF Record
  <2>5. \A v \in Usn : slot[v] # None => slot'[v] # None /\ gen'[v] = gen[v]
    BY <2>2, <2>3, <1>3 DEF TypeOK
  <2>6. Sessions' /\ Capabilities' /\ Provenance'
    BY <2>1, <2>4, <2>5, RecordSessions
  <2>7. SelectionExists'
    BY <2>1, <2>4, <2>5, <1>3 DEF IInv, SelectionExists, TypeOK, NullableUsn, Usn
  <2> QED
    BY <2>1, <2>6, <2>7, RecordStep
<1>9. CASE RequestSwitch(m)
  <2>1. /\ Record(m, {}) /\ slot[m.req.cmd.target] # None /\ pending' = m.req.cmd.target
        /\ UNCHANGED <<slot, active, gen>>
    BY <1>9 DEF RequestSwitch
  <2>2. Sessions' /\ Capabilities' /\ Provenance'
    BY <2>1, RecordSessions
  <2>3. SelectionExists'
    BY <2>1 DEF IInv, SelectionExists
  <2> QED
    BY <2>1, <2>2, <2>3, RecordStep
<1>10. CASE DeleteInactiveSlot(m)
  <2> DEFINE u == m.req.cmd.target
  <2>1. /\ Record(m, {u}) /\ u \notin {active, pending} /\ m.req.cmd.op = "delete"
        /\ slot' = [slot EXCEPT ![u] = None] /\ UNCHANGED <<active, pending, gen>>
    BY <1>10 DEF DeleteInactiveSlot, Deletable
  <2>2. u # 0 /\ u \in Usn
    BY <2>1, <1>3 DEF IssuedCommand, NullableUsn, Usn
  <2>3. m.usn \notin {u} /\ 0 \notin {u}
    BY <2>1, <2>2, <1>2 DEF Record
  <2>4. \A v \in Usn : slot[v] # None /\ v \notin {u} => slot'[v] # None /\ gen'[v] = gen[v]
    BY <2>1, <1>3 DEF TypeOK
  <2>5. Sessions' /\ Capabilities' /\ Provenance'
    BY <2>1, <2>3, <2>4, RecordSessions
  <2>6. SelectionExists'
    BY <2>1, <2>2, <1>3 DEF IInv, SelectionExists, TypeOK, NullableUsn, Usn
  <2> QED
    BY <2>1, <2>3, <2>5, <2>6, RecordStep
<1> QED
  BY <1>4, <1>5, <1>6, <1>7, <1>8, <1>9, <1>10 DEF CommitRpcMutation

-----------------------------------------------------------------------------
(* The invariant is inductive.                                             *)
LEMMA NextInvariant ==
  ASSUME IInv, [Next]_vars
  PROVE  IInv'
<1>1. TypeOK'
  BY TypeStep
<1>2. ASSUME UNCHANGED vars
      PROVE  Sessions' /\ Capabilities' /\ Provenance' /\ SelectionExists' /\ Books'
  <2>1. UNCHANGED <<rows, process, wire, prepared, replies, history, ghost>>
    BY <1>2 DEF vars
  <2>2. Sessions' /\ SelectionExists'
    BY <2>1, RowsUntouched
  <2>3. Capabilities'
    BY <2>1 DEF IInv, Capabilities, Issued, rows, process, ghost
  <2>4. Provenance'
    BY <2>1 DEF IInv, Provenance, Issued, BoundTo, rows, process, wire, ghost
  <2>5. Books'
    BY <2>1, BooksUntouched DEF rows, wire, ghost
  <2> QED
    BY <2>2, <2>3, <2>4, <2>5
<1>3. ASSUME Next
      PROVE  Sessions' /\ Capabilities' /\ Provenance' /\ SelectionExists' /\ Books'
  BY <1>3, StartStep, LoginStep, PublishStep, SendStep, DispatchStep, StopStep, CommitStep
  DEF Next, Crash
<1> QED
  BY <1>1, <1>2, <1>3 DEF IInv, Books

(* Whatever the numbers of slots, logins, requests, servers and            *)
(* capabilities, IInv holds in every reachable state.                      *)
THEOREM InductiveInvariant == Spec => []IInv
<1>1. IInv /\ [Next]_vars => IInv'
  BY NextInvariant
<1> QED
  BY InitInvariant, <1>1, PTL DEF Spec

(* Every variable of RpcSession keeps its type.                            *)
THEOREM TypeCorrectness == Spec => []TypeOK
<1>1. IInv => TypeOK
  BY DEF IInv
<1> QED
  BY InductiveInvariant, <1>1, PTL

(* Within a login, effects are committed in increasing sequence order, so  *)
(* no request of the client takes effect twice                             *)
(* (commit_rpc_mutation_with_replay).                                      *)
THEOREM SessionOrder == Spec => []InSessionOrder
<1>1. IInv => InSessionOrder
  BY DEF IInv
<1> QED
  BY InductiveInvariant, <1>1, PTL

(* Every effect lands on the slot, and the incarnation of the slot, that   *)
(* the request's own login was bound to (begin_login's UNIQUE capability). *)
THEOREM WritesStayInSlot == Spec => []NoForeignWrite
<1>1. IInv => NoForeignWrite
  BY DEF IInv
<1> QED
  BY InductiveInvariant, <1>1, PTL

(* The open login is the latest and is bound to the active slot            *)
(* (begin_login, delete_inactive_slot).                                    *)
THEOREM OneOpenSession == Spec => []OpenSessionIsActive
<1>1. IInv => OpenSessionIsActive
  BY DEF IInv, Sessions, OpenSessionIsActive
<1> QED
  BY InductiveInvariant, <1>1, PTL

(* The active and the pending slot exist (delete_inactive_slot).           *)
THEOREM SelectionNeverDangles == Spec => []SelectionExists
<1>1. IInv => SelectionExists
  BY DEF IInv
<1> QED
  BY InductiveInvariant, <1>1, PTL

(* A request refused as stale never had, and never gets, an effect         *)
(* (the ledger lookup before the sequence check).                          *)
THEOREM StaleMeansNoEffect == Spec => []RefusedHasNoEffect
<1>1. IInv => RefusedHasNoEffect
  BY DEF IInv
<1> QED
  BY InductiveInvariant, <1>1, PTL

(* A gameplay request answered with success is answered with its own       *)
(* effect, in the first answer and in every replay (mutation_key).         *)
THEOREM AnswersAreOwn == Spec => []ReplyIsOwnEffect
<1>1. IInv => ReplyIsOwnEffect
  BY DEF IInv
<1> QED
  BY InductiveInvariant, <1>1, PTL

(* A step that commits an effect does so under the open, latest login and  *)
(* on the active slot (the session check of                                *)
(* commit_rpc_mutation_with_replay).                                       *)
THEOREM EndedSessionsAreFenced == Spec => OnlyOpenSessionWrites
<1> DEFINE Fenced == Len(history') > Len(history) =>
                       LET e == history'[Len(history')]
                       IN  e.nonce = nonce /\ sess[e.nonce].open /\ e.usn = active
<1>1. ASSUME IInv, NEW m \in prepared, CommitRpcMutation(m) PROVE Fenced
  <2>1. CASE history' = history
    BY <1>1, <2>1 DEF IInv, TypeOK
  <2>2. CASE history' # history
    <3>1. PICK gone : Record(m, gone)
      BY <1>1, <2>2 DEF CommitRpcMutation, RollBack, Replay, RefuseOvertaken, Write, CreateSlot,
                        RequestSwitch, DeleteInactiveSlot
    <3>2. /\ ActiveSession(m)
          /\ history'[Len(history')].nonce = m.nonce /\ history'[Len(history')].usn = m.usn
      BY <1>1, <3>1, RecordType DEF IInv, Record
    <3> QED
      BY <1>1, <3>2, ActiveIsLatest DEF ActiveSession
  <2> QED
    BY <2>1, <2>2
<1>2. IInv /\ [Next]_vars => [Fenced]_vars
  <2>1. ASSUME IInv, Next, ~ \E m \in prepared : CommitRpcMutation(m) PROVE Fenced
    <3>1. history' = history
      BY <2>1 DEF Next, Start, BeginLogin, PublishSession, Send, Dispatch, Stop, Exit, Crash
    <3>2. Len(history) \in Nat
      BY <2>1 DEF IInv, TypeOK
    <3> QED
      BY <3>1, <3>2
  <2> QED
    BY <1>1, <2>1
<1> QED
  BY InductiveInvariant, <1>2, PTL DEF Spec, OnlyOpenSessionWrites

-----------------------------------------------------------------------------
(* The refinement of ExactlyOnce.                                          *)
LastIsCommitted ==
  \A n \in Nonce :
    \/ sess[n].seq = 0
    \/ \E i \in 1 .. Len(history) :
         history[i].nonce = n /\ history[i].req.seq = sess[n].seq

Inv == IInv /\ LastIsCommitted

(* A step that leaves history alone and, of the session rows, at most ends *)
(* some and starts others at 0.                                            *)
LEMMA LastUntouched ==
  ASSUME LastIsCommitted, UNCHANGED history,
         \A n \in Nonce : sess'[n].seq \in {0, sess[n].seq}
  PROVE  LastIsCommitted'
BY DEF LastIsCommitted

LEMMA LastLogin ==
  ASSUME IInv, LastIsCommitted, NEW s \in Server, BeginLogin(s)
  PROVE  LastIsCommitted'
<1>1. sess \in [Nonce -> SessionRow] /\ history' = history
  BY DEF IInv, TypeOK, BeginLogin
<1>2. PICK u, c : sess' = [k \in Nonce |->
                   IF k = nonce + 1 THEN [usn |-> u, cap |-> c, seq |-> 0, open |-> TRUE]
                   ELSE Ended(sess[k])]
  BY DEF BeginLogin
<1>3. \A n \in Nonce : sess'[n].seq \in {0, sess[n].seq}
  BY <1>1, <1>2 DEF Ended
<1> QED
  BY <1>1, <1>3, LastUntouched

LEMMA LastRecord ==
  ASSUME IInv, LastIsCommitted, NEW m \in prepared, NEW gone, Record(m, gone)
  PROVE  LastIsCommitted'
<1> DEFINE e == [req |-> m.req, nonce |-> m.nonce, usn |-> m.usn, gen |-> gen[m.usn]]
<1>1. /\ sess \in [Nonce -> SessionRow] /\ history \in Seq(Effect)
      /\ history' = Append(history, e)
      /\ sess' = [k \in Nonce |-> IF sess[k].usn \in gone THEN NoRow
                                 ELSE IF k = m.nonce THEN Advanced(sess[k], m.req.seq)
                                 ELSE sess[k]]
  BY DEF IInv, TypeOK, Record
<1>2. e \in Effect
  BY MutationType DEF IInv, TypeOK, Effect
<1> HIDE DEF e
<1>3. /\ Len(history') = Len(history) + 1 /\ Len(history) \in Nat
      /\ history'[Len(history) + 1] = e
      /\ \A i \in 1 .. Len(history) : history'[i] = history[i]
  BY <1>1, <1>2
<1>4. ASSUME NEW n \in Nonce, sess'[n].seq # 0
      PROVE  \E i \in 1 .. Len(history') :
               history'[i].nonce = n /\ history'[i].req.seq = sess'[n].seq
  <2>1. sess[n].usn \notin gone
    BY <1>1, <1>4 DEF NoRow
  <2>2. CASE n = m.nonce
    <3>1. sess'[n].seq = m.req.seq
      BY <1>1, <2>1, <2>2 DEF Advanced
    <3>2. e.nonce = n /\ e.req.seq = m.req.seq
      BY <2>2 DEF e
    <3> QED
      BY <1>3, <3>1, <3>2
  <2>3. CASE n # m.nonce
    <3>1. sess'[n] = sess[n]
      BY <1>1, <2>1, <2>3
    <3> QED
      BY <1>3, <1>4, <3>1 DEF LastIsCommitted
  <2> QED
    BY <2>2, <2>3
<1> QED
  BY <1>4 DEF LastIsCommitted

LEMMA InvStep ==
  ASSUME Inv, [Next]_vars
  PROVE  Inv'
<1>1. IInv'
  BY NextInvariant DEF Inv
<1>2. ASSUME UNCHANGED <<sess, history>> PROVE LastIsCommitted'
  BY <1>2 DEF Inv, LastIsCommitted
<1>3. ASSUME NEW s \in Server, BeginLogin(s) PROVE LastIsCommitted'
  BY <1>3, LastLogin DEF Inv
<1>4. ASSUME NEW m \in prepared, CommitRpcMutation(m) PROVE LastIsCommitted'
  <2>1. CASE UNCHANGED <<sess, history>>
    BY <2>1 DEF Inv, LastIsCommitted
  <2>2. ASSUME NEW gone, Record(m, gone) PROVE LastIsCommitted'
    BY <2>2, LastRecord DEF Inv
  <2>3. UNCHANGED <<sess, history>> \/ \E gone : Record(m, gone)
    BY <1>4 DEF CommitRpcMutation, RollBack, Replay, RefuseOvertaken, rows, Write, CreateSlot,
                RequestSwitch, DeleteInactiveSlot
  <2> QED
    BY <2>1, <2>2, <2>3
<1>5. \/ UNCHANGED <<sess, history>>
      \/ \E s \in Server : BeginLogin(s)
      \/ \E m \in prepared : CommitRpcMutation(m)
  BY DEF Next, Start, PublishSession, Send, Dispatch, Stop, Exit, Crash, rows, vars
<1>6. LastIsCommitted'
  BY <1>2, <1>3, <1>4, <1>5
<1> QED
  BY <1>1, <1>6 DEF Inv

-----------------------------------------------------------------------------
Log == [i \in 1 .. Len(history) |-> history[i].req]

LEMMA LogIsSequence ==
  ASSUME IInv
  PROVE  /\ Len(history) \in Nat
         /\ Log \in Seq(Request) /\ Len(Log) = Len(history)
         /\ \A i \in 1 .. Len(history) : Log[i] = history[i].req
<1>1. Len(history) \in Nat /\ \A i \in 1 .. Len(history) : history[i] \in Effect
  BY DEF IInv, TypeOK
<1>2. \A i \in 1 .. Len(history) : history[i].req \in Request
  BY <1>1 DEF Effect
<1> QED
  BY <1>1, <1>2 DEF Log

(* A mutation carries a request that was issued.                           *)
LEMMA MutationIsIssued ==
  ASSUME IInv, NEW m \in prepared
  PROVE  m.req \in IssuedRequest
BY MutationOrigin DEF IInv, TypeOK, Provenance, IssuedRequest

(* The answers of gameplay requests, and one more.                         *)
Answers == {a \in replies : ~ IsAdmin(a.req)}

LEMMA AnswerIsTold ==
  ASSUME IInv, NEW m \in prepared, NEW kind, NEW effect,
         replies' = replies \cup {[req |-> m.req, kind |-> kind, effect |-> effect]}
  PROVE  Promise!Tell(m.req, kind, effect)
<1> DEFINE a == [req |-> m.req, kind |-> kind, effect |-> effect]
<1>1. m.req \in IssuedRequest /\ a.req = m.req
  BY MutationIsIssued
<1> HIDE DEF a
<1>2. Answers' = Answers \cup IF IsAdmin(m.req) THEN {} ELSE {a}
  BY <1>1 DEF Answers, IsAdmin, a
<1> QED
  BY <1>1, <1>2 DEF Promise!Tell, Answers, a

(* The first commit of a request is Commit.                                *)
LEMMA RecordCommits ==
  ASSUME Inv, NEW m \in prepared, NEW gone, Record(m, gone), ActiveSession(m)
  PROVE  Promise!Commit(m.req)
<1> DEFINE e == [req |-> m.req, nonce |-> m.nonce, usn |-> m.usn, gen |-> gen[m.usn]]
<1>1. /\ Recorded(m) = {} /\ SequenceAdvances(m)
      /\ history' = Append(history, e)
      /\ replies' = replies \cup {[req |-> m.req, kind |-> "ok", effect |-> Len(history) + 1]}
  BY DEF Record, Answer
<1>2. IInv
  BY DEF Inv
<1>3. history \in Seq(Effect) /\ e \in Effect /\ m.req \in Request
  BY <1>2, MutationType DEF IInv, TypeOK, Effect
<1>4. e.req = m.req
  OBVIOUS
<1> HIDE DEF e
<1>5. /\ Len(history') = Len(history) + 1 /\ Len(history) \in Nat
      /\ history'[Len(history) + 1] = e
      /\ \A i \in 1 .. Len(history) : history'[i] = history[i]
  BY <1>1, <1>3
<1>6. ~ Promise!TookEffect(m.req)
  BY <1>1, <1>2, LogIsSequence, CommittedIsRecorded DEF Promise!TookEffect, Log
<1>7. ASSUME NEW i \in Promise!SameLogin(m.req) PROVE Log[i].seq < m.req.seq
  <2>1. i \in 1 .. Len(history) /\ Log[i] = history[i].req /\ history[i].req.from = m.req.from
    BY <1>2, <1>7, LogIsSequence DEF Promise!SameLogin, Log
  <2>2. history[i].nonce = m.nonce
    BY <1>2, <2>1, MutationOrigin DEF IInv, NoForeignWrite
  <2>3. sess[m.nonce].usn # 0
    BY <1>2, ActiveIsLatest
  <2>4. history[i].req.seq <= sess[m.nonce].seq
    BY <1>2, <2>1, <2>2, <2>3 DEF IInv, Progress
  <2>5. history[i].req.seq \in Nat /\ sess[m.nonce].seq \in Nat /\ m.req.seq \in Nat
    <3>1. history[i].req \in Request
      BY <1>2, <2>1, LogIsSequence DEF IInv, Progress, TypeOK
    <3>2. m.nonce \in Nonce /\ m.req.seq \in 1 .. MaxSeq
      BY <1>2, MutationType DEF IInv
    <3> QED
      BY <1>2, <3>1, <3>2 DEF IInv, TypeOK, SessionRow, Request
  <2> QED
    BY <1>1, <2>1, <2>4, <2>5 DEF SequenceAdvances
<1>8. Log' = Append(Log, m.req)
  <2>1. Log' = [i \in 1 .. Len(history) + 1 |-> history'[i].req]
    BY <1>5 DEF Log
  <2>2. \A i \in 1 .. Len(history) + 1 :
          history'[i].req = IF i <= Len(history) THEN Log[i] ELSE m.req
    BY <1>4, <1>5, <1>2, LogIsSequence
  <2>3. Log \in Seq(Request) /\ Len(Log) = Len(history)
    BY <1>2, LogIsSequence
  <2> QED
    BY <1>3, <1>5, <2>1, <2>2, <2>3
<1>9. Len(Log) = Len(history)
  BY <1>2, LogIsSequence
<1>10. Promise!Tell(m.req, "ok", Len(Log) + 1)
  BY <1>1, <1>2, <1>9, AnswerIsTold
<1> QED
  BY <1>6, <1>7, <1>8, <1>9, <1>10 DEF Promise!Commit, Promise!SameLogin, Log

(* An answer from the ledger is Repeat.                                    *)
LEMMA ReplayRepeats ==
  ASSUME Inv, NEW m \in prepared, ~ IsAdmin(m.req), Replay(m)
  PROVE  Promise!Repeat(m.req)
<1>1. IInv /\ history' = history
  BY DEF Inv, Replay
<1>2. PICK row \in Recorded(m) :
        IF row.seq = m.req.seq /\ row.op = m.req.cmd.op
        THEN Answer(m, "ok", row.effect) ELSE Answer(m, "conflict", 0)
  BY DEF Replay
<1>3. row \in ledger /\ row.key = IdempotencyKey(m)
  BY <1>2 DEF Recorded
<1>4. /\ row.effect \in 1 .. Len(history) /\ EffectKey(history[row.effect]) = IdempotencyKey(m)
      /\ row.seq = row.key.seq /\ row.op = row.key.op
  BY <1>1, <1>3 DEF IInv, LedgerSound
<1>5. row.seq = m.req.seq /\ row.op = m.req.cmd.op
  BY <1>3, <1>4 DEF IdempotencyKey
<1>6. replies' = replies \cup {[req |-> m.req, kind |-> "ok", effect |-> row.effect]}
  BY <1>2, <1>5 DEF Answer
<1>7. Log[row.effect] = m.req /\ Len(Log) = Len(history)
  BY <1>1, <1>4, SameRequest, LogIsSequence
<1>8. Log' = Log
  BY <1>1 DEF Log
<1>9. Promise!Tell(m.req, "ok", row.effect)
  BY <1>1, <1>6, AnswerIsTold
<1> QED
  BY <1>4, <1>7, <1>8, <1>9 DEF Promise!Repeat, Log

(* An answer to a command of the settings page is not promised.            *)
LEMMA AdminReplayIsHidden ==
  ASSUME NEW m \in prepared, IsAdmin(m.req), Replay(m)
  PROVE  UNCHANGED <<history, Answers>>
BY DEF Replay, Answer, Answers

(* An overtaken request is refused with Refuse.                            *)
LEMMA OvertakenRefuses ==
  ASSUME Inv, NEW m \in prepared, RefuseOvertaken(m)
  PROVE  Promise!Refuse(m.req)
<1>1. /\ ActiveSession(m) /\ Recorded(m) = {} /\ ~ SequenceAdvances(m) /\ history' = history
      /\ replies' = replies \cup {[req |-> m.req, kind |-> "stale", effect |-> 0]}
  BY DEF RefuseOvertaken, Answer
<1>2. IInv /\ LastIsCommitted
  BY DEF Inv
<1>3. ~ Promise!TookEffect(m.req)
  BY <1>1, <1>2, LogIsSequence, CommittedIsRecorded DEF Promise!TookEffect, Log
<1>4. /\ m.nonce \in Nonce /\ sess[m.nonce].seq \in Nat /\ m.req.seq \in Nat \ {0}
      /\ sess[m.nonce].seq >= m.req.seq
  BY <1>1, <1>2, MutationType DEF SequenceAdvances, IInv, TypeOK, SessionRow
<1>5. PICK i \in 1 .. Len(history) :
        history[i].nonce = m.nonce /\ history[i].req.seq = sess[m.nonce].seq
  BY <1>2, <1>4 DEF LastIsCommitted
<1>6. history[i].req.from = m.req.from
  BY <1>2, <1>5, MutationOrigin DEF IInv, NoForeignWrite
<1>7. Log[i] = history[i].req /\ Len(Log) = Len(history) /\ Log' = Log
  BY <1>1, <1>2, LogIsSequence DEF Log
<1>8. Promise!Tell(m.req, "stale", 0)
  BY <1>1, <1>2, AnswerIsTold
<1> QED
  BY <1>3, <1>4, <1>5, <1>6, <1>7, <1>8 DEF Promise!Refuse, Promise!SameLogin, Log

-----------------------------------------------------------------------------
LEMMA StepRefines ==
  ASSUME Inv, [Next]_vars
  PROVE  [Promise!Next]_(Promise!vars)
<1>1. CASE UNCHANGED <<history, Answers>>
  BY <1>1 DEF Promise!vars, Answers
<1>2. ASSUME NEW m \in prepared, CommitRpcMutation(m)
      PROVE  Promise!Next \/ UNCHANGED <<history, Answers>>
  <2>1. m.req \in IssuedRequest
    BY MutationIsIssued DEF Inv
  <2>2. CASE RollBack(m)
    BY <2>2 DEF RollBack, Answers
  <2>3. CASE Replay(m)
    BY <2>1, <2>3, ReplayRepeats, AdminReplayIsHidden DEF Promise!Next
  <2>4. CASE RefuseOvertaken(m)
    BY <2>1, <2>4, OvertakenRefuses DEF Promise!Next
  <2>5. ASSUME NEW gone, Record(m, gone) PROVE Promise!Next
    <3>1. ActiveSession(m)
      BY <2>5 DEF Record
    <3> QED
      BY <2>1, <2>5, <3>1, RecordCommits DEF Promise!Next
  <2> QED
    BY <1>2, <2>2, <2>3, <2>4, <2>5
    DEF CommitRpcMutation, Write, CreateSlot, RequestSwitch, DeleteInactiveSlot
<1>3. \/ UNCHANGED <<history, replies>>
      \/ \E m \in prepared : CommitRpcMutation(m)
  BY DEF Next, Start, BeginLogin, PublishSession, Send, Dispatch, Stop, Exit, Crash, vars
<1> QED
  BY <1>1, <1>2, <1>3 DEF Answers

(* A client that repeats its requests, over any number of deliveries,      *)
(* logins, instances and crashes, and while slots come and go, sees each   *)
(* of them take effect once or not at all, in the order of its login, and  *)
(* is told the truth about a gameplay request by every answer              *)
(* (commit_rpc_mutation_with_replay, mutation_key).                        *)
THEOREM LedgerIsExactlyOnce == Spec => KeepsPromise
<1>1. Init => Inv /\ Promise!Init
  <2> SUFFICES ASSUME Init PROVE Inv /\ Promise!Init
    OBVIOUS
  <2>1. IInv
    BY InitInvariant
  <2>2. LastIsCommitted
    BY DEF Init, LastIsCommitted, NoRow
  <2>3. Len(history) = 0 /\ history = <<>> /\ replies = {}
    BY DEF Init
  <2>4. Log = <<>>
    BY <2>3 DEF Log
  <2> QED
    BY <2>1, <2>2, <2>3, <2>4 DEF Inv, Promise!Init, Log
<1>2. Inv /\ [Next]_vars => Inv'
  BY InvStep
<1>3. Inv /\ [Next]_vars => [Promise!Next]_(Promise!vars)
  BY StepRefines
<1> QED
  BY <1>1, <1>2, <1>3, PTL DEF Spec, KeepsPromise, Promise!Spec
=============================================================================
