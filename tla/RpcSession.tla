----------------------------- MODULE RpcSession -----------------------------
(***************************************************************************)
(* Save slots, login sessions and the mutation ledger of the embedded      *)
(* server: who may write to which slot, and what a retried request does.   *)
(*                                                                         *)
(* One SQLite file holds the slots, the selection (active and pending      *)
(* slot), the login sessions and the ledger.  A server instance serves     *)
(* HTTP requests under one capability; its LoginSession sits in a mutex    *)
(* that each handler clones before it hands a job to the database thread.  *)
(* Each job is one immediate transaction and so one step here; the steps   *)
(* of different handlers, logins, stops and starts interleave freely.      *)
(*                                                                         *)
(* The client never withdraws what it sent: a request in `sent' may be     *)
(* delivered late, twice, out of order or never, to any server whose       *)
(* capability it carries.                                                  *)
(***************************************************************************)
EXTENDS Naturals, Sequences

CONSTANTS
  Server,       \* server instances (each ServerHandle is one)
  Capability,   \* capabilities Patch may generate
  Name,         \* display names of slots
  None,         \* no name, no capability
  Ops,          \* the kinds of command the client issues
  MaxUsn,       \* bound: slots numbered 1..MaxUsn
  MaxNonce,     \* bound: logins
  MaxSeq        \* bound: requests per login

ASSUME ConstantsAssumption ==
  /\ MaxUsn \in Nat \ {0} /\ MaxNonce \in Nat \ {0} /\ MaxSeq \in Nat \ {0}
  /\ None \notin Capability /\ None \notin Name /\ None \notin Server
  /\ Name # {}
  /\ Ops \subseteq {"write", "create", "select", "delete"}

Usn == 1 .. MaxUsn
Nonce == 1 .. MaxNonce
NullableUsn == 0 .. MaxUsn      \* 0 is SQL NULL (or an absent U_seq)
NullableNonce == 0 .. MaxNonce

(* What a request asks for: a gameplay write to the session's own slot, or *)
(* one of the slot commands of the settings page.                          *)
Command == [op : {"write", "create", "select", "delete"},
            target : NullableUsn, name : Name \cup {None}]

IssuedCommand ==
  {c \in Command :
     /\ c.op \in Ops
     /\ (c.op \in {"select", "delete"}) = (c.target # 0)
     /\ (c.op \in {"create", "delete"}) = (c.name # None)}

(* `from' is the login that built the request.  The server never sees it:  *)
(* the wire carries the capability, the sequence and perhaps a U_seq.      *)
Request == [from : Nonce, cap : Capability, seq : 1 .. MaxSeq,
            u_seq : NullableUsn, cmd : Command]

Mutation == [srv : Server, nonce : Nonce, usn : Usn, req : Request]

VARIABLES
  slot,      \* save_slots: usn -> display_name, None when there is no row
  active,    \* runtime_selection.active_usn
  pending,   \* runtime_selection.pending_usn
  nonce,     \* runtime_selection.session_nonce
  sess,      \* login_sessions: nonce -> row
  ledger,    \* mutation_ledger rows
  phase,     \* server instance -> off, up or stopping
  srvCap,    \* server instance -> AppState.capability
  login,     \* server instance -> a begin_login committed but not yet published
  session,   \* server instance -> AppState.session, the mutex's content
  current,   \* the FFI's RuntimeState: the instance it holds, or None
  cap,       \* the capability generated last, None before the first start
  spent,     \* capabilities generated so far
  client,    \* the game client's own session
  sent,      \* requests the client has put on the wire
  prepared,  \* mutations built by a handler, not yet run by the database
  replies,   \* history: answers given to requests
  history,   \* history: the effects that were committed, in order
  gen,       \* history: how many slots a usn has named so far
  bound      \* history: the slot and the capability of each login

rows == <<slot, active, pending, nonce, sess, ledger>>
process == <<phase, srvCap, login, session, current, cap, spent>>
wire == <<client, sent>>
ghost == <<gen, bound>>
vars == <<rows, process, wire, prepared, replies, history, ghost>>

(* A login_sessions row; usn 0 stands for no row.                          *)
SessionRow == [usn : NullableUsn, cap : Capability \cup {None},
               seq : 0 .. MaxSeq, open : BOOLEAN]
NoRow == [usn |-> 0, cap |-> None, seq |-> 0, open |-> FALSE]

LeftOpen(row) == row               \* mutant of Ended: earlier sessions stay open

(* The row of a session that a later login has ended, and one whose        *)
(* sequence number has moved on.                                           *)
Ended(row) == [usn |-> row.usn, cap |-> row.cap, seq |-> row.seq, open |-> FALSE]
Advanced(row, n) == [usn |-> row.usn, cap |-> row.cap, seq |-> n, open |-> row.open]

(* A LoginSession as the server holds it in memory.                        *)
LoginSession == [nonce : NullableNonce, usn : NullableUsn]
NoSession == [nonce |-> 0, usn |-> 0]

(* What a login was bound to, kept after its row is gone.                  *)
Binding == [usn : NullableUsn, gen : Nat, cap : Capability \cup {None}]
Unbound == [usn |-> 0, gen |-> 0, cap |-> None]

ClientState == [nonce : NullableNonce, usn : NullableUsn,
                cap : Capability \cup {None}, seq : 0 .. MaxSeq]
NoClient == [nonce |-> 0, usn |-> 0, cap |-> None, seq |-> 0]

-----------------------------------------------------------------------------
(* The idempotency key.  Gameplay keys carry the session nonce and a hash  *)
(* of the body (here its U_seq); admin keys carry neither.                 *)
IsAdmin(req) == req.cmd.op # "write"

KeyWithoutNonce(m) ==          \* mutant of IdempotencyKey
  [nonce |-> 0, seq |-> m.req.seq, op |-> m.req.cmd.op,
   body |-> IF IsAdmin(m.req) THEN 0 ELSE m.req.u_seq]

IdempotencyKey(m) ==
  [nonce |-> IF IsAdmin(m.req) THEN 0 ELSE m.nonce,
   seq |-> m.req.seq,
   op |-> m.req.cmd.op,
   body |-> IF IsAdmin(m.req) THEN 0 ELSE m.req.u_seq]

Key == [nonce : NullableNonce, seq : 1 .. MaxSeq,
        op : {"write", "create", "select", "delete"}, body : NullableUsn]

LedgerRow == [usn : Usn, key : Key, seq : 1 .. MaxSeq,
              op : {"write", "create", "select", "delete"}, effect : Nat \ {0}]

Effect == [req : Request, nonce : Nonce, usn : Usn, gen : Nat]

(* An answer; `effect' is the position in `history' of what an "ok"        *)
(* reports, "stale" is StaleRequest by sequence number.                    *)
Reply == [req : Request, kind : {"ok", "stale", "conflict"}, effect : Nat]

(* COALESCE(MAX(usn),0)+1                                                  *)
IsNextUsn(u) ==
  /\ \A v \in Usn : slot[v] # None => v < u
  /\ u = 1 \/ slot[u - 1] # None

-----------------------------------------------------------------------------
Init ==
  /\ slot = [u \in Usn |-> None] /\ active = 0 /\ pending = 0 /\ nonce = 0
  /\ sess = [n \in Nonce |-> NoRow] /\ ledger = {}
  /\ phase = [s \in Server |-> "off"] /\ srvCap = [s \in Server |-> None]
  /\ login = [s \in Server |-> NoSession] /\ session = [s \in Server |-> NoSession]
  /\ current = None
  /\ cap = None /\ spent = {}
  /\ client = NoClient /\ sent = {}
  /\ prepared = {} /\ replies = {} /\ history = <<>>
  /\ gen = [u \in Usn |-> 0]
  /\ bound = [n \in Nonce |-> Unbound]

(* ggfm_server_start: the FFI holds no runtime.  Patch generates a fresh   *)
(* capability or, in the same process, passes the one it already has.      *)
(* start() opens the database and ensures a default slot.                  *)
Start(s, c) ==
  /\ current = None
  /\ phase[s] = "off"
  /\ c \notin spent \/ c = cap
  /\ phase' = [phase EXCEPT ![s] = "up"] /\ srvCap' = [srvCap EXCEPT ![s] = c]
  /\ current' = s /\ cap' = c /\ spent' = spent \cup {c}
  /\ \/ /\ \A u \in Usn : slot[u] = None
        /\ \E d \in Name : slot' = [slot EXCEPT ![1] = d]
        /\ gen' = [gen EXCEPT ![1] = @ + 1]
        /\ active' = IF active = 0 THEN 1 ELSE active
     \/ /\ \E u \in Usn : slot[u] # None
        /\ UNCHANGED <<slot, gen, active>>
  /\ UNCHANGED <<pending, nonce, sess, ledger, login, session, wire, prepared,
                 replies, history, bound>>

(* Database::begin_login, one transaction: activate the pending slot, take *)
(* the next nonce, end every open session, insert the new one.  The        *)
(* capability column is UNIQUE: a capability that already has a row makes  *)
(* the insert fail and the transaction roll back.                          *)
AnyCapability(c) == TRUE       \* mutant of CapabilityUnused

CapabilityUnused(c) == \A n \in Nonce : sess[n].cap # c

BeginLogin(s) ==
  LET u == IF pending # 0 THEN pending ELSE active
      n == nonce + 1
  IN
  /\ current = s /\ phase[s] = "up" /\ login[s] = NoSession
  /\ n \in Nonce
  /\ u # 0
  /\ CapabilityUnused(srvCap[s])
  /\ active' = u /\ pending' = 0 /\ nonce' = n
  /\ sess' = [k \in Nonce |->
                IF k = n THEN [usn |-> u, cap |-> srvCap[s], seq |-> 0, open |-> TRUE]
                ELSE Ended(sess[k])]
  /\ login' = [login EXCEPT ![s] = [nonce |-> n, usn |-> u]]
  /\ bound' = [bound EXCEPT ![n] = [usn |-> u, gen |-> gen[u], cap |-> srvCap[s]]]
  /\ UNCHANGED <<slot, ledger, phase, srvCap, session, current, cap, spent, wire,
                 prepared, replies, history, gen>>

(* The rest of ServerHandle::begin_login: the session goes into the mutex  *)
(* and the caller of ggfm_server_begin_login gets its answer.              *)
PublishSession(s) ==
  /\ login[s] # NoSession
  /\ session' = [session EXCEPT ![s] = login[s]]
  /\ login' = [login EXCEPT ![s] = NoSession]
  /\ client' = [nonce |-> login[s].nonce, usn |-> login[s].usn, cap |-> srvCap[s], seq |-> 0]
  /\ UNCHANGED <<rows, phase, srvCap, current, cap, spent, sent, prepared, replies, history, ghost>>

(* The client builds a request under its own session.  A gameplay request  *)
(* may carry a U_seq; an admin request has no such field.                  *)
Send(c, u) ==
  /\ client.nonce # 0 /\ client.seq < MaxSeq
  /\ u \in (IF c.op = "write" THEN {0, client.usn} ELSE {0})
  /\ client' = [nonce |-> client.nonce, usn |-> client.usn, cap |-> client.cap,
                seq |-> client.seq + 1]
  /\ sent' = sent \cup {[from |-> client.nonce, cap |-> client.cap,
                         seq |-> client.seq + 1, u_seq |-> u, cmd |-> c]}
  /\ UNCHANGED <<rows, process, prepared, replies, history, ghost>>

(* legacy_rpc and admin_write_context up to the first await: check the     *)
(* capability, clone the session, check U_seq, build the RpcMutation.      *)
Dispatch(s, r) ==
  /\ r \in sent
  /\ phase[s] # "off" /\ r.cap = srvCap[s]
  /\ session[s] # NoSession
  /\ IsAdmin(r) \/ r.u_seq \in {0, session[s].usn}
  /\ prepared' = prepared \cup {[srv |-> s, nonce |-> session[s].nonce,
                                 usn |-> session[s].usn, req |-> r]}
  /\ UNCHANGED <<rows, process, wire, replies, history, ghost>>

-----------------------------------------------------------------------------
(* commit_rpc_mutation_with_replay.                                        *)
SessionExists(m) ==            \* mutant of ActiveSession
  sess[m.nonce].usn = m.usn /\ slot[m.usn] # None

ActiveSession(m) ==
  /\ sess[m.nonce].usn = m.usn
  /\ sess[m.nonce].open
  /\ slot[m.usn] # None

RecordedLast(m) ==             \* mutant of Recorded: only the latest row is kept
  {row \in ledger : /\ row.usn = m.usn /\ row.key = IdempotencyKey(m)
                    /\ row.effect = Len(history)}

Recorded(m) == {row \in ledger : row.usn = m.usn /\ row.key = IdempotencyKey(m)}

AnySequence(m) == TRUE         \* mutant of SequenceAdvances

SequenceAdvances(m) == sess[m.nonce].seq < m.req.seq

Answer(m, kind, effect) ==
  /\ replies' = replies \cup {[req |-> m.req, kind |-> kind, effect |-> effect]}
  /\ prepared' = prepared \ {m}

DeletableUnlessActive(m) ==    \* mutant of Deletable
  slot[m.req.cmd.target] = m.req.cmd.name /\ m.req.cmd.target # active

Deletable(m) ==
  /\ slot[m.req.cmd.target] = m.req.cmd.name
  /\ m.req.cmd.target \notin {active, pending}

(* A gameplay command may be refused by its own rules at any time.         *)
CommandFails(m) ==
  \/ m.req.cmd.op = "write"
  \/ m.req.cmd.op = "select" /\ slot[m.req.cmd.target] = None
  \/ m.req.cmd.op = "delete" /\ ~ Deletable(m)

(* The session is over, or the command itself fails: the transaction       *)
(* rolls back, the sequence number included.                               *)

RollBack(m) ==
  /\ \/ ~ ActiveSession(m)
     \/ ActiveSession(m) /\ Recorded(m) = {} /\ SequenceAdvances(m) /\ CommandFails(m)
  /\ prepared' = prepared \ {m}
  /\ UNCHANGED <<rows, process, wire, replies, history, ghost>>

(* The key is in the ledger: answer what is recorded there.                *)
Replay(m) ==
  /\ ActiveSession(m)
  /\ \E row \in Recorded(m) :
       IF row.seq = m.req.seq /\ row.op = m.req.cmd.op
       THEN Answer(m, "ok", row.effect)
       ELSE Answer(m, "conflict", 0)
  /\ UNCHANGED <<rows, process, wire, history, ghost>>

(* A later request of the session has been committed already.              *)
RefuseOvertaken(m) ==
  /\ ActiveSession(m)
  /\ Recorded(m) = {}
  /\ ~ SequenceAdvances(m)
  /\ Answer(m, "stale", 0)
  /\ UNCHANGED <<rows, process, wire, history, ghost>>

(* The common part of every successful command.  Rows of a deleted slot    *)
(* go with it (ON DELETE CASCADE).                                         *)
Record(m, gone) ==
  /\ ActiveSession(m)
  /\ Recorded(m) = {}
  /\ SequenceAdvances(m)
  /\ sess' = [k \in Nonce |->
                IF sess[k].usn \in gone THEN NoRow
                ELSE IF k = m.nonce THEN Advanced(sess[k], m.req.seq)
                ELSE sess[k]]
  /\ ledger' = {row \in ledger : row.usn \notin gone}
                 \cup {[usn |-> m.usn, key |-> IdempotencyKey(m), seq |-> m.req.seq,
                        op |-> m.req.cmd.op, effect |-> Len(history) + 1]}
  /\ history' = Append(history, [req |-> m.req, nonce |-> m.nonce,
                                 usn |-> m.usn, gen |-> gen[m.usn]])
  /\ Answer(m, "ok", Len(history) + 1)
  /\ UNCHANGED <<nonce, process, wire, bound>>

Write(m) ==
  /\ m.req.cmd.op = "write"
  /\ Record(m, {})
  /\ UNCHANGED <<slot, active, pending, gen>>

CreateSlot(m) ==
  /\ m.req.cmd.op = "create"
  /\ Record(m, {})
  /\ \E u \in Usn :
       /\ IsNextUsn(u)
       /\ slot' = [slot EXCEPT ![u] = m.req.cmd.name]
       /\ gen' = [gen EXCEPT ![u] = @ + 1]
       /\ active' = IF active = 0 THEN u ELSE active
  /\ UNCHANGED pending

RequestSwitch(m) ==
  /\ m.req.cmd.op = "select"
  /\ slot[m.req.cmd.target] # None
  /\ Record(m, {})
  /\ pending' = m.req.cmd.target
  /\ UNCHANGED <<slot, active, gen>>

DeleteInactiveSlot(m) ==
  LET u == m.req.cmd.target IN
  /\ m.req.cmd.op = "delete"
  /\ Deletable(m)
  /\ Record(m, {u})
  /\ slot' = [slot EXCEPT ![u] = None]
  /\ UNCHANGED <<active, pending, gen>>

CommitRpcMutation(m) ==
  \/ RollBack(m) \/ Replay(m) \/ RefuseOvertaken(m)
  \/ Write(m) \/ CreateSlot(m) \/ RequestSwitch(m) \/ DeleteInactiveSlot(m)

-----------------------------------------------------------------------------
(* ggfm_server_stop takes the RuntimeState out of the FFI's mutex and      *)
(* releases the mutex; the old instance keeps serving until its control    *)
(* loop reaches Stop, so a new one can start meanwhile.                    *)
Stop(s) ==
  /\ current = s /\ login[s] = NoSession
  /\ phase' = [phase EXCEPT ![s] = "stopping"]
  /\ current' = None /\ client' = NoClient
  /\ UNCHANGED <<rows, srvCap, login, session, cap, spent, sent, prepared, replies,
                 history, ghost>>

(* The runtime of a stopped instance is dropped with its unsent jobs.      *)
Exit(s) ==
  /\ phase[s] = "stopping"
  /\ phase' = [phase EXCEPT ![s] = "off"] /\ srvCap' = [srvCap EXCEPT ![s] = None]
  /\ session' = [session EXCEPT ![s] = NoSession]
  /\ prepared' = {m \in prepared : m.srv # s}
  /\ UNCHANGED <<rows, login, current, cap, spent, wire, replies, history, ghost>>

(* The process dies.  Committed rows survive (WAL, synchronous=FULL).      *)
Crash ==
  /\ \E s \in Server : phase[s] # "off"
  /\ phase' = [s \in Server |-> "off"] /\ srvCap' = [s \in Server |-> None]
  /\ login' = [s \in Server |-> NoSession] /\ session' = [s \in Server |-> NoSession]
  /\ current' = None /\ client' = NoClient /\ prepared' = {}
  /\ UNCHANGED <<rows, cap, spent, sent, replies, history, ghost>>

Next ==
  \/ \E s \in Server, c \in Capability : Start(s, c)
  \/ \E s \in Server : BeginLogin(s) \/ PublishSession(s) \/ Stop(s) \/ Exit(s)
  \/ \E c \in IssuedCommand, u \in NullableUsn : Send(c, u)
  \/ \E s \in Server, r \in sent : Dispatch(s, r)
  \/ \E m \in prepared : CommitRpcMutation(m)
  \/ Crash

Spec == Init /\ [][Next]_vars

-----------------------------------------------------------------------------
(* Every variable has its type.                                            *)
TypeOK ==
  /\ slot \in [Usn -> Name \cup {None}]
  /\ active \in NullableUsn /\ pending \in NullableUsn /\ nonce \in NullableNonce
  /\ sess \in [Nonce -> SessionRow]
  /\ ledger \subseteq LedgerRow
  /\ phase \in [Server -> {"off", "up", "stopping"}]
  /\ srvCap \in [Server -> Capability \cup {None}]
  /\ login \in [Server -> LoginSession] /\ session \in [Server -> LoginSession]
  /\ current \in Server \cup {None}
  /\ cap \in Capability \cup {None} /\ spent \subseteq Capability
  /\ client \in ClientState
  /\ sent \subseteq Request
  /\ prepared \subseteq Mutation
  /\ replies \subseteq Reply
  /\ history \in Seq(Effect)
  /\ gen \in [Usn -> Nat]
  /\ bound \in [Nonce -> Binding]

(* The effects of one login are committed in strictly increasing sequence  *)
(* order: no request takes effect twice, however often it is delivered,    *)
(* and a late one never lands on top of a newer transaction                *)
(* (commit_rpc_mutation_with_replay).                                      *)
InSessionOrder ==
  \A i, j \in 1 .. Len(history) :
    i < j /\ history[i].nonce = history[j].nonce
      => history[i].req.seq < history[j].req.seq

(* Every effect lands on the slot its request was built for: the session   *)
(* that wrote is the login that built the request, and the row it wrote is *)
(* that login's slot, not a later slot with the same usn (the capability   *)
(* check, the UNIQUE capability hash and the nonce check together).        *)
NoForeignWrite ==
  \A i \in 1 .. Len(history) :
    /\ history[i].nonce = history[i].req.from
    /\ bound[history[i].nonce].usn = history[i].usn
    /\ bound[history[i].nonce].gen = history[i].gen

(* At most one login is open, it is the latest, and it is bound to the     *)
(* active slot, which exists (begin_login; delete_inactive_slot refuses    *)
(* the active slot).                                                       *)
OpenSessionIsActive ==
  \A n \in Nonce :
    sess[n].open => /\ n = nonce
                    /\ sess[n].usn = active
                    /\ slot[active] # None
                    /\ bound[n].usn = active /\ bound[n].gen = gen[active]

(* The selection never names a slot that was deleted                       *)
(* (delete_inactive_slot against request_switch and create_slot).          *)
SelectionExists ==
  /\ active # 0 => slot[active] # None
  /\ pending # 0 => slot[pending] # None

(* A request refused as stale by its sequence has not taken effect and     *)
(* never will; a retry of a committed request is answered from the ledger  *)
(* even after later requests (the ledger lookup precedes the sequence      *)
(* check).                                                                 *)
RefusedHasNoEffect ==
  \A r \in replies :
    r.kind = "stale" => \A i \in 1 .. Len(history) : history[i].req # r.req

(* A gameplay request that is answered with success is answered with the   *)
(* effect of that very request, in its first answer and in every replay    *)
(* (mutation_key).                                                         *)
ReplyIsOwnEffect ==
  \A r \in replies :
    ~ IsAdmin(r.req) /\ r.kind # "stale"
      => /\ r.kind = "ok"
         /\ r.effect \in 1 .. Len(history)
         /\ history[r.effect].req = r.req

(* The same for the commands of the settings page: success is reported     *)
(* only for a command that was committed (PROTOCOL.md, Mutation contract;  *)
(* admin_write_context).                                                   *)
AdminReplyIsOwnEffect ==
  \A r \in replies :
    IsAdmin(r.req) /\ r.kind # "stale"
      => /\ r.kind = "ok"
         /\ r.effect \in 1 .. Len(history)
         /\ history[r.effect].req = r.req

(* A step that commits an effect does so under the login that is open and  *)
(* latest at that moment: a session that a later login has ended writes    *)
(* nothing any more, even from a server instance that is still draining.   *)
OnlyOpenSessionWrites ==
  [][Len(history') > Len(history) =>
       LET e == history'[Len(history')]
       IN  e.nonce = nonce /\ sess[e.nonce].open /\ e.usn = active]_vars
=============================================================================
