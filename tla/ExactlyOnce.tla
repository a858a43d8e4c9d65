---------------------------- MODULE ExactlyOnce ----------------------------
(***************************************************************************)
(* What the mutation ledger promises a client that repeats its requests:   *)
(* a request takes effect once or not at all, those of one login in the    *)
(* order they were numbered, and every answer tells the truth about the    *)
(* request it answers, however often and however late it was delivered.    *)
(*                                                                         *)
(* Every request keeps its place in the order of effects; what an answer   *)
(* says is promised for those in Told.                                     *)
(*                                                                         *)
(* There is no slot, session, key, server or crash here: RpcExactlyOnce    *)
(* says how RpcSession, which has them, implements this.                   *)
(***************************************************************************)
EXTENDS Naturals, Sequences

CONSTANTS
  Request,   \* records with the login, `from', and its number, `seq'
  Told       \* the requests whose answers are promised to be true

VARIABLES
  log,       \* the requests that took effect, in order
  answers    \* [req, kind, effect]: "ok" with a position of the log, or "stale"

vars == <<log, answers>>

TookEffect(r) == \E i \in 1 .. Len(log) : log[i] = r

SameLogin(r) == {i \in 1 .. Len(log) : log[i].from = r.from}

Tell(r, kind, effect) ==
  answers' = answers \cup IF r \in Told THEN {[req |-> r, kind |-> kind, effect |-> effect]}
                          ELSE {}

Init == log = <<>> /\ answers = {}

(* The request takes effect, and its answer says so.                       *)
Commit(r) ==
  /\ ~ TookEffect(r)
  /\ \A i \in SameLogin(r) : log[i].seq < r.seq
  /\ log' = Append(log, r)
  /\ Tell(r, "ok", Len(log) + 1)

(* A repetition is told the effect of the first.                           *)
Repeat(r) ==
  /\ \E i \in 1 .. Len(log) : log[i] = r /\ Tell(r, "ok", i)
  /\ UNCHANGED log

(* A request that comes too late is told so, and has had no effect.        *)
Refuse(r) ==
  /\ ~ TookEffect(r)
  /\ \E i \in SameLogin(r) : log[i].seq >= r.seq
  /\ Tell(r, "stale", 0)
  /\ UNCHANGED log

Next == \E r \in Request : Commit(r) \/ Repeat(r) \/ Refuse(r)

Spec == Init /\ [][Next]_vars
=============================================================================
