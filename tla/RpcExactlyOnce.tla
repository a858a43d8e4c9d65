--------------------------- MODULE RpcExactlyOnce ---------------------------
(***************************************************************************)
(* RpcSession implements ExactlyOnce: sequence numbers, the ledger and the *)
(* session rows keep its promise over deliveries, logins, stops, starts    *)
(* and crashes, and over slots that are created, selected and deleted.     *)
(* The commands of the settings page take effect once and in order like    *)
(* all others; only their answers are not promised, for their keys do not  *)
(* tell one login from another (AdminReplyIsOwnEffect).                    *)
(***************************************************************************)
EXTENDS RpcSession

IssuedRequest == {r \in Request : r.cmd \in IssuedCommand}

Promise ==
  INSTANCE ExactlyOnce WITH
    Request <- IssuedRequest,
    Told <- {r \in IssuedRequest : ~ IsAdmin(r)},
    log <- [i \in 1 .. Len(history) |-> history[i].req],
    answers <- {a \in replies : ~ IsAdmin(a.req)}

(* Whatever is sent twice, late or to another instance, wherever the       *)
(* process dies and whatever becomes of the slots: each step of the server *)
(* is a step of ExactlyOnce or leaves log and answers alone                *)
(* (commit_rpc_mutation_with_replay, mutation_key).                        *)
KeepsPromise == Promise!Spec
=============================================================================
