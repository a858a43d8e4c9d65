---------------------------- MODULE MCRpcSession ----------------------------
(* RpcSession on small instances; the symmetry is sound because servers    *)
(* and capabilities are only compared for equality and every property      *)
(* checked with it is a safety property.                                   *)
EXTENDS RpcExactlyOnce, TLC

Symmetry == Permutations(Server) \cup Permutations(Capability)

(* A device whose owner already has two slots and plays the second one:    *)
(* the shortest way to a deleted and reused usn.                           *)
TwoSlots ==
  /\ MaxUsn >= 2
  /\ \E d \in Name : slot = [u \in Usn |-> IF u <= 2 THEN d ELSE None]
  /\ gen = [u \in Usn |-> IF u <= 2 THEN 1 ELSE 0]
  /\ active = 2 /\ pending = 0 /\ nonce = 0
  /\ sess = [n \in Nonce |-> NoRow] /\ ledger = {}
  /\ phase = [s \in Server |-> "off"] /\ srvCap = [s \in Server |-> None]
  /\ login = [s \in Server |-> NoSession] /\ session = [s \in Server |-> NoSession]
  /\ current = None
  /\ cap = None /\ spent = {}
  /\ client = NoClient /\ sent = {}
  /\ prepared = {} /\ replies = {} /\ history = <<>>
  /\ bound = [n \in Nonce |-> Unbound]

TwoSlotsSpec == TwoSlots /\ [][Next]_vars
=============================================================================
