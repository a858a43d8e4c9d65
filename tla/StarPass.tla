----------------------------- MODULE StarPass ------------------------------
(***************************************************************************)
(* The Star Pass of one slot: points that fills bring and that the client  *)
(* counts by itself and saves, the steps they reach, claims in the free    *)
(* and the premium lane, and the ticket for a season claimed to its end.   *)
(*                                                                         *)
(* A command takes effect when it is issued or is lost before it arrives;  *)
(* its answer may be lost as well.  That a repeated request has no second  *)
(* effect is shown in RpcSession.  Which season a client believes active   *)
(* is the subject of PassCalendar: here it may be any.                     *)
(***************************************************************************)
EXTENDS Naturals, FiniteSets

CONSTANTS
  Season,       \* seasons of the pass
  Version,      \* the I_Version a client may send
  Goal,         \* the points each step of a season asks for
  PaidPoint, AdPoint,   \* what one fill adds, before the multiplier
  Mult,         \* pass_point_multiplier
  Cost,         \* of a paid fill
  MaxDue        \* bound: points a row can have coming to it, by its version

Step == DOMAIN Goal
Lane == {0, 1}
Row == Season \X Version
Claim == Row \X Lane \X Step

ASSUME StarPassAssumption ==
  /\ Version \subseteq Nat /\ 1 \in Version
  /\ Step \subseteq Nat \ {0} /\ \E top \in Step : \A i \in Step : i <= top
  /\ Goal \in [Step -> Nat \ {0}]
  /\ PaidPoint \in Nat /\ AdPoint \in Nat /\ Mult \in Nat \ {0} /\ Cost \in Nat
  /\ MaxDue \in [Version -> Nat]

VARIABLES
  points, step, \* pass_progress, by season and version
  claims,       \* pass_claims
  premium,      \* pass_entitlements: seasons
  tickets,      \* ticket_collection: seasons whose ticket is kept
  chocolate,    \* currencies
  view,         \* the client's points
  due,          \* history: the points fills and play have brought
  paid          \* history: how often each claim's rewards were granted

progress == <<points, step>>
rewards == <<claims, premium, tickets, paid>>
vars == <<progress, rewards, chocolate, view, due>>

Init ==
  /\ points = [k \in Row |-> 0] /\ step = [k \in Row |-> 0]
  /\ claims = {} /\ premium = {} /\ tickets = {}
  /\ chocolate = Cost
  /\ view = [k \in Row |-> 0] /\ due = [k \in Row |-> 0]
  /\ paid = [c \in Claim |-> 0]

-----------------------------------------------------------------------------
(* n is the last step whose goal p reaches, 0 if there is none.            *)
IsStepAt(n, p) ==
  /\ n = 0 \/ (n \in Step /\ Goal[n] <= p)
  /\ \A i \in Step : Goal[i] <= p => i <= n

StepAt(p) == CHOOSE n \in Step \cup {0} : IsStepAt(n, p)

Larger(a, b) == IF a >= b THEN a ELSE b

(* fill_pass: the row of exactly the version that was sent.                *)
FillPass(k, p) ==
  /\ due' = [due EXCEPT ![k] = @ + p * Mult] /\ due'[k] <= MaxDue[k[2]]
  /\ points' = [points EXCEPT ![k] = @ + p * Mult]
  /\ step' = [step EXCEPT ![k] = Larger(@, StepAt(points'[k]))]

(* paidEventPoint: for chocolate, if there is enough, or an advertisement. *)
(* The client shows the total it is answered.                              *)
PaidEventPoint(k) ==
  /\ \/ /\ chocolate >= Cost
        /\ chocolate' = chocolate - Cost
        /\ FillPass(k, PaidPoint)
     \/ /\ FillPass(k, AdPoint)
        /\ UNCHANGED chocolate
  /\ \/ view' = [view EXCEPT ![k] = points'[k]]
     \/ UNCHANGED view
  /\ UNCHANGED rewards

(* Playing brings points the client counts by itself.                      *)
Earn(k) ==
  /\ due' = [due EXCEPT ![k] = @ + Mult] /\ due'[k] <= MaxDue[k[2]]
  /\ view' = [view EXCEPT ![k] = @ + 1]
  /\ UNCHANGED <<progress, rewards, chocolate>>

(* userSave, the passes of a save: what the client has above the stored    *)
(* points counts multiplied.  The answer does not tell the new points.     *)
WholeSave(p, saved) == IF saved > p THEN p + saved * Mult ELSE p   \* mutant of Merged

Merged(p, saved) == IF saved > p THEN p + (saved - p) * Mult ELSE p

UserSave ==
  /\ points' = [k \in Row |-> Merged(points[k], view[k])]
  /\ step' = [k \in Row |->
       Larger(Larger(step[k], StepAt(view[k])), StepAt(points'[k]))]
  /\ UNCHANGED <<rewards, chocolate, view, due>>

(* userLogin and userLoad tell the stored points.                          *)
Login ==
  /\ view' = points
  /\ UNCHANGED <<progress, rewards, chocolate, due>>

(* activate_passes: of the seasons asked for, those there are.             *)
ActivatePasses(ss) ==
  /\ premium' = premium \cup (ss \cap Season)
  /\ UNCHANGED <<progress, claims, tickets, paid, chocolate, view, due>>

(* setSubscribe: the client asks for any number of seasons at once, also   *)
(* for those it has.                                                       *)
SetSubscribe == \E ss \in SUBSET Season : ActivatePasses(ss)

(* claim_pass_reward: the ticket comes with the last claim of the lane.    *)
ReachedInAny(k, n) ==                          \* mutant of Reached
  \E v \in Version : points[<<k[1], v>>] >= Goal[n]

Reached(k, n) == points[k] >= Goal[n]

CompletesPass(cs, k) ==                        \* mutant of CompletesLane
  Cardinality({c \in cs : c[1] = k}) >= Cardinality(Step)

CompletesLane(cs, k) ==
  Cardinality({c \in cs : c[1] = k /\ c[2] = 1}) >= Cardinality(Step)

ClaimPassReward(k, lane, n) ==
  LET c == <<k, lane, n>> IN
  /\ Reached(k, n)
  /\ lane = 1 => k[1] \in premium
  /\ c \notin claims
  /\ claims' = claims \cup {c}
  /\ paid' = [paid EXCEPT ![c] = @ + 1]
  /\ tickets' = IF lane = 1 /\ CompletesLane(claims', k) THEN tickets \cup {k[1]} ELSE tickets
  /\ UNCHANGED <<progress, premium, chocolate, view, due>>

(* setPassReward: a claim never looks at version 0.                        *)
SetPassReward(s, v, lane, n) == ClaimPassReward(<<s, Larger(v, 1)>>, lane, n)

Next ==
  \/ \E k \in Row : PaidEventPoint(k) \/ Earn(k)
  \/ UserSave \/ Login
  \/ SetSubscribe
  \/ \E s \in Season, v \in Version, l \in Lane, n \in Step : SetPassReward(s, v, l, n)

Spec == Init /\ [][Next]_vars

-----------------------------------------------------------------------------
(* Every variable has its type.                                            *)
TypeOK ==
  /\ points \in [Row -> Nat] /\ step \in [Row -> Step \cup {0}]
  /\ claims \subseteq Claim
  /\ premium \subseteq Season /\ tickets \subseteq Season
  /\ chocolate \in Nat
  /\ view \in [Row -> Nat] /\ due \in [Row -> Nat]
  /\ paid \in [Claim -> Nat]

(* No row of the pass ever has more than fills and play have brought, each *)
(* multiplied once, whatever is saved how often and whichever answers were *)
(* lost; and its step is the one its points reach (merge_user_save,        *)
(* fill_pass).                                                             *)
PointsAreEarned ==
  \A k \in Row : points[k] <= due[k] /\ IsStepAt(step[k], points[k])

(* What is claimed was reached, in the row of its own version, was paid    *)
(* for in the premium lane, and has been granted once                      *)
(* (claim_pass_reward).                                                    *)
ClaimsAreReached ==
  \A c \in Claim :
    IF c \in claims
      THEN /\ points[c[1]] >= Goal[c[3]] /\ paid[c] = 1
           /\ c[2] = 1 => c[1][1] \in premium
      ELSE paid[c] = 0

(* The ticket of a season is kept exactly when, in one version, its        *)
(* premium lane has been claimed to the end (claim_pass_reward).           *)
TicketMeansAll ==
  \A s \in Season :
    s \in tickets <=> \E v \in Version : \A n \in Step : <<<<s, v>>, 1, n>> \in claims
=============================================================================
