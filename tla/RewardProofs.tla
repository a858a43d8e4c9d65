---------------------------- MODULE RewardProofs ----------------------------
(***************************************************************************)
(* Proofs about the components that keep rewards until they are fetched:   *)
(* StarPass for any seasons, versions, steps, goals and multiplier,        *)
(* PassCalendar for any seasons, days and selections, and Mailbox for any  *)
(* catalog, set of events and number of mails and changes.                 *)
(*                                                                         *)
(* PointsAreEarned is not inductive: between two saves the client may be   *)
(* ahead of the stored points, and the next save multiplies the distance.  *)
(* What is inductive is that this distance, multiplied, is still coming to *)
(* the row (Credit).                                                       *)
(*                                                                         *)
(* A table that is not torn stands for a day, an offset and a number of    *)
(* selections no later than the slot's, which its update time tells        *)
(* (FetchedOn): two tables with one update time are of one day.            *)
(*                                                                         *)
(* A mail's marks only grow and its number is used once, so that its       *)
(* reward is applied when it becomes claimed and never else.  A client's   *)
(* cursor is never ahead of the server's, so that any change makes the two *)
(* differ.  A completed event is never claimed again, so that each mail    *)
(* the check does not see is one more event in sentBy.                     *)
(***************************************************************************)
EXTENDS StarPass, PassCalendar, Mailbox, DataLemmas

(* What a row has once the client has saved.                               *)
Credit ==
  \A k \in Row : points[k] <= due[k] /\ Merged(points[k], view[k]) <= due[k]

Steps == \A k \in Row : IsStepAt(step[k], points[k])

StarPassInv == TypeOK /\ Credit /\ Steps /\ ClaimsAreReached /\ TicketMeansAll

USE StarPassAssumption

-----------------------------------------------------------------------------
(* Arithmetic and the greatest step.                                       *)
LEMMA MultGrows ==
  ASSUME NEW a \in Nat
  PROVE  a * Mult \in Nat /\ a <= a * Mult
OBVIOUS

LEMMA MultAdds ==
  ASSUME NEW a \in Nat, NEW b \in Nat
  PROVE  (a + b) * Mult = a * Mult + b * Mult
OBVIOUS

LEMMA StepsAreBounded == \E top \in Nat : Step \subseteq 1 .. top
<1>1. Step \subseteq Nat \ {0} /\ \E top \in Step : \A i \in Step : i <= top
  OBVIOUS
<1>2. PICK top \in Step : \A i \in Step : i <= top
  BY <1>1
<1>3. top \in Nat /\ Step \subseteq 1 .. top
  BY <1>1, <1>2
<1> QED
  BY <1>3

LEMMA StepsAreNatural == Step \cup {0} \subseteq Nat
<1>1. PICK top \in Nat : Step \subseteq 1 .. top
  BY StepsAreBounded
<1> QED
  BY <1>1

(* StepAt is the greatest step whose goal is reached.                      *)
LEMMA StepIsAt ==
  ASSUME NEW p \in Nat
  PROVE  StepAt(p) \in Step \cup {0} /\ IsStepAt(StepAt(p), p)
<1> DEFINE Bounds == {b \in Nat : \A i \in Step : Goal[i] <= p => i <= b}
<1>1. PICK top \in Nat : Step \subseteq 1 .. top
  BY StepsAreBounded
<1>2. top \in Bounds
  BY <1>1
<1>3. PICK n \in Bounds : \A b \in Bounds : n <= b
  BY <1>2, LeastNatural
<1>4. n = 0 \/ (n \in Step /\ Goal[n] <= p)
  <2> SUFFICES ASSUME n # 0 PROVE n \in Step /\ Goal[n] <= p
    OBVIOUS
  <2>1. n - 1 \in Nat /\ n - 1 \notin Bounds
    BY <1>3
  <2>2. PICK i \in Step : Goal[i] <= p /\ ~ (i <= n - 1)
    BY <2>1
  <2>3. i \in Nat /\ i <= n
    BY <1>1, <1>3, <2>2
  <2>4. i = n
    BY <2>1, <2>2, <2>3
  <2> QED
    BY <2>2, <2>4
<1>5. n \in Step \cup {0} /\ IsStepAt(n, p)
  BY <1>3, <1>4 DEF IsStepAt
<1> QED
  BY <1>5 DEF StepAt

(* It is the only one, and grows with the points.                          *)
LEMMA StepIsUnique ==
  ASSUME NEW p \in Nat, NEW m \in Step \cup {0}, NEW n \in Step \cup {0},
         IsStepAt(m, p), IsStepAt(n, p)
  PROVE  m = n
<1>1. Step \subseteq Nat
  OBVIOUS
<1> QED
  BY <1>1 DEF IsStepAt

LEMMA StepGrows ==
  ASSUME NEW p \in Nat, NEW q \in Nat, p <= q,
         NEW m \in Step \cup {0}, NEW n \in Step \cup {0}, IsStepAt(m, p), IsStepAt(n, q)
  PROVE  m <= n
<1>1. Step \subseteq Nat /\ \A i \in Step : Goal[i] \in Nat
  OBVIOUS
<1> QED
  BY <1>1 DEF IsStepAt

(* Raising a step that was right to that of more points makes it right.    *)
LEMMA StepRaised ==
  ASSUME NEW p \in Nat, NEW q \in Nat, p <= q, NEW m \in Step \cup {0}, IsStepAt(m, p)
  PROVE  /\ Larger(m, StepAt(q)) \in Step \cup {0}
         /\ IsStepAt(Larger(m, StepAt(q)), q)
<1>1. StepAt(q) \in Step \cup {0} /\ IsStepAt(StepAt(q), q)
  BY StepIsAt
<1>2. m <= StepAt(q)
  BY <1>1, StepGrows
<1>3. m \in Nat /\ StepAt(q) \in Nat
  BY <1>1, StepsAreNatural
<1> HIDE DEF StepAt
<1>4. Larger(m, StepAt(q)) = StepAt(q)
  BY <1>2, <1>3 DEF Larger
<1> QED
  BY <1>1, <1>4

LEMMA MergedBounds ==
  ASSUME NEW p \in Nat, NEW s \in Nat
  PROVE  Merged(p, s) \in Nat /\ p <= Merged(p, s) /\ s <= Merged(p, s)
<1>1. CASE s > p
  <2>1. s - p \in Nat /\ s - p <= (s - p) * Mult /\ (s - p) * Mult \in Nat
    BY <1>1, MultGrows
  <2> QED
    BY <1>1, <2>1 DEF Merged
<1>2. CASE ~ (s > p)
  BY <1>2 DEF Merged
<1> QED
  BY <1>1, <1>2

-----------------------------------------------------------------------------
LEMMA InitInvariant == Init => StarPassInv
<1> SUFFICES ASSUME Init PROVE StarPassInv
  OBVIOUS
<1>1. TypeOK
  BY DEF Init, TypeOK, Row, Claim
<1>2. Credit
  BY DEF Init, Credit, Merged
<1>3. Steps
  <2>1. \A i \in Step : ~ (Goal[i] <= 0)
    OBVIOUS
  <2> QED
    BY <2>1 DEF Init, Steps, IsStepAt
<1>4. ClaimsAreReached
  BY DEF Init, ClaimsAreReached
<1>5. TicketMeansAll
  BY DEF Init, TicketMeansAll
<1> QED
  BY <1>1, <1>2, <1>3, <1>4, <1>5 DEF StarPassInv

(* As long as no claim is made, claims stay reached when points do not     *)
(* fall.                                                                   *)
LEMMA RewardsUntouched ==
  ASSUME StarPassInv, UNCHANGED <<claims, tickets, paid>>, premium \subseteq premium',
         TypeOK', \A k \in Row : points[k] <= points'[k]
  PROVE  ClaimsAreReached' /\ TicketMeansAll'
<1>1. TicketMeansAll'
  BY DEF StarPassInv, TicketMeansAll
<1>2. ASSUME NEW c \in claims PROVE points'[c[1]] >= Goal[c[3]]
  <2>1. c \in Claim /\ c[1] \in Row /\ c[3] \in Step
    BY <1>2 DEF StarPassInv, TypeOK, Claim
  <2>2. points[c[1]] >= Goal[c[3]] /\ points[c[1]] <= points'[c[1]]
    BY <1>2, <2>1 DEF StarPassInv, ClaimsAreReached
  <2>3. points[c[1]] \in Nat /\ points'[c[1]] \in Nat /\ Goal[c[3]] \in Nat
    BY <2>1 DEF StarPassInv, TypeOK
  <2> QED
    BY <2>2, <2>3
<1>3. ClaimsAreReached'
  BY <1>2 DEF StarPassInv, ClaimsAreReached
<1> QED
  BY <1>1, <1>3

LEMMA FillStep ==
  ASSUME StarPassInv, NEW k \in Row, NEW p \in Nat, FillPass(k, p), UNCHANGED rewards,
         chocolate' \in Nat,
         view' = [view EXCEPT ![k] = points'[k]] \/ view' = view
  PROVE  StarPassInv'
<1> DEFINE n == p * Mult
<1>1. n \in Nat
  BY MultGrows
<1>2. /\ points \in [Row -> Nat] /\ due \in [Row -> Nat] /\ view \in [Row -> Nat]
      /\ step \in [Row -> Step \cup {0}]
  BY DEF StarPassInv, TypeOK
<1>3. /\ due' = [due EXCEPT ![k] = @ + n] /\ points' = [points EXCEPT ![k] = @ + n]
      /\ step' = [step EXCEPT ![k] = Larger(@, StepAt(points'[k]))]
  BY DEF FillPass
<1> HIDE DEF n
<1>4. points' \in [Row -> Nat] /\ due' \in [Row -> Nat] /\ view' \in [Row -> Nat]
  BY <1>1, <1>2, <1>3
<1>5. /\ points[k] <= points'[k]
      /\ points[k] \in Nat /\ points'[k] \in Nat
      /\ step[k] \in Step \cup {0} /\ IsStepAt(step[k], points[k])
  BY <1>1, <1>2, <1>3, <1>4 DEF StarPassInv, Steps
<1>6. /\ Larger(step[k], StepAt(points'[k])) \in Step \cup {0}
      /\ IsStepAt(Larger(step[k], StepAt(points'[k])), points'[k])
  BY <1>5, StepRaised
<1>7. TypeOK'
  BY <1>2, <1>3, <1>4, <1>6 DEF StarPassInv, TypeOK, rewards
<1>8. Steps'
  <2>1. ASSUME NEW j \in Row PROVE IsStepAt(step'[j], points'[j])
    <3>1. CASE j = k
      BY <1>2, <1>3, <1>6, <3>1
    <3>2. CASE j # k
      <4>1. step'[j] = step[j] /\ points'[j] = points[j]
        BY <1>2, <1>3, <3>2
      <4> QED
        BY <4>1 DEF StarPassInv, Steps
    <3> QED
      BY <3>1, <3>2
  <2> QED
    BY <2>1 DEF Steps, IsStepAt
<1>9. Credit'
  <2> SUFFICES ASSUME NEW j \in Row
               PROVE  points'[j] <= due'[j] /\ Merged(points'[j], view'[j]) <= due'[j]
    BY DEF Credit, Merged
  <2>1. points[j] <= due[j] /\ Merged(points[j], view[j]) <= due[j]
    BY DEF StarPassInv, Credit
  <2>2. CASE j # k
    <3>1. points'[j] = points[j] /\ view'[j] = view[j] /\ due'[j] = due[j]
      BY <1>2, <1>3, <2>2
    <3> QED
      BY <2>1, <3>1
  <2>3. CASE j = k
    <3>1. points'[j] = points[j] + n /\ due'[j] = due[j] + n
      BY <1>2, <1>3, <2>3
    <3>2. points[j] \in Nat /\ due[j] \in Nat /\ view[j] \in Nat /\ view'[j] \in Nat
      BY <1>2, <1>4
    <3>3. CASE view'[j] = points'[j]
      BY <1>1, <2>1, <3>1, <3>2, <3>3 DEF Merged
    <3>4. CASE view'[j] = view[j] /\ view[j] > points'[j]
      <4> DEFINE a == view[j] - points'[j]
      <4>1. a \in Nat /\ view[j] - points[j] = a + n
        BY <1>1, <3>1, <3>2, <3>4
      <4>2. (a + n) * Mult = a * Mult + n * Mult
        BY <1>1, <4>1, MultAdds
      <4>3. n <= n * Mult /\ n * Mult \in Nat /\ a * Mult \in Nat
        BY <1>1, <4>1, MultGrows
      <4>4. Merged(points[j], view[j]) = points[j] + (a + n) * Mult
        BY <1>1, <3>1, <3>2, <3>4, <4>1 DEF Merged
      <4>5. Merged(points'[j], view'[j]) = points[j] + n + a * Mult
        BY <3>1, <3>4 DEF Merged
      <4> HIDE DEF a
      <4> QED
        BY <1>1, <2>1, <3>1, <3>2, <4>2, <4>3, <4>4, <4>5
    <3>5. CASE view'[j] = view[j] /\ ~ (view[j] > points'[j])
      BY <1>1, <2>1, <3>1, <3>2, <3>5 DEF Merged
    <3>6. view'[j] = points'[j] \/ view'[j] = view[j]
      BY <1>2, <2>3
    <3> QED
      BY <3>3, <3>4, <3>5, <3>6
  <2> QED
    BY <2>2, <2>3
<1>10. \A j \in Row : points[j] <= points'[j]
  BY <1>1, <1>2, <1>3
<1>11. ClaimsAreReached' /\ TicketMeansAll'
  BY <1>7, <1>10, RewardsUntouched DEF rewards
<1> QED
  BY <1>7, <1>8, <1>9, <1>11 DEF StarPassInv

LEMMA EarnStep ==
  ASSUME StarPassInv, NEW k \in Row, Earn(k)
  PROVE  StarPassInv'
<1>1. /\ points \in [Row -> Nat] /\ due \in [Row -> Nat] /\ view \in [Row -> Nat]
      /\ due' = [due EXCEPT ![k] = @ + Mult] /\ view' = [view EXCEPT ![k] = @ + 1]
      /\ UNCHANGED <<points, step, claims, premium, tickets, paid, chocolate>>
  BY DEF StarPassInv, TypeOK, Earn, progress, rewards
<1>2. TypeOK'
  BY <1>1 DEF StarPassInv, TypeOK
<1>3. Steps'
  BY <1>1 DEF StarPassInv, Steps, IsStepAt
<1>4. Credit'
  <2> SUFFICES ASSUME NEW j \in Row
               PROVE  points[j] <= due'[j] /\ Merged(points[j], view'[j]) <= due'[j]
    BY <1>1 DEF Credit, Merged
  <2>1. points[j] <= due[j] /\ Merged(points[j], view[j]) <= due[j]
    BY DEF StarPassInv, Credit
  <2>2. points[j] \in Nat /\ due[j] \in Nat /\ view[j] \in Nat
    BY <1>1
  <2>3. CASE j # k
    <3>1. view'[j] = view[j] /\ due'[j] = due[j]
      BY <1>1, <2>3
    <3> QED
      BY <2>1, <3>1
  <2>4. CASE j = k
    <3>1. view'[j] = view[j] + 1 /\ due'[j] = due[j] + Mult
      BY <1>1, <2>4
    <3>2. CASE view[j] >= points[j]
      <4> DEFINE a == view[j] - points[j]
      <4>1. a \in Nat /\ view'[j] - points[j] = a + 1 /\ view'[j] > points[j]
        BY <2>2, <3>1, <3>2
      <4>2. (a + 1) * Mult = a * Mult + Mult /\ a * Mult \in Nat
        BY <4>1, MultAdds, MultGrows
      <4>3. points[j] + a * Mult <= due[j]
        <5>1. CASE view[j] > points[j]
          BY <2>1, <5>1 DEF Merged
        <5>2. CASE view[j] = points[j]
          <6>1. a = 0
            BY <2>2, <5>2
          <6> QED
            BY <2>1, <2>2, <6>1
        <5> QED
          BY <2>2, <3>2, <5>1, <5>2
      <4>4. Merged(points[j], view'[j]) = points[j] + (a + 1) * Mult
        BY <4>1 DEF Merged
      <4> HIDE DEF a
      <4> QED
        BY <2>1, <2>2, <3>1, <4>2, <4>3, <4>4
    <3>3. CASE ~ (view[j] >= points[j])
      BY <2>1, <2>2, <3>1, <3>3 DEF Merged
    <3> QED
      BY <3>2, <3>3
  <2> QED
    BY <2>3, <2>4
<1>5. \A j \in Row : points[j] <= points'[j]
  BY <1>1
<1>6. ClaimsAreReached' /\ TicketMeansAll'
  BY <1>1, <1>2, <1>5, RewardsUntouched
<1> QED
  BY <1>2, <1>3, <1>4, <1>6 DEF StarPassInv

LEMMA SaveStep ==
  ASSUME StarPassInv, UserSave
  PROVE  StarPassInv'
<1>1. /\ points \in [Row -> Nat] /\ due \in [Row -> Nat] /\ view \in [Row -> Nat]
      /\ step \in [Row -> Step \cup {0}]
      /\ points' = [k \in Row |-> Merged(points[k], view[k])]
      /\ step' = [k \in Row |->
            Larger(Larger(step[k], StepAt(view[k])), StepAt(points'[k]))]
      /\ UNCHANGED <<claims, premium, tickets, paid, chocolate, view, due>>
  BY DEF StarPassInv, TypeOK, UserSave, rewards
<1>2. ASSUME NEW k \in Row
      PROVE  /\ points'[k] = Merged(points[k], view[k])
             /\ points'[k] \in Nat /\ points[k] <= points'[k] /\ view[k] <= points'[k]
             /\ points[k] \in Nat /\ view[k] \in Nat
  BY <1>1, MergedBounds
<1>3. ASSUME NEW k \in Row
      PROVE  step'[k] \in Step \cup {0} /\ IsStepAt(step'[k], points'[k])
  <2> DEFINE a == StepAt(points[k])
             b == StepAt(view[k])
             c == StepAt(points'[k])
  <2>1. /\ a \in Step \cup {0} /\ IsStepAt(a, points[k])
        /\ b \in Step \cup {0} /\ IsStepAt(b, view[k])
        /\ c \in Step \cup {0} /\ IsStepAt(c, points'[k])
    BY <1>2, StepIsAt
  <2>2. step[k] \in Step \cup {0} /\ IsStepAt(step[k], points[k])
    BY <1>1 DEF StarPassInv, Steps
  <2>3. step[k] <= c /\ b <= c
    BY <1>2, <2>1, <2>2, StepGrows
  <2>4. step'[k] = Larger(Larger(step[k], b), c)
    BY <1>1
  <2>5. step[k] \in Nat /\ b \in Nat /\ c \in Nat
    BY <2>1, <2>2, StepsAreNatural
  <2> HIDE DEF b, c
  <2>6. step'[k] = c
    BY <2>3, <2>4, <2>5 DEF Larger
  <2> QED
    BY <2>1, <2>6
<1>4. TypeOK'
  <2>1. points' \in [Row -> Nat] /\ step' \in [Row -> Step \cup {0}]
    BY <1>1, <1>2, <1>3
  <2> QED
    BY <1>1, <2>1 DEF StarPassInv, TypeOK
<1>5. Steps'
  BY <1>3 DEF Steps, IsStepAt
<1>6. Credit'
  <2> SUFFICES ASSUME NEW k \in Row
               PROVE  points'[k] <= due[k] /\ Merged(points'[k], view[k]) <= due[k]
    BY <1>1 DEF Credit, Merged
  <2>1. points'[k] <= due[k]
    BY <1>2 DEF StarPassInv, Credit
  <2>2. ~ (view[k] > points'[k])
    BY <1>2
  <2> QED
    BY <2>1, <2>2 DEF Merged
<1>7. ClaimsAreReached' /\ TicketMeansAll'
  BY <1>1, <1>2, <1>4, RewardsUntouched
<1> QED
  BY <1>4, <1>5, <1>6, <1>7 DEF StarPassInv

LEMMA LoginStep ==
  ASSUME StarPassInv, Login
  PROVE  StarPassInv'
<1>1. view' = points /\ UNCHANGED <<points, step, claims, premium, tickets, paid, chocolate, due>>
  BY DEF Login, progress, rewards
<1>2. TypeOK'
  BY <1>1 DEF StarPassInv, TypeOK
<1>3. Steps'
  BY <1>1 DEF StarPassInv, Steps, IsStepAt
<1>4. Credit'
  <2>1. \A k \in Row : points[k] \in Nat /\ points[k] <= due[k]
    BY DEF StarPassInv, TypeOK, Credit
  <2> QED
    BY <1>1, <2>1 DEF Credit, Merged
<1>5. \A k \in Row : points[k] <= points'[k]
  BY <1>1 DEF StarPassInv, TypeOK
<1>6. ClaimsAreReached' /\ TicketMeansAll'
  BY <1>1, <1>2, <1>5, RewardsUntouched
<1> QED
  BY <1>2, <1>3, <1>4, <1>6 DEF StarPassInv

LEMMA SubscribeStep ==
  ASSUME StarPassInv, SetSubscribe
  PROVE  StarPassInv'
<1>1. /\ premium \subseteq premium' /\ premium' \subseteq premium \cup Season
      /\ UNCHANGED <<points, step, claims, tickets, paid, chocolate, view, due>>
  BY DEF SetSubscribe, ActivatePasses, progress
<1>2. TypeOK'
  BY <1>1 DEF StarPassInv, TypeOK
<1>3. Steps' /\ Credit'
  BY <1>1 DEF StarPassInv, Steps, IsStepAt, Credit, Merged
<1>4. \A k \in Row : points[k] <= points'[k]
  BY <1>1 DEF StarPassInv, TypeOK
<1>5. ClaimsAreReached' /\ TicketMeansAll'
  BY <1>1, <1>2, <1>4, RewardsUntouched
<1> QED
  BY <1>2, <1>3, <1>5 DEF StarPassInv

-----------------------------------------------------------------------------
(* Counting the claims of a lane tells whether it is complete.             *)
LEMMA CompleteIsAll ==
  ASSUME NEW cs \in SUBSET Claim, NEW k \in Row
  PROVE  CompletesLane(cs, k) <=> \A n \in Step : <<k, 1, n>> \in cs
<1> DEFINE Of == {c \in cs : c[1] = k /\ c[2] = 1}
           Full == {<<k, 1, n>> : n \in Step}
           f == [n \in Step |-> <<k, 1, n>>]
<1>1. IsFiniteSet(Step)
  <2>1. PICK top \in Nat : Step \subseteq 1 .. top
    BY StepsAreBounded
  <2> QED
    BY <2>1, FS_BoundedSetOfNaturals
<1>2. f \in Bijection(Step, Full)
  BY DEF Bijection, Injection, Surjection, IsInjective
<1>3. IsFiniteSet(Full) /\ Cardinality(Full) = Cardinality(Step)
  BY <1>1, <1>2, FS_Bijection DEF ExistsBijection
<1>4. Of \subseteq Full
  <2> SUFFICES ASSUME NEW c \in Of PROVE c \in Full
    OBVIOUS
  <2>1. c \in Row \X Lane \X Step /\ c[1] = k /\ c[2] = 1
    BY DEF Claim
  <2>2. c = <<c[1], c[2], c[3]>> /\ c[3] \in Step
    BY <2>1
  <2> QED
    BY <2>1, <2>2
<1>5. IsFiniteSet(Of) /\ Cardinality(Of) <= Cardinality(Full)
      /\ (Cardinality(Full) = Cardinality(Of) => Full = Of)
  BY <1>3, <1>4, FS_Subset
<1>6. Cardinality(Of) \in Nat /\ Cardinality(Full) \in Nat
  BY <1>3, <1>5, FS_CardinalityType
<1>7. CompletesLane(cs, k) <=> Cardinality(Of) >= Cardinality(Step)
  BY DEF CompletesLane
<1> HIDE DEF Of, Full
<1>9. CompletesLane(cs, k) <=> Full = Of
  BY <1>3, <1>5, <1>6, <1>7
<1> USE DEF Of, Full
<1>8. Full = Of <=> \A n \in Step : <<k, 1, n>> \in cs
  BY <1>4
<1> QED
  BY <1>8, <1>9

LEMMA ClaimStep ==
  ASSUME StarPassInv, NEW k \in Row, NEW lane \in Lane, NEW n \in Step, ClaimPassReward(k, lane, n)
  PROVE  StarPassInv'
<1> DEFINE c == <<k, lane, n>>
<1>1. /\ points[k] >= Goal[n] /\ (lane = 1 => k[1] \in premium) /\ c \notin claims
      /\ claims' = claims \cup {c} /\ paid' = [paid EXCEPT ![c] = @ + 1]
      /\ tickets' = IF lane = 1 /\ CompletesLane(claims', k)
                    THEN tickets \cup {k[1]} ELSE tickets
      /\ UNCHANGED <<points, step, premium, chocolate, view, due>>
  BY DEF ClaimPassReward, Reached, progress
<1>2. c \in Claim /\ k[1] \in Season
  BY DEF Claim, Row
<1>3. c[1] = k /\ c[2] = lane /\ c[3] = n
  OBVIOUS
<1>4. claims \subseteq Claim /\ claims' \subseteq Claim /\ paid \in [Claim -> Nat]
  BY <1>1, <1>2 DEF StarPassInv, TypeOK
<1> HIDE DEF c
<1>5. TypeOK'
  BY <1>1, <1>2, <1>4 DEF StarPassInv, TypeOK
<1>6. Steps' /\ Credit'
  BY <1>1 DEF StarPassInv, Steps, IsStepAt, Credit, Merged
<1>7. ClaimsAreReached'
  <2>1. paid[c] = 0
    BY <1>1, <1>2 DEF StarPassInv, ClaimsAreReached
  <2>2. ASSUME NEW d \in Claim
        PROVE  IF d \in claims'
                 THEN /\ points[d[1]] >= Goal[d[3]] /\ paid'[d] = 1
                      /\ d[2] = 1 => d[1][1] \in premium
                 ELSE paid'[d] = 0
    <3>1. CASE d = c
      BY <1>1, <1>2, <1>3, <1>4, <2>1, <3>1
    <3>2. CASE d # c
      BY <1>1, <1>4, <3>2 DEF StarPassInv, ClaimsAreReached
    <3> QED
      BY <3>1, <3>2
  <2> QED
    BY <1>1, <2>2 DEF ClaimsAreReached
<1>8. TicketMeansAll'
  <2> DEFINE All(cs, s, v) == \A i \in Step : <<<<s, v>>, 1, i>> \in cs
  <2>1. \A s \in Season : s \in tickets <=> \E v \in Version : All(claims, s, v)
    BY DEF StarPassInv, TicketMeansAll
  <2>2. PICK s0 \in Season, v0 \in Version : k = <<s0, v0>>
    <3>1. k = <<k[1], k[2]>> /\ k[1] \in Season /\ k[2] \in Version
      BY DEF Row
    <3> QED
      BY <3>1
  <2>3. \A s \in Season, v \in Version : All(claims, s, v) => All(claims', s, v)
    BY <1>1
  <2>4. ASSUME NEW s \in Season, NEW v \in Version, All(claims', s, v), ~ All(claims, s, v)
        PROVE  s = s0 /\ v = v0 /\ lane = 1 /\ CompletesLane(claims', k)
    <3>1. PICK i \in Step : <<<<s, v>>, 1, i>> \notin claims
      BY <2>4
    <3>2. <<<<s, v>>, 1, i>> = c
      BY <1>1, <2>4, <3>1
    <3>3. s = s0 /\ v = v0 /\ lane = 1
      BY <2>2, <3>2 DEF c
    <3> QED
      BY <1>4, <2>2, <2>4, <3>3, CompleteIsAll
  <2>5. CompletesLane(claims', k) => All(claims', s0, v0)
    BY <1>4, <2>2, CompleteIsAll
  <2>6. k[1] = s0
    BY <2>2
  <2> HIDE DEF All
  <2>7. \A s \in Season : s \in tickets' <=> \E v \in Version : All(claims', s, v)
    BY <1>1, <2>1, <2>2, <2>3, <2>4, <2>5, <2>6
  <2> QED
    BY <2>7 DEF TicketMeansAll, All
<1> QED
  BY <1>5, <1>6, <1>7, <1>8 DEF StarPassInv

-----------------------------------------------------------------------------
LEMMA NextInvariant ==
  ASSUME StarPassInv, [Next]_vars
  PROVE  StarPassInv'
<1>1. CASE UNCHANGED vars
  BY <1>1 DEF vars, progress, rewards, StarPassInv, TypeOK, Credit, Merged, Steps, IsStepAt,
              ClaimsAreReached, TicketMeansAll
<1>2. ASSUME NEW k \in Row, PaidEventPoint(k) PROVE StarPassInv'
  <2>1. PaidPoint \in Nat /\ AdPoint \in Nat /\ chocolate \in Nat
    BY DEF StarPassInv, TypeOK
  <2>2. UNCHANGED rewards /\ (view' = [view EXCEPT ![k] = points'[k]] \/ view' = view)
    BY <1>2 DEF PaidEventPoint
  <2>3. /\ chocolate' \in Nat
        /\ FillPass(k, PaidPoint) \/ FillPass(k, AdPoint)
    BY <1>2, <2>1 DEF PaidEventPoint
  <2> QED
    BY <2>1, <2>2, <2>3, FillStep
<1>3. ASSUME NEW s \in Season, NEW v \in Version, NEW l \in Lane, NEW n \in Step,
             SetPassReward(s, v, l, n)
      PROVE  StarPassInv'
  <2>1. Larger(v, 1) \in Version
    BY DEF Larger
  <2>2. <<s, Larger(v, 1)>> \in Row
    BY <2>1 DEF Row
  <2> QED
    BY <1>3, <2>2, ClaimStep DEF SetPassReward
<1>4. CASE Next
  BY <1>2, <1>3, <1>4, EarnStep, SaveStep, LoginStep, SubscribeStep DEF Next
<1> QED
  BY <1>1, <1>4

(* The invariant holds for any seasons, versions, steps and multiplier.    *)
THEOREM StarPassInvariant == Spec => []StarPassInv
<1>1. StarPassInv /\ [Next]_vars => StarPassInv'
  BY NextInvariant
<1> QED
  BY InitInvariant, <1>1, PTL DEF Spec

(* Every variable of StarPass keeps its type.                              *)
THEOREM StarPassTypes == Spec => []TypeOK
<1>1. StarPassInv => TypeOK
  BY DEF StarPassInv
<1> QED
  BY StarPassInvariant, <1>1, PTL

(* Points are never multiplied twice: a row has at most what fills and     *)
(* play have brought, and its step is the one they reach                   *)
(* (merge_user_save, fill_pass).                                           *)
THEOREM NoPointTwice == Spec => []PointsAreEarned
<1>1. StarPassInv => PointsAreEarned
  BY DEF StarPassInv, Credit, Steps, PointsAreEarned
<1> QED
  BY StarPassInvariant, <1>1, PTL

(* A claim was reached, paid for if premium, and granted once              *)
(* (claim_pass_reward).                                                    *)
THEOREM ClaimsOnceAndReached == Spec => []ClaimsAreReached
<1>1. StarPassInv => ClaimsAreReached
  BY DEF StarPassInv
<1> QED
  BY StarPassInvariant, <1>1, PTL

(* The ticket of a season comes with the last claim of a premium lane and  *)
(* not before (claim_pass_reward).                                         *)
THEOREM TicketWithTheLast == Spec => []TicketMeansAll
<1>1. StarPassInv => TicketMeansAll
  BY DEF StarPassInv
<1> QED
  BY StarPassInvariant, <1>1, PTL

-----------------------------------------------------------------------------
(* The season of a day, from an anchor, and the update time of a day, an   *)
(* offset and a number of selections.                                      *)
SeasonOn(a, d) == ((a.season - 1 + (d - a.day)) % Seasons) + 1

TimeAt(d, o, n) == (d * DayLength - o) * Fine + n

(* The client's tables are of a day, an offset and a number of selections  *)
(* their update time stands for, with the season of that day unless the    *)
(* slot has selected another since.                                        *)
FetchedOn ==
  ~ table.torn =>
    \E d \in Int, o \in Offset, n \in Int :
      /\ table.key = TimeAt(d, o, n) /\ 0 <= n /\ n <= revision[table.of]
      /\ n = revision[table.of] => table.season = SeasonOn(anchor[table.of], d)

CalendarInv == CalendarTypeOK /\ FetchedOn

LEMMA TodayIsADay ==
  ASSUME CalendarTypeOK
  PROVE  /\ Today \in Int /\ FirstAnchor \in [day : Int, season : PassSeason]
         /\ \A s \in Slot : ActiveSeason(s) \in PassSeason /\ UpdateTime(s) \in Int
<1>1. now \in Int /\ offset \in Int /\ DayLength \in Nat \ {0} /\ Seasons \in Nat \ {0} /\ Fine \in Int
  BY PassCalendarAssumption DEF CalendarTypeOK
<1>2. Today \in Int
  BY <1>1 DEF Today
<1>3. \A i \in Int : (i % Seasons) + 1 \in PassSeason
  BY <1>1 DEF PassSeason
<1>4. ASSUME NEW s \in Slot
      PROVE  ActiveSeason(s) \in PassSeason /\ UpdateTime(s) \in Int
  <2>1. anchor[s].season \in Int /\ anchor[s].day \in Int
    BY <1>1 DEF CalendarTypeOK, PassSeason
  <2>2. anchor[s].season - 1 + (Today - anchor[s].day) \in Int
    BY <1>2, <2>1
  <2>3. ActiveSeason(s) \in PassSeason
    BY <1>3, <2>2 DEF ActiveSeason
  <2>4. revision[s] \in Int
    BY PassCalendarAssumption DEF CalendarTypeOK
  <2>5. Today * DayLength \in Int
    BY <1>1, <1>2
  <2>6. (Today * DayLength - offset) * Fine \in Int
    BY <1>1, <2>5
  <2> QED
    BY <2>3, <2>4, <2>6 DEF UpdateTime
<1>5. FirstAnchor \in [day : Int, season : PassSeason]
  BY <1>2, <1>3 DEF FirstAnchor
<1> QED
  BY <1>2, <1>4, <1>5

(* What the client fetches is of today (Tables).                           *)
LEMMA TablesAreOfToday ==
  ASSUME CalendarTypeOK, ~ Tables.torn
  PROVE  \E d \in Int, o \in Offset, n \in Int :
           /\ Tables.key = TimeAt(d, o, n) /\ 0 <= n /\ n <= revision[slot]
           /\ Tables.season = SeasonOn(anchor[slot], d)
<1>1. Today \in Int /\ offset \in Offset /\ revision[slot] \in Int /\ 0 <= revision[slot]
  BY TodayIsADay, PassCalendarAssumption DEF CalendarTypeOK
<1>2. Tables.key = TimeAt(Today, offset, revision[slot])
  BY DEF Tables, UpdateTime, TimeAt
<1>3. Tables.season = SeasonOn(anchor[slot], Today)
  BY DEF Tables, ActiveSeason, SeasonOn
<1> QED
  BY <1>1, <1>2, <1>3

(* An update time stands for one day and one number of selections, among   *)
(* offsets less than a day apart (master_update_time).                     *)
LEMMA Quotient ==
  ASSUME NEW f \in Nat, NEW a \in Int, NEW b \in Int, NEW r \in Int, NEW s \in Int,
         0 <= r, r < f, 0 <= s, s < f, a * f + r = b * f + s
  PROVE  a = b /\ r = s
<1>1. \A n \in Nat \ {0} : n * f >= f
  <2> SUFFICES ASSUME NEW n \in Nat \ {0} PROVE n * f >= f
    OBVIOUS
  <2>1. n - 1 \in Nat /\ (n - 1) * f >= 0 /\ n * f = (n - 1) * f + f
    OBVIOUS
  <2> QED
    BY <2>1
<1>2. (a - b) * f = s - r /\ (b - a) * f = r - s
  OBVIOUS
<1>3. ~ (a > b)
  BY <1>1, <1>2
<1>4. ~ (b > a)
  BY <1>1, <1>2
<1> QED
  BY <1>3, <1>4

LEMMA TimeTells ==
  ASSUME \A o, p \in Offset : o - p < DayLength,
         NEW d \in Int, NEW e \in Int, NEW o \in Offset, NEW p \in Offset,
         NEW n \in 0 .. MaxSelect, NEW k \in 0 .. MaxSelect, TimeAt(d, o, n) = TimeAt(e, p, k)
  PROVE  d = e /\ n = k
<1> DEFINE a == d * DayLength - o
           b == e * DayLength - p
<1>1. /\ o \in Int /\ p \in Int /\ DayLength \in Nat \ {0} /\ Fine \in Nat /\ MaxSelect \in Nat
      /\ MaxSelect < Fine
  BY PassCalendarAssumption
<1>2. a \in Int /\ b \in Int
  BY <1>1
<1>3. a * Fine + n = b * Fine + k
  BY DEF TimeAt
<1>4. a = b /\ n = k
  <2> HIDE DEF a, b
  <2> QED
    BY <1>1, <1>2, <1>3, Quotient
<1>5. CASE o >= p
  <2>1. o - p \in Int /\ 0 <= o - p /\ o - p < DayLength
    BY <1>1, <1>5
  <2>2. d * DayLength + 0 = e * DayLength + (o - p)
    BY <1>1, <1>4
  <2> QED
    BY <1>1, <1>4, <2>1, <2>2, Quotient
<1>6. CASE p >= o
  <2>1. p - o \in Int /\ 0 <= p - o /\ p - o < DayLength
    BY <1>1, <1>6
  <2>2. e * DayLength + 0 = d * DayLength + (p - o)
    BY <1>1, <1>4
  <2> QED
    BY <1>1, <1>4, <2>1, <2>2, Quotient
<1> QED
  BY <1>1, <1>5, <1>6

LEMMA CalendarTypesStep ==
  ASSUME CalendarTypeOK, [CalendarNext]_calendarVars
  PROVE  CalendarTypeOK'
<1> USE DEF device
<1>1. ASSUME NEW t \in 0 .. MaxTime, NEW o \in Offset, SetClock(t, o)
      PROVE  CalendarTypeOK'
  BY <1>1 DEF SetClock, CalendarTypeOK
<1>2. ASSUME NEW c \in 0 .. Seasons, SelectStarPass(c)
      PROVE  CalendarTypeOK'
  <2>1. [day |-> Today, season |-> c] \in [day : Int, season : PassSeason]
    BY <1>2, TodayIsADay DEF SelectStarPass
  <2>2. revision[slot] + 1 \in 0 .. MaxSelect
    BY <1>2, PassCalendarAssumption
    DEF SelectStarPass, SelectSeason, CalendarTypeOK
  <2> QED
    BY <1>2, <2>1, <2>2 DEF SelectStarPass, SelectSeason, BumpRevision, CalendarTypeOK
<1>3. ASSUME NEW s \in Slot, SwitchSlot(s)
      PROVE  CalendarTypeOK'
  BY <1>3 DEF SwitchSlot, CalendarTypeOK
<1>4. CASE GetUpdateTime
  <2>1. UpdateTime(slot) \in Int
    BY TodayIsADay DEF CalendarTypeOK
  <2> QED
    BY <1>4, <2>1 DEF GetUpdateTime, CalendarTypeOK
<1>5. CASE GetGameDataList
  <2>1. slot \in Slot /\ ActiveSeason(slot) \in PassSeason
    BY TodayIsADay DEF CalendarTypeOK
  <2>2. Tables \in [key : Int, season : PassSeason, of : Slot, torn : BOOLEAN]
    BY <2>1 DEF Tables, CalendarTypeOK
  <2> QED
    BY <1>5, <2>2 DEF GetGameDataList, CalendarTypeOK
<1>6. CASE UNCHANGED calendarVars
  BY <1>6 DEF calendarVars, CalendarTypeOK
<1> QED
  BY <1>1, <1>2, <1>3, <1>4, <1>5, <1>6 DEF CalendarNext

(* A selection leaves no untorn table at the selections there now are.     *)
LEMMA FetchedOnStep ==
  ASSUME CalendarTypeOK, FetchedOn, [CalendarNext]_calendarVars
  PROVE  FetchedOn'
<1>1. CASE UNCHANGED <<anchor, revision, table>>
  BY <1>1 DEF FetchedOn
<1>2. ASSUME NEW c \in 0 .. Seasons, SelectStarPass(c)
      PROVE  FetchedOn'
  <2>1. /\ table' = table /\ slot \in Slot /\ table.of \in Slot
        /\ anchor' = [anchor EXCEPT ![slot] = [day |-> Today, season |-> c]]
        /\ revision' = [revision EXCEPT ![slot] = @ + 1]
    BY <1>2 DEF SelectStarPass, SelectSeason, BumpRevision, CalendarTypeOK
  <2>2. \A s \in Slot : revision[s] \in Int
    BY PassCalendarAssumption DEF CalendarTypeOK
  <2>3. CASE table.of # slot
    <3>1. revision'[table.of] = revision[table.of] /\ anchor'[table.of] = anchor[table.of]
      BY <2>1, <2>3 DEF CalendarTypeOK
    <3> QED
      BY <2>1, <3>1 DEF FetchedOn
  <2>4. CASE table.of = slot
    <3>1. revision'[table.of] = revision[table.of] + 1
      BY <2>1, <2>4 DEF CalendarTypeOK
    <3>2. \A n \in Int : n <= revision[table.of] => n <= revision'[table.of] /\ n # revision'[table.of]
      BY <2>1, <2>2, <3>1
    <3> QED
      BY <2>1, <3>2 DEF FetchedOn
  <2> QED
    BY <2>3, <2>4
<1>3. CASE GetGameDataList
  <2>1. table' = Tables /\ revision' = revision /\ anchor' = anchor /\ Tables.of = slot
    BY <1>3 DEF GetGameDataList, Tables
  <2> QED
    BY <2>1, TablesAreOfToday DEF FetchedOn
<1> QED
  BY <1>1, <1>2, <1>3 DEF CalendarNext, calendarVars, SetClock, SwitchSlot, GetUpdateTime

LEMMA CalendarInitially == CalendarInit => CalendarInv
<1> SUFFICES ASSUME CalendarInit PROVE CalendarInv
  OBVIOUS
<1>1. /\ now = 0 /\ offset \in Offset /\ slot \in Slot
      /\ anchor = [s \in Slot |-> FirstAnchor] /\ revision = [s \in Slot |-> 0]
      /\ asked = UpdateTime(slot) /\ table = Tables
  BY DEF CalendarInit
<1>2. DayLength \in Nat \ {0} /\ Seasons \in Nat \ {0} /\ Fine \in Int /\ now + offset \in Int
  BY <1>1, PassCalendarAssumption
<1>3. Today \in Int
  BY <1>2 DEF Today
<1>4. \A i \in Int : (i % Seasons) + 1 \in PassSeason
  BY <1>2 DEF PassSeason
<1>5. FirstAnchor \in [day : Int, season : PassSeason]
  BY <1>3, <1>4 DEF FirstAnchor
<1>6. ActiveSeason(slot) \in PassSeason
  <2>1. anchor[slot].season - 1 + (Today - anchor[slot].day) \in Int
    BY <1>1, <1>2, <1>3, <1>5 DEF PassSeason
  <2> QED
    BY <1>4, <2>1 DEF ActiveSeason
<1>7. UpdateTime(slot) \in Int
  <2>1. Today * DayLength \in Int /\ offset \in Int
    BY <1>1, <1>2, <1>3, PassCalendarAssumption
  <2>2. (Today * DayLength - offset) * Fine \in Int
    BY <1>2, <2>1
  <2> QED
    BY <1>1, <2>2 DEF UpdateTime
<1>8. CalendarTypeOK
  <2>1. Tables \in [key : Int, season : PassSeason, of : Slot, torn : BOOLEAN]
    BY <1>1, <1>6, <1>7 DEF Tables
  <2> QED
    BY <1>1, <1>5, <1>7, <2>1, PassCalendarAssumption DEF CalendarTypeOK
<1>9. FetchedOn
  <2>1. Tables.of = slot
    BY DEF Tables
  <2> QED
    BY <1>1, <1>8, <2>1, TablesAreOfToday DEF FetchedOn
<1> QED
  BY <1>8, <1>9 DEF CalendarInv

(* The client's tables are of a day and a number of selections their       *)
(* update time stands for (master_update_time, transform_subscribe_value). *)
THEOREM CalendarInvariant == CalendarSpec => []CalendarInv
<1>1. CalendarInv /\ [CalendarNext]_calendarVars => CalendarInv'
  BY CalendarTypesStep, FetchedOnStep DEF CalendarInv
<1> QED
  BY <1>1, CalendarInitially, PTL DEF CalendarSpec

(* On a device whose offsets are less than a day apart, tables under the   *)
(* present update time show the season of today, whatever becomes of its   *)
(* clock (master_update_time, select_pass_season_in_transaction).          *)
THEOREM TablesShowToday ==
  ASSUME \A o, p \in Offset : o - p < DayLength
  PROVE  CalendarSpec => []TableIsOfToday
<1>1. CalendarInv => TableIsOfToday
  <2> SUFFICES ASSUME CalendarInv, table.key = UpdateTime(slot), table.of = slot, ~ table.torn
               PROVE  table.season = ActiveSeason(slot)
    BY DEF TableIsOfToday
  <2>1. /\ slot \in Slot /\ offset \in Offset /\ revision[slot] \in 0 .. MaxSelect
        /\ Today \in Int /\ MaxSelect \in Nat
    BY TodayIsADay, PassCalendarAssumption DEF CalendarInv, CalendarTypeOK
  <2>2. PICK d \in Int, o \in Offset, n \in Int :
          /\ table.key = TimeAt(d, o, n) /\ 0 <= n /\ n <= revision[slot]
          /\ n = revision[slot] => table.season = SeasonOn(anchor[slot], d)
    BY DEF CalendarInv, FetchedOn
  <2>3. n \in 0 .. MaxSelect
    BY <2>1, <2>2
  <2>4. TimeAt(d, o, n) = TimeAt(Today, offset, revision[slot])
    BY <2>2 DEF UpdateTime, TimeAt
  <2>5. d = Today /\ n = revision[slot]
    BY <2>1, <2>2, <2>3, <2>4, TimeTells
  <2> QED
    BY <2>2, <2>5 DEF SeasonOn, ActiveSeason
<1> QED
  BY <1>1, CalendarInvariant, PTL

-----------------------------------------------------------------------------
(* The mailbox.                                                            *)
HIDE StarPassAssumption
USE MailboxAssumption

(* What the client was told is never ahead of the mailbox.                 *)
CursorsBehind == box.cursor <= cursor /\ box.asked <= cursor

(* An event sends at most one mail, when it is completed.                  *)
SentOnce == sentBy \subseteq completed /\ IsFiniteSet(sentBy)

MailboxInv ==
  /\ MailboxTypeOK
  /\ CursorsBehind
  /\ SentOnce
  /\ EveryMailPaysOnce
  /\ CursorTellsOfChanges
  /\ OneOpenMailPerItem

-----------------------------------------------------------------------------
(* Every variable keeps its type, one step per action.                     *)
LEMMA MailboxTypeStep ==
  ASSUME MailboxTypeOK, [MailboxNext]_mailboxVars
  PROVE  MailboxTypeOK'
<1> USE DEF MailboxTypeOK, rows, views, Visible, Post, Reward
<1>1. CASE ListLegacyItems
  BY <1>1 DEF ListLegacyItems
<1>2. CASE GetPostTime
  BY <1>2 DEF GetPostTime
<1>3. CASE GetPost
  BY <1>3 DEF GetPost, Shown
<1>4. ASSUME NEW r \in Reward, SendMail(r) PROVE MailboxTypeOK'
  BY <1>4 DEF SendMail, Deliver, Changed, IsNextPost
<1>5. ASSUME NEW e \in Event, ClaimSamSeck(e) PROVE MailboxTypeOK'
  <2>1. EventPost[e] \in Post /\ EventReward[e] \in Reward
    OBVIOUS
  <2>2. CASE EventPost[e] \in mail
    BY <1>5, <2>2 DEF ClaimSamSeck, QueueRewardMail
  <2>3. CASE EventPost[e] \notin mail
    <3>1. /\ Deliver(EventPost[e], EventReward[e])
          /\ completed' = completed \cup {e} /\ sentBy' = sentBy \cup {e}
          /\ UNCHANGED <<owned, views, received>>
      BY <1>5, <2>3 DEF ClaimSamSeck, QueueRewardMail
    <3>2. rewardOf' \in [Post -> Reward] /\ cursor' \in 0 .. MaxCursor
      BY <2>1, <3>1 DEF Deliver, Changed
    <3>3. /\ mail' \subseteq Post /\ read' \subseteq mail' /\ claimed' \subseteq read'
          /\ deleted' \subseteq claimed'
      BY <2>1, <3>1 DEF Deliver
    <3> QED
      BY <3>1, <3>2, <3>3
  <2> QED
    BY <2>2, <2>3
<1>6. ASSUME NEW i \in Item, Acquire(i) PROVE MailboxTypeOK'
  BY <1>6 DEF Acquire
<1>7. ASSUME NEW p \in Post, ReadPost(p) PROVE MailboxTypeOK'
  BY <1>7 DEF ReadPost, Changed
<1>8. ASSUME NEW p \in Post, ProvidePost(p) PROVE MailboxTypeOK'
  <2>1. received' \in [Post -> Nat]
    BY <1>8 DEF ProvidePost, ApplyStoredReward
  <2>2. owned' \subseteq Item
    BY <1>8 DEF ProvidePost, ApplyStoredReward
  <2> QED
    <3>1. /\ UNCHANGED <<mail, rewardOf, deleted, completed, views, sentBy>>
          /\ cursor' \in 0 .. MaxCursor
      BY <1>8 DEF ProvidePost, ApplyStoredReward, Changed
    <3>2. read' \subseteq mail' /\ claimed' \subseteq read' /\ deleted' \subseteq claimed'
      BY <1>8 DEF ProvidePost, ApplyStoredReward, Claimable
    <3> QED
      BY <2>1, <2>2, <3>1, <3>2
<1>9. ASSUME NEW ps \in SUBSET Post, DeletePost(ps) PROVE MailboxTypeOK'
  BY <1>9 DEF DeletePost, Delete, Changed
<1>10. CASE UNCHANGED mailboxVars
  BY <1>10 DEF mailboxVars
<1> QED
  BY <1>1, <1>2, <1>3, <1>4, <1>5, <1>6, <1>7, <1>8, <1>9, <1>10 DEF MailboxNext

(* Every action that touches a mail moves the cursor, and the client's     *)
(* copy of the cursor is only ever set to one it was told.                 *)
LEMMA CursorStep ==
  ASSUME MailboxTypeOK, CursorsBehind, CursorTellsOfChanges, [MailboxNext]_mailboxVars
  PROVE  CursorsBehind' /\ CursorTellsOfChanges'
<1> USE DEF MailboxTypeOK, rows, views, CursorsBehind, CursorTellsOfChanges, Visible, Post, Reward
<1>0. cursor \in Nat /\ box.cursor \in Nat /\ box.asked \in Nat
  OBVIOUS
<1> DEFINE Same == UNCHANGED <<mail, read, claimed, deleted, cursor>>
<1>1. ASSUME Same, UNCHANGED box PROVE CursorsBehind' /\ CursorTellsOfChanges'
  BY <1>1 DEF Shown
<1>2. ASSUME UNCHANGED box, cursor' = cursor + 1 PROVE CursorsBehind' /\ CursorTellsOfChanges'
  BY <1>0, <1>2
<1>3. CASE ListLegacyItems
  BY <1>1, <1>3 DEF ListLegacyItems
<1>4. CASE GetPostTime
  BY <1>4 DEF GetPostTime, Shown
<1>5. CASE GetPost
  BY <1>5 DEF GetPost, Shown
<1>6. ASSUME NEW r \in Reward, SendMail(r) PROVE CursorsBehind' /\ CursorTellsOfChanges'
  BY <1>2, <1>6 DEF SendMail, Deliver, Changed
<1>7. ASSUME NEW e \in Event, ClaimSamSeck(e) PROVE CursorsBehind' /\ CursorTellsOfChanges'
  BY <1>1, <1>2, <1>7 DEF ClaimSamSeck, QueueRewardMail, Deliver, Changed
<1>8. ASSUME NEW i \in Item, Acquire(i) PROVE CursorsBehind' /\ CursorTellsOfChanges'
  BY <1>1, <1>8 DEF Acquire
<1>9. ASSUME NEW p \in Post, ReadPost(p) \/ ProvidePost(p)
      PROVE  CursorsBehind' /\ CursorTellsOfChanges'
  BY <1>2, <1>9 DEF ReadPost, ProvidePost, ApplyStoredReward, Changed
<1>10. ASSUME NEW ps \in SUBSET Post, DeletePost(ps)
       PROVE  CursorsBehind' /\ CursorTellsOfChanges'
  BY <1>1, <1>2, <1>10 DEF DeletePost, Delete, Changed
<1>11. CASE UNCHANGED mailboxVars
  BY <1>1, <1>11 DEF mailboxVars
<1> QED
  BY <1>3, <1>4, <1>5, <1>6, <1>7, <1>8, <1>9, <1>10, <1>11 DEF MailboxNext

(* The reward of a mail is applied in the step that marks it claimed.      *)
LEMMA PaymentStep ==
  ASSUME MailboxTypeOK, EveryMailPaysOnce, [MailboxNext]_mailboxVars
  PROVE  EveryMailPaysOnce'
<1> USE DEF MailboxTypeOK, rows, views, EveryMailPaysOnce
<1>1. ASSUME UNCHANGED <<claimed, received>> PROVE EveryMailPaysOnce'
  BY <1>1
<1>2. ASSUME NEW p \in Post, p \notin mail, UNCHANGED received, claimed' = claimed \ {p}
      PROVE  EveryMailPaysOnce'
  BY <1>2
<1>3. ASSUME NEW r \in Reward, SendMail(r) PROVE EveryMailPaysOnce'
  BY <1>2, <1>3 DEF SendMail, Deliver, IsNextPost, Post
<1>4. ASSUME NEW e \in Event, ClaimSamSeck(e) PROVE EveryMailPaysOnce'
  <2>1. EventPost[e] \in Post
    BY DEF Post
  <2> QED
    BY <1>1, <1>2, <1>4, <2>1 DEF ClaimSamSeck, QueueRewardMail, Deliver
<1>5. ASSUME NEW p \in Post, ProvidePost(p) PROVE EveryMailPaysOnce'
  BY <1>5 DEF ProvidePost, ApplyStoredReward, Claimable
<1> QED
  BY <1>1, <1>3, <1>4, <1>5
  DEF MailboxNext, mailboxVars, ListLegacyItems, GetPostTime, GetPost, Acquire, ReadPost, DeletePost

-----------------------------------------------------------------------------
(* The open mails of an item are finitely many.                            *)
LEMMA OpenIsFinite ==
  ASSUME MailboxTypeOK, NEW i
  PROVE  IsFiniteSet(Open(i)) /\ Cardinality(Open(i)) \in Nat
<1>1. IsFiniteSet(Post)
  BY FS_Interval DEF Post
<1>2. Open(i) \subseteq Post
  BY DEF Open, MailboxTypeOK
<1> QED
  BY <1>1, <1>2, FS_Subset, FS_CardinalityType

(* A step that opens no mail of an item and forgets no event keeps the     *)
(* bound on that item's open mails.                                        *)
LEMMA FewerOpen ==
  ASSUME MailboxTypeOK, MailboxTypeOK', SentOnce, SentOnce', NEW i \in Item,
         Cardinality(Open(i)) <= 1 + Cardinality({e \in sentBy : EventReward[e] = i}),
         Open(i)' \subseteq Open(i), sentBy \subseteq sentBy'
  PROVE  Cardinality(Open(i)') <= 1 + Cardinality({e \in sentBy' : EventReward[e] = i})
<1> DEFINE Of(S) == {e \in S : EventReward[e] = i}
<1>1. Cardinality(Open(i)') <= Cardinality(Open(i)) /\ Cardinality(Open(i)) \in Nat
      /\ Cardinality(Open(i)') \in Nat
  BY OpenIsFinite, FS_Subset, FS_CardinalityType
<1>2. IsFiniteSet(Of(sentBy')) /\ IsFiniteSet(Of(sentBy))
  BY FS_Subset DEF SentOnce
<1>3. Of(sentBy) \subseteq Of(sentBy')
  OBVIOUS
<1>4. Cardinality(Of(sentBy)) <= Cardinality(Of(sentBy')) /\ Cardinality(Of(sentBy)) \in Nat
      /\ Cardinality(Of(sentBy')) \in Nat
  BY <1>2, <1>3, FS_Subset, FS_CardinalityType
<1> HIDE DEF Of
<1>5. Cardinality(Open(i)) <= 1 + Cardinality(Of(sentBy))
  BY DEF Of
<1>6. Cardinality(Open(i)') <= 1 + Cardinality(Of(sentBy'))
  BY <1>1, <1>4, <1>5
<1> QED
  BY <1>6 DEF Of

(* The two checks: the page opens a mail of an item only when none is      *)
(* open, and an event's mail counts its own event.                         *)
LEMMA OpenStep ==
  ASSUME MailboxTypeOK, MailboxTypeOK', SentOnce, OneOpenMailPerItem, [MailboxNext]_mailboxVars
  PROVE  SentOnce' /\ OneOpenMailPerItem'
<1> DEFINE Of(S, i) == {e \in S : EventReward[e] = i}
<1> USE DEF rows, views
<1>a. SentOnce'
  <2>1. ASSUME NEW e \in Event, ClaimSamSeck(e) PROVE SentOnce'
    BY <2>1, FS_AddElement DEF ClaimSamSeck, QueueRewardMail, SentOnce
  <2>2. ASSUME UNCHANGED <<completed, sentBy>> PROVE SentOnce'
    BY <2>2 DEF SentOnce
  <2> QED
    BY <2>1, <2>2 DEF MailboxNext, mailboxVars, ListLegacyItems, GetPostTime, GetPost, SendMail, Acquire,
      ReadPost, ProvidePost, ApplyStoredReward, DeletePost
<1>b. SUFFICES ASSUME NEW i \in Item
               PROVE  Cardinality(Open(i)') <= 1 + Cardinality(Of(sentBy', i))
  BY <1>a DEF OneOpenMailPerItem
<1>c. Cardinality(Open(i)) <= 1 + Cardinality(Of(sentBy, i))
  BY DEF OneOpenMailPerItem
<1>d. ASSUME Open(i)' \subseteq Open(i), sentBy \subseteq sentBy'
      PROVE  Cardinality(Open(i)') <= 1 + Cardinality(Of(sentBy', i))
  BY <1>a, <1>c, <1>d, FewerOpen
<1>e. IsFiniteSet(Of(sentBy, i)) /\ Cardinality(Of(sentBy, i)) \in Nat
  BY FS_Subset, FS_CardinalityType DEF SentOnce
<1>1. ASSUME NEW r \in Reward, SendMail(r)
      PROVE  Cardinality(Open(i)') <= 1 + Cardinality(Of(sentBy', i))
  <2>0. PICK p \in Post : IsNextPost(p) /\ Deliver(p, r)
    BY <1>1 DEF SendMail
  <2>1. p \notin mail /\ sentBy' = sentBy
    BY <1>1, <2>0 DEF IsNextPost, SendMail, MailboxTypeOK, Post
  <2>2. CASE r = i
    <3>1. Open(i) = {}
      BY <1>1, <2>2 DEF SendMail, CanBeMailed, Deliverable
    <3>2. Open(i)' = {p}
      BY <2>0, <2>1, <2>2, <3>1 DEF Deliver, Open, MailboxTypeOK
    <3>3. Cardinality(Open(i)') = 1
      BY <3>2, FS_Singleton
    <3> QED
      BY <1>e, <2>1, <3>3
  <2>3. CASE r # i
    <3>1. Open(i)' \subseteq Open(i)
      BY <2>0, <2>1, <2>3 DEF Deliver, Open, MailboxTypeOK
    <3> QED
      BY <1>d, <2>1, <3>1
  <2> QED
    BY <2>2, <2>3
<1>2. ASSUME NEW e \in Event, ClaimSamSeck(e)
      PROVE  Cardinality(Open(i)') <= 1 + Cardinality(Of(sentBy', i))
  <2>0. EventPost[e] \in Post /\ EventReward[e] \in Reward
    BY DEF Post
  <2>1. CASE EventPost[e] \in mail
    BY <1>2, <1>d, <2>1 DEF ClaimSamSeck, QueueRewardMail, Open
  <2>2. CASE EventPost[e] \notin mail
    <3>0. Deliver(EventPost[e], EventReward[e]) /\ sentBy' = sentBy \cup {e} /\ e \notin sentBy
      BY <1>2, <2>2 DEF ClaimSamSeck, QueueRewardMail, SentOnce
    <3>1. CASE EventReward[e] # i
      <4>1. Open(i)' \subseteq Open(i)
        BY <2>0, <2>2, <3>0, <3>1 DEF Deliver, Open, MailboxTypeOK
      <4> QED
        BY <1>d, <3>0, <4>1
    <3>2. CASE EventReward[e] = i
      <4>1. Open(i)' \subseteq Open(i) \cup {EventPost[e]}
        BY <2>0, <2>2, <3>0, <3>2 DEF Deliver, Open, MailboxTypeOK
      <4>2. EventPost[e] \notin Open(i)
        BY <2>2 DEF Open
      <4>3. /\ IsFiniteSet(Open(i) \cup {EventPost[e]})
            /\ Cardinality(Open(i) \cup {EventPost[e]}) = Cardinality(Open(i)) + 1
        BY <4>2, OpenIsFinite, FS_AddElement
      <4>4. Cardinality(Open(i)') <= Cardinality(Open(i)) + 1 /\ Cardinality(Open(i)') \in Nat
        BY <4>1, <4>3, FS_Subset, FS_CardinalityType
      <4>5. Of(sentBy', i) = Of(sentBy, i) \cup {e} /\ e \notin Of(sentBy, i)
        BY <3>0, <3>2
      <4>6. Cardinality(Of(sentBy', i)) = Cardinality(Of(sentBy, i)) + 1
        <5> HIDE DEF Of
        <5> QED
          BY <1>e, <4>5, FS_AddElement
      <4> HIDE DEF Of
      <4> QED
        BY <1>c, <1>e, <4>4, <4>6, OpenIsFinite
    <3> QED
      BY <3>1, <3>2
  <2> QED
    BY <2>1, <2>2
<1>3. ASSUME UNCHANGED <<mail, rewardOf, sentBy>>, claimed \cup deleted \subseteq claimed' \cup deleted'
      PROVE  Cardinality(Open(i)') <= 1 + Cardinality(Of(sentBy', i))
  BY <1>d, <1>3 DEF Open
<1>4. ASSUME NEW p \in Post, ReadPost(p) \/ ProvidePost(p)
      PROVE  Cardinality(Open(i)') <= 1 + Cardinality(Of(sentBy', i))
  BY <1>3, <1>4 DEF ReadPost, ProvidePost, ApplyStoredReward
<1>5. ASSUME NEW ps \in SUBSET Post, DeletePost(ps)
      PROVE  Cardinality(Open(i)') <= 1 + Cardinality(Of(sentBy', i))
  BY <1>3, <1>5 DEF DeletePost, Delete
<1>6. ASSUME ListLegacyItems \/ GetPostTime \/ GetPost \/ (\E j \in Item : Acquire(j)) \/ UNCHANGED mailboxVars
      PROVE  Cardinality(Open(i)') <= 1 + Cardinality(Of(sentBy', i))
  BY <1>3, <1>6 DEF ListLegacyItems, GetPostTime, GetPost, Acquire, mailboxVars
<1> QED
  BY <1>1, <1>2, <1>4, <1>5, <1>6 DEF MailboxNext

-----------------------------------------------------------------------------
LEMMA MailboxInitInvariant == MailboxInit => MailboxInv
<1> SUFFICES ASSUME MailboxInit PROVE MailboxInv
  OBVIOUS
<1>1. MailboxTypeOK /\ CursorsBehind /\ EveryMailPaysOnce /\ CursorTellsOfChanges
  BY DEF MailboxInit, MailboxTypeOK, CursorsBehind, EveryMailPaysOnce,
     CursorTellsOfChanges, Shown, Nothing, Visible, Post, Reward
<1>2. SentOnce
  BY FS_EmptySet DEF MailboxInit, SentOnce
<1>3. OneOpenMailPerItem
  <2> SUFFICES ASSUME NEW i \in Item
               PROVE  Cardinality(Open(i)) <= 1 + Cardinality({e \in sentBy : EventReward[e] = i})
    BY DEF OneOpenMailPerItem
  <2>1. Open(i) = {} /\ {e \in sentBy : EventReward[e] = i} = {}
    BY DEF MailboxInit, Open
  <2>2. Cardinality({}) = 0
    BY FS_EmptySet
  <2> QED
    BY <2>1, <2>2
<1> QED
  BY <1>1, <1>2, <1>3 DEF MailboxInv

LEMMA MailboxNextInvariant == MailboxInv /\ [MailboxNext]_mailboxVars => MailboxInv'
BY MailboxTypeStep, CursorStep, PaymentStep, OpenStep DEF MailboxInv

(* The strengthening from which everything else follows.                   *)
THEOREM MailboxInvariant == MailboxSpec => []MailboxInv
BY MailboxInitInvariant, MailboxNextInvariant, PTL DEF MailboxSpec

(* Every reachable state of the mailbox is well typed: only mails that     *)
(* were read are claimed, and only claimed ones deleted.                   *)
THEOREM MailboxTypes == MailboxSpec => []MailboxTypeOK
<1>1. MailboxInv => MailboxTypeOK
  BY DEF MailboxInv
<1> QED
  BY <1>1, MailboxInvariant, PTL

(* claim_mail_rpc applies every mail's reward exactly once, and            *)
(* delete_mail removes none before that.                                   *)
THEOREM MailPaysOnce == MailboxSpec => []EveryMailPaysOnce
<1>1. MailboxInv => EveryMailPaysOnce
  BY DEF MailboxInv
<1> QED
  BY <1>1, MailboxInvariant, PTL

(* A client whose cursor is current holds the current mailbox.             *)
THEOREM CursorIsReliable == MailboxSpec => []CursorTellsOfChanges
<1>1. MailboxInv => CursorTellsOfChanges
  BY DEF MailboxInv
<1> QED
  BY <1>1, MailboxInvariant, PTL

(* The page's transaction never puts an item under way twice, whatever the *)
(* page showed and whatever events sent besides.                           *)
THEOREM ItemsAreSentOnce == MailboxSpec => []OneOpenMailPerItem
<1>1. MailboxInv => OneOpenMailPerItem
  BY DEF MailboxInv
<1> QED
  BY <1>1, MailboxInvariant, PTL

(* A mail's number, reward, claim and deletion are for good.               *)
THEOREM MailsArePermanent == MailboxSpec => MailIsPermanent
<1> DEFINE Kept == \A p \in mail : /\ p \in mail' /\ rewardOf'[p] = rewardOf[p]
                                   /\ p \in claimed => p \in claimed'
                                   /\ p \in deleted => p \in deleted'
<1>1. ASSUME MailboxTypeOK, [MailboxNext]_mailboxVars PROVE Kept
  <2> USE DEF MailboxTypeOK, rows, views
  <2>1. ASSUME UNCHANGED <<mail, rewardOf>>, claimed \subseteq claimed', deleted \subseteq deleted'
        PROVE  Kept
    BY <2>1
  <2>2. ASSUME NEW q \in Post, NEW r, q \notin mail, Deliver(q, r) PROVE Kept
    BY <2>2 DEF Deliver
  <2>3. ASSUME NEW r \in Reward, SendMail(r) PROVE Kept
    <3>1. PICK q \in Post : IsNextPost(q) /\ Deliver(q, r)
      BY <2>3 DEF SendMail
    <3>2. q \notin mail
      BY <3>1 DEF IsNextPost, Post
    <3> QED
      BY <2>2, <3>1, <3>2
  <2>4. ASSUME NEW e \in Event, ClaimSamSeck(e) PROVE Kept
    <3>1. EventPost[e] \in Post
      BY DEF Post
    <3> QED
      BY <2>1, <2>2, <2>4, <3>1 DEF ClaimSamSeck, QueueRewardMail
  <2>5. ASSUME NEW q \in Post, ReadPost(q) \/ ProvidePost(q) PROVE Kept
    BY <2>1, <2>5 DEF ReadPost, ProvidePost, ApplyStoredReward
  <2>6. ASSUME NEW ps \in SUBSET Post, DeletePost(ps) PROVE Kept
    BY <2>1, <2>6 DEF DeletePost, Delete
  <2>7. ASSUME \/ ListLegacyItems \/ GetPostTime \/ GetPost \/ UNCHANGED mailboxVars
               \/ \E i \in Item : Acquire(i)
        PROVE  Kept
    BY <2>1, <2>7 DEF mailboxVars, ListLegacyItems, GetPostTime, GetPost, Acquire
  <2> QED
    BY <1>1, <2>3, <2>4, <2>5, <2>6, <2>7 DEF MailboxNext
<1>2. MailboxInv => MailboxTypeOK
  BY DEF MailboxInv
<1>3. MailboxTypeOK /\ [MailboxNext]_mailboxVars => [Kept]_mailboxVars
  BY <1>1
<1> QED
  BY <1>2, <1>3, MailboxInvariant, PTL DEF MailboxSpec, MailIsPermanent
=============================================================================
