---------------------------- MODULE WalletProofs ----------------------------
(***************************************************************************)
(* Proofs about Wallet for every catalog of contents and products and      *)
(* every number of logins and commands: what is owned has a level,         *)
(* purchases grant once, a conversation goes forward, and candy and likes  *)
(* are kept.                                                               *)
(*                                                                         *)
(* A grant carries all that names its purchase, so that the purchases made *)
(* are those of the grants (Booked).  A save is never behind an earlier    *)
(* one of its login (Talking), and a request that has read the level of an *)
(* advertisement is right until another one for the same product commits   *)
(* (Advertising).                                                          *)
(*                                                                         *)
(* A command is settled by one answer: nothing, a level sold, or a gift    *)
(* (Settled), and each keeps what is held, what was bought and what was    *)
(* given in balance.  For likes the client's copy is in balance too, with  *)
(* the answers it has yet to hear (ClientIsKept), and a save that knew of  *)
(* all carries that balance back (SavesAreKept).                           *)
(*                                                                         *)
(* And about Pricing and ShopOverlay, for every catalog and every file:    *)
(* what the client shows is what it is charged, the curves are fair (their *)
(* caps and steps are whole divisions, which grow with what is divided),   *)
(* and the free shop is whole (a set is counted by counting its images).   *)
(***************************************************************************)
EXTENDS PricedWallet, DataLemmas

(* The client's copy, requests, answers and grants.                        *)
Copy == [likes : Int, level : [Saved -> Nat], page : DOMAIN Page, played : Int]
Asked == [cmd : Command, seq : Nat, view : Copy, told : SUBSET Nat, tier : Nat,
          alone : BOOLEAN]
Outcome ==
  [seq : Nat, op : {"buy", "shop", "package"}, likes : Int, contents : SUBSET Content,
   level : Nat]
Granted == [login : Nat, seq : Nat, receipt : Receipt \cup {NoReceipt}, item : Item,
            tier : Nat, alone : BOOLEAN, due : Nat]

Types ==
  /\ purse \in [Currency -> Int] /\ saved \in Int
  /\ owned \subseteq Content /\ level \in [Content -> Nat]
  /\ ad \in [AdItem -> [level : DOMAIN AdThreshold, experience : Nat]]
  /\ last \in Nat /\ login \in Nat /\ issued \in Nat /\ told \subseteq Nat
  /\ view \in Copy /\ wire \subseteq Asked /\ answers \subseteq Outcome
  /\ granted \subseteq Granted /\ IsFiniteSet(granted)

(* The purchases made are those of the grants; those of this login are     *)
(* behind.                                                                 *)
IdOf(g) ==
  TransactionId([cmd |-> [item |-> g.item, receipt |-> g.receipt], seq |-> g.seq,
                 tier |-> g.tier])

Booked ==
  /\ bought = {IdOf(g) : g \in granted}
  /\ \A g \in granted : g.login <= login /\ (g.login = login => g.seq <= last)

(* A request's level is one its product has; that of an advertisement was  *)
(* the level due when it was read, and still is if it was the first of its *)
(* product and may yet take effect.                                        *)
SameProduct(r, q) == ForAd(q.cmd) /\ q.cmd.item = r.cmd.item

Advertising ==
  \A r \in wire :
    /\ r.cmd.op = "shop" /\ r.tier > 0 => r.tier \in DOMAIN Gift[r.cmd.item]
    /\ ~ ForAd(r.cmd) => r.tier = 1
    /\ ForAd(r.cmd) /\ r.tier > 0 =>
         /\ r.tier <= ad[r.cmd.item].level
         /\ r.alone => /\ \A q \in wire : SameProduct(r, q) => r.seq <= q.seq
                       /\ Fresh(r) => r.tier = ad[r.cmd.item].level

(* The stored page is not ahead of a save that may take effect, nor a save *)
(* of a later one, nor any of the client.                                  *)
IsSave(r) == r.cmd.op = "save"

Talking ==
  /\ \E i \in DOMAIN Page :
       /\ talk = Page[i] /\ i <= view.page
       /\ \A r \in wire : IsSave(r) /\ Fresh(r) => i <= r.view.page
  /\ \A r \in wire :
       /\ r.seq <= issued
       /\ IsSave(r) => r.view.page <= view.page
  /\ \A r, q \in wire : IsSave(r) /\ IsSave(q) /\ r.seq < q.seq => r.view.page <= q.view.page

IInv ==
  /\ Types
  /\ OwnedHasLevel
  /\ Booked
  /\ PurchasesGrantOnce
  /\ Advertising
  /\ Talking

-----------------------------------------------------------------------------
(* The ad levels a number of advertisements reaches.                       *)
Reached(n) == {k \in DOMAIN AdThreshold : AdThreshold[k] <= n}

LEMMA HighestReached ==
  ASSUME NEW n \in Nat
  PROVE  /\ Max(Reached(n)) \in Reached(n) /\ Max(Reached(n)) \in DOMAIN AdThreshold
         /\ \A y \in Reached(n) : Max(Reached(n)) >= y
<1>1. DOMAIN AdThreshold = 1 .. Len(AdThreshold) /\ Len(AdThreshold) \in Nat \ {0}
  BY WalletAssumption
<1>2. 1 \in Reached(n)
  BY <1>1, WalletAssumption DEF Reached
<1>3. Reached(n) \subseteq 1 .. Len(AdThreshold)
  BY <1>1 DEF Reached
<1>4. Max(Reached(n)) \in Reached(n) /\ \A y \in Reached(n) : Max(Reached(n)) >= y
  BY <1>1, <1>2, <1>3, MaxIsLargest
<1> QED
  BY <1>4 DEF Reached

(* One more advertisement raises the level to the highest it reaches, from *)
(* the highest that was reached before (AdvanceAdLevel).                   *)
LEMMA AdLevelGrows ==
  ASSUME NEW n \in Nat
  PROVE  /\ Max(Reached(n + 1) \cup {Max(Reached(n))}) = Max(Reached(n + 1))
         /\ Max(Reached(n)) <= Max(Reached(n + 1))
<1>1. Max(Reached(n)) \in Reached(n)
  BY HighestReached
<1>2. Reached(n) \subseteq Reached(n + 1)
  BY WalletAssumption DEF Reached
<1>3. Reached(n + 1) \cup {Max(Reached(n))} = Reached(n + 1)
  BY <1>1, <1>2
<1>4. \A y \in Reached(n + 1) : Max(Reached(n + 1)) >= y
  BY HighestReached
<1>5. Max(Reached(n)) \in DOMAIN AdThreshold /\ Max(Reached(n + 1)) \in DOMAIN AdThreshold
  BY HighestReached
<1>6. DOMAIN AdThreshold \subseteq Nat
  BY WalletAssumption
<1> QED
  BY <1>1, <1>2, <1>3, <1>4, <1>5, <1>6

-----------------------------------------------------------------------------
(* The parts of a copy.                                                    *)
LEMMA CopyFacts ==
  ASSUME NEW v \in Copy
  PROVE  /\ v.likes \in Int /\ v.level \in [Saved -> Nat] /\ v.page \in DOMAIN Page
         /\ v.played \in Int
         /\ v = [likes |-> v.likes, level |-> v.level, page |-> v.page, played |-> v.played]
BY DEF Copy

LEMMA IsCopy ==
  ASSUME NEW a \in Int, NEW f \in [Saved -> Nat], NEW p \in DOMAIN Page, NEW b \in Int
  PROVE  [likes |-> a, level |-> f, page |-> p, played |-> b] \in Copy
BY DEF Copy

(* What the kinds of command carry (Command).                              *)
LEMMA CommandFacts ==
  ASSUME NEW r \in Asked
  PROVE  /\ r.cmd.op = "save" => r.cmd.full \in BOOLEAN
         /\ r.cmd.op = "buy" => r.cmd.content \in Sold
         /\ r.cmd.op = "shop" =>
              r.cmd.item \in Item /\ r.cmd.receipt \in Receipt \cup {NoReceipt}
BY DEF Asked, Command

(* The prices of the levels, and what a product holds.                     *)
LEMMA PriceIsNatural ==
  ASSUME NEW c \in Content, NEW n \in Nat, n + 1 <= MaxLevel(c)
  PROVE  Price[c][n + 1] \in Nat
<1>1. Price[c] \in Seq(Nat)
  BY WalletAssumption
<1> QED
  BY <1>1 DEF MaxLevel

LEMMA GiftFacts ==
  ASSUME NEW i \in Item, NEW n \in DOMAIN Gift[i]
  PROVE  /\ Gift[i][n].like \in Nat /\ Gift[i][n].candy \in Nat
         /\ Gift[i][n].content \subseteq Content
<1> DEFINE Holdings == [like : Nat, candy : Nat, content : SUBSET Content]
<1>1. Gift[i] \in Seq(Holdings)
  BY WalletAssumption
<1>2. Gift[i][n] \in Holdings
  <2> HIDE DEF Holdings
  <2> QED
    BY <1>1
<1> QED
  BY <1>2

(* A request carries a copy of the client's (Request).                     *)
LEMMA RequestFacts ==
  ASSUME Types, NEW c \in Command
  PROVE  /\ Request(c, issued + 1) \in Asked
         /\ Request(c, issued + 1).cmd = c /\ Request(c, issued + 1).seq = issued + 1
         /\ c.op = "save" => Request(c, issued + 1).view = view
         /\ Request(c, issued + 1).tier = IF ForAd(c) THEN 0 ELSE 1
<1>1. NewView \in Copy
  BY WalletAssumption DEF NewView, Copy
<1> DEFINE r == Request(c, issued + 1)
<1>2. /\ r.cmd = c /\ r.seq = issued + 1 /\ r.alone = TRUE
      /\ r.view = (IF c.op = "save" THEN view ELSE NewView)
      /\ r.told = (IF c.op = "save" THEN told ELSE {})
      /\ r.tier = IF ForAd(c) THEN 0 ELSE 1
  BY DEF Request
<1>3. r.view \in Copy /\ r.told \subseteq Nat /\ r.tier \in Nat /\ issued + 1 \in Nat
  <2> HIDE DEF r
  <2>1. view \in Copy /\ told \subseteq Nat /\ issued \in Nat
    BY DEF Types
  <2>2. CASE c.op = "save"
    BY <1>2, <2>1, <2>2
  <2>3. CASE c.op # "save"
    BY <1>1, <1>2, <2>1, <2>3
  <2> QED
    BY <2>2, <2>3
<1>4. r = [cmd |-> r.cmd, seq |-> r.seq, view |-> r.view, told |-> r.told, tier |-> r.tier,
           alone |-> r.alone]
  BY Zenon DEF Request
<1>5. r \in Asked
  <2> HIDE DEF r
  <2> QED
    BY <1>2, <1>3, <1>4 DEF Asked
<1> QED
  BY <1>2, <1>5

(* Applying an answer leaves a copy (Tell).                                *)
LEMMA TellFacts ==
  ASSUME Types, NEW a \in answers, Tell(a)
  PROVE  view' \in Copy /\ view'.page = view.page /\ told' \subseteq Nat
<1>1. a \in Outcome /\ view \in Copy
  BY DEF Types
<1>2. \A c \in Saved : (IF c \in a.contents THEN Max({view.level[c], a.level})
                                            ELSE view.level[c]) \in Nat
  BY <1>1, MaxOfTwo DEF Outcome, Copy
<1> DEFINE new == [c \in Saved |-> IF c \in a.contents THEN Max({view.level[c], a.level})
                                                      ELSE view.level[c]]
<1>3. new \in [Saved -> Nat]
  BY <1>2
<1>4. view' = [view EXCEPT !.likes = @ + a.likes, !.level = new] /\ told' = told \cup {a.seq}
  BY DEF Tell
<1>5. view' \in Copy /\ view'.page = view.page
  <2> HIDE DEF new
  <2>1. view.likes + a.likes \in Int
    BY <1>1 DEF Copy, Outcome
  <2>2. view' = [likes |-> view.likes + a.likes, level |-> new, page |-> view.page,
                 played |-> view.played]
    BY <1>1, <1>4 DEF Copy
  <2> QED
    BY <1>1, <1>3, <2>1, <2>2 DEF Copy
<1> QED
  BY <1>1, <1>4, <1>5 DEF Types, Outcome

(* The levels a save leaves (UserSave).                                    *)
LEMMA SaveFacts ==
  ASSUME Types, NEW r \in wire, UserSave(r)
  PROVE  /\ level' \in [Content -> Nat]
         /\ \A c \in Content :
              level'[c] > 0 <=>
                level[c] > 0 \/ (r.cmd.full /\ c \in Saved /\ r.view.level[c] > 0)
         /\ \A c \in Content :
              level'[c] = IF r.cmd.full /\ c \in Saved /\ r.view.level[c] > level[c]
                          THEN r.view.level[c] ELSE level[c]
         /\ owned' = owned \cup {c \in IF r.cmd.full THEN Saved ELSE {} : r.view.level[c] > 0}
<1>1. r \in Asked /\ r.view.level \in [Saved -> Nat]
  BY DEF Types, Asked, Copy
<1>2. \A c \in Saved : c \in Content /\ level[c] \in Nat /\ r.view.level[c] \in Nat
  BY <1>1, WalletAssumption DEF Types
<1>3. \A c \in Saved :
        Max({level[c], r.view.level[c]})
          = IF level[c] >= r.view.level[c] THEN level[c] ELSE r.view.level[c]
  BY <1>2, MaxOfTwo
<1>4. r.cmd.full \in BOOLEAN
  BY <1>1, CommandFacts DEF UserSave
<1>5. level' = [c \in Content |->
         IF c \in (IF r.cmd.full THEN Saved ELSE {})
         THEN MergedLevel(level[c], r.view.level[c]) ELSE level[c]]
  BY DEF UserSave
<1>6. \A c \in Content :
        level'[c] = IF r.cmd.full /\ c \in Saved /\ r.view.level[c] > level[c]
                    THEN r.view.level[c] ELSE level[c]
  BY <1>2, <1>3, <1>4, <1>5 DEF MergedLevel
<1>7. level' \in [Content -> Nat]
  <2>1. DOMAIN level' = Content /\ level' = [c \in Content |-> level'[c]]
    BY <1>5
  <2>2. \A c \in Content : level'[c] \in Nat
    BY <1>2, <1>6 DEF Types
  <2> QED
    BY <2>1, <2>2
<1>8. owned' = owned \cup {c \in IF r.cmd.full THEN Saved ELSE {} : r.view.level[c] > 0}
  BY DEF UserSave, Acquires
<1> QED
  BY <1>2, <1>6, <1>7, <1>8 DEF Types

-----------------------------------------------------------------------------
(* Every step keeps the types; a login finds the page of the conversation, *)
(* and a grant is of a level its product has.  The steps are those of the  *)
(* client, a login, a purchase, the reading of a level, and the others     *)
(* (Plain).                                                                *)
Plain(r) == UserSave(r) \/ BuyContents(r) \/ BuyPackage(r)

ClientStep ==
  \/ Play \/ Talk
  \/ \E c \in Raised : Raise(c)
  \/ \E c \in Command : Send(c)
  \/ \E r \in wire : Lose(r)
  \/ \E a \in answers : Answer(a) \/ RepeatedAnswer(a)

LEMMA ClientTypes ==
  ASSUME Types, ClientStep
  PROVE  Types'
<1>1. view \in Copy
  BY DEF Types
<1>2. CASE Play
  <2>1. view' = [likes |-> view.likes + 1, level |-> view.level, page |-> view.page,
                 played |-> view.played + 1]
    BY <1>1, <1>2 DEF Play, Copy
  <2>2. view' \in Copy
    <3>1. view.likes + 1 \in Int /\ view.played + 1 \in Int
      BY <1>1, CopyFacts
    <3> QED
      BY <1>1, <2>1, <3>1, CopyFacts, IsCopy
  <2> QED
    BY <1>2, <2>2 DEF Play, server, history, Types
<1>3. CASE Talk
  <2>1. view.page + 1 \in DOMAIN Page
    BY <1>1, <1>3, WalletAssumption DEF Talk, Copy
  <2>2. view' \in Copy
    BY <1>1, <1>3, <2>1 DEF Talk, Copy
  <2> QED
    BY <1>3, <2>2 DEF Talk, server, history, Types
<1>4. ASSUME NEW c \in Raised, Raise(c)
      PROVE  Types'
  <2>1. c \in Saved /\ c \in Content
    BY WalletAssumption
  <2>2. view.level[c] \in Nat
    BY <1>1, <2>1 DEF Copy
  <2>3. Price[c][view.level[c] + 1] \in Nat
    BY <1>4, <2>1, <2>2, PriceIsNatural DEF Raise
  <2>4. view' = [view EXCEPT !.likes = @ - Price[c][view.level[c] + 1],
                             !.level[c] = view.level[c] + 1]
    BY <1>4 DEF Raise
  <2> DEFINE n == view.level[c] + 1
             raised == [view.level EXCEPT ![c] = n]
  <2>5. raised \in [Saved -> Nat] /\ view.likes - Price[c][n] \in Int
    <3>1. view.likes \in Int /\ view.level \in [Saved -> Nat]
      BY <1>1, CopyFacts
    <3>2. n \in Nat /\ Price[c][n] \in Nat
      BY <2>2, <2>3
    <3>3. \A f \in [Saved -> Nat] : \A k \in Nat : [f EXCEPT ![c] = k] \in [Saved -> Nat]
      OBVIOUS
    <3>4. view.likes - Price[c][n] \in Int
      BY <3>1, <3>2
    <3> QED
      BY <3>1, <3>2, <3>3, <3>4
  <2>6. view' = [likes |-> view.likes - Price[c][n], level |-> raised, page |-> view.page,
                 played |-> view.played]
    BY <1>1, <2>4 DEF Copy
  <2>7. view' \in Copy
    <3> HIDE DEF n, raised
    <3> QED
      BY <1>1, <2>5, <2>6, CopyFacts, IsCopy
  <2> QED
    BY <1>4, <2>7 DEF Raise, server, history, Types
<1>5. ASSUME NEW c \in Command, Send(c)
      PROVE  Types'
  <2>1. Request(c, issued + 1) \in Asked
    BY RequestFacts
  <2>2. wire' = wire \cup {Request(c, issued + 1)} /\ issued' = issued + 1
    BY <1>5 DEF Send
  <2> QED
    BY <1>5, <2>1, <2>2 DEF Send, server, history, Types
<1>6. ASSUME NEW r \in wire, Lose(r)
      PROVE  Types'
  BY <1>6 DEF Lose, server, client, history, Types
<1>7. ASSUME NEW a \in answers, Answer(a)
      PROVE  Types'
  <2>1. view' \in Copy /\ told' \subseteq Nat
    BY <1>7, TellFacts DEF Answer
  <2>2. answers' \subseteq answers
    BY <1>7 DEF Answer
  <2> QED
    BY <1>7, <2>1, <2>2 DEF Answer, server, history, Types
<1>8. ASSUME NEW a \in answers, RepeatedAnswer(a)
      PROVE  Types'
  <2>1. view' \in Copy /\ told' \subseteq Nat
    <3>1. CASE RepeatsOutcome(a)
      <4>1. Tell(a)
        BY <1>8, <3>1 DEF RepeatedAnswer
      <4> QED
        BY <4>1, TellFacts
    <3>2. CASE ~ RepeatsOutcome(a)
      BY <1>8, <3>2 DEF RepeatedAnswer, Types
    <3> QED
      BY <3>1, <3>2
  <2> QED
    BY <1>8, <2>1 DEF RepeatedAnswer, server, history, Types
<1> QED
  BY <1>2, <1>3, <1>4, <1>5, <1>6, <1>7, <1>8 DEF ClientStep

LEMMA IsOutcome ==
  ASSUME NEW n \in Nat, NEW o \in {"buy", "shop", "package"}, NEW k \in Int, NEW cs \in SUBSET Content,
         NEW l \in Nat
  PROVE  [seq |-> n, op |-> o, likes |-> k, contents |-> cs, level |-> l] \in Outcome
BY DEF Outcome

LEMMA LoginTypes ==
  ASSUME Types, Talking, Login
  PROVE  Types' /\ view'.page \in DOMAIN Page /\ talk = Page[view'.page]
<1>1. \E i \in DOMAIN Page : Page[i] = talk
  BY DEF Talking
<1> DEFINE p == CHOOSE i \in DOMAIN Page : Page[i] = talk
<1>2. p \in DOMAIN Page /\ Page[p] = talk
  BY <1>1
<1>3. view' = [likes |-> purse["like"], level |-> [c \in Saved |-> level[c]], page |-> p,
               played |-> saved]
  BY DEF Login
<1>4. purse["like"] \in Int /\ [c \in Saved |-> level[c]] \in [Saved -> Nat] /\ saved \in Int
  BY WalletAssumption DEF Types, Currency
<1>5. view' \in Copy
  <2> HIDE DEF p
  <2> QED
    BY <1>2, <1>3, <1>4, IsCopy
<1>6. /\ login' = login + 1 /\ last' = 0 /\ issued' = 0 /\ told' = {} /\ wire' = {}
      /\ answers' = {}
      /\ UNCHANGED <<purse, owned, level, ad, saved, granted>>
  BY DEF Login
<1>7. Types'
  BY <1>5, <1>6 DEF Types
<1>8. view'.page = p
  BY <1>3
<1> QED
  BY <1>2, <1>7, <1>8

LEMMA SaveTypes ==
  ASSUME Types, NEW r \in wire, UserSave(r)
  PROVE  Types'
<1>1. r \in Asked /\ r.view \in Copy
  BY DEF Types, Asked
<1>2. r.view.likes \in Int /\ r.view.played \in Int
  BY <1>1, CopyFacts
<1>3. SavedLikes(r) \in Int
  BY <1>2 DEF SavedLikes, LegacyBalance, Types, Currency
<1>4. purse' \in [Currency -> Int]
  BY <1>3 DEF UserSave, Types
<1>5. saved' \in Int
  BY <1>2 DEF UserSave, Types
<1>6. level' \in [Content -> Nat] /\ owned' \subseteq Content
  <2>1. owned \subseteq Content /\ Saved \subseteq Content
    BY WalletAssumption DEF Types
  <2> QED
    BY <2>1, SaveFacts
<1>7. /\ last' = r.seq /\ wire' \subseteq wire
      /\ UNCHANGED <<login, view, told, issued, ad, answers, granted>>
  BY DEF UserSave, Committed, client
<1> QED
  BY <1>1, <1>4, <1>5, <1>6, <1>7 DEF Types, Asked

LEMMA BuyTypes ==
  ASSUME Types, NEW r \in wire, BuyContents(r)
  PROVE  Types'
<1> DEFINE c == r.cmd.content
           n == level[c] + 1
<1>1. r \in Asked
  BY DEF Types
<1>2. c \in Content /\ level[c] \in Nat /\ CurrencyOf[c] \in Currency /\ c \in Sold
  BY <1>1, CommandFacts, WalletAssumption DEF BuyContents, Types
<1>3. /\ last' = r.seq /\ wire' \subseteq wire
      /\ UNCHANGED <<login, view, told, issued, ad, saved, granted>>
  BY DEF BuyContents, Committed, client
<1>4. r.seq \in Nat
  BY <1>1 DEF Asked
<1>5. CASE level[c] >= MaxLevel(c)
  <2>1. /\ UNCHANGED <<purse, owned, level>>
        /\ answers' = answers \cup
             {[seq |-> r.seq, op |-> "buy", likes |-> 0, contents |-> {c}, level |-> level[c]]}
    <3>1. MaxLevel(c) \in Nat /\ ~ (level[c] < MaxLevel(c))
      BY <1>2, <1>5, WalletAssumption DEF MaxLevel
    <3> QED
      BY <3>1 DEF BuyContents
  <2>2. [seq |-> r.seq, op |-> "buy", likes |-> 0, contents |-> {c}, level |-> level[c]]
          \in Outcome
    <3>1. {c} \in SUBSET Content
      BY <1>2
    <3> HIDE DEF c
    <3> QED
      BY <1>2, <1>4, <3>1, IsOutcome
  <2>3. answers' \subseteq Outcome
    BY <2>1, <2>2 DEF Types
  <2>4. purse' = purse /\ owned' = owned /\ level' = level
    BY <2>1
  <2> QED
    BY <1>3, <1>4, <2>3, <2>4 DEF Types
<1>6. CASE ~ (level[c] >= MaxLevel(c))
  <2>1. /\ level[c] < MaxLevel(c)
        /\ purse' = [purse EXCEPT ![CurrencyOf[c]] = @ - Price[c][n]]
        /\ owned' = owned \cup {c} /\ level' = [level EXCEPT ![c] = n]
        /\ answers' = answers \cup
             {[seq |-> r.seq, op |-> "buy", contents |-> {c}, level |-> n,
               likes |-> IF CurrencyOf[c] = "like" THEN - Price[c][n] ELSE 0]}
    BY <1>6 DEF BuyContents
  <2>2. Price[c][n] \in Nat
    <3>1. MaxLevel(c) \in Nat
      BY <1>2, WalletAssumption DEF MaxLevel
    <3> QED
      BY <1>2, <2>1, <3>1, PriceIsNatural
  <2>3. n \in Nat
    BY <1>2
  <2>4. answers' \subseteq Outcome
    <3>1. (IF CurrencyOf[c] = "like" THEN - Price[c][n] ELSE 0) \in Int
      BY <2>2
    <3>2. [seq |-> r.seq, op |-> "buy", contents |-> {c}, level |-> n,
           likes |-> IF CurrencyOf[c] = "like" THEN - Price[c][n] ELSE 0] \in Outcome
      <4> HIDE DEF c, n
      <4> QED
        BY <1>2, <1>4, <2>3, <3>1 DEF Outcome
    <3> QED
      BY <2>1, <3>2 DEF Types
  <2>5. purse' \in [Currency -> Int]
    <3>1. purse[CurrencyOf[c]] - Price[c][n] \in Int
      BY <1>2, <2>2 DEF Types
    <3> HIDE DEF c, n
    <3> QED
      BY <1>2, <2>1, <3>1 DEF Types
  <2>6. level' \in [Content -> Nat] /\ owned' \subseteq Content
    <3> HIDE DEF c, n
    <3> QED
      BY <1>2, <2>1, <2>3 DEF Types
  <2> QED
    BY <1>3, <1>4, <2>4, <2>5, <2>6 DEF Types
<1> QED
  BY <1>5, <1>6

LEMMA ReadTypes ==
  ASSUME Types, NEW r \in wire, ReadAdLevel(r)
  PROVE  Types'
<1>1. r \in Asked /\ r.cmd.item \in AdItem
  BY DEF Types, ReadAdLevel, ForAd
<1>2. ad[r.cmd.item].level \in Nat
  <2>1. DOMAIN AdThreshold \subseteq Nat
    BY WalletAssumption
  <2>2. ad[r.cmd.item] \in [level : DOMAIN AdThreshold, experience : Nat]
    BY <1>1 DEF Types
  <2> QED
    BY <2>1, <2>2
<1> DEFINE first == \A q \in wire : ForAd(q.cmd) /\ q.cmd.item = r.cmd.item => q.seq >= r.seq
           read == [r EXCEPT !.tier = ad[r.cmd.item].level, !.alone = first]
<1>3. wire' = (wire \ {r}) \cup {read}
  BY DEF ReadAdLevel
<1>4. read \in Asked
  <2>1. first \in BOOLEAN
    OBVIOUS
  <2> HIDE DEF first
  <2> QED
    BY <1>1, <1>2, <2>1 DEF Asked
<1> HIDE DEF read
<1> QED
  BY <1>3, <1>4 DEF Types, ReadAdLevel, server, client, history

(* The product of a request that has its level, and what it holds.         *)
LEMMA ChosenFacts ==
  ASSUME Types, Advertising, NEW r \in wire, r.cmd.op = "shop", r.tier > 0
  PROVE  /\ r \in Asked /\ r.cmd.item \in Item /\ r.cmd.receipt \in Receipt \cup {NoReceipt}
         /\ r.tier \in DOMAIN Gift[r.cmd.item]
         /\ Chosen(r).like \in Nat /\ Chosen(r).candy \in Nat
         /\ Chosen(r).content \subseteq Content
<1>1. r \in Asked
  BY DEF Types
<1>2. r.cmd.item \in Item /\ r.cmd.receipt \in Receipt \cup {NoReceipt}
  BY <1>1, CommandFacts
<1>3. r.tier \in DOMAIN Gift[r.cmd.item]
  BY DEF Advertising
<1> QED
  BY <1>1, <1>2, <1>3, GiftFacts DEF Chosen

(* What a purchase adds to the books: nothing, or a grant that carries its *)
(* own name (BuyShop).                                                     *)
GrantOf(r) ==
  [login |-> login, seq |-> r.seq, receipt |-> r.cmd.receipt, item |-> r.cmd.item,
   tier |-> r.tier, alone |-> r.alone,
   due |-> IF ForAd(r.cmd) THEN ad[r.cmd.item].level ELSE 1]

NothingNew(r) ==
  /\ TransactionId(r) \in bought
  /\ empty' = (IF r.cmd.receipt = NoReceipt /\ ~ Permanent(Chosen(r))
               THEN empty \cup {[login |-> login, item |-> r.cmd.item, seq |-> r.seq]}
               ELSE empty)
  /\ UNCHANGED <<purse, owned, level, bought, ad, granted>>

Grants(r) ==
  /\ TransactionId(r) \notin bought /\ bought' = bought \cup {TransactionId(r)}
  /\ granted' = granted \cup {GrantOf(r)}
  /\ ad' = (IF ForAd(r.cmd) THEN AdvanceAdLevel(r.cmd.item) ELSE ad)
  /\ purse' = [c \in Currency |-> purse[c] + Chosen(r)[c]]
  /\ owned' = owned \cup Chosen(r).content
  /\ level' = [c \in Content |-> IF c \in Chosen(r).content \ owned THEN 1 ELSE level[c]]
  /\ UNCHANGED empty

LEMMA ShopOutcomes ==
  ASSUME NEW r \in wire, BuyShop(r)
  PROVE  /\ NothingNew(r) \/ Grants(r)
         /\ r.cmd.op = "shop" /\ r.tier > 0 /\ Fresh(r) /\ last' = r.seq /\ wire' = wire \ {r}
         /\ UNCHANGED <<talk, gp1, saved, login, view, told, issued>>
<1>1. CASE TransactionId(r) \in bought
  BY <1>1 DEF BuyShop, NothingNew, Committed, client
<1>2. CASE TransactionId(r) \notin bought
  BY <1>2 DEF BuyShop, Grants, GrantOf, NewContent, Committed, client
<1> QED
  BY <1>1, <1>2

(* What one more advertisement leaves (AdvanceAdLevel).                    *)
LEMMA AdvanceFacts ==
  ASSUME Types, NEW i \in AdItem
  PROVE  /\ AdvanceAdLevel(i) \in [AdItem -> [level : DOMAIN AdThreshold, experience : Nat]]
         /\ AdvanceAdLevel(i)[i].experience = ad[i].experience + 1
         /\ AdvanceAdLevel(i)[i].level
              = Max(Reached(ad[i].experience + 1) \cup {ad[i].level})
         /\ \A j \in AdItem : j # i => AdvanceAdLevel(i)[j] = ad[j]
<1> DEFINE n == ad[i].experience + 1
           S == Reached(n) \cup {ad[i].level}
<1>1. ad[i] \in [level : DOMAIN AdThreshold, experience : Nat]
  BY DEF Types
<1>2. DOMAIN AdThreshold = 1 .. Len(AdThreshold) /\ Len(AdThreshold) \in Nat
  BY WalletAssumption
<1>3. n \in Nat /\ S \subseteq DOMAIN AdThreshold /\ S # {}
  BY <1>1 DEF Reached
<1>4. Max(S) \in DOMAIN AdThreshold
  <2> HIDE DEF S
  <2>1. S \subseteq 1 .. Len(AdThreshold)
    BY <1>2, <1>3
  <2>2. Max(S) \in S
    BY <1>2, <1>3, <2>1, MaxIsLargest
  <2> QED
    BY <1>3, <2>2
<1>5. AdvanceAdLevel(i) = [ad EXCEPT ![i] = [level |-> Max(S), experience |-> n]]
  BY DEF AdvanceAdLevel, Reached
<1>6. ad \in [AdItem -> [level : DOMAIN AdThreshold, experience : Nat]]
  BY DEF Types
<1>7. [level |-> Max(S), experience |-> n] \in [level : DOMAIN AdThreshold, experience : Nat]
  <2> HIDE DEF S, n
  <2> QED
    BY <1>3, <1>4
<1> QED
  BY <1>5, <1>6, <1>7

LEMMA ShopTypes ==
  ASSUME Types, Advertising, NEW r \in wire, BuyShop(r)
  PROVE  Types'
<1>1. /\ NothingNew(r) \/ Grants(r)
      /\ r.cmd.op = "shop" /\ r.tier > 0 /\ last' = r.seq /\ wire' = wire \ {r}
      /\ UNCHANGED <<talk, gp1, saved, login, view, told, issued>>
  BY ShopOutcomes
<1>2. /\ r \in Asked /\ r.cmd.item \in Item /\ r.cmd.receipt \in Receipt \cup {NoReceipt}
      /\ Chosen(r).like \in Nat /\ Chosen(r).candy \in Nat /\ Chosen(r).content \subseteq Content
  BY <1>1, ChosenFacts
<1>3. r.seq \in Nat /\ r.tier \in Nat /\ r.alone \in BOOLEAN
  BY <1>2 DEF Asked
<1>4. answers' \subseteq Outcome
  <2>1. \A k \in Int : \A cs \in SUBSET Content : \A l \in Nat :
          [seq |-> r.seq, op |-> "shop", likes |-> k, contents |-> cs, level |-> l] \in Outcome
    BY <1>3, IsOutcome
  <2>2. NewContent(Chosen(r).content) \in SUBSET Content
    BY <1>2 DEF NewContent
  <2>3. \/ answers' = answers \cup
             {[seq |-> r.seq, op |-> "shop", likes |-> 0, contents |-> {}, level |-> 0]}
        \/ answers' = answers \cup
             {[seq |-> r.seq, op |-> "shop", likes |-> Chosen(r).like,
               contents |-> NewContent(Chosen(r).content), level |-> 1]}
    BY DEF BuyShop
  <2>4. /\ [seq |-> r.seq, op |-> "shop", likes |-> 0, contents |-> {}, level |-> 0] \in Outcome
        /\ [seq |-> r.seq, op |-> "shop", likes |-> Chosen(r).like,
            contents |-> NewContent(Chosen(r).content), level |-> 1] \in Outcome
    BY <1>2, <2>1, <2>2
  <2> QED
    BY <2>3, <2>4 DEF Types
<1>5. CASE NothingNew(r)
  BY <1>1, <1>3, <1>4, <1>5 DEF NothingNew, Types
<1>6. CASE Grants(r)
  <2>1. purse' \in [Currency -> Int]
    BY <1>2, <1>6 DEF Grants, Types, Currency
  <2>2. owned' \subseteq Content /\ level' \in [Content -> Nat]
    BY <1>2, <1>6 DEF Grants, Types
  <2>3. ad' \in [AdItem -> [level : DOMAIN AdThreshold, experience : Nat]]
    BY <1>6, AdvanceFacts DEF Grants, Types, ForAd
  <2>4. GrantOf(r) \in Granted
    <3>1. (IF ForAd(r.cmd) THEN ad[r.cmd.item].level ELSE 1) \in Nat
      <4>1. CASE ForAd(r.cmd)
        <5>1. ad[r.cmd.item] \in [level : DOMAIN AdThreshold, experience : Nat]
          BY <4>1 DEF ForAd, Types
        <5>2. DOMAIN AdThreshold \subseteq Nat
          BY WalletAssumption
        <5> QED
          BY <4>1, <5>1, <5>2
      <4>2. CASE ~ ForAd(r.cmd)
        BY <4>2
      <4> QED
        BY <4>1, <4>2
    <3>2. login \in Nat
      BY DEF Types
    <3> QED
      BY <1>2, <1>3, <3>1, <3>2 DEF GrantOf, Granted
  <2>5. granted' \subseteq Granted /\ IsFiniteSet(granted')
    BY <1>6, <2>4, FS_AddElement DEF Grants, Types
  <2> QED
    BY <1>1, <1>3, <1>4, <2>1, <2>2, <2>3, <2>5 DEF Types
<1> QED
  BY <1>1, <1>5, <1>6

LEMMA PackageTypes ==
  ASSUME Types, NEW r \in wire, BuyPackage(r)
  PROVE  /\ Types'
         /\ \A c \in Content : level'[c] > 0 <=> c \in Package \/ level[c] > 0
<1>1. r.seq \in Nat
  BY DEF Types, Asked
<1>2. Package \subseteq Content
  BY WalletAssumption
<1>3. \A c \in Content : level[c] \in Nat /\ PackageLevel(level[c]) \in Nat /\ PackageLevel(level[c]) > 0
  <2> TAKE c \in Content
  <2>1. level[c] \in Nat
    BY DEF Types
  <2>2. Max({level[c], 1}) = IF level[c] >= 1 THEN level[c] ELSE 1
    BY <2>1, MaxOfTwo
  <2> QED
    BY <2>1, <2>2 DEF PackageLevel
<1>4. level' = [c \in Content |-> IF c \in Package THEN PackageLevel(level[c]) ELSE level[c]]
  BY DEF BuyPackage
<1>5. level' \in [Content -> Nat] /\ owned' \subseteq Content
  BY <1>2, <1>3, <1>4 DEF BuyPackage, Types
<1>6. answers' \subseteq Outcome
  <2>1. [seq |-> r.seq, op |-> "package", likes |-> 0, contents |-> Package, level |-> 1] \in Outcome
    BY <1>1, <1>2, IsOutcome
  <2> QED
    BY <2>1 DEF BuyPackage, Types
<1>7. /\ last' = r.seq /\ wire' \subseteq wire
      /\ UNCHANGED <<login, view, told, issued, purse, ad, saved, granted>>
  BY DEF BuyPackage, Committed, client
<1>8. Types'
  BY <1>1, <1>5, <1>6, <1>7 DEF Types
<1> QED
  BY <1>3, <1>4, <1>8

LEMMA Steps ==
  ASSUME [Next]_vars
  PROVE  \/ ClientStep \/ Login \/ UNCHANGED vars
         \/ \E r \in wire : Plain(r) \/ ReadAdLevel(r) \/ BuyShop(r)
BY DEF Next, ClientStep, Plain

LEMMA TypeStep ==
  ASSUME Types, Advertising, Talking, [Next]_vars
  PROVE  Types'
<1>1. CASE ClientStep
  BY <1>1, ClientTypes
<1>2. CASE Login
  BY <1>2, LoginTypes
<1>3. CASE UNCHANGED vars
  BY <1>3 DEF vars, server, client, history, Types
<1>4. ASSUME NEW r \in wire, Plain(r) \/ ReadAdLevel(r) \/ BuyShop(r)
      PROVE  Types'
  BY <1>4, SaveTypes, BuyTypes, PackageTypes, ReadTypes, ShopTypes DEF Plain
<1> QED
  BY <1>1, <1>2, <1>3, <1>4, Steps

-----------------------------------------------------------------------------
(* What the client does, and a commit that is not a purchase, leaves the   *)
(* books and the advertisements alone.                                     *)
LEMMA ClientFrame ==
  ASSUME ClientStep
  PROVE  UNCHANGED <<purse, owned, level, talk, gp1, bought, ad, last, login, saved, granted, empty>>
<1>1. CASE Play \/ Talk \/ \E c \in Raised : Raise(c)
  BY <1>1 DEF Play, Talk, Raise, server, history
<1>2. CASE \E c \in Command : Send(c)
  BY <1>2 DEF Send, server, history
<1>3. CASE \E r \in wire : Lose(r)
  BY <1>3 DEF Lose, server, history
<1>4. CASE \E a \in answers : Answer(a) \/ RepeatedAnswer(a)
  BY <1>4 DEF Answer, RepeatedAnswer, server, history
<1> QED
  BY <1>1, <1>2, <1>3, <1>4 DEF ClientStep

LEMMA PlainFrame ==
  ASSUME NEW r \in wire, Plain(r)
  PROVE  /\ Fresh(r) /\ last' = r.seq /\ wire' = wire \ {r}
         /\ UNCHANGED <<bought, ad, login, view, told, issued, granted, empty>>
<1>1. CASE UserSave(r)
  BY <1>1 DEF UserSave, Committed, client
<1>2. CASE BuyContents(r)
  BY <1>2 DEF BuyContents, Committed, client
<1>3. CASE BuyPackage(r)
  BY <1>3 DEF BuyPackage, Committed, client
<1> QED
  BY <1>1, <1>2, <1>3 DEF Plain

LEMMA ReadFrame ==
  ASSUME NEW r \in wire, ReadAdLevel(r)
  PROVE  UNCHANGED <<purse, owned, level, talk, gp1, bought, ad, last, login, view, told, issued,
                     saved, granted, empty>>
BY DEF ReadAdLevel, server, client, history

(* Ownership and levels change together.                                   *)
LEMMA OwnedStep ==
  ASSUME Types, Advertising, OwnedHasLevel, [Next]_vars
  PROVE  OwnedHasLevel'
<1>1. CASE ClientStep
  BY <1>1, ClientFrame DEF OwnedHasLevel
<1>2. CASE Login
  BY <1>2 DEF Login, OwnedHasLevel
<1>3. CASE UNCHANGED vars
  BY <1>3 DEF vars, server, OwnedHasLevel
<1>4. ASSUME NEW r \in wire, UserSave(r)
      PROVE  OwnedHasLevel'
  <2>1. /\ \A c \in Content :
             level'[c] > 0 <=>
               level[c] > 0 \/ (r.cmd.full /\ c \in Saved /\ r.view.level[c] > 0)
        /\ owned' = owned \cup {c \in IF r.cmd.full THEN Saved ELSE {} : r.view.level[c] > 0}
    BY <1>4, SaveFacts
  <2>2. Saved \subseteq Content
    BY WalletAssumption
  <2> QED
    BY <2>1, <2>2 DEF OwnedHasLevel
<1>5. ASSUME NEW r \in wire, BuyContents(r)
      PROVE  OwnedHasLevel'
  <2> DEFINE c == r.cmd.content
  <2>1. c \in Content /\ level[c] \in Nat
    BY <1>5, CommandFacts, WalletAssumption DEF BuyContents, Types
  <2>2. \/ UNCHANGED <<owned, level>>
        \/ owned' = owned \cup {c} /\ level' = [level EXCEPT ![c] = level[c] + 1]
    BY <1>5 DEF BuyContents
  <2> HIDE DEF c
  <2> QED
    BY <2>1, <2>2 DEF OwnedHasLevel, Types
<1>6. ASSUME NEW r \in wire, BuyPackage(r)
      PROVE  OwnedHasLevel'
  <2>1. \A c \in Content : level'[c] > 0 <=> c \in Package \/ level[c] > 0
    BY <1>6, PackageTypes
  <2>2. owned' = owned \cup Package /\ Package \subseteq Content
    BY <1>6, WalletAssumption DEF BuyPackage
  <2> QED
    BY <2>1, <2>2 DEF OwnedHasLevel
<1>7. ASSUME NEW r \in wire, ReadAdLevel(r)
      PROVE  OwnedHasLevel'
  BY <1>7, ReadFrame DEF OwnedHasLevel
<1>8. ASSUME NEW r \in wire, BuyShop(r)
      PROVE  OwnedHasLevel'
  <2>1. (NothingNew(r) \/ Grants(r)) /\ Chosen(r).content \subseteq Content
    BY <1>8, ShopOutcomes, ChosenFacts
  <2> QED
    BY <2>1 DEF NothingNew, Grants, OwnedHasLevel, Types
<1> QED
  BY <1>1, <1>2, <1>3, <1>4, <1>5, <1>6, <1>7, <1>8, Steps DEF Plain

(* The purchases made are those of the grants.                             *)
LEMMA GrantIsNamed ==
  ASSUME NEW r
  PROVE  IdOf(GrantOf(r)) = TransactionId(r)
BY DEF IdOf, GrantOf, TransactionId, Chosen

LEMMA BookedStep ==
  ASSUME Types, Advertising, Booked, [Next]_vars
  PROVE  Booked'
<1>1. CASE ClientStep
  BY <1>1, ClientFrame DEF Booked, IdOf, TransactionId, Chosen, Permanent
<1>2. CASE Login
  BY <1>2 DEF Login, Booked, IdOf, TransactionId, Chosen, Permanent, Types, Granted
<1>3. CASE UNCHANGED vars
  BY <1>3 DEF vars, server, history, Booked
<1>4. ASSUME NEW r \in wire, Plain(r)
      PROVE  Booked'
  <2>1. r.seq \in Nat
    BY DEF Types, Asked
  <2> QED
    BY <1>4, <2>1, PlainFrame DEF Booked, Fresh, Types, Granted
<1>5. ASSUME NEW r \in wire, ReadAdLevel(r)
      PROVE  Booked'
  BY <1>5, ReadFrame DEF Booked
<1>6. ASSUME NEW r \in wire, BuyShop(r)
      PROVE  Booked'
  <2>1. /\ NothingNew(r) \/ Grants(r)
        /\ Fresh(r) /\ last' = r.seq /\ login' = login
    BY <1>6, ShopOutcomes
  <2>2. r.seq \in Nat /\ last \in Nat /\ login \in Nat /\ granted \subseteq Granted
    BY DEF Types, Asked
  <2>3. CASE NothingNew(r)
    BY <2>1, <2>2, <2>3 DEF NothingNew, Booked, Fresh, Granted
  <2>4. CASE Grants(r)
    <3>1. bought' = bought \cup {IdOf(GrantOf(r))} /\ granted' = granted \cup {GrantOf(r)}
      BY <2>4, GrantIsNamed DEF Grants
    <3>2. bought' = {IdOf(g) : g \in granted'}
      BY <3>1 DEF Booked
    <3>3. GrantOf(r).login = login /\ GrantOf(r).seq = r.seq
      BY DEF GrantOf
    <3>4. \A g \in granted' : g.login <= login' /\ (g.login = login' => g.seq <= last')
      BY <2>1, <2>2, <3>1, <3>3 DEF Booked, Fresh, Granted
    <3> QED
      BY <3>2, <3>4 DEF Booked
  <2> QED
    BY <2>1, <2>3, <2>4
<1> QED
  BY <1>1, <1>2, <1>3, <1>4, <1>5, <1>6, Steps

-----------------------------------------------------------------------------
(* Two grants that must not both be made have the same name.               *)
LEMMA SamePurchase ==
  ASSUME NEW g \in Granted, NEW h \in Granted,
         \/ g.receipt = h.receipt /\ g.receipt # NoReceipt
         \/ /\ g.receipt = NoReceipt /\ h.receipt = NoReceipt
            /\ g.item = h.item /\ GrantedOnce(g) /\ GrantedOnce(h)
  PROVE  IdOf(g) = IdOf(h)
<1>1. \A x \in Granted :
        IdOf(x) = IF x.receipt # NoReceipt
                  THEN [kind |-> "receipt", item |-> x.receipt, of |-> <<>>]
                  ELSE IF GrantedOnce(x) THEN [kind |-> "once", item |-> x.item, of |-> <<>>]
                  ELSE [kind |-> "seq", item |-> x.item, of |-> <<x.seq>>]
  BY DEF IdOf, TransactionId, GrantedOnce, Chosen
<1> QED
  BY <1>1

(* A purchase that is taken for an earlier one, without a receipt and not  *)
(* permanent, has that one's product and number.                           *)
LEMMA TwinIsNamed ==
  ASSUME NEW r, NEW g, r.cmd.receipt = NoReceipt, ~ Permanent(Chosen(r)),
         IdOf(g) = TransactionId(r)
  PROVE  g.item = r.cmd.item /\ g.seq = r.seq
<1>1. TransactionId(r) = [kind |-> "seq", item |-> r.cmd.item, of |-> <<r.seq>>]
  BY DEF TransactionId
<1>2. \/ IdOf(g) = [kind |-> "receipt", item |-> g.receipt, of |-> <<>>]
      \/ IdOf(g) = [kind |-> "once", item |-> g.item, of |-> <<>>]
      \/ IdOf(g) = [kind |-> "seq", item |-> g.item, of |-> <<g.seq>>]
  BY DEF IdOf, TransactionId
<1>3. IdOf(g).kind = "seq" /\ IdOf(g).item = r.cmd.item /\ IdOf(g).of = <<r.seq>>
  BY <1>1
<1>4. IdOf(g) = [kind |-> "seq", item |-> g.item, of |-> <<g.seq>>]
  BY <1>2, <1>3
<1>5. IdOf(g).item = g.item /\ IdOf(g).of = <<g.seq>>
  BY <1>4
<1>6. <<g.seq>>[1] = <<r.seq>>[1]
  BY <1>3, <1>5
<1> QED
  BY <1>3, <1>5, <1>6

(* A new grant's name is that of no earlier one.                           *)
LEMMA GrantOnceStep ==
  ASSUME Types, Types', Booked, OneGrantPerReceipt, NEW r \in wire, Grants(r)
  PROVE  OneGrantPerReceipt' /\ GrantOf(r) \notin granted
<1>1. granted' = granted \cup {GrantOf(r)}
  BY DEF Grants
<1>2. \A h \in granted : IdOf(h) # IdOf(GrantOf(r))
  BY GrantIsNamed DEF Grants, Booked
<1>3. granted' \subseteq Granted
  BY DEF Types
<1>4. SUFFICES ASSUME NEW g \in granted', NEW h \in granted', g # h
               PROVE  /\ g.receipt # h.receipt \/ g.receipt = NoReceipt
                      /\ ~ (/\ g.receipt = NoReceipt /\ h.receipt = NoReceipt
                            /\ g.item = h.item /\ GrantedOnce(g) /\ GrantedOnce(h))
  BY <1>2 DEF OneGrantPerReceipt, GrantedOnce, Permanent
<1>5. CASE g \in granted /\ h \in granted
  BY <1>4, <1>5 DEF OneGrantPerReceipt
<1>6. CASE g \in granted /\ h = GrantOf(r)
  BY <1>2, <1>3, <1>6, SamePurchase
<1>7. CASE g = GrantOf(r) /\ h \in granted
  BY <1>2, <1>3, <1>7, SamePurchase
<1> QED
  BY <1>1, <1>4, <1>5, <1>6, <1>7

(* An advertisement's purchase adds one to its count and sets its level.   *)
LEMMA CountStep ==
  ASSUME Types, Types', Advertising, AdvertisementsCountOnce, NEW r \in wire, BuyShop(r),
         Grants(r), GrantOf(r) \notin granted
  PROVE  AdvertisementsCountOnce'
<1>1. granted' = granted \cup {GrantOf(r)} /\ GrantOf(r).item = r.cmd.item
  BY DEF Grants, GrantOf
<1>2. ASSUME NEW i \in AdItem
      PROVE  /\ ad'[i].experience = Cardinality({g \in granted' : g.item = i})
             /\ ad'[i].level = Max(Reached(ad'[i].experience))
  <2>1. /\ ad[i].experience = Cardinality({g \in granted : g.item = i})
        /\ ad[i].level = Max(Reached(ad[i].experience)) /\ ad[i].experience \in Nat
    BY DEF AdvertisementsCountOnce, Reached, Types
  <2>2. CASE r.cmd.item = i
    <3>1. ForAd(r.cmd)
      BY <1>2, <2>2 DEF ForAd, BuyShop
    <3>2. ad' = AdvanceAdLevel(i)
      BY <2>2, <3>1 DEF Grants
    <3>3. /\ ad'[i].experience = ad[i].experience + 1
          /\ ad'[i].level = Max(Reached(ad[i].experience + 1) \cup {ad[i].level})
      BY <3>2, AdvanceFacts
    <3>4. {g \in granted' : g.item = i} = {g \in granted : g.item = i} \cup {GrantOf(r)}
      BY <1>1, <2>2
    <3>5. IsFiniteSet({g \in granted : g.item = i})
      BY FS_Subset DEF Types
    <3>6. Cardinality({g \in granted' : g.item = i})
            = Cardinality({g \in granted : g.item = i}) + 1
      BY <3>4, <3>5, FS_AddElement
    <3> QED
      BY <2>1, <3>3, <3>6, AdLevelGrows
  <2>3. CASE r.cmd.item # i
    <3>1. ad'[i] = ad[i]
      BY <2>3, AdvanceFacts DEF Grants, ForAd
    <3>2. {g \in granted' : g.item = i} = {g \in granted : g.item = i}
      BY <1>1, <2>3
    <3> QED
      BY <2>1, <3>1, <3>2
  <2> QED
    BY <2>2, <2>3
<1>3. GrantOf(r).tier <= GrantOf(r).due /\ (GrantOf(r).alone => GrantOf(r).tier = GrantOf(r).due)
  <2>1. GrantOf(r).tier = r.tier /\ GrantOf(r).alone = r.alone
        /\ GrantOf(r).due = IF ForAd(r.cmd) THEN ad[r.cmd.item].level ELSE 1
    BY DEF GrantOf
  <2>2. r.tier > 0 /\ Fresh(r)
    BY DEF BuyShop
  <2>3. CASE ForAd(r.cmd)
    BY <2>1, <2>2, <2>3 DEF Advertising
  <2>4. CASE ~ ForAd(r.cmd)
    BY <2>1, <2>4 DEF Advertising
  <2> QED
    BY <2>3, <2>4
<1> QED
  BY <1>1, <1>2, <1>3 DEF AdvertisementsCountOnce, Reached

LEMMA TwinStep ==
  ASSUME Types, Booked, OnlyTwinsAreEmpty, NEW r \in wire, BuyShop(r), NothingNew(r)
  PROVE  OnlyTwinsAreEmpty'
<1>1. granted' = granted
  BY DEF NothingNew
<1>2. CASE r.cmd.receipt = NoReceipt /\ ~ Permanent(Chosen(r))
  <2>1. PICK g \in granted : IdOf(g) = TransactionId(r)
    BY DEF NothingNew, Booked
  <2>2. g.item = r.cmd.item /\ g.seq = r.seq
    BY <1>2, <2>1, TwinIsNamed
  <2>3. g.login < login
    <3>1. g.login <= login /\ (g.login = login => g.seq <= last) /\ r.seq > last
      BY DEF Booked, BuyShop, Fresh
    <3>2. g.login \in Nat /\ login \in Nat /\ g.seq \in Nat /\ last \in Nat
      BY DEF Types, Granted
    <3> QED
      BY <2>2, <3>1, <3>2
  <2>4. empty' = empty \cup {[login |-> login, item |-> r.cmd.item, seq |-> r.seq]}
    BY <1>2 DEF NothingNew
  <2> QED
    BY <1>1, <2>2, <2>3, <2>4 DEF OnlyTwinsAreEmpty
<1>3. CASE ~ (r.cmd.receipt = NoReceipt /\ ~ Permanent(Chosen(r)))
  BY <1>1, <1>3 DEF NothingNew, OnlyTwinsAreEmpty
<1> QED
  BY <1>2, <1>3

LEMMA PurchasesStep ==
  ASSUME Types, Types', Advertising, Booked, PurchasesGrantOnce, [Next]_vars
  PROVE  PurchasesGrantOnce'
<1> DEFINE Same == UNCHANGED <<ad, granted, empty>>
<1>1. ASSUME Same
      PROVE  PurchasesGrantOnce'
  BY <1>1 DEF PurchasesGrantOnce, OneGrantPerReceipt, GrantedOnce, Permanent, OnlyTwinsAreEmpty,
              AdvertisementsCountOnce
<1>2. CASE ClientStep
  BY <1>1, <1>2, ClientFrame
<1>3. CASE Login
  BY <1>1, <1>3 DEF Login
<1>4. CASE UNCHANGED vars
  BY <1>1, <1>4 DEF vars, server, history
<1>5. ASSUME NEW r \in wire, Plain(r) \/ ReadAdLevel(r)
      PROVE  PurchasesGrantOnce'
  BY <1>1, <1>5, PlainFrame, ReadFrame
<1>6. ASSUME NEW r \in wire, BuyShop(r)
      PROVE  PurchasesGrantOnce'
  <2>1. NothingNew(r) \/ Grants(r)
    BY <1>6, ShopOutcomes
  <2>2. CASE NothingNew(r)
    <3>1. OneGrantPerReceipt' /\ AdvertisementsCountOnce'
      BY <2>2 DEF NothingNew, PurchasesGrantOnce, OneGrantPerReceipt, GrantedOnce, Permanent,
                  AdvertisementsCountOnce
    <3> QED
      BY <1>6, <2>2, <3>1, TwinStep DEF PurchasesGrantOnce
  <2>3. CASE Grants(r)
    <3>1. OneGrantPerReceipt' /\ GrantOf(r) \notin granted
      BY <2>3, GrantOnceStep DEF PurchasesGrantOnce
    <3>2. AdvertisementsCountOnce'
      BY <1>6, <2>3, <3>1, CountStep DEF PurchasesGrantOnce
    <3>3. OnlyTwinsAreEmpty'
      BY <2>3 DEF Grants, PurchasesGrantOnce, OnlyTwinsAreEmpty
    <3> QED
      BY <3>1, <3>2, <3>3 DEF PurchasesGrantOnce
  <2> QED
    BY <2>1, <2>2, <2>3
<1> QED
  BY <1>2, <1>3, <1>4, <1>5, <1>6, Steps

-----------------------------------------------------------------------------
(* Requests that disappear, and commands that commit without counting an   *)
(* advertisement, leave what was read right.                               *)
LEMMA AdvertisingShrinks ==
  ASSUME Types, Advertising, wire' \subseteq wire, ad' = ad, last' \in Nat, last' >= last
  PROVE  Advertising'
<1>1. \A r \in wire : r.seq \in Nat
  BY DEF Types, Asked
<1>2. last \in Nat
  BY DEF Types
<1>3. \A r \in wire : (r.seq > last') => Fresh(r)
  BY <1>1, <1>2 DEF Fresh
<1> QED
  BY <1>3 DEF Advertising, Fresh, SameProduct

(* A new request has the greatest number of all.                           *)
LEMMA AdvertisingSend ==
  ASSUME Types, Advertising, Talking, NEW c \in Command, Send(c)
  PROVE  Advertising'
<1> DEFINE new == Request(c, issued + 1)
<1>1. /\ new \in Asked /\ new.cmd = c /\ new.seq = issued + 1
      /\ new.tier = IF ForAd(c) THEN 0 ELSE 1
  BY RequestFacts
<1>2. wire' = wire \cup {new} /\ ad' = ad /\ last' = last
  BY DEF Send, server
<1>3. \A r \in wire : r.seq \in Nat /\ r.seq <= issued
  BY DEF Types, Asked, Talking
<1>4. issued \in Nat
  BY DEF Types
<1>5. \A r \in wire : r.seq <= new.seq
  BY <1>1, <1>3, <1>4
<1>6. c.op = "shop" /\ ~ ForAd(c) => 1 \in DOMAIN Gift[c.item]
  <2>1. SUFFICES ASSUME c.op = "shop", ~ ForAd(c)
                 PROVE  1 \in DOMAIN Gift[c.item]
    OBVIOUS
  <2>2. c.item \in Item /\ c.item \notin AdItem
    BY <1>1, <2>1, CommandFacts DEF ForAd
  <2>3. Len(Gift[c.item]) = 1 /\ Gift[c.item] \in Seq([like : Nat, candy : Nat, content : SUBSET Content])
    BY <2>2, WalletAssumption
  <2> QED
    BY <2>3
<1> HIDE DEF new
<1>7. /\ new.cmd.op = "shop" /\ new.tier > 0 => new.tier \in DOMAIN Gift[new.cmd.item]
      /\ ~ ForAd(new.cmd) => new.tier = 1
      /\ ForAd(new.cmd) => ~ (new.tier > 0)
  BY <1>1, <1>6
<1> QED
  BY <1>2, <1>5, <1>7 DEF Advertising, Fresh, SameProduct

(* The level a request reads is its product's, and the one that is due.    *)
LEMMA AdvertisingRead ==
  ASSUME Types, Advertising, NEW r \in wire, ReadAdLevel(r)
  PROVE  Advertising'
<1> DEFINE i == r.cmd.item
           first == \A q \in wire : ForAd(q.cmd) /\ q.cmd.item = i => q.seq >= r.seq
           read == [r EXCEPT !.tier = ad[i].level, !.alone = first]
<1>1. r \in Asked /\ i \in AdItem /\ i \in Item /\ ForAd(r.cmd)
  BY WalletAssumption DEF Types, ReadAdLevel, ForAd
<1>2. wire' = (wire \ {r}) \cup {read} /\ ad' = ad /\ last' = last
  BY DEF ReadAdLevel, server
<1>3. read.cmd = r.cmd /\ read.seq = r.seq /\ read.tier = ad[i].level /\ read.alone = first
  <2> HIDE DEF first
  <2> QED
    BY <1>1 DEF Asked
<1>4. ad[i].level \in DOMAIN Gift[i] /\ ad[i].level \in Nat
  <2>1. ad[i].level \in DOMAIN AdThreshold
    BY <1>1 DEF Types
  <2>2. /\ Len(Gift[i]) = Len(AdThreshold) /\ AdThreshold \in Seq(Nat)
        /\ Gift[i] \in Seq([like : Nat, candy : Nat, content : SUBSET Content])
    BY <1>1, WalletAssumption
  <2>3. DOMAIN AdThreshold = 1 .. Len(AdThreshold) /\ DOMAIN Gift[i] = 1 .. Len(Gift[i])
    BY <2>2
  <2>4. DOMAIN AdThreshold \subseteq Nat
    BY <2>2
  <2> QED
    BY <2>1, <2>2, <2>3, <2>4
<1>5. r.seq \in Nat /\ \A q \in wire : q.seq \in Nat
  BY DEF Types, Asked
<1>6. first => \A q \in wire : SameProduct(r, q) => r.seq <= q.seq
  BY <1>5 DEF SameProduct
<1>7. r.seq <= read.seq /\ r.seq <= r.seq
  BY <1>3, <1>5
<1> HIDE DEF read, first
<1>8. ad[i].level <= ad[i].level
  BY <1>4
<1> QED
  BY <1>1, <1>2, <1>3, <1>4, <1>6, <1>7, <1>8 DEF Advertising, Fresh, SameProduct

(* A purchase only raises the levels; whoever had read the old one of this *)
(* product, and was the first to do so, comes too late to take effect.     *)
LEMMA AdvertisingGrants ==
  ASSUME Types, Advertising, AdvertisementsCountOnce, NEW s \in wire, BuyShop(s), Grants(s)
  PROVE  Advertising'
<1>1. wire' = wire \ {s} /\ last' = s.seq /\ Fresh(s)
  BY ShopOutcomes
<1>2. ad' = IF ForAd(s.cmd) THEN AdvanceAdLevel(s.cmd.item) ELSE ad
  BY DEF Grants
<1>3. ASSUME NEW i \in AdItem
      PROVE  /\ ad[i].level <= ad'[i].level
             /\ ~ (ForAd(s.cmd) /\ s.cmd.item = i) => ad'[i].level = ad[i].level
  <2>1. /\ ad[i].level = Max(Reached(ad[i].experience)) /\ ad[i].experience \in Nat
        /\ ad[i].level \in Nat
    <3>1. DOMAIN AdThreshold \subseteq Nat
      BY WalletAssumption
    <3> QED
      BY <3>1 DEF AdvertisementsCountOnce, Reached, Types
  <2>2. CASE ForAd(s.cmd) /\ s.cmd.item = i
    BY <1>2, <2>1, <2>2, AdvanceFacts, AdLevelGrows
  <2>3. CASE ForAd(s.cmd) /\ s.cmd.item # i
    <3>1. s.cmd.item \in AdItem /\ ad' = AdvanceAdLevel(s.cmd.item)
      BY <1>2, <2>3 DEF ForAd
    <3>2. ad'[i] = ad[i]
      BY <2>3, <3>1, AdvanceFacts
    <3> QED
      BY <2>1, <3>2
  <2>4. CASE ~ ForAd(s.cmd)
    BY <1>2, <2>1, <2>4
  <2> QED
    BY <2>2, <2>3, <2>4
<1>4. ASSUME NEW r \in wire', ForAd(r.cmd), r.tier > 0
      PROVE  /\ r.tier <= ad'[r.cmd.item].level
             /\ r.alone => /\ \A q \in wire' : SameProduct(r, q) => r.seq <= q.seq
                           /\ r.seq > last' => r.tier = ad'[r.cmd.item].level
  <2>1. /\ r \in wire /\ r.cmd.item \in AdItem /\ r.tier <= ad[r.cmd.item].level
        /\ r.alone => /\ \A q \in wire : SameProduct(r, q) => r.seq <= q.seq
                      /\ Fresh(r) => r.tier = ad[r.cmd.item].level
    BY <1>1, <1>4 DEF Advertising, ForAd
  <2>2. r.tier \in Nat /\ r.seq \in Nat /\ s.seq \in Nat /\ last \in Nat
    BY <2>1 DEF Types, Asked
  <2>3. ad[r.cmd.item].level \in Nat /\ ad'[r.cmd.item].level \in Nat
    <3>1. ad \in [AdItem -> [level : DOMAIN AdThreshold, experience : Nat]]
      BY DEF Types
    <3>2. ad' \in [AdItem -> [level : DOMAIN AdThreshold, experience : Nat]]
      BY <1>2, <3>1, AdvanceFacts DEF ForAd
    <3>3. DOMAIN AdThreshold \subseteq Nat
      BY WalletAssumption
    <3> QED
      BY <2>1, <3>1, <3>2, <3>3
  <2>4. r.tier <= ad'[r.cmd.item].level
    BY <1>3, <2>1, <2>2, <2>3
  <2>5. ASSUME r.alone, r.seq > last'
        PROVE  r.tier = ad'[r.cmd.item].level
    <3>1. ~ (ForAd(s.cmd) /\ s.cmd.item = r.cmd.item)
      BY <1>1, <2>1, <2>2, <2>5 DEF SameProduct
    <3>2. Fresh(r)
      BY <1>1, <2>2, <2>5 DEF Fresh
    <3> QED
      BY <1>3, <2>1, <2>5, <3>1, <3>2
  <2> QED
    BY <1>1, <2>1, <2>4, <2>5 DEF SameProduct
<1> QED
  BY <1>1, <1>4 DEF Advertising, Fresh, SameProduct

LEMMA AdvertisingStep ==
  ASSUME Types, Advertising, Talking, PurchasesGrantOnce, [Next]_vars
  PROVE  Advertising'
<1>0. last \in Nat /\ \A r \in wire : r.seq \in Nat
  BY DEF Types, Asked
<1>1. CASE ClientStep
  <2>1. ad' = ad /\ last' = last
    BY <1>1, ClientFrame
  <2>2. (\E c \in Command : Send(c)) \/ wire' \subseteq wire
    BY <1>1 DEF ClientStep, Play, Talk, Raise, Lose, Answer, RepeatedAnswer
  <2> QED
    BY <1>0, <2>1, <2>2, AdvertisingShrinks, AdvertisingSend
<1>2. CASE Login
  BY <1>2 DEF Login, Advertising
<1>3. CASE UNCHANGED vars
  BY <1>0, <1>3, AdvertisingShrinks DEF vars, server
<1>4. ASSUME NEW r \in wire, Plain(r)
      PROVE  Advertising'
  <2>1. ad' = ad /\ wire' \subseteq wire /\ last' \in Nat /\ last' >= last
    BY <1>0, <1>4, PlainFrame DEF Fresh
  <2> QED
    BY <2>1, AdvertisingShrinks
<1>5. ASSUME NEW r \in wire, ReadAdLevel(r)
      PROVE  Advertising'
  BY <1>5, AdvertisingRead
<1>6. ASSUME NEW r \in wire, BuyShop(r)
      PROVE  Advertising'
  <2>1. /\ NothingNew(r) \/ Grants(r)
        /\ Fresh(r) /\ last' = r.seq /\ wire' \subseteq wire
    BY <1>6, ShopOutcomes
  <2>2. CASE NothingNew(r)
    <3>1. ad' = ad /\ last' \in Nat /\ last' >= last
      BY <1>0, <2>1, <2>2 DEF NothingNew, Fresh
    <3> QED
      BY <2>1, <3>1, AdvertisingShrinks
  <2>3. CASE Grants(r)
    BY <1>6, <2>3, AdvertisingGrants DEF PurchasesGrantOnce
  <2> QED
    BY <2>1, <2>2, <2>3
<1> QED
  BY <1>1, <1>2, <1>3, <1>4, <1>5, <1>6, Steps

-----------------------------------------------------------------------------
(* A conversation's stored page only goes the client's way (UserSave).     *)
Forward == \A i \in DOMAIN Page : talk = Page[i] => \E j \in DOMAIN Page : j >= i /\ talk' = Page[j]

LEMMA PageFacts ==
  /\ DOMAIN Page \subseteq Nat
  /\ \A i, j \in DOMAIN Page : Page[i] = Page[j] => i = j
BY WalletAssumption

LEMMA StaysForward ==
  ASSUME talk' = talk
  PROVE  Forward
<1> SUFFICES ASSUME NEW i \in DOMAIN Page, talk = Page[i]
             PROVE  \E j \in DOMAIN Page : j >= i /\ talk' = Page[j]
  BY DEF Forward
<1>1. i \in Nat
  BY PageFacts
<1> QED
  BY <1>1

(* Talk goes on, requests disappear, numbers are used up.                  *)
LEMMA TalkingShrinks ==
  ASSUME Types, Talking, talk' = talk, wire' \subseteq wire, last' \in Nat, last' >= last,
         issued' = issued, view'.page \in DOMAIN Page, view'.page >= view.page
  PROVE  Talking'
<1>1. \A r \in wire : r.seq \in Nat /\ r.view.page \in Nat
  BY PageFacts DEF Types, Asked, Copy
<1>2. last \in Nat /\ view.page \in Nat /\ view'.page \in Nat
  BY PageFacts DEF Types, Copy
<1>3. \A r \in wire : (r.seq > last') => Fresh(r)
  BY <1>1, <1>2 DEF Fresh
<1>4. PICK i \in DOMAIN Page :
        /\ talk = Page[i] /\ i <= view.page
        /\ \A r \in wire : IsSave(r) /\ Fresh(r) => i <= r.view.page
  BY DEF Talking
<1>5. i <= view'.page
  BY <1>2, <1>4, PageFacts
<1>6. \A r \in wire' : IsSave(r) => r.view.page <= view'.page
  <2> TAKE r \in wire'
  <2>1. r \in wire /\ (IsSave(r) => r.view.page <= view.page)
    BY DEF Talking
  <2> QED
    BY <1>1, <1>2, <2>1
<1>7. \E k \in DOMAIN Page :
        /\ talk' = Page[k] /\ k <= view'.page
        /\ \A r \in wire' : IsSave(r) /\ r.seq > last' => k <= r.view.page
  BY <1>3, <1>4, <1>5
<1> QED
  BY <1>6, <1>7 DEF Talking, Fresh, IsSave

(* A new save carries the page the client has come to.                     *)
LEMMA TalkingSend ==
  ASSUME Types, Talking, NEW c \in Command, Send(c)
  PROVE  Talking'
<1> DEFINE new == Request(c, issued + 1)
<1>1. /\ new \in Asked /\ new.cmd = c /\ new.seq = issued + 1
      /\ c.op = "save" => new.view = view
  BY RequestFacts
<1>2. wire' = wire \cup {new} /\ talk' = talk /\ last' = last /\ view' = view /\ issued' = issued + 1
  BY DEF Send, server
<1>3. \A r \in wire : r.seq \in Nat /\ r.seq <= issued /\ (IsSave(r) => r.view.page <= view.page)
  BY DEF Types, Asked, Talking
<1>4. issued \in Nat /\ view.page \in Nat
  BY PageFacts DEF Types, Copy
<1> HIDE DEF new
<1>5. IsSave(new) => new.view = view
  BY <1>1 DEF IsSave
<1>6. PICK i \in DOMAIN Page :
        /\ talk = Page[i] /\ i <= view.page
        /\ \A r \in wire : IsSave(r) /\ Fresh(r) => i <= r.view.page
  BY DEF Talking
<1>7. \A r \in wire' : r.seq <= issued' /\ (IsSave(r) => r.view.page <= view'.page)
  <2> TAKE r \in wire'
  <2>1. CASE r = new
    BY <1>1, <1>2, <1>4, <1>5, <2>1
  <2>2. CASE r \in wire
    BY <1>2, <1>3, <1>4, <2>2
  <2> QED
    BY <1>2, <2>1, <2>2
<1>8. \A r, q \in wire' : IsSave(r) /\ IsSave(q) /\ r.seq < q.seq => r.view.page <= q.view.page
  <2> TAKE r, q \in wire'
  <2>1. CASE q = new
    BY <1>2, <1>5, <1>7, <2>1
  <2>2. CASE q \in wire /\ r = new
    BY <1>1, <1>3, <1>4, <2>2
  <2>3. CASE q \in wire /\ r \in wire
    BY <2>3 DEF Talking
  <2> QED
    BY <1>2, <2>1, <2>2, <2>3
<1>9. \A r \in wire' : IsSave(r) /\ r.seq > last' => i <= r.view.page
  BY <1>2, <1>5, <1>6 DEF Fresh
<1> QED
  BY <1>2, <1>6, <1>7, <1>8, <1>9 DEF Talking, Fresh, IsSave

(* A save that takes effect is ahead of the stored page and behind every   *)
(* save that may still follow it.                                          *)
LEMMA TalkingSave ==
  ASSUME Types, Talking, NEW s \in wire, UserSave(s)
  PROVE  Talking' /\ Forward
<1>1. /\ IsSave(s) /\ Fresh(s) /\ last' = s.seq /\ wire' = wire \ {s}
      /\ talk' = Page[s.view.page] /\ view' = view /\ issued' = issued
  BY DEF UserSave, SavedTalk, Committed, client, IsSave
<1>2. s.view.page \in DOMAIN Page /\ s.view.page <= view.page
  BY <1>1 DEF Types, Asked, Copy, Talking
<1>3. PICK i \in DOMAIN Page :
        /\ talk = Page[i]
        /\ \A r \in wire : IsSave(r) /\ Fresh(r) => i <= r.view.page
  BY DEF Talking
<1>4. i <= s.view.page /\ i \in Nat /\ s.view.page \in Nat
  BY <1>1, <1>2, <1>3, PageFacts
<1>5. Forward
  BY <1>1, <1>2, <1>3, <1>4, PageFacts DEF Forward
<1>6. \A r \in wire' : IsSave(r) /\ r.seq > s.seq => s.view.page <= r.view.page
  BY <1>1 DEF Talking
<1>7. Talking'
  BY <1>1, <1>2, <1>6 DEF Talking, Fresh, IsSave
<1> QED
  BY <1>5, <1>7

(* A login knows the stored page; no save of the one before is left.       *)
LEMMA TalkingLogin ==
  ASSUME Types, Talking, Login
  PROVE  Talking' /\ Forward
<1>1. view'.page \in DOMAIN Page /\ talk = Page[view'.page] /\ view'.page \in Nat
  BY LoginTypes, PageFacts
<1>2. talk' = talk /\ wire' = {} /\ issued' = 0
  BY DEF Login
<1> QED
  BY <1>1, <1>2, StaysForward DEF Talking

(* What a request carries stays as it is when its handler reads a level.   *)
LEMMA TalkingRead ==
  ASSUME Types, Talking, NEW r \in wire, ReadAdLevel(r)
  PROVE  Talking' /\ Forward
<1> DEFINE read == [r EXCEPT !.tier = ad[r.cmd.item].level,
                             !.alone = \A q \in wire :
                               ForAd(q.cmd) /\ q.cmd.item = r.cmd.item => q.seq >= r.seq]
<1>1. wire' = (wire \ {r}) \cup {read} /\ UNCHANGED <<talk, last, view, issued>>
  BY ReadFrame DEF ReadAdLevel
<1>2. read.cmd = r.cmd /\ read.seq = r.seq /\ read.view = r.view
  BY DEF Types, Asked
<1>3. ~ IsSave(r) /\ r.seq <= issued
  BY DEF IsSave, ReadAdLevel, ForAd, Talking
<1> HIDE DEF read
<1>4. ~ IsSave(read) /\ read.seq <= issued
  BY <1>2, <1>3 DEF IsSave
<1>5. \A q \in wire' : q.seq <= issued' /\ (IsSave(q) => q \in wire)
  BY <1>1, <1>4 DEF Talking
<1>6. Talking'
  BY <1>1, <1>5 DEF Talking, Fresh, IsSave
<1> QED
  BY <1>1, <1>6, StaysForward

LEMMA TalkingStep ==
  ASSUME Types, Talking, [Next]_vars
  PROVE  Talking' /\ Forward
<1>0. /\ last \in Nat /\ view.page \in DOMAIN Page /\ view.page \in Nat
      /\ \A r \in wire : r.seq \in Nat
  BY PageFacts DEF Types, Asked, Copy
<1>1. CASE ClientStep
  <2>1. talk' = talk /\ last' = last
    BY <1>1, ClientFrame
  <2>2. CASE \E c \in Command : Send(c)
    BY <2>1, <2>2, TalkingSend, StaysForward
  <2>3. CASE ~ \E c \in Command : Send(c)
    <3>1. Types'
      BY <1>1, ClientTypes
    <3>2. view'.page \in DOMAIN Page
      BY <3>1 DEF Types, Copy
    <3>3. wire' \subseteq wire /\ issued' = issued
      BY <1>1, <2>3 DEF ClientStep, Play, Talk, Raise, Lose, Answer, RepeatedAnswer, client
    <3>4. view'.page >= view.page
      <4>1. view'.page = view.page \/ view'.page = view.page + 1
        <5>1. view = [likes |-> view.likes, level |-> view.level, page |-> view.page,
                      played |-> view.played]
          BY CopyFacts DEF Types
        <5>2. CASE Play \/ (\E c \in Raised : Raise(c)) \/ (\E r \in wire : Lose(r))
          BY <5>1, <5>2 DEF Play, Raise, Lose, client
        <5>3. CASE Talk
          BY <5>1, <5>3 DEF Talk
        <5>4. CASE \E a \in answers : Answer(a) \/ RepeatedAnswer(a)
          BY <5>4, TellFacts DEF Answer, RepeatedAnswer
        <5> QED
          BY <1>1, <2>3, <5>2, <5>3, <5>4 DEF ClientStep
      <4> QED
        BY <1>0, <4>1
    <3>5. last' \in Nat /\ last' >= last
      BY <1>0, <2>1
    <3> QED
      BY <2>1, <3>2, <3>3, <3>4, <3>5, TalkingShrinks, StaysForward
  <2> QED
    BY <2>2, <2>3
<1>2. CASE Login
  BY <1>2, TalkingLogin
<1>3. CASE UNCHANGED vars
  BY <1>0, <1>3, TalkingShrinks, StaysForward DEF vars, server, client
<1>4. ASSUME NEW r \in wire, UserSave(r)
      PROVE  Talking' /\ Forward
  BY <1>4, TalkingSave
<1>5. ASSUME NEW r \in wire, BuyContents(r) \/ BuyPackage(r)
      PROVE  Talking' /\ Forward
  <2>1. /\ Fresh(r) /\ last' = r.seq /\ wire' \subseteq wire
        /\ UNCHANGED <<view, issued>>
    BY <1>5, PlainFrame DEF Plain
  <2>2. talk' = talk
    BY <1>5 DEF BuyContents, BuyPackage
  <2>3. last' \in Nat /\ last' >= last /\ view'.page \in DOMAIN Page /\ view'.page >= view.page
    BY <1>0, <2>1 DEF Fresh
  <2> QED
    BY <2>1, <2>2, <2>3, TalkingShrinks, StaysForward
<1>6. ASSUME NEW r \in wire, ReadAdLevel(r)
      PROVE  Talking' /\ Forward
  BY <1>6, TalkingRead
<1>7. ASSUME NEW r \in wire, BuyShop(r)
      PROVE  Talking' /\ Forward
  <2>1. /\ Fresh(r) /\ last' = r.seq /\ wire' \subseteq wire
        /\ UNCHANGED <<talk, view, issued>>
    BY <1>7, ShopOutcomes
  <2>2. last' \in Nat /\ last' >= last /\ view'.page \in DOMAIN Page /\ view'.page >= view.page
    BY <1>0, <2>1 DEF Fresh
  <2> QED
    BY <2>1, <2>2, TalkingShrinks, StaysForward
<1> QED
  BY <1>1, <1>2, <1>3, <1>4, <1>5, <1>6, <1>7, Steps DEF Plain

-----------------------------------------------------------------------------
LEMMA InitInvariant ==
  ASSUME Init
  PROVE  IInv
<1>1. DOMAIN AdThreshold = 1 .. Len(AdThreshold) /\ 1 \in DOMAIN AdThreshold
  BY WalletAssumption
<1>2. Types
  <2>1. NewView \in Copy
    BY WalletAssumption DEF NewView, Copy
  <2>2. IsFiniteSet(granted)
    BY FS_EmptySet DEF Init
  <2> QED
    BY <1>1, <2>1, <2>2 DEF Init, Types
<1>3. OwnedHasLevel /\ Booked /\ Advertising
  BY DEF Init, OwnedHasLevel, Booked, Advertising
<1>4. Talking
  <2>1. 1 \in DOMAIN Page
    BY WalletAssumption
  <2> QED
    BY <2>1 DEF Init, NewView, Talking
<1>5. PurchasesGrantOnce
  <2>1. Reached(0) = {1}
    <3>1. AdThreshold \in Seq(Nat) /\ AdThreshold[1] = 0
      BY WalletAssumption
    <3>2. \A k \in DOMAIN AdThreshold : k > 1 => AdThreshold[k] > 0
      BY WalletAssumption
    <3>3. \A k \in DOMAIN AdThreshold : AdThreshold[k] <= 0 <=> k = 1
      <4> TAKE k \in DOMAIN AdThreshold
      <4>1. k \in Nat /\ k >= 1 /\ AdThreshold[k] \in Nat
        BY <1>1, <3>1
      <4>2. CASE k = 1
        BY <3>1, <4>2
      <4>3. CASE k > 1
        BY <3>2, <4>1, <4>3
      <4> QED
        BY <4>1, <4>2, <4>3
    <3> QED
      BY <1>1, <3>3 DEF Reached
  <2>2. Max(Reached(0)) = 1
    BY <2>1, HighestReached
  <2>3. \A i \in AdItem : ad[i].experience = 0 /\ ad[i].level = 1
    BY DEF Init
  <2>4. \A i \in AdItem : {g \in granted : g.item = i} = {}
    BY DEF Init
  <2> QED
    BY <2>2, <2>3, <2>4, FS_EmptySet
      DEF Init, PurchasesGrantOnce, OneGrantPerReceipt, OnlyTwinsAreEmpty,
          AdvertisementsCountOnce, Reached
<1> QED
  BY <1>2, <1>3, <1>4, <1>5 DEF IInv

LEMMA NextInvariant ==
  ASSUME IInv, [Next]_vars
  PROVE  IInv' /\ Forward
<1>1. Types'
  BY TypeStep DEF IInv
<1>2. OwnedHasLevel' /\ Booked' /\ Advertising'
  BY OwnedStep, BookedStep, AdvertisingStep DEF IInv
<1>3. PurchasesGrantOnce'
  BY <1>1, PurchasesStep DEF IInv
<1>4. Talking' /\ Forward
  BY TalkingStep DEF IInv
<1> QED
  BY <1>1, <1>2, <1>3, <1>4 DEF IInv

(* The invariant holds of every wallet, whatever it sells and however      *)
(* many logins and requests there are.                                     *)
THEOREM WalletInvariant == Spec => []IInv
<1>1. Init => IInv
  BY InitInvariant
<1>2. IInv /\ [Next]_vars => IInv'
  BY NextInvariant
<1> QED
  BY <1>1, <1>2, PTL DEF Spec

(* What is owned has a level, and only that, whichever of the saves and    *)
(* purchases came first (owned_content, content_levels).                   *)
THEOREM OwnedContentsHaveLevels == Spec => []OwnedHasLevel
<1>1. IInv => OwnedHasLevel
  BY DEF IInv
<1> QED
  BY <1>1, WalletInvariant, PTL

(* A receipt, a permanent product and an advertisement count once, however *)
(* often and in whatever login they are asked for (purchase_rewards).      *)
THEOREM PurchasesCountOnce == Spec => []PurchasesGrantOnce
<1>1. IInv => PurchasesGrantOnce
  BY DEF IInv
<1> QED
  BY <1>1, WalletInvariant, PTL

(* No save, however late, takes a conversation back (merge_user_save).     *)
THEOREM ConversationsGoForward == Spec => TalkGoesForward
<1>1. IInv /\ [Next]_vars
        => [\A i \in DOMAIN Page :
              talk = Page[i] => \E j \in DOMAIN Page : j >= i /\ talk' = Page[j]]_vars
  BY NextInvariant DEF Forward
<1> QED
  BY <1>1, WalletInvariant, PTL DEF Spec, TalkGoesForward

-----------------------------------------------------------------------------
(* What contents are worth.  Sums of expressions are those of tables.      *)
Paid(currency) == {c \in Content : CurrencyOf[c] = currency}
WorthAt(l) == [c \in Content |-> LevelWorth(c, l[c])]
FirstWorth == [c \in Content |-> LevelWorth(c, 1)]

LEMMA WorthIsTotal ==
  ASSUME NEW l, NEW S \in SUBSET Content
  PROVE  MapThenSumSet(LAMBDA c : LevelWorth(c, l[c]), S) = Total(WorthAt(l), S)
<1> DEFINE Sums(h) ==
             h = [s \in SUBSET S |->
                    IF s = {} THEN 0 ELSE LevelWorth(AnyOf(s), l[AnyOf(s)]) + h[Rest(s)]]
<1>1. \A h : Sums(h) <=> SumsTo(h, WorthAt(l), S)
  <2> TAKE h
  <2>1. \A s \in SUBSET S : s # {} => AnyOf(s) \in Content
    BY DEF AnyOf
  <2>2. \A s \in SUBSET S :
          (IF s = {} THEN 0 ELSE LevelWorth(AnyOf(s), l[AnyOf(s)]) + h[Rest(s)])
            = IF s = {} THEN 0 ELSE WorthAt(l)[AnyOf(s)] + h[Rest(s)]
    BY <2>1 DEF WorthAt
  <2> QED
    BY ONLY <2>2 DEF SumsTo
<1>2. (CHOOSE h : Sums(h)) = CHOOSE h : SumsTo(h, WorthAt(l), S)
  <2> HIDE DEF Sums
  <2> QED
    BY ONLY <1>1
<1>3. MapThenSumSet(LAMBDA c : LevelWorth(c, l[c]), S) = (CHOOSE h : Sums(h))[S]
  BY DEF MapThenSumSet, MapThenFoldSet, AnyOf, Rest
<1> QED
  BY <1>2, <1>3, TotalIsASum

LEMMA FirstWorthIsTotal ==
  ASSUME NEW S \in SUBSET Content
  PROVE  MapThenSumSet(LAMBDA c : LevelWorth(c, 1), S) = Total(FirstWorth, S)
<1> DEFINE Sums(h) ==
             h = [s \in SUBSET S |->
                    IF s = {} THEN 0 ELSE LevelWorth(AnyOf(s), 1) + h[Rest(s)]]
<1>1. \A h : Sums(h) <=> SumsTo(h, FirstWorth, S)
  <2> TAKE h
  <2>1. \A s \in SUBSET S : s # {} => AnyOf(s) \in Content
    BY DEF AnyOf
  <2>2. \A s \in SUBSET S :
          (IF s = {} THEN 0 ELSE LevelWorth(AnyOf(s), 1) + h[Rest(s)])
            = IF s = {} THEN 0 ELSE FirstWorth[AnyOf(s)] + h[Rest(s)]
    BY <2>1 DEF FirstWorth
  <2> QED
    BY ONLY <2>2 DEF SumsTo
<1>2. (CHOOSE h : Sums(h)) = CHOOSE h : SumsTo(h, FirstWorth, S)
  <2> HIDE DEF Sums
  <2> QED
    BY ONLY <1>1
<1>3. MapThenSumSet(LAMBDA c : LevelWorth(c, 1), S) = (CHOOSE h : Sums(h))[S]
  BY DEF MapThenSumSet, MapThenFoldSet, AnyOf, Rest
<1> QED
  BY <1>2, <1>3, TotalIsASum

(* Each level adds its price (LevelWorth).                                 *)
LEMMA LevelWorthSteps ==
  ASSUME NEW c \in Content, NEW n \in Nat, n <= MaxLevel(c)
  PROVE  /\ LevelWorth(c, n) \in Nat
         /\ n = 0 => LevelWorth(c, n) = 0
         /\ n + 1 <= MaxLevel(c) =>
              /\ Price[c][n + 1] \in Nat
              /\ LevelWorth(c, n + 1) = LevelWorth(c, n) + Price[c][n + 1]
<1>1. Price[c] \in Seq(Nat) /\ Len(Price[c]) \in Nat /\ DOMAIN Price[c] = 1 .. Len(Price[c])
  BY WalletAssumption
<1>2. \A k \in Nat : k <= MaxLevel(c) =>
        /\ LevelWorth(c, k) = Total(Price[c], 1 .. k)
        /\ IsFiniteSet(1 .. k) /\ \A i \in 1 .. k : Price[c][i] \in Nat
  <2> TAKE k \in Nat
  <2>1. 1 \in Int /\ k \in Int
    OBVIOUS
  <2>2. IsFiniteSet(1 .. k)
    BY <2>1, FS_Interval
  <2>3. LevelWorth(c, k) = Total(Price[c], 1 .. k)
    BY DEF LevelWorth, Total, MapThenSumSet, MapThenFoldSet
  <2> QED
    BY <1>1, <2>2, <2>3 DEF MaxLevel
<1>3. LevelWorth(c, n) \in Nat
  BY <1>2, TotalNat
<1>4. ASSUME n = 0 PROVE LevelWorth(c, n) = 0
  <2>1. 1 .. n = {}
    BY <1>4
  <2>2. \A i \in 1 .. n : Price[c][i] = 0
    BY <2>1
  <2> QED
    BY <1>2, <2>2, TotalZero
<1>5. ASSUME n + 1 <= MaxLevel(c)
      PROVE  /\ Price[c][n + 1] \in Nat
             /\ LevelWorth(c, n + 1) = LevelWorth(c, n) + Price[c][n + 1]
  <2> DEFINE S == 1 .. n + 1
  <2>1. n + 1 \in S /\ S \ {n + 1} = 1 .. n /\ n + 1 \in Nat
    OBVIOUS
  <2>2. IsFiniteSet(S) /\ \A i \in S : Price[c][i] \in Nat
    BY <1>2, <1>5
  <2>3. \A i \in S : Price[c][i] \in Int
    BY <2>2
  <2>4. LevelWorth(c, n + 1) = Total(Price[c], S)
    BY <1>2, <1>5
  <2>5. LevelWorth(c, n) = Total(Price[c], S \ {n + 1})
    BY <1>2, <2>1
  <2>6. Total(Price[c], S) = Price[c][n + 1] + Total(Price[c], S \ {n + 1})
    <3> HIDE DEF S
    <3> QED
      BY <2>1, <2>2, <2>3, TotalRemove
  <2>7. Price[c][n + 1] \in Nat
    BY <2>1, <2>2
  <2> QED
    BY <1>3, <2>4, <2>5, <2>6, <2>7
<1> QED
  BY <1>3, <1>4, <1>5

(* Tables of levels that prices are known for, on a part of the contents.  *)
Priced(l, S) == \A c \in S : l[c] \in Nat /\ l[c] <= MaxLevel(c)

LEMMA WorthTotals ==
  ASSUME NEW S \in SUBSET Content, NEW l, Priced(l, S)
  PROVE  /\ IsFiniteSet(S) /\ Total(WorthAt(l), S) \in Nat
         /\ \A c \in S : WorthAt(l)[c] = LevelWorth(c, l[c]) /\ WorthAt(l)[c] \in Nat
<1>1. IsFiniteSet(S)
  BY WalletAssumption, FS_Subset
<1>2. ASSUME NEW c \in S
      PROVE  WorthAt(l)[c] = LevelWorth(c, l[c]) /\ WorthAt(l)[c] \in Nat
  <2>1. l[c] \in Nat /\ l[c] <= MaxLevel(c) /\ c \in Content
    BY DEF Priced
  <2>2. LevelWorth(c, l[c]) \in Nat
    BY <2>1, LevelWorthSteps
  <2> QED
    BY <2>1, <2>2 DEF WorthAt
<1>3. Total(WorthAt(l), S) \in Nat
  BY <1>1, <1>2, TotalNat
<1> QED
  BY <1>1, <1>2, <1>3

(* The worth of a part depends on its levels alone.                        *)
LEMMA SameWorth ==
  ASSUME NEW S \in SUBSET Content, NEW l, NEW k, Priced(l, S), \A c \in S : k[c] = l[c]
  PROVE  Total(WorthAt(k), S) = Total(WorthAt(l), S)
<1>1. Priced(k, S)
  BY DEF Priced
<1>2. IsFiniteSet(S) /\ \A c \in S : WorthAt(l)[c] \in Int /\ WorthAt(k)[c] = WorthAt(l)[c]
  BY <1>1, WorthTotals
<1> QED
  BY <1>2, TotalSame

(* One content is raised by a level.                                       *)
LEMMA RaisedWorth ==
  ASSUME NEW S \in SUBSET Content, NEW l, NEW k, Priced(l, S), NEW c \in S,
         l[c] + 1 <= MaxLevel(c), k[c] = l[c] + 1, \A x \in S \ {c} : k[x] = l[x]
  PROVE  Total(WorthAt(k), S) = Total(WorthAt(l), S) + Price[c][l[c] + 1]
<1>1. c \in Content /\ l[c] \in Nat /\ l[c] <= MaxLevel(c)
  BY DEF Priced
<1>2. Priced(k, S) /\ Priced(l, S \ {c})
  BY <1>1 DEF Priced
<1>3. /\ IsFiniteSet(S) /\ \A x \in S : WorthAt(l)[x] \in Int /\ WorthAt(k)[x] \in Int
      /\ WorthAt(k)[c] = LevelWorth(c, k[c]) /\ WorthAt(l)[c] = LevelWorth(c, l[c])
  <2>1. \A x \in S : WorthAt(l)[x] = LevelWorth(x, l[x]) /\ WorthAt(l)[x] \in Nat
    BY WorthTotals
  <2>2. \A x \in S : WorthAt(k)[x] = LevelWorth(x, k[x]) /\ WorthAt(k)[x] \in Nat
    BY <1>2, WorthTotals
  <2>3. IsFiniteSet(S)
    BY WorthTotals
  <2> QED
    BY <2>1, <2>2, <2>3
<1>4. /\ Total(WorthAt(l), S) = WorthAt(l)[c] + Total(WorthAt(l), S \ {c})
      /\ Total(WorthAt(k), S) = WorthAt(k)[c] + Total(WorthAt(k), S \ {c})
  BY <1>3, TotalRemove
<1>5. Total(WorthAt(k), S \ {c}) = Total(WorthAt(l), S \ {c})
  BY <1>2, SameWorth
<1>6. Total(WorthAt(l), S \ {c}) \in Nat
  BY <1>2, WorthTotals
<1>7. /\ LevelWorth(c, l[c]) \in Nat /\ Price[c][l[c] + 1] \in Nat
      /\ LevelWorth(c, l[c] + 1) = LevelWorth(c, l[c]) + Price[c][l[c] + 1]
  BY <1>1, LevelWorthSteps
<1> QED
  BY <1>3, <1>4, <1>5, <1>6, <1>7

(* Contents are unlocked: their first level is what they are worth.        *)
LEMMA UnlockedWorth ==
  ASSUME NEW S \in SUBSET Content, NEW G \in SUBSET S, NEW l, NEW k, Priced(l, S),
         \A c \in G : l[c] = 0 /\ k[c] = 1, \A c \in S \ G : k[c] = l[c]
  PROVE  /\ Total(FirstWorth, G) \in Nat
         /\ Total(WorthAt(k), S) = Total(WorthAt(l), S) + Total(FirstWorth, G)
<1>1. \A c \in Content : 1 <= MaxLevel(c)
  <2> TAKE c \in Content
  <2>1. Price[c] \in Seq(Nat) /\ Price[c] # <<>>
    BY WalletAssumption
  <2> QED
    BY <2>1 DEF MaxLevel
<1>2. Priced(k, S) /\ Priced(k, G) /\ Priced(l, G)
  BY <1>1 DEF Priced
<1>3. /\ IsFiniteSet(S) /\ \A x \in S : WorthAt(l)[x] \in Int /\ WorthAt(k)[x] \in Int
      /\ \A x \in S : WorthAt(l)[x] = LevelWorth(x, l[x]) /\ WorthAt(k)[x] = LevelWorth(x, k[x])
  BY <1>2, WorthTotals
<1>4. \A x \in S \ G : WorthAt(k)[x] = WorthAt(l)[x]
  BY <1>3
<1>5. Total(WorthAt(k), S) - Total(WorthAt(k), G) = Total(WorthAt(l), S) - Total(WorthAt(l), G)
  BY <1>3, <1>4, TotalChange
<1>6. IsFiniteSet(G)
  BY <1>3, FS_Subset
<1>7. Total(WorthAt(l), G) = 0
  <2>1. ASSUME NEW x \in G PROVE WorthAt(l)[x] = 0
    <3>1. 0 <= MaxLevel(x) /\ x \in Content
      BY <1>1 DEF MaxLevel
    <3> QED
      BY <1>3, <3>1, LevelWorthSteps
  <2> QED
    BY <1>6, <2>1, TotalZero
<1>8. \A x \in G : WorthAt(k)[x] \in Int /\ FirstWorth[x] = WorthAt(k)[x]
  BY <1>3 DEF FirstWorth
<1>9. Total(FirstWorth, G) = Total(WorthAt(k), G)
  BY <1>6, <1>8, TotalSame
<1>10. Total(WorthAt(k), G) \in Nat /\ Total(WorthAt(k), S) \in Nat /\ Total(WorthAt(l), S) \in Nat
  BY <1>2, WorthTotals
<1> QED
  BY <1>5, <1>7, <1>9, <1>10

-----------------------------------------------------------------------------
(* The levels are within the prices, and what the client, its saves and    *)
(* the answers under way have of a content that the server sells is not    *)
(* above what the server has.                                              *)
Ceiling(c) == IF c \in Raised THEN MaxLevel(c) ELSE level[c]

Behind ==
  /\ \A c \in Content : level[c] <= MaxLevel(c)
  /\ \A c \in Saved : view.level[c] <= Ceiling(c) /\ \A r \in wire : r.view.level[c] <= Ceiling(c)
  /\ \A a \in answers : \A c \in a.contents : a.level <= level[c]

(* What a command does: it settles with an answer, and that is all, or a   *)
(* level is sold, or currencies and contents are given.                    *)
Settles(r, b) ==
  /\ r.cmd.op # "save" /\ Fresh(r)
  /\ b.seq = r.seq /\ answers' = answers \cup {b}
  /\ last' = r.seq /\ wire' = wire \ {r}
  /\ UNCHANGED <<view, told, login, issued, saved, blind, gp1>>

NoEffect(b) ==
  /\ b.likes = 0 /\ (\A c \in b.contents : c \notin Raised /\ b.level <= level[c])
  /\ UNCHANGED <<purse, level, gifts, effects>>

Sells(c, b) ==
  LET price == Price[c][level[c] + 1] IN
  /\ level[c] < MaxLevel(c)
  /\ level' = [level EXCEPT ![c] = level[c] + 1]
  /\ purse' = [purse EXCEPT ![CurrencyOf[c]] = purse[CurrencyOf[c]] - price]
  /\ b.contents = {c} /\ b.level = level[c] + 1
  /\ b.likes = (IF CurrencyOf[c] = "like" THEN - price ELSE 0)
  /\ effects' = effects \cup {b.seq} /\ UNCHANGED gifts

Holding(s) == s = Package \/ \E i \in Item : \E n \in DOMAIN Gift[i] : s = Gift[i][n].content

Gives(s, g, b) ==
  /\ Holding(s)
  /\ level' = [c \in Content |-> IF c \in NewContent(s) THEN 1 ELSE level[c]]
  /\ purse' = [c \in Currency |-> purse[c] + g[c]]
  /\ gifts' = [c \in Currency |-> gifts[c] + g[c] + NewWorth(s, c)]
  /\ NewContent(s) \subseteq b.contents /\ b.contents \subseteq s /\ b.level = 1
  /\ b.likes = g["like"]
  /\ effects' = effects \cup {b.seq}

Settled(r, b) ==
  /\ Settles(r, b)
  /\ \/ NoEffect(b)
     \/ \E c \in Sold : Sells(c, b)
     \/ \E s \in SUBSET Content : \E g \in [Currency -> Nat] : Gives(s, g, b)

Commands(r) == BuyContents(r) \/ BuyShop(r) \/ BuyPackage(r)

LEMMA PurchaseSettles ==
  ASSUME Types, NEW r \in wire, BuyContents(r)
  PROVE  \E b \in Outcome : Settled(r, b)
<1> DEFINE c == r.cmd.content
           n == level[c] + 1
           none == [seq |-> r.seq, op |-> "buy", likes |-> 0, contents |-> {c},
                    level |-> level[c]]
           one == [seq |-> r.seq, op |-> "buy", contents |-> {c}, level |-> n,
                   likes |-> IF CurrencyOf[c] = "like" THEN - Price[c][n] ELSE 0]
<1>1. r \in Asked
  BY DEF Types
<1>2. /\ c \in Sold /\ c \in Content /\ c \notin Raised /\ level[c] \in Nat
      /\ MaxLevel(c) \in Nat /\ r.seq \in Nat
  <2>1. r.cmd.op = "buy"
    BY DEF BuyContents
  <2>2. c \in Sold
    BY <1>1, <2>1, CommandFacts
  <2> HIDE DEF c
  <2>3. c \in Content /\ c \notin Raised
    BY <2>2, WalletAssumption
  <2>4. Price[c] \in Seq(Nat)
    BY <2>3, WalletAssumption
  <2> QED
    BY <1>1, <2>2, <2>3, <2>4 DEF Types, MaxLevel, Asked
<1>3. /\ r.cmd.op # "save" /\ Fresh(r)
      /\ last' = r.seq /\ wire' = wire \ {r}
      /\ UNCHANGED <<view, told, login, issued, saved, blind, gp1, gifts>>
  BY DEF BuyContents, Committed, client
<1>4. CASE ~ (level[c] < MaxLevel(c))
  <2>1. answers' = answers \cup {none} /\ UNCHANGED <<purse, level, effects>>
    BY <1>4 DEF BuyContents
  <2>2. none \in Outcome
    <3>1. {c} \in SUBSET Content
      BY <1>2
    <3> HIDE DEF c
    <3> QED
      BY <1>2, <3>1, IsOutcome
  <2>3. NoEffect(none)
    <3>1. none.likes = 0 /\ none.contents = {c} /\ none.level = level[c]
      OBVIOUS
    <3> HIDE DEF none, c
    <3> QED
      BY <1>2, <1>3, <2>1, <3>1 DEF NoEffect
  <2>4. Settles(r, none)
    BY <1>3, <2>1 DEF Settles
  <2> QED
    BY <2>2, <2>3, <2>4 DEF Settled
<1>5. CASE level[c] < MaxLevel(c)
  <2>1. /\ ~ (level[c] >= MaxLevel(c))
        /\ purse' = [purse EXCEPT ![CurrencyOf[c]] = @ - Price[c][n]]
        /\ level' = [level EXCEPT ![c] = n]
        /\ answers' = answers \cup {one} /\ effects' = effects \cup {r.seq}
    BY <1>2, <1>5 DEF BuyContents
  <2>2. Price[c][n] \in Nat
    BY <1>2, <1>5, PriceIsNatural
  <2>3. one \in Outcome
    <3>1. {c} \in SUBSET Content /\ n \in Nat
          /\ (IF CurrencyOf[c] = "like" THEN - Price[c][n] ELSE 0) \in Int
      BY <1>2, <2>2
    <3> HIDE DEF c, n
    <3> QED
      BY <1>2, <3>1 DEF Outcome
  <2>4. Sells(c, one)
    BY <1>3, <1>5, <2>1 DEF Sells
  <2>5. Settles(r, one)
    BY <1>3, <2>1 DEF Settles
  <2> HIDE DEF one, c
  <2> QED
    BY <1>2, <2>3, <2>4, <2>5 DEF Settled
<1> QED
  BY <1>4, <1>5

LEMMA ProductSettles ==
  ASSUME Types, Advertising, NEW r \in wire, BuyShop(r)
  PROVE  \E b \in Outcome : Settled(r, b)
<1> DEFINE gift == Chosen(r)
           s == gift.content
           g == [c \in Currency |-> gift[c]]
           none == [seq |-> r.seq, op |-> "shop", likes |-> 0, contents |-> {}, level |-> 0]
           one == [seq |-> r.seq, op |-> "shop", likes |-> gift.like,
                   contents |-> NewContent(s), level |-> 1]
<1>1. /\ r.cmd.op = "shop" /\ r.tier > 0 /\ Fresh(r) /\ last' = r.seq /\ wire' = wire \ {r}
      /\ UNCHANGED <<view, told, login, issued, saved, blind, gp1>>
  BY DEF BuyShop, Committed, client
<1>2. /\ r \in Asked /\ r.cmd.item \in Item /\ r.tier \in DOMAIN Gift[r.cmd.item]
      /\ gift.like \in Nat /\ gift.candy \in Nat /\ s \subseteq Content /\ r.seq \in Nat
  BY <1>1, ChosenFacts DEF Asked
<1>3. CASE TransactionId(r) \in bought
  <2>1. answers' = answers \cup {none} /\ UNCHANGED <<purse, level, gifts, effects>>
    BY <1>3 DEF BuyShop
  <2>2. none \in Outcome
    BY <1>2, IsOutcome
  <2>3. NoEffect(none) /\ Settles(r, none)
    BY <1>1, <2>1 DEF NoEffect, Settles
  <2> QED
    BY <2>2, <2>3 DEF Settled
<1>4. CASE TransactionId(r) \notin bought
  <2>1. /\ purse' = [c \in Currency |-> purse[c] + gift[c]]
        /\ level' = [c \in Content |-> IF c \in NewContent(s) THEN 1 ELSE level[c]]
        /\ answers' = answers \cup {one} /\ effects' = effects \cup {r.seq}
        /\ gifts' = [c \in Currency |-> gifts[c] + gift[c] + NewWorth(s, c)]
    BY <1>4 DEF BuyShop
  <2>2. one \in Outcome
    <3>1. NewContent(s) \in SUBSET Content /\ gift.like \in Int
      BY <1>2 DEF NewContent
    <3> HIDE DEF gift, s
    <3> QED
      BY <1>2, <3>1, IsOutcome
  <2>3. g \in [Currency -> Nat] /\ g["like"] = gift.like
    <3>1. gift["like"] \in Nat /\ gift["candy"] \in Nat
      BY <1>2
    <3> HIDE DEF gift
    <3> QED
      BY <3>1 DEF Currency
  <2>4. Holding(s)
    BY <1>2 DEF Holding, Chosen
  <2>5. Gives(s, g, one)
    <3>1. \A c \in Currency : g[c] = gift[c]
      OBVIOUS
    <3>2. /\ purse' = [c \in Currency |-> purse[c] + g[c]]
          /\ gifts' = [c \in Currency |-> gifts[c] + g[c] + NewWorth(s, c)]
      BY <2>1, <3>1
    <3>3. one.seq = r.seq /\ one.contents = NewContent(s) /\ one.likes = gift.like /\ one.level = 1
      OBVIOUS
    <3>4. NewContent(s) \subseteq s
      BY DEF NewContent
    <3> HIDE DEF gift, s, g, one
    <3> QED
      BY <2>1, <2>3, <2>4, <3>2, <3>3, <3>4 DEF Gives
  <2>6. Settles(r, one)
    BY <1>1, <2>1 DEF Settles
  <2> HIDE DEF gift, s, g, one
  <2> QED
    BY <1>2, <2>2, <2>3, <2>5, <2>6 DEF Settled
<1> QED
  BY <1>3, <1>4

LEMMA PackageSettles ==
  ASSUME Types, OwnedHasLevel, gifts \in [Currency -> Int], NEW r \in wire, BuyPackage(r)
  PROVE  \E b \in Outcome : Settled(r, b)
<1> DEFINE one == [seq |-> r.seq, op |-> "package", likes |-> 0, contents |-> Package,
                   level |-> 1]
           g == [c \in Currency |-> 0]
<1>1. /\ r.cmd.op # "save" /\ Fresh(r) /\ last' = r.seq /\ wire' = wire \ {r}
      /\ answers' = answers \cup {one} /\ effects' = effects \cup {r.seq}
      /\ gifts' = [c \in Currency |-> gifts[c] + NewWorth(Package, c)]
      /\ UNCHANGED <<purse, view, told, login, issued, saved, blind, gp1>>
  BY DEF BuyPackage, Committed, client
<1>2. r.seq \in Nat /\ Package \in SUBSET Content
  BY WalletAssumption DEF Types, Asked
<1>3. level' = [c \in Content |-> IF c \in NewContent(Package) THEN 1 ELSE level[c]]
  <2>1. level' = [c \in Content |-> IF c \in Package THEN PackageLevel(level[c]) ELSE level[c]]
    BY DEF BuyPackage
  <2>2. ASSUME NEW c \in Content
        PROVE  (IF c \in Package THEN PackageLevel(level[c]) ELSE level[c])
                 = IF c \in NewContent(Package) THEN 1 ELSE level[c]
    <3>1. level[c] \in Nat
      BY DEF Types
    <3>2. PackageLevel(level[c]) = IF level[c] >= 1 THEN level[c] ELSE 1
      BY <3>1, MaxOfTwo DEF PackageLevel
    <3>3. c \in owned <=> level[c] > 0
      BY DEF OwnedHasLevel
    <3> QED
      BY <3>1, <3>2, <3>3 DEF NewContent
  <2> QED
    BY <2>1, <2>2
<1>4. one \in Outcome
  BY <1>2 DEF Outcome
<1>5. g \in [Currency -> Nat] /\ g["like"] = 0
  BY DEF Currency
<1>6. /\ purse' = [c \in Currency |-> purse[c] + g[c]]
      /\ gifts' = [c \in Currency |-> gifts[c] + g[c] + NewWorth(Package, c)]
  <2>1. purse \in [Currency -> Int]
    BY DEF Types
  <2>2. purse' = [c \in Currency |-> purse[c] + g[c]]
    BY <1>1, <2>1
  <2>3. \A c \in Currency : gifts[c] + g[c] = gifts[c]
    OBVIOUS
  <2>4. \A c \in Currency : gifts[c] + g[c] + NewWorth(Package, c) = gifts[c] + NewWorth(Package, c)
    BY <2>3
  <2> QED
    BY <1>1, <2>2, <2>4
<1>7. Gives(Package, g, one)
  <2>1. one.seq = r.seq /\ one.contents = Package /\ one.likes = 0 /\ one.level = 1
    OBVIOUS
  <2>2. NewContent(Package) \subseteq Package
    BY DEF NewContent
  <2> HIDE DEF g, one
  <2> QED
    BY <1>1, <1>3, <1>5, <1>6, <2>1, <2>2 DEF Gives, Holding
<1>8. Settles(r, one)
  BY <1>1 DEF Settles
<1> HIDE DEF g, one
<1> QED
  BY <1>2, <1>4, <1>5, <1>7, <1>8 DEF Settled

LEMMA CommandSettles ==
  ASSUME Types, Advertising, OwnedHasLevel, gifts \in [Currency -> Int],
         NEW r \in wire, Commands(r)
  PROVE  \E b \in Outcome : Settled(r, b)
BY PurchaseSettles, ProductSettles, PackageSettles DEF Commands

(* What a sale or a gift does to the levels.                               *)
LEMMA SaleFacts ==
  ASSUME Types, Behind, NEW c \in Sold, NEW b \in Outcome, Sells(c, b)
  PROVE  /\ c \in Content /\ c \notin Raised /\ level[c] \in Nat /\ level[c] + 1 <= MaxLevel(c)
         /\ Price[c][level[c] + 1] \in Nat
         /\ level'[c] = level[c] + 1 /\ \A x \in Content \ {c} : level'[x] = level[x]
<1>1. c \in Content /\ c \notin Raised /\ level \in [Content -> Nat]
  BY WalletAssumption DEF Types
<1>2. Price[c] \in Seq(Nat)
  BY <1>1, WalletAssumption
<1>3. level[c] \in Nat /\ MaxLevel(c) \in Nat /\ level[c] < MaxLevel(c)
  BY <1>1, <1>2 DEF MaxLevel, Sells
<1>4. Price[c][level[c] + 1] \in Nat
  BY <1>1, <1>3, PriceIsNatural
<1>5. level' = [level EXCEPT ![c] = level[c] + 1]
  BY DEF Sells
<1> QED
  BY <1>1, <1>3, <1>4, <1>5

LEMMA GiftLevels ==
  ASSUME Types, OwnedHasLevel, NEW s \in SUBSET Content, NEW g, NEW b \in Outcome, Gives(s, g, b)
  PROVE  /\ \A c \in NewContent(s) : level[c] = 0 /\ level'[c] = 1
         /\ \A c \in Content \ NewContent(s) : level'[c] = level[c]
<1>1. level' = [c \in Content |-> IF c \in NewContent(s) THEN 1 ELSE level[c]]
  BY DEF Gives
<1>2. ASSUME NEW c \in NewContent(s) PROVE level[c] = 0
  BY <1>2 DEF NewContent, OwnedHasLevel, Types
<1>3. NewContent(s) \subseteq Content
  BY DEF NewContent
<1> QED
  BY <1>1, <1>2, <1>3

LEMMA FirstLevels ==
  \A c \in Content : MaxLevel(c) \in Nat /\ 1 <= MaxLevel(c)
<1> TAKE c \in Content
<1>1. Price[c] \in Seq(Nat) /\ Price[c] # <<>>
  BY WalletAssumption
<1> QED
  BY <1>1 DEF MaxLevel

(* A save raises what the client raises, and nothing else.                 *)
LEMMA SaveLevels ==
  ASSUME Types, Behind, NEW r \in wire, UserSave(r)
  PROVE  /\ \A c \in Content \ Raised : level'[c] = level[c]
         /\ \A c \in Raised :
              level'[c] = IF r.cmd.full /\ r.view.level[c] > level[c]
                          THEN r.view.level[c] ELSE level[c]
         /\ \A c \in Saved : r.view.level[c] \in Nat /\ r.view.level[c] <= Ceiling(c)
<1>1. r.view.level \in [Saved -> Nat]
  BY DEF Types, Asked, Copy
<1>2. \A c \in Saved : r.view.level[c] \in Nat /\ r.view.level[c] <= Ceiling(c)
  BY <1>1 DEF Behind
<1>3. Raised \subseteq Saved /\ Saved \subseteq Content
  BY WalletAssumption
<1>4. \A c \in Content :
        level'[c] = IF r.cmd.full /\ c \in Saved /\ r.view.level[c] > level[c]
                    THEN r.view.level[c] ELSE level[c]
  BY SaveFacts
<1>5. \A c \in Content : level[c] \in Nat
  BY DEF Types
<1> QED
  BY <1>2, <1>3, <1>4, <1>5 DEF Ceiling

(* Levels only grow, within the prices.                                    *)
Grown == \A c \in Content : level'[c] \in Nat /\ level[c] <= level'[c] /\ level'[c] <= MaxLevel(c)

LEMMA SettledGrows ==
  ASSUME Types, OwnedHasLevel, Behind, NEW r, NEW b \in Outcome, Settled(r, b)
  PROVE  Grown /\ \A c \in b.contents : b.level <= level'[c]
<1>1. \A c \in Content : level[c] \in Nat /\ level[c] <= MaxLevel(c) /\ MaxLevel(c) \in Nat
  BY FirstLevels DEF Types, Behind
<1>2. b.contents \subseteq Content
  BY DEF Outcome
<1>3. CASE NoEffect(b)
  BY <1>1, <1>2, <1>3 DEF NoEffect, Grown
<1>4. ASSUME NEW c \in Sold, Sells(c, b)
      PROVE  Grown /\ \A x \in b.contents : b.level <= level'[x]
  <2>1. /\ c \in Content /\ level[c] \in Nat /\ level[c] + 1 <= MaxLevel(c)
        /\ level'[c] = level[c] + 1 /\ \A x \in Content \ {c} : level'[x] = level[x]
    BY <1>4, SaleFacts
  <2>2. b.contents = {c} /\ b.level = level[c] + 1
    BY <1>4 DEF Sells
  <2> QED
    BY <1>1, <2>1, <2>2 DEF Grown
<1>5. ASSUME NEW s \in SUBSET Content, NEW g \in [Currency -> Nat], Gives(s, g, b)
      PROVE  Grown /\ \A x \in b.contents : b.level <= level'[x]
  <2>1. /\ \A c \in NewContent(s) : level[c] = 0 /\ level'[c] = 1
        /\ \A c \in Content \ NewContent(s) : level'[c] = level[c]
    BY <1>5, GiftLevels
  <2>2. b.level = 1 /\ b.contents \subseteq s
    BY <1>5 DEF Gives
  <2>3. \A c \in s \ NewContent(s) : level[c] > 0
    BY DEF NewContent, OwnedHasLevel
  <2>4. NewContent(s) \subseteq Content
    BY DEF NewContent
  <2>5. Grown
    BY <1>1, <2>1, <2>4, FirstLevels DEF Grown
  <2>6. ASSUME NEW x \in b.contents PROVE b.level <= level'[x]
    <3>1. CASE x \in NewContent(s)
      BY <2>1, <2>2, <3>1
    <3>2. CASE x \notin NewContent(s)
      <4>1. x \in s /\ x \in Content
        BY <1>2, <2>2
      <4>2. level[x] > 0 /\ level'[x] = level[x] /\ level[x] \in Nat
        BY <1>1, <2>1, <2>3, <3>2, <4>1
      <4> QED
        BY <2>2, <4>2
    <3> QED
      BY <3>1, <3>2
  <2> QED
    BY <2>5, <2>6
<1> QED
  BY <1>3, <1>4, <1>5 DEF Settled

LEMMA LevelsGrow ==
  ASSUME Types, Advertising, OwnedHasLevel, Behind, gifts \in [Currency -> Int], [Next]_vars
  PROVE  Grown
<1>1. \A c \in Content : level[c] \in Nat /\ level[c] <= MaxLevel(c) /\ MaxLevel(c) \in Nat
  BY FirstLevels DEF Types, Behind
<1>2. CASE UNCHANGED level
  BY <1>1, <1>2 DEF Grown
<1>3. ASSUME NEW r \in wire, UserSave(r)
      PROVE  Grown
  <2>1. /\ \A c \in Content \ Raised : level'[c] = level[c]
        /\ \A c \in Raised :
             level'[c] = IF r.cmd.full /\ r.view.level[c] > level[c]
                         THEN r.view.level[c] ELSE level[c]
        /\ \A c \in Saved : r.view.level[c] \in Nat /\ r.view.level[c] <= Ceiling(c)
    BY <1>3, SaveLevels
  <2>2. Raised \subseteq Saved
    BY WalletAssumption
  <2> QED
    BY <1>1, <2>1, <2>2 DEF Ceiling, Grown
<1>4. ASSUME NEW r \in wire, Commands(r)
      PROVE  Grown
  BY <1>4, CommandSettles, SettledGrows
<1>5. CASE ClientStep
  BY <1>2, <1>5, ClientFrame
<1>6. CASE Login
  BY <1>2, <1>6 DEF Login
<1>7. CASE UNCHANGED vars
  BY <1>2, <1>7 DEF vars, server
<1>8. ASSUME NEW r \in wire, ReadAdLevel(r)
      PROVE  Grown
  BY <1>2, <1>8, ReadFrame
<1> QED
  BY <1>3, <1>4, <1>5, <1>6, <1>7, <1>8, Steps DEF Plain, Commands

-----------------------------------------------------------------------------
(* What the client's own steps do to its copy.                             *)
LEMMA TellLevels ==
  ASSUME Types, NEW a \in answers, Tell(a)
  PROVE  /\ view'.likes = view.likes + a.likes /\ view'.played = view.played
         /\ told' = told \cup {a.seq}
         /\ \A c \in Saved :
              view'.level[c] = IF c \in a.contents /\ a.level > view.level[c]
                               THEN a.level ELSE view.level[c]
<1>1. a \in Outcome /\ view \in Copy
  BY DEF Types
<1> DEFINE new == [c \in Saved |-> IF c \in a.contents THEN Max({view.level[c], a.level})
                                                      ELSE view.level[c]]
<1>2. view' = [view EXCEPT !.likes = @ + a.likes, !.level = new] /\ told' = told \cup {a.seq}
  BY DEF Tell
<1>3. view'.likes = view.likes + a.likes /\ view'.played = view.played /\ view'.level = new
  <2> HIDE DEF new
  <2> QED
    BY <1>1, <1>2 DEF Copy
<1>4. ASSUME NEW c \in Saved
      PROVE  new[c] = IF c \in a.contents /\ a.level > view.level[c]
                      THEN a.level ELSE view.level[c]
  <2>1. view.level[c] \in Nat /\ a.level \in Nat
    BY <1>1 DEF Copy, Outcome
  <2>2. Max({view.level[c], a.level}) = IF view.level[c] >= a.level THEN view.level[c] ELSE a.level
    BY <2>1, MaxOfTwo
  <2> QED
    BY <2>1, <2>2
<1> QED
  BY <1>2, <1>3, <1>4

LEMMA RaiseFacts ==
  ASSUME Types, NEW c \in Raised, Raise(c)
  PROVE  /\ view.level[c] \in Nat /\ view.level[c] + 1 <= MaxLevel(c)
         /\ Price[c][view.level[c] + 1] \in Nat
         /\ view'.likes = view.likes - Price[c][view.level[c] + 1]
         /\ view'.played = view.played
         /\ view'.level[c] = view.level[c] + 1
         /\ \A x \in Saved \ {c} : view'.level[x] = view.level[x]
<1>1. c \in Saved /\ c \in Content
  BY WalletAssumption
<1>2. view \in Copy /\ view.level \in [Saved -> Nat]
  BY DEF Types, Copy
<1> DEFINE n == view.level[c] + 1
<1>3. view.level[c] \in Nat /\ n <= MaxLevel(c)
  BY <1>1, <1>2 DEF Raise
<1>4. Price[c][n] \in Nat
  BY <1>1, <1>3, PriceIsNatural
<1>5. view' = [view EXCEPT !.likes = @ - Price[c][n], !.level[c] = n]
  BY DEF Raise
<1>6. /\ view'.likes = view.likes - Price[c][n] /\ view'.played = view.played
      /\ view'.level = [view.level EXCEPT ![c] = n]
  <2> HIDE DEF n
  <2> QED
    BY <1>2, <1>5 DEF Copy
<1> QED
  BY <1>1, <1>2, <1>3, <1>4, <1>6

LEMMA LoginFacts ==
  ASSUME Types, Login
  PROVE  /\ view'.likes = purse["like"] /\ view'.played = saved
         /\ \A c \in Saved : view'.level[c] = level[c]
         /\ last' = 0 /\ told' = {} /\ wire' = {} /\ answers' = {} /\ effects' = {}
         /\ UNCHANGED <<purse, level, gifts, saved, blind, gp1>>
<1> DEFINE p == CHOOSE i \in DOMAIN Page : Page[i] = talk
<1>1. view' = [likes |-> purse["like"], level |-> [c \in Saved |-> level[c]], page |-> p,
               played |-> saved]
  BY DEF Login
<1>2. /\ last' = 0 /\ told' = {} /\ wire' = {} /\ answers' = {} /\ effects' = {}
      /\ UNCHANGED <<purse, level, gifts, saved, blind, gp1>>
  BY DEF Login
<1> HIDE DEF p
<1> QED
  BY <1>1, <1>2

(* The copy changes by play, by what is raised, by an answer and by a      *)
(* login.                                                                  *)
LEMMA ViewSteps ==
  ASSUME Types, [Next]_vars
  PROVE  \/ view' = view
         \/ view'.level = view.level
         \/ \E c \in Raised : Raise(c)
         \/ \E a \in answers : Tell(a)
         \/ Login
<1>1. CASE Play \/ Talk
  BY <1>1 DEF Play, Talk, Types, Copy
<1>2. CASE \E c \in Command : Send(c)
  BY <1>2 DEF Send
<1>3. CASE \E r \in wire : Lose(r)
  BY <1>3 DEF Lose, client
<1>4. CASE \E a \in answers : Answer(a) \/ RepeatedAnswer(a)
  BY <1>4 DEF Answer, RepeatedAnswer
<1>5. CASE \E r \in wire : Plain(r) \/ ReadAdLevel(r) \/ BuyShop(r)
  BY <1>5, PlainFrame, ReadFrame, ShopOutcomes
<1>6. CASE UNCHANGED vars
  BY <1>6 DEF vars, client
<1> QED
  BY <1>1, <1>2, <1>3, <1>4, <1>5, <1>6, Steps DEF ClientStep

(* A request carries the copy of now, or one of an earlier request.        *)
LEMMA WireSteps ==
  ASSUME Types, [Next]_vars, NEW r \in wire'
  PROVE  \/ r \in wire
         \/ r.cmd.op = "save" /\ r.view = view /\ r.told = told /\ r.seq = issued + 1
            /\ UNCHANGED <<server, view, told, answers, history>>
         \/ r.cmd.op # "save" /\ r.view = NewView /\ r.told = {}
         \/ r.cmd.op # "save" /\ \E q \in wire : r.view = q.view /\ r.told = q.told
<1>1. ASSUME NEW c \in Command, Send(c)
      PROVE  \/ r \in wire
             \/ r.cmd.op = "save" /\ r.view = view /\ r.told = told /\ r.seq = issued + 1
                /\ UNCHANGED <<server, view, told, answers, history>>
             \/ r.cmd.op # "save" /\ r.view = NewView /\ r.told = {}
  <2>1. wire' = wire \cup {Request(c, issued + 1)}
    BY <1>1 DEF Send
  <2>2. UNCHANGED <<server, view, told, answers, history>>
    BY <1>1 DEF Send
  <2>3. /\ Request(c, issued + 1).cmd = c /\ Request(c, issued + 1).seq = issued + 1
        /\ Request(c, issued + 1).view = IF c.op = "save" THEN view ELSE NewView
        /\ Request(c, issued + 1).told = IF c.op = "save" THEN told ELSE {}
    BY DEF Request
  <2> QED
    BY <2>1, <2>2, <2>3
<1>2. ASSUME NEW q \in wire, ReadAdLevel(q)
      PROVE  r \in wire \/ (r.cmd.op # "save" /\ r.view = q.view /\ r.told = q.told)
  <2> DEFINE first == \A x \in wire : ForAd(x.cmd) /\ x.cmd.item = q.cmd.item => x.seq >= q.seq
             read == [q EXCEPT !.tier = ad[q.cmd.item].level, !.alone = first]
  <2>1. wire' = (wire \ {q}) \cup {read} /\ q.cmd.op = "shop"
    BY <1>2 DEF ReadAdLevel, ForAd
  <2>2. q \in Asked
    BY DEF Types
  <2>3. read.cmd = q.cmd /\ read.view = q.view /\ read.told = q.told
    <3> HIDE DEF first
    <3> QED
      BY <2>2 DEF Asked
  <2> HIDE DEF read
  <2> QED
    BY <2>1, <2>3
<1>3. CASE wire' \subseteq wire
  BY <1>3
<1>4. CASE Play \/ Talk \/ (\E c \in Raised : Raise(c)) \/ (\E q \in wire : Lose(q))
  <2>1. wire' \subseteq wire
    BY <1>4 DEF Play, Talk, Raise, Lose
  <2> QED
    BY <1>3, <2>1
<1>5. CASE \E a \in answers : Answer(a) \/ RepeatedAnswer(a)
  <2>1. wire' \subseteq wire
    BY <1>5 DEF Answer, RepeatedAnswer
  <2> QED
    BY <1>3, <2>1
<1>6. CASE Login \/ UNCHANGED vars
  <2>1. wire' \subseteq wire
    BY <1>6 DEF Login, vars
  <2> QED
    BY <1>3, <2>1
<1>7. CASE \E q \in wire : Plain(q) \/ BuyShop(q)
  <2>1. wire' \subseteq wire
    BY <1>7, PlainFrame, ShopOutcomes
  <2> QED
    BY <1>3, <2>1
<1> QED
  BY <1>1, <1>2, <1>4, <1>5, <1>6, <1>7, Steps DEF ClientStep

(* An answer is new only with its command.                                 *)
LEMMA AnswerSteps ==
  ASSUME Types, Advertising, OwnedHasLevel, gifts \in [Currency -> Int], [Next]_vars
  PROVE  \/ answers' \subseteq answers
         \/ \E r \in wire : \E b \in Outcome : Settled(r, b) /\ answers' = answers \cup {b}
<1>1. CASE ClientStep
  <2>1. answers' \subseteq answers
    BY <1>1 DEF ClientStep, Play, Talk, Raise, Send, Lose, Answer, RepeatedAnswer
  <2> QED
    BY <2>1
<1>2. CASE Login \/ UNCHANGED vars
  BY <1>2 DEF Login, vars
<1>3. ASSUME NEW r \in wire, Commands(r)
      PROVE  \E b \in Outcome : Settled(r, b) /\ answers' = answers \cup {b}
  BY <1>3, CommandSettles DEF Settled, Settles
<1>4. ASSUME NEW r \in wire, UserSave(r) \/ ReadAdLevel(r)
      PROVE  answers' \subseteq answers
  BY <1>4 DEF UserSave, ReadAdLevel
<1> QED
  BY <1>1, <1>2, <1>3, <1>4, Steps DEF Plain, Commands

LEMMA BehindStep ==
  ASSUME Types, Advertising, OwnedHasLevel, Behind, gifts \in [Currency -> Int], [Next]_vars
  PROVE  Behind'
<1>1. Grown /\ Raised \subseteq Saved /\ Saved \subseteq Content
  BY LevelsGrow, WalletAssumption
<1>2. \A c \in Content : /\ level[c] \in Nat /\ MaxLevel(c) \in Nat /\ level[c] <= MaxLevel(c)
                         /\ level'[c] \in Nat
  BY <1>1, FirstLevels DEF Types, Behind, Grown
<1>3. \A c \in Saved : /\ Ceiling(c) \in Nat /\ Ceiling(c)' \in Nat /\ Ceiling(c) <= Ceiling(c)'
                       /\ level[c] <= Ceiling(c)
  BY <1>1, <1>2 DEF Ceiling, Grown
<1>4. view \in Copy /\ \A c \in Saved : view.level[c] \in Nat /\ view.level[c] <= Ceiling(c)
  BY DEF Types, Behind, Copy
<1>5. ASSUME NEW c \in Saved PROVE view'.level[c] <= Ceiling(c)'
  <2>1. CASE view'.level = view.level \/ view' = view
    BY <1>3, <1>4, <2>1
  <2>2. ASSUME NEW x \in Raised, Raise(x)
        PROVE  view'.level[c] <= Ceiling(c)'
    <3>1. /\ view.level[x] \in Nat /\ view.level[x] + 1 <= MaxLevel(x)
          /\ view'.level[x] = view.level[x] + 1
          /\ \A y \in Saved \ {x} : view'.level[y] = view.level[y]
      BY <2>2, RaiseFacts
    <3> QED
      BY <1>3, <1>4, <3>1 DEF Ceiling
  <2>3. ASSUME NEW a \in answers, Tell(a)
        PROVE  view'.level[c] <= Ceiling(c)'
    <3>1. view'.level[c] = IF c \in a.contents /\ a.level > view.level[c]
                           THEN a.level ELSE view.level[c]
      BY <2>3, TellLevels
    <3>2. a.level \in Nat /\ (c \in a.contents => a.level <= level[c])
      BY DEF Behind, Types, Outcome
    <3> QED
      BY <1>1, <1>2, <1>3, <1>4, <3>1, <3>2
  <2>4. CASE Login
    BY <1>1, <1>2, <1>3, <2>4, LoginFacts
  <2> QED
    BY <2>1, <2>2, <2>3, <2>4, ViewSteps
<1>6. ASSUME NEW c \in Saved, NEW r \in wire' PROVE r.view.level[c] <= Ceiling(c)'
  <2>1. ASSUME NEW q \in wire PROVE q.view.level[c] <= Ceiling(c)'
    <3>1. q.view.level[c] \in Nat /\ q.view.level[c] <= Ceiling(c)
      BY DEF Types, Asked, Copy, Behind
    <3> QED
      BY <1>3, <3>1
  <2>2. NewView.level[c] = 0
    BY DEF NewView
  <2> QED
    BY <1>3, <1>4, <2>1, <2>2, WireSteps
<1>7. ASSUME NEW a \in answers', NEW c \in a.contents PROVE a.level <= level'[c]
  <2>1. CASE a \in answers
    <3>1. a.level \in Nat /\ a.level <= level[c] /\ c \in Content
      BY <2>1 DEF Types, Outcome, Behind
    <3> QED
      BY <1>1, <1>2, <3>1 DEF Grown
  <2>2. CASE a \notin answers
    <3>1. PICK r \in wire, b \in Outcome : Settled(r, b) /\ answers' = answers \cup {b}
      BY <2>2, AnswerSteps
    <3>2. a = b
      BY <2>2, <3>1
    <3> QED
      BY <3>1, <3>2, SettledGrows
  <2> QED
    BY <2>1, <2>2
<1>8. \A c \in Content : level'[c] <= MaxLevel(c)
  BY <1>1 DEF Grown
<1> QED
  BY <1>5, <1>6, <1>7, <1>8 DEF Behind

-----------------------------------------------------------------------------
(* A command keeps what is held, what was bought and what was given in     *)
(* balance, in each currency.                                              *)
LEMMA LevelsArePriced ==
  ASSUME Types, Behind, NEW S \in SUBSET Content
  PROVE  Priced(level, S) /\ Total(WorthAt(level), S) \in Nat
<1>1. Priced(level, S)
  BY DEF Types, Behind, Priced
<1> QED
  BY <1>1, WorthTotals

LEMMA WorthIs ==
  ASSUME NEW cur
  PROVE  /\ Paid(cur) \in SUBSET Content
         /\ Worth(cur) = Total(WorthAt(level), Paid(cur))
         /\ Worth(cur)' = Total(WorthAt(level'), Paid(cur))
<1>1. Paid(cur) \in SUBSET Content
  BY DEF Paid
<1>2. ASSUME NEW l
      PROVE  WorthOf(l, cur) = Total(WorthAt(l), Paid(cur))
  <2>1. MapThenSumSet(LAMBDA c : LevelWorth(c, l[c]), Paid(cur)) = Total(WorthAt(l), Paid(cur))
    BY <1>1, WorthIsTotal
  <2>2. WorthOf(l, cur) = MapThenSumSet(LAMBDA c : LevelWorth(c, l[c]), Paid(cur))
    BY DEF WorthOf, Paid
  <2> QED
    BY <2>1, <2>2
<1>3. Worth(cur) = WorthOf(level, cur) /\ Worth(cur)' = WorthOf(level', cur)
  BY DEF Worth
<1> QED
  BY <1>1, <1>2, <1>3

LEMMA SaleWorth ==
  ASSUME Types, Behind, NEW c \in Sold, NEW b \in Outcome, Sells(c, b), NEW S \in SUBSET Content
  PROVE  Total(WorthAt(level'), S) =
           Total(WorthAt(level), S) + IF c \in S THEN Price[c][level[c] + 1] ELSE 0
<1>1. /\ level[c] + 1 <= MaxLevel(c) /\ level'[c] = level[c] + 1
      /\ \A x \in Content \ {c} : level'[x] = level[x]
  BY SaleFacts
<1>2. Priced(level, S) /\ Total(WorthAt(level), S) \in Nat
  BY LevelsArePriced
<1>3. CASE c \in S
  <2>1. \A x \in S \ {c} : level'[x] = level[x]
    BY <1>1
  <2> QED
    BY <1>1, <1>2, <1>3, <2>1, RaisedWorth
<1>4. CASE c \notin S
  <2>1. \A x \in S : level'[x] = level[x]
    BY <1>1, <1>4
  <2>2. Total(WorthAt(level'), S) = Total(WorthAt(level), S)
    BY <1>2, <2>1, SameWorth
  <2> QED
    BY <1>2, <1>4, <2>2
<1> QED
  BY <1>3, <1>4

LEMMA GiftWorth ==
  ASSUME Types, OwnedHasLevel, Behind, NEW s \in SUBSET Content, NEW g, NEW b \in Outcome,
         Gives(s, g, b), NEW cur, NEW S \in SUBSET Content,
         {c \in NewContent(s) : CurrencyOf[c] = cur} \subseteq S, \A c \in S : CurrencyOf[c] = cur
  PROVE  /\ NewWorth(s, cur) \in Nat
         /\ Total(WorthAt(level'), S) = Total(WorthAt(level), S) + NewWorth(s, cur)
<1> DEFINE G == {c \in NewContent(s) : CurrencyOf[c] = cur}
<1>1. /\ \A c \in NewContent(s) : level[c] = 0 /\ level'[c] = 1
      /\ \A c \in Content \ NewContent(s) : level'[c] = level[c]
  BY GiftLevels
<1>2. G \in SUBSET S /\ G \in SUBSET Content
  BY DEF NewContent
<1>3. NewWorth(s, cur) = Total(FirstWorth, G)
  <2>1. NewWorth(s, cur) = MapThenSumSet(LAMBDA c : LevelWorth(c, 1), G)
    BY DEF NewWorth
  <2> HIDE DEF G
  <2> QED
    BY <1>2, <2>1, FirstWorthIsTotal
<1>4. \A c \in G : level[c] = 0 /\ level'[c] = 1
  BY <1>1
<1>5. \A c \in S \ G : level'[c] = level[c]
  BY <1>1
<1>6. Priced(level, S)
  BY LevelsArePriced
<1> HIDE DEF G
<1> QED
  BY <1>2, <1>3, <1>4, <1>5, <1>6, UnlockedWorth

Balanced(cur) ==
  purse'[cur] + Worth(cur)' + gifts[cur] = purse[cur] + Worth(cur) + gifts'[cur]

LEMMA SettledBalance ==
  ASSUME Types, OwnedHasLevel, Behind, gifts \in [Currency -> Int],
         NEW r, NEW b \in Outcome, Settled(r, b), NEW cur \in Currency
  PROVE  Balanced(cur)
<1>1. /\ Paid(cur) \in SUBSET Content
      /\ Worth(cur) = Total(WorthAt(level), Paid(cur))
      /\ Worth(cur)' = Total(WorthAt(level'), Paid(cur))
  BY WorthIs
<1>2. purse \in [Currency -> Int] /\ purse[cur] \in Int /\ gifts[cur] \in Int
  BY DEF Types
<1>3. Total(WorthAt(level), Paid(cur)) \in Nat
  BY <1>1, LevelsArePriced
<1>4. CASE NoEffect(b)
  <2>1. UNCHANGED <<purse, level, gifts>>
    BY <1>4 DEF NoEffect
  <2> QED
    BY <1>1, <2>1 DEF Balanced
<1>5. ASSUME NEW c \in Sold, Sells(c, b)
      PROVE  Balanced(cur)
  <2> DEFINE price == Price[c][level[c] + 1]
  <2>1. c \in Content /\ price \in Nat
    BY <1>5, SaleFacts
  <2>2. Total(WorthAt(level'), Paid(cur)) =
          Total(WorthAt(level), Paid(cur)) + IF c \in Paid(cur) THEN price ELSE 0
    BY <1>1, <1>5, SaleWorth
  <2>3. /\ purse' = [purse EXCEPT ![CurrencyOf[c]] = purse[CurrencyOf[c]] - price]
        /\ gifts' = gifts
    BY <1>5 DEF Sells
  <2>4. c \in Paid(cur) <=> CurrencyOf[c] = cur
    BY <2>1 DEF Paid
  <2> HIDE DEF price
  <2>5. purse'[cur] = purse[cur] - IF c \in Paid(cur) THEN price ELSE 0
    BY <1>2, <2>1, <2>3, <2>4
  <2> QED
    BY <1>1, <1>2, <1>3, <2>1, <2>2, <2>3, <2>5 DEF Balanced
<1>6. ASSUME NEW s \in SUBSET Content, NEW g \in [Currency -> Nat], Gives(s, g, b)
      PROVE  Balanced(cur)
  <2>1. {c \in NewContent(s) : CurrencyOf[c] = cur} \subseteq Paid(cur)
        /\ \A c \in Paid(cur) : CurrencyOf[c] = cur
    BY DEF NewContent, Paid
  <2>2. /\ NewWorth(s, cur) \in Nat
        /\ Total(WorthAt(level'), Paid(cur)) = Total(WorthAt(level), Paid(cur)) + NewWorth(s, cur)
    BY <1>1, <1>6, <2>1, GiftWorth
  <2>3. purse'[cur] = purse[cur] + g[cur] /\ gifts'[cur] = gifts[cur] + g[cur] + NewWorth(s, cur)
    BY <1>6 DEF Gives
  <2> QED
    BY <1>1, <1>2, <1>3, <2>2, <2>3 DEF Balanced
<1> QED
  BY <1>4, <1>5, <1>6 DEF Settled

-----------------------------------------------------------------------------
(* Candy.                                                                  *)
Valued == gifts \in [Currency -> Int] /\ Behind /\ CandyIsKept

LEMMA GiftsStep ==
  ASSUME Types, Advertising, OwnedHasLevel, Valued, [Next]_vars
  PROVE  gifts' \in [Currency -> Int]
<1>1. gifts \in [Currency -> Int]
  BY DEF Valued
<1>2. CASE UNCHANGED gifts
  BY <1>1, <1>2
<1>3. ASSUME NEW r \in wire, NEW b \in Outcome, Settled(r, b)
      PROVE  gifts' \in [Currency -> Int]
  <2>1. CASE NoEffect(b) \/ \E c \in Sold : Sells(c, b)
    BY <1>1, <2>1 DEF NoEffect, Sells
  <2>2. ASSUME NEW s \in SUBSET Content, NEW g \in [Currency -> Nat], Gives(s, g, b)
        PROVE  gifts' \in [Currency -> Int]
    <3>1. gifts' = [c \in Currency |-> gifts[c] + g[c] + NewWorth(s, c)]
      BY <2>2 DEF Gives
    <3>2. ASSUME NEW c \in Currency PROVE gifts[c] + g[c] + NewWorth(s, c) \in Int
      <4>1. Paid(c) \in SUBSET Content
            /\ {x \in NewContent(s) : CurrencyOf[x] = c} \subseteq Paid(c)
            /\ \A x \in Paid(c) : CurrencyOf[x] = c
        BY DEF NewContent, Paid
      <4>2. NewWorth(s, c) \in Nat
        BY <2>2, <4>1, GiftWorth DEF Valued
      <4>3. gifts[c] \in Int /\ g[c] \in Nat
        BY <1>1
      <4> QED
        BY <4>2, <4>3
    <3> QED
      BY <3>1, <3>2
  <2> QED
    BY <1>3, <2>1, <2>2 DEF Settled
<1>4. ASSUME NEW r \in wire, Commands(r)
      PROVE  gifts' \in [Currency -> Int]
  BY <1>1, <1>3, <1>4, CommandSettles
<1>5. CASE ClientStep
  <2>1. gifts' = gifts
    BY <1>5 DEF ClientStep, Play, Talk, Raise, Send, Lose, Answer, RepeatedAnswer, history
  <2> QED
    BY <1>2, <2>1
<1>6. CASE Login \/ UNCHANGED vars
  BY <1>2, <1>6 DEF Login, vars, history
<1>7. ASSUME NEW r \in wire, UserSave(r) \/ ReadAdLevel(r)
      PROVE  gifts' \in [Currency -> Int]
  BY <1>2, <1>7 DEF UserSave, ReadAdLevel, history
<1> QED
  BY <1>4, <1>5, <1>6, <1>7, Steps DEF Plain, Commands

(* What the client does, a login and the reading of a level leave the rows *)
(* alone that hold balances.                                               *)
Still == UNCHANGED <<purse, level, gifts, saved, blind>>

LEMMA StillSteps ==
  ASSUME [Next]_vars
  PROVE  Still \/ \E r \in wire : UserSave(r) \/ Commands(r)
<1>1. CASE ClientStep
  BY <1>1 DEF ClientStep, Play, Talk, Raise, Send, Lose, Answer, RepeatedAnswer, server, history, Still
<1>2. CASE Login \/ UNCHANGED vars
  BY <1>2 DEF Login, vars, server, history, Still
<1>3. CASE \E r \in wire : ReadAdLevel(r)
  BY <1>3 DEF ReadAdLevel, server, history, Still
<1> QED
  BY <1>1, <1>2, <1>3, Steps DEF Plain, Commands

LEMMA CandyStep ==
  ASSUME Types, Advertising, OwnedHasLevel, Valued, [Next]_vars
  PROVE  CandyIsKept'
<1>1. "candy" \in Currency /\ gifts \in [Currency -> Int] /\ Behind /\ purse \in [Currency -> Int]
  BY DEF Currency, Valued, Types
<1>2. purse["candy"] + Worth("candy") = gifts["candy"]
  BY DEF Valued, CandyIsKept
<1>3. /\ Paid("candy") \in SUBSET Content
      /\ Worth("candy") = Total(WorthAt(level), Paid("candy"))
      /\ Worth("candy")' = Total(WorthAt(level'), Paid("candy"))
  BY WorthIs
<1>4. Worth("candy") \in Nat
  BY <1>1, <1>3, LevelsArePriced
<1>5. CASE Still
  BY <1>2, <1>3, <1>5 DEF Still, CandyIsKept
<1>6. ASSUME NEW r \in wire, UserSave(r)
      PROVE  CandyIsKept'
  <2>1. \A c \in Paid("candy") : level'[c] = level[c]
    <3>1. \A c \in Content \ Raised : level'[c] = level[c]
      BY <1>1, <1>6, SaveLevels
    <3>2. \A c \in Paid("candy") : c \in Content \ Raised
      BY WalletAssumption DEF Paid
    <3> QED
      BY <3>1, <3>2
  <2>2. Worth("candy")' = Worth("candy")
    BY <1>1, <1>3, <2>1, LevelsArePriced, SameWorth
  <2>3. purse'["candy"] = purse["candy"] /\ gifts' = gifts
    BY <1>1, <1>6 DEF UserSave
  <2> QED
    BY <1>2, <2>2, <2>3 DEF CandyIsKept
<1>7. ASSUME NEW r \in wire, Commands(r)
      PROVE  CandyIsKept'
  <2>1. PICK b \in Outcome : Settled(r, b)
    BY <1>1, <1>7, CommandSettles
  <2>2. Balanced("candy")
    BY <1>1, <2>1, SettledBalance
  <2>3. purse'["candy"] \in Int /\ gifts'["candy"] \in Int /\ Worth("candy")' \in Nat
    <3>1. Types' /\ Behind' /\ gifts' \in [Currency -> Int]
      BY <1>1, <1>7, GiftsStep, BehindStep, BuyTypes, ShopTypes, PackageTypes DEF Commands
    <3>2. purse'["candy"] \in Int /\ gifts'["candy"] \in Int
      BY <1>1, <3>1 DEF Types
    <3>3. Priced(level', Paid("candy"))
      BY <1>3, <3>1 DEF Types, Behind, Priced
    <3> QED
      BY <1>3, <3>2, <3>3, WorthTotals
  <2> DEFINE w == Total(WorthAt(level), Paid("candy"))
             v == Total(WorthAt(level'), Paid("candy"))
  <2>4. purse'["candy"] + v + gifts["candy"] = purse["candy"] + w + gifts'["candy"]
    BY <1>3, <2>2 DEF Balanced
  <2>5. /\ purse["candy"] \in Int /\ gifts["candy"] \in Int /\ w \in Int /\ v \in Int
        /\ purse["candy"] + w = gifts["candy"]
    BY <1>1, <1>2, <1>3, <1>4, <2>3
  <2>6. Worth("candy")' = v
    BY <1>3
  <2> HIDE DEF v, w
  <2>7. \A p, q, x, y, g, h \in Int : q + y + g = p + x + h /\ p + x = g => q + y = h
    OBVIOUS
  <2>8. purse'["candy"] + v = gifts'["candy"]
    BY ONLY <2>3, <2>4, <2>5, <2>7
  <2> QED
    BY <2>6, <2>8 DEF CandyIsKept
<1> QED
  BY <1>5, <1>6, <1>7, StillSteps

LEMMA NothingAtFirst ==
  ASSUME Init, NEW S \in SUBSET Content
  PROVE  Total(WorthAt(level), S) = 0
<1>1. \A c \in S : WorthAt(level)[c] = 0
  <2> TAKE c \in S
  <2>1. c \in Content /\ level[c] = 0 /\ 0 <= MaxLevel(c)
    BY FirstLevels DEF Init
  <2> QED
    BY <2>1, LevelWorthSteps DEF WorthAt
<1>2. IsFiniteSet(S)
  BY WalletAssumption, FS_Subset
<1> QED
  BY <1>1, <1>2, TotalZero

LEMMA ValuedInitially ==
  ASSUME Init
  PROVE  Valued
<1>1. /\ purse = [c \in Currency |-> 0] /\ level = [c \in Content |-> 0]
      /\ gifts = [c \in Currency |-> 0] /\ wire = {} /\ answers = {} /\ view = NewView
  BY DEF Init
<1>2. \A c \in Content : level[c] <= MaxLevel(c) /\ MaxLevel(c) \in Nat
  BY <1>1, FirstLevels
<1>3. Behind
  <2>1. Saved \subseteq Content /\ \A c \in Saved : view.level[c] = 0 /\ level[c] = 0
    BY <1>1, WalletAssumption DEF NewView
  <2> QED
    BY <1>1, <1>2, <2>1 DEF Behind, Ceiling
<1>4. CandyIsKept
  <2>1. Worth("candy") = 0
    BY WorthIs, NothingAtFirst
  <2> QED
    BY <1>1, <2>1 DEF CandyIsKept, Currency
<1>5. gifts \in [Currency -> Int]
  BY <1>1
<1> QED
  BY <1>3, <1>4, <1>5 DEF Valued

THEOREM ValueInvariant == Spec => []Valued
<1>1. IInv /\ Valued /\ [Next]_vars => Valued'
  <2> SUFFICES ASSUME IInv, Valued, [Next]_vars PROVE Valued'
    OBVIOUS
  <2>1. Types /\ Advertising /\ OwnedHasLevel /\ Behind /\ gifts \in [Currency -> Int]
    BY DEF IInv, Valued
  <2>2. gifts' \in [Currency -> Int] /\ Behind' /\ CandyIsKept'
    BY <2>1, GiftsStep, BehindStep, CandyStep
  <2> QED
    BY <2>2 DEF Valued
<1> QED
  BY <1>1, ValuedInitially, WalletInvariant, PTL DEF Spec

(* Candy is sold for and granted, and no save gives a piece back or takes  *)
(* one, for every catalog and every order of saves and commands.           *)
THEOREM CandyStays == Spec => []CandyIsKept
<1>1. Valued => CandyIsKept
  BY DEF Valued
<1> QED
  BY <1>1, ValueInvariant, PTL

-----------------------------------------------------------------------------
(* Likes.  No product holds what the client raises by itself               *)
(* (RaisedAreNotGiven): it would be worth its price twice when the client  *)
(* had raised it and not yet saved.                                        *)

(* Answers are of commands that were done, one of each; those that may be  *)
(* applied have not been.                                                  *)
Outcomes ==
  /\ IsFiniteSet(answers) /\ effects \subseteq Nat
  /\ \A s \in effects \cup told : s <= last
  /\ \A r \in wire : \A s \in r.told : s <= last
  /\ \A a \in answers :
       /\ a.seq <= last /\ a.contents \cap Raised = {}
       /\ a.op # "shop" => a.seq \notin told
       /\ a.seq \notin effects => a.likes = 0
  /\ \A a, b \in answers : a.seq = b.seq => a = b

(* What the client raises only goes up, in its copy first, then in its     *)
(* saves in their order, then in the rows.                                 *)
Raising ==
  \A c \in Raised :
    /\ level[c] <= view.level[c]
    /\ \A r \in wire : IsSave(r) => /\ r.view.level[c] <= view.level[c]
                                    /\ Fresh(r) => level[c] <= r.view.level[c]
    /\ \A r, q \in wire :
         IsSave(r) /\ IsSave(q) /\ r.seq < q.seq => r.view.level[c] <= q.view.level[c]

(* A save or a command takes effect after all that did before.             *)
LEMMA SettledFacts ==
  ASSUME Types, Outcomes, NEW r \in wire, NEW b \in Outcome, Settled(r, b)
  PROVE  /\ b.seq = r.seq /\ r.seq \in Nat /\ last \in Nat /\ last < r.seq /\ last' = r.seq
         /\ b.seq \notin effects /\ b.seq \notin told
         /\ \A q \in wire : b.seq \notin q.told
         /\ \A a \in answers : a.seq \in Nat /\ a.seq < b.seq
         /\ answers' = answers \cup {b} /\ wire' = wire \ {r}
         /\ UNCHANGED <<view, told, login, issued, saved, blind, gp1>>
         /\ effects' = effects \/ effects' = effects \cup {b.seq}
<1>1. /\ b.seq = r.seq /\ last < r.seq /\ answers' = answers \cup {b} /\ last' = r.seq
      /\ wire' = wire \ {r} /\ UNCHANGED <<view, told, login, issued, saved, blind, gp1>>
      /\ r.seq \in Nat /\ last \in Nat
  BY DEF Settled, Settles, Fresh, Types, Asked
<1>2. effects' = effects \/ effects' = effects \cup {b.seq}
  BY DEF Settled, NoEffect, Sells, Gives
<1>3. \A a \in answers : a.seq \in Nat /\ a.seq < b.seq
  BY <1>1 DEF Outcomes, Types, Outcome
<1>4. \A s \in effects \cup told : s \in Nat /\ s <= last
  BY DEF Outcomes, Types
<1>5. \A q \in wire : \A s \in q.told : s \in Nat /\ s <= last
  BY DEF Outcomes, Types, Asked
<1> QED
  BY <1>1, <1>2, <1>3, <1>4, <1>5

(* What the client raises is neither sold nor given.                       *)
LEMMA RaisedStays ==
  ASSUME Types, OwnedHasLevel, Behind, RaisedAreNotGiven, NEW r, NEW b \in Outcome, Settled(r, b)
  PROVE  b.contents \cap Raised = {} /\ \A c \in Raised : level'[c] = level[c]
<1>1. Raised \subseteq Content /\ Raised \cap Sold = {}
  BY WalletAssumption
<1>2. CASE NoEffect(b)
  BY <1>2 DEF NoEffect
<1>3. ASSUME NEW c \in Sold, Sells(c, b)
      PROVE  b.contents \cap Raised = {} /\ \A x \in Raised : level'[x] = level[x]
  <2>1. b.contents = {c} /\ c \notin Raised
    BY <1>1, <1>3 DEF Sells
  <2>2. \A x \in Content \ {c} : level'[x] = level[x]
    BY <1>3, SaleFacts
  <2> QED
    BY <1>1, <2>1, <2>2
<1>4. ASSUME NEW s \in SUBSET Content, NEW g \in [Currency -> Nat], Gives(s, g, b)
      PROVE  b.contents \cap Raised = {} /\ \A x \in Raised : level'[x] = level[x]
  <2>1. s \cap Raised = {} /\ b.contents \subseteq s
    BY <1>4 DEF RaisedAreNotGiven, Gives, Holding
  <2>2. \A x \in Content \ NewContent(s) : level'[x] = level[x]
    BY <1>4, GiftLevels
  <2>3. NewContent(s) \subseteq s
    BY DEF NewContent
  <2> QED
    BY <1>1, <2>1, <2>2, <2>3
<1> QED
  BY <1>2, <1>3, <1>4 DEF Settled

(* An answer is applied, or an answer that is repeated without rewards is  *)
(* forgotten.                                                              *)
Told(a) ==
  /\ a.seq \notin told /\ Tell(a) /\ (answers' = answers \/ answers' = answers \ {a})
  /\ (a.op # "shop" => answers' = answers \ {a})
  /\ UNCHANGED <<wire, server, history>>

Forgets(a) == answers' = answers \ {a} /\ UNCHANGED <<wire, view, told, server, history>>

LEMMA AnswersAre ==
  ASSUME Types, Outcomes, NEW a \in answers, Answer(a) \/ RepeatedAnswer(a)
  PROVE  Told(a) \/ Forgets(a)
<1>1. CASE Answer(a)
  BY <1>1 DEF Answer, Told
<1>2. CASE RepeatedAnswer(a) /\ a.op = "shop"
  BY <1>2 DEF RepeatedAnswer, RepeatsOutcome, Forgets
<1>3. CASE RepeatedAnswer(a) /\ a.op # "shop"
  BY <1>3 DEF RepeatedAnswer, RepeatsOutcome, Told, Outcomes
<1> QED
  BY <1>1, <1>2, <1>3

(* All other steps.                                                        *)
Kinds ==
  \/ /\ UNCHANGED <<purse, level, gifts, saved, blind, last, effects, answers, told>>
     /\ \/ view'.likes = view.likes + 1 /\ view'.played = view.played + 1
           /\ view'.level = view.level /\ wire' = wire
        \/ (\E c \in Raised : Raise(c)) /\ wire' = wire
        \/ /\ view'.likes = view.likes /\ view'.played = view.played /\ view'.level = view.level
           /\ \A r \in wire' : IsSave(r) =>
                r \in wire \/ (r.view = view /\ r.told = told /\ r.seq = issued + 1)
           /\ \A r \in wire' : r.told = {} \/ r.told = told \/ \E q \in wire : r.told = q.told
  \/ \E a \in answers : Told(a) \/ Forgets(a)
  \/ Login
  \/ \E r \in wire : UserSave(r)
  \/ \E r \in wire, b \in Outcome : Settled(r, b)

LEMMA StepKinds ==
  ASSUME Types, Advertising, OwnedHasLevel, Outcomes, gifts \in [Currency -> Int], [Next]_vars
  PROVE  Kinds
<1>1. CASE Play
  <2>1. view' = [view EXCEPT !.likes = @ + 1, !.played = @ + 1] /\ view \in Copy
    BY <1>1 DEF Play, Types
  <2>2. /\ view'.likes = view.likes + 1 /\ view'.played = view.played + 1
        /\ view'.level = view.level
    BY <2>1 DEF Copy
  <2>3. UNCHANGED <<purse, level, gifts, saved, blind, last, effects, answers, told, wire>>
    BY <1>1 DEF Play, server, history
  <2> QED
    BY <2>2, <2>3 DEF Kinds
<1>2. CASE \E c \in Raised : Raise(c)
  <2>1. UNCHANGED <<purse, level, gifts, saved, blind, last, effects, answers, told, wire>>
    BY <1>2 DEF Raise, server, history
  <2> QED
    BY <1>2, <2>1 DEF Kinds
<1>3. CASE Talk
  <2>1. view' = [view EXCEPT !.page = @ + 1] /\ view \in Copy
    BY <1>3 DEF Talk, Types
  <2>2. view'.likes = view.likes /\ view'.played = view.played /\ view'.level = view.level
    BY <2>1 DEF Copy
  <2>3. UNCHANGED <<purse, level, gifts, saved, blind, last, effects, answers, told, wire>>
    BY <1>3 DEF Talk, server, history
  <2> QED
    BY <2>2, <2>3 DEF Kinds
<1>4. CASE (\E c \in Command : Send(c)) \/ (\E r \in wire : Lose(r) \/ ReadAdLevel(r))
           \/ UNCHANGED vars
  <2>1. UNCHANGED <<purse, level, gifts, saved, blind, last, effects, answers, told, view>>
    BY <1>4 DEF Send, Lose, ReadAdLevel, vars, server, client, history
  <2>2. ASSUME NEW r \in wire'
        PROVE  /\ IsSave(r) =>
                    r \in wire \/ (r.view = view /\ r.told = told /\ r.seq = issued + 1)
               /\ r.told = {} \/ r.told = told \/ \E q \in wire : r.told = q.told
    BY WireSteps DEF IsSave
  <2> QED
    BY <2>1, <2>2 DEF Kinds
<1>5. ASSUME NEW a \in answers, Answer(a) \/ RepeatedAnswer(a)
      PROVE  Kinds
  BY <1>5, AnswersAre DEF Kinds
<1>6. CASE Login \/ \E r \in wire : UserSave(r)
  BY <1>6 DEF Kinds
<1>7. ASSUME NEW r \in wire, Commands(r)
      PROVE  Kinds
  BY <1>7, CommandSettles DEF Kinds
<1> QED
  BY <1>1, <1>2, <1>3, <1>4, <1>5, <1>6, <1>7, Steps DEF ClientStep, Plain, Commands

LEMMA OutcomesStep ==
  ASSUME Types, OwnedHasLevel, Behind, RaisedAreNotGiven, Outcomes, Kinds
  PROVE  Outcomes'
<1>1. CASE /\ UNCHANGED <<last, effects, answers, told>>
           /\ \A r \in wire' : r.told = {} \/ r.told = told \/ \E q \in wire : r.told = q.told
  <2>1. \A r \in wire' : \A s \in r.told : s <= last
    BY <1>1 DEF Outcomes
  <2> QED
    BY <1>1, <2>1 DEF Outcomes
<1>2. ASSUME NEW a \in answers, Told(a)
      PROVE  Outcomes'
  <2>1. told' = told \cup {a.seq} /\ (answers' = answers \/ answers' = answers \ {a})
        /\ (a.op # "shop" => answers' = answers \ {a})
        /\ UNCHANGED <<wire, last, effects>>
    BY <1>2, TellFacts DEF Told, Tell, server, history
  <2>2. IsFiniteSet(answers') /\ answers' \subseteq answers
    BY <2>1, FS_RemoveElement DEF Outcomes
  <2>3. ASSUME NEW x \in answers', x.op # "shop"
        PROVE  x.seq \notin told'
    <3>1. x # a
      BY <2>1, <2>3
    <3> QED
      BY <2>1, <2>2, <2>3, <3>1 DEF Outcomes
  <2>4. \A s \in effects' \cup told' : s <= last'
    BY <2>1 DEF Outcomes
  <2> QED
    BY <2>1, <2>2, <2>3, <2>4 DEF Outcomes
<1>3. ASSUME NEW a \in answers, Forgets(a)
      PROVE  Outcomes'
  <2>1. answers' = answers \ {a} /\ UNCHANGED <<wire, told, last, effects>>
    BY <1>3 DEF Forgets, server, history
  <2>2. IsFiniteSet(answers')
    BY <2>1, FS_RemoveElement DEF Outcomes
  <2> QED
    BY <2>1, <2>2 DEF Outcomes
<1>4. CASE Login
  <2>1. last' = 0 /\ told' = {} /\ wire' = {} /\ answers' = {} /\ effects' = {}
    BY <1>4, LoginFacts
  <2> QED
    BY <2>1, FS_EmptySet DEF Outcomes
<1>5. ASSUME NEW r \in wire, UserSave(r)
      PROVE  Outcomes'
  <2>1. last' = r.seq /\ r.seq > last /\ wire' = wire \ {r} /\ UNCHANGED <<answers, effects, told>>
    BY <1>5 DEF UserSave, Committed, Fresh, client
  <2>2. /\ r.seq \in Nat /\ last \in Nat /\ told \subseteq Nat /\ effects \subseteq Nat
        /\ \A a \in answers : a.seq \in Nat
        /\ \A q \in wire : q.told \subseteq Nat
    BY DEF Types, Asked, Outcome, Outcomes
  <2>3. /\ \A s \in effects \cup told : s <= last'
        /\ \A q \in wire : \A s \in q.told : s <= last'
        /\ \A a \in answers : a.seq <= last'
    BY <2>1, <2>2 DEF Outcomes
  <2> QED
    BY <2>1, <2>3 DEF Outcomes
<1>6. ASSUME NEW r \in wire, NEW b \in Outcome, Settled(r, b)
      PROVE  Outcomes'
  <2>1. /\ b.seq = r.seq /\ r.seq \in Nat /\ last \in Nat /\ last < r.seq /\ last' = r.seq
        /\ b.seq \notin effects /\ b.seq \notin told
        /\ \A a \in answers : a.seq \in Nat /\ a.seq < b.seq
        /\ answers' = answers \cup {b} /\ wire' = wire \ {r} /\ told' = told
        /\ (effects' = effects \/ effects' = effects \cup {b.seq})
    BY <1>6, SettledFacts
  <2>2. b.contents \cap Raised = {}
    BY <1>6, RaisedStays
  <2>3. IsFiniteSet(answers')
    BY <2>1, FS_AddElement DEF Outcomes
  <2>4. effects' \subseteq Nat
    BY <2>1 DEF Outcomes
  <2>5. /\ \A s \in effects' \cup told' : s <= last'
        /\ \A q \in wire' : \A s \in q.told : s <= last'
    <3>1. told \subseteq Nat /\ effects \subseteq Nat /\ \A q \in wire : q.told \subseteq Nat
      BY DEF Types, Asked, Outcomes
    <3>2. \A s \in effects \cup told : s \in Nat /\ s <= last
      BY <3>1 DEF Outcomes
    <3>3. \A q \in wire : \A s \in q.told : s \in Nat /\ s <= last
      BY <3>1 DEF Outcomes
    <3>4. \A s \in effects' \cup told' : s <= last'
      BY <2>1, <3>2
    <3>5. \A q \in wire' : \A s \in q.told : s <= last'
      BY <2>1, <3>3
    <3> QED
      BY <3>4, <3>5
  <2>6. ASSUME NEW a \in answers
        PROVE  /\ a.seq <= last' /\ a.contents \cap Raised = {}
               /\ a.op # "shop" => a.seq \notin told'
               /\ a.seq \notin effects' => a.likes = 0
    BY <2>1 DEF Outcomes
  <2>7. b.seq \notin effects' => b.likes = 0
    BY <1>6 DEF Settled, NoEffect, Sells, Gives
  <2>8. \A x, y \in answers' : x.seq = y.seq => x = y
    BY <2>1 DEF Outcomes
  <2>9. \A a \in answers' : /\ a.seq <= last' /\ a.contents \cap Raised = {}
                            /\ a.op # "shop" => a.seq \notin told'
                            /\ a.seq \notin effects' => a.likes = 0
    BY <2>1, <2>2, <2>6, <2>7
  <2> QED
    BY <2>3, <2>4, <2>5, <2>8, <2>9 DEF Outcomes
<1> QED
  BY <1>1, <1>2, <1>3, <1>4, <1>5, <1>6 DEF Kinds

LEMMA RaisingStep ==
  ASSUME Types, OwnedHasLevel, Behind, RaisedAreNotGiven, Outcomes, Kinds, Raising,
         \A r \in wire : r.seq <= issued
  PROVE  Raising'
<1> SUFFICES ASSUME NEW c \in Raised
             PROVE  /\ level'[c] <= view'.level[c]
                    /\ \A r \in wire' : IsSave(r) =>
                         /\ r.view.level[c] <= view'.level[c]
                         /\ Fresh(r)' => level'[c] <= r.view.level[c]
                    /\ \A r, q \in wire' : IsSave(r) /\ IsSave(q) /\ r.seq < q.seq =>
                         r.view.level[c] <= q.view.level[c]
  BY DEF Raising
<1>1. /\ c \in Saved /\ c \in Content /\ level[c] \in Nat /\ view.level[c] \in Nat
      /\ \A r \in wire : r.view.level[c] \in Nat /\ r.seq \in Nat
      /\ issued \in Nat /\ last \in Nat
  <2>1. c \in Saved /\ c \in Content
    BY WalletAssumption
  <2>2. view \in Copy /\ level[c] \in Nat /\ issued \in Nat /\ last \in Nat
    BY <2>1 DEF Types
  <2>3. ASSUME NEW v \in Copy PROVE v.level[c] \in Nat
    BY <2>1, CopyFacts
  <2>4. \A r \in wire : r.view \in Copy /\ r.seq \in Nat
    BY DEF Types, Asked
  <2> QED
    BY <2>1, <2>2, <2>3, <2>4
<1>2. /\ level[c] <= view.level[c]
      /\ \A r \in wire : IsSave(r) => /\ r.view.level[c] <= view.level[c]
                                      /\ Fresh(r) => level[c] <= r.view.level[c]
      /\ \A r, q \in wire :
           IsSave(r) /\ IsSave(q) /\ r.seq < q.seq => r.view.level[c] <= q.view.level[c]
  BY DEF Raising
<1>3. \A r : Fresh(r) <=> r.seq > last
  BY DEF Fresh
<1>4. \A r : Fresh(r)' <=> r.seq > last'
  BY DEF Fresh
<1>5. CASE /\ level' = level /\ last' = last /\ wire' \subseteq wire
           /\ view'.level[c] \in Nat /\ view.level[c] <= view'.level[c]
  BY <1>1, <1>2, <1>3, <1>4, <1>5
<1>6. CASE /\ level' = level /\ last' = last /\ view'.level = view.level
           /\ \A r \in wire' : IsSave(r) => r \in wire \/ (r.view = view /\ r.seq = issued + 1)
  BY <1>1, <1>2, <1>3, <1>4, <1>6
<1>7. CASE /\ UNCHANGED <<level, last, wire>> /\ \E x \in Raised : Raise(x)
  <2>1. PICK x \in Raised : Raise(x)
    BY <1>7
  <2>2. /\ view.level[x] \in Nat /\ view'.level[x] = view.level[x] + 1
        /\ \A y \in Saved \ {x} : view'.level[y] = view.level[y]
    BY <2>1, RaiseFacts
  <2>3. view'.level[c] \in Nat /\ view.level[c] <= view'.level[c]
    BY <1>1, <2>2
  <2> QED
    BY <1>5, <1>7, <2>3
<1>8. ASSUME NEW a \in answers, Told(a)
      PROVE  /\ level' = level /\ last' = last /\ wire' \subseteq wire
             /\ view'.level[c] = view.level[c]
  <2>1. Tell(a) /\ UNCHANGED <<level, last, wire>>
    BY <1>8 DEF Told, server
  <2>2. c \notin a.contents
    BY DEF Outcomes
  <2> QED
    BY <1>1, <2>1, <2>2, TellLevels
<1>9. ASSUME NEW a \in answers, Forgets(a)
      PROVE  UNCHANGED <<level, last, wire, view>>
  BY <1>9 DEF Forgets, server
<1>10. CASE Login
  <2>1. view'.level[c] = level[c] /\ wire' = {} /\ level' = level
    BY <1>1, <1>10, LoginFacts
  <2> QED
    BY <1>1, <2>1
<1>11. ASSUME NEW r \in wire, UserSave(r)
       PROVE  /\ level'[c] <= view'.level[c]
              /\ \A q \in wire' : IsSave(q) =>
                   /\ q.view.level[c] <= view'.level[c]
                   /\ Fresh(q)' => level'[c] <= q.view.level[c]
              /\ \A p, q \in wire' : IsSave(p) /\ IsSave(q) /\ p.seq < q.seq =>
                   p.view.level[c] <= q.view.level[c]
  <2>1. last' = r.seq /\ Fresh(r) /\ IsSave(r) /\ wire' = wire \ {r} /\ view' = view
    BY <1>11 DEF UserSave, Committed, client, IsSave
  <2>2. level'[c] = IF r.cmd.full /\ r.view.level[c] > level[c] THEN r.view.level[c] ELSE level[c]
    BY <1>11, SaveLevels
  <2> QED
    BY <1>1, <1>2, <1>3, <1>4, <2>1, <2>2
<1>12. ASSUME NEW r \in wire, NEW b \in Outcome, Settled(r, b)
       PROVE  /\ level'[c] = level[c] /\ view' = view /\ wire' \subseteq wire
              /\ last' \in Nat /\ last < last'
  <2>1. level'[c] = level[c]
    BY <1>12, RaisedStays
  <2> QED
    BY <1>12, <2>1, SettledFacts
<1>13. CASE /\ level'[c] = level[c] /\ view' = view /\ wire' \subseteq wire
            /\ last' \in Nat /\ last < last'
  BY <1>1, <1>2, <1>3, <1>4, <1>13
<1> QED
  <2>1. CASE \E a \in answers : Told(a) \/ Forgets(a)
    BY <1>1, <1>5, <1>8, <1>9, <2>1
  <2>2. CASE \E r \in wire, b \in Outcome : Settled(r, b)
    BY <1>12, <1>13, <2>2
  <2>3. CASE \E r \in wire : UserSave(r)
    BY <1>11, <2>3
  <2>4. CASE /\ UNCHANGED <<level, last>> /\ view'.level = view.level /\ wire' = wire
    BY <1>6, <2>4
  <2> QED
    BY <1>6, <1>7, <1>10, <2>1, <2>2, <2>3, <2>4 DEF Kinds

-----------------------------------------------------------------------------
(* What a copy is worth in likes, as far as the client spends them, and    *)
(* what is left of the gifts after what the server sold.                   *)
ByServer == Paid("like") \ Raised
Balance(v) == v.likes + Total(WorthAt(v.level), Raised)
Net == gifts["like"] - Total(WorthAt(level), ByServer)

(* The answers the client has yet to apply, and what it is due by them.    *)
Likes == [a \in Outcome |-> a.likes]
Unheard == {a \in answers : a.seq \in effects \ told}
Due == Total(Likes, Unheard)

(* While no such answer is lost, the client's copy and these answers keep  *)
(* the balance; so does a save whose client knew of all that was done.     *)
Covered == \A s \in effects \ told : \E a \in answers : a.seq = s

Heard(c) ==
  view.level[c] = level[c] \/ \E a \in Unheard : c \in a.contents /\ a.level = level[c]

ClientIsKept ==
  Covered => Balance(view) + Due = view.played + Net /\ \A c \in ByServer : Heard(c)

SavesAreKept ==
  \A r \in wire : IsSave(r) /\ effects \subseteq r.told =>
    /\ Balance(r.view) = r.view.played + Net
    /\ \A c \in ByServer : r.view.level[c] = level[c]

LEMMA Parts ==
  /\ "like" \in Currency /\ Raised \in SUBSET Content /\ Raised \subseteq Saved
  /\ ByServer \in SUBSET Content /\ ByServer \subseteq Saved
  /\ Paid("like") \in SUBSET Content /\ Raised \in SUBSET Paid("like")
  /\ ByServer \cap Raised = {}
BY WalletAssumption DEF ByServer, Paid, Currency

LEMMA WorthSplits ==
  ASSUME NEW l, Priced(l, Content)
  PROVE  /\ Total(WorthAt(l), Raised) \in Nat /\ Total(WorthAt(l), ByServer) \in Nat
         /\ Total(WorthAt(l), Paid("like")) = Total(WorthAt(l), Raised) + Total(WorthAt(l), ByServer)
<1>1. Priced(l, Raised) /\ Priced(l, ByServer) /\ Priced(l, Paid("like"))
  BY Parts DEF Priced
<1>2. Total(WorthAt(l), Raised) \in Nat /\ Total(WorthAt(l), ByServer) \in Nat
  BY <1>1, Parts, WorthTotals
<1>3. IsFiniteSet(Paid("like")) /\ \A c \in Paid("like") : WorthAt(l)[c] \in Int
  BY <1>1, Parts, WorthTotals
<1>4. Total(WorthAt(l), Paid("like")) = Total(WorthAt(l), Raised) + Total(WorthAt(l), Paid("like") \ Raised)
  BY <1>3, Parts, TotalSplit
<1> QED
  BY <1>2, <1>4 DEF ByServer

LEMMA CopyBalance ==
  ASSUME Types, Behind, NEW v \in Copy, \A c \in Saved : v.level[c] <= Ceiling(c)
  PROVE  /\ v.likes \in Int /\ v.played \in Int /\ Balance(v) \in Int
         /\ Priced(v.level, Raised)
<1>1. \A c \in Raised : v.level[c] \in Nat /\ v.level[c] <= MaxLevel(c)
  BY Parts, CopyFacts DEF Ceiling
<1>2. Priced(v.level, Raised)
  BY <1>1 DEF Priced
<1>3. Total(WorthAt(v.level), Raised) \in Nat
  BY <1>2, Parts, WorthTotals
<1> QED
  BY <1>2, <1>3, CopyFacts DEF Balance

LEMMA NetFacts ==
  ASSUME Types, Behind, gifts \in [Currency -> Int]
  PROVE  /\ Net \in Int /\ purse["like"] \in Int /\ saved \in Int
         /\ Total(WorthAt(level), Raised) \in Nat
         /\ LikesAreKept <=>
              (~ blind => purse["like"] + Total(WorthAt(level), Raised) = saved + Net)
<1>1. Priced(level, Content)
  BY DEF Types, Behind, Priced
<1> DEFINE x == Total(WorthAt(level), Raised)
           y == Total(WorthAt(level), ByServer)
<1>2. x \in Nat /\ y \in Nat /\ Worth("like") = x + y
  BY <1>1, WorthSplits, WorthIs
<1>3. gifts["like"] \in Int /\ purse["like"] \in Int /\ saved \in Int
  BY Parts DEF Types
<1>4. Net = gifts["like"] - y
  BY DEF Net
<1>5. LikesAreKept <=> (~ blind => purse["like"] + Worth("like") = saved + gifts["like"])
  BY DEF LikesAreKept
<1> HIDE DEF x, y
<1>6. purse["like"] + Worth("like") = saved + gifts["like"] <=> purse["like"] + x = saved + Net
  BY <1>2, <1>3, <1>4
<1> QED
  BY <1>2, <1>3, <1>4, <1>5, <1>6 DEF x

LEMMA DueFacts ==
  ASSUME Types, Outcomes
  PROVE  /\ IsFiniteSet(Unheard) /\ Unheard \subseteq Outcome /\ Due \in Int
         /\ \A a \in Outcome : Likes[a] = a.likes /\ a.likes \in Int
<1>1. Unheard \subseteq answers /\ IsFiniteSet(answers) /\ answers \subseteq Outcome
  BY DEF Unheard, Outcomes, Types
<1>2. \A a \in Outcome : Likes[a] = a.likes /\ a.likes \in Int
  BY DEF Likes, Outcome
<1>3. IsFiniteSet(Unheard)
  BY <1>1, FS_Subset
<1>4. Total(Likes, Unheard) \in Int
  BY <1>1, <1>2, <1>3, TotalSteps
<1> QED
  BY <1>1, <1>2, <1>3, <1>4 DEF Due

LEMMA SameNet ==
  ASSUME Types, Behind, gifts' = gifts, \A c \in ByServer : level'[c] = level[c]
  PROVE  Net' = Net
<1>1. Priced(level, ByServer)
  BY Parts DEF Types, Behind, Priced
<1>2. Total(WorthAt(level'), ByServer) = Total(WorthAt(level), ByServer)
  BY <1>1, Parts, SameWorth
<1>3. Net' = gifts'["like"] - Total(WorthAt(level'), ByServer)
  BY DEF Net
<1> QED
  BY <1>2, <1>3 DEF Net

(* The client's copy stays in balance while the server does nothing of     *)
(* which it has to be told.                                                *)
LEMMA ClientStays ==
  ASSUME Types, Behind, Outcomes, gifts \in [Currency -> Int], ClientIsKept,
         UNCHANGED <<gifts, effects, answers, told>>,
         \A c \in ByServer : level'[c] = level[c] /\ view'.level[c] = view.level[c],
         Balance(view') \in Int, view'.played \in Int,
         Balance(view') - view'.played = Balance(view) - view.played
  PROVE  ClientIsKept'
<1>1. Net' = Net /\ Net \in Int
  BY SameNet, NetFacts
<1>2. Unheard' = Unheard /\ Due' = Due /\ (Covered' <=> Covered)
  BY DEF Unheard, Due, Covered
<1>3. Balance(view) \in Int /\ view.played \in Int /\ Due \in Int
  <2>1. view \in Copy /\ \A c \in Saved : view.level[c] <= Ceiling(c)
    BY DEF Types, Behind
  <2> QED
    BY <2>1, CopyBalance, DueFacts
<1>4. ClientIsKept' <=>
        (Covered' => Balance(view') + Due' = view'.played + Net' /\ \A c \in ByServer : Heard(c)')
  BY DEF ClientIsKept
<1>5. \A c \in ByServer : Heard(c) => Heard(c)'
  BY <1>2 DEF Heard
<1>6. Balance(view) + Due = view.played + Net => Balance(view') + Due = view'.played + Net
  <2>1. \A b, c, p, q, d, n \in Int : c - q = b - p => (b + d = p + n => c + d = q + n)
    OBVIOUS
  <2>2. /\ Balance(view') \in Int /\ view'.played \in Int
        /\ Balance(view') - view'.played = Balance(view) - view.played
    OBVIOUS
  <2> QED
    BY ONLY <1>1, <1>3, <2>1, <2>2
<1> QED
  BY <1>1, <1>2, <1>4, <1>5, <1>6 DEF ClientIsKept

(* A save is a picture of the client's copy when that knew of all.         *)
LEMMA SavesStay ==
  ASSUME Types, Behind, Outcomes, gifts \in [Currency -> Int], ClientIsKept, SavesAreKept,
         gifts' = gifts, effects \subseteq effects',
         \A c \in ByServer : level'[c] = level[c],
         \A r \in wire' : IsSave(r) => r \in wire \/ (r.view = view /\ r.told = told)
  PROVE  SavesAreKept'
<1>1. Net' = Net /\ Net \in Int
  BY SameNet, NetFacts
<1> SUFFICES ASSUME NEW r \in wire', IsSave(r), effects' \subseteq r.told
             PROVE  /\ Balance(r.view) = r.view.played + Net
                    /\ \A c \in ByServer : r.view.level[c] = level[c]
  BY <1>1 DEF SavesAreKept
<1>2. CASE r \in wire
  BY <1>2 DEF SavesAreKept
<1>3. CASE r.view = view /\ r.told = told
  <2>1. effects \ told = {} /\ Unheard = {} /\ Covered
    BY <1>3 DEF Unheard, Covered
  <2>2. Due = 0
    BY <2>1, FS_EmptySet, TotalZero DEF Due
  <2>3. Balance(view) + Due = view.played + Net /\ \A c \in ByServer : Heard(c)
    BY <2>1 DEF ClientIsKept
  <2>4. Balance(view) \in Int
    <3>1. view \in Copy /\ \A c \in Saved : view.level[c] <= Ceiling(c)
      BY DEF Types, Behind
    <3> QED
      BY <3>1, CopyBalance
  <2>5. \A c \in ByServer : view.level[c] = level[c]
    BY <2>1, <2>3 DEF Heard
  <2> QED
    BY <1>3, <2>2, <2>3, <2>4, <2>5
<1> QED
  BY <1>2, <1>3

(* The client plays, raises or sends, and nothing comes to it.             *)
Quiet ==
  /\ UNCHANGED <<purse, level, gifts, saved, blind, last, effects, answers, told>>
  /\ \/ view'.likes = view.likes + 1 /\ view'.played = view.played + 1
        /\ view'.level = view.level /\ wire' = wire
     \/ (\E c \in Raised : Raise(c)) /\ wire' = wire
     \/ /\ view'.likes = view.likes /\ view'.played = view.played /\ view'.level = view.level
        /\ \A r \in wire' : IsSave(r) =>
             r \in wire \/ (r.view = view /\ r.told = told /\ r.seq = issued + 1)

LEMMA QuietKeeps ==
  ASSUME Types, Behind, Outcomes, gifts \in [Currency -> Int], ClientIsKept, SavesAreKept, Quiet
  PROVE  ClientIsKept' /\ SavesAreKept'
<1>1. view \in Copy /\ \A c \in Saved : view.level[c] <= Ceiling(c)
  BY DEF Types, Behind
<1>2. /\ view.likes \in Int /\ view.played \in Int /\ Balance(view) \in Int
      /\ Priced(view.level, Raised)
  BY <1>1, CopyBalance
<1>3. Total(WorthAt(view.level), Raised) \in Nat
  BY <1>2, Parts, WorthTotals
<1> DEFINE Same == /\ Balance(view') \in Int /\ view'.played \in Int
                   /\ Balance(view') - view'.played = Balance(view) - view.played
                   /\ \A c \in ByServer : view'.level[c] = view.level[c]
<1>4. ASSUME /\ view'.level = view.level
             /\ \/ view'.likes = view.likes + 1 /\ view'.played = view.played + 1
                \/ view'.likes = view.likes /\ view'.played = view.played
      PROVE  Same
  <2>1. Balance(view') = view'.likes + Total(WorthAt(view.level), Raised)
        /\ Balance(view) = view.likes + Total(WorthAt(view.level), Raised)
    BY <1>4 DEF Balance
  <2> QED
    BY <1>2, <1>3, <1>4, <2>1
<1>5. ASSUME NEW x \in Raised, Raise(x)
      PROVE  Same
  <2>1. /\ view.level[x] \in Nat /\ view.level[x] + 1 <= MaxLevel(x)
        /\ Price[x][view.level[x] + 1] \in Nat
        /\ view'.likes = view.likes - Price[x][view.level[x] + 1]
        /\ view'.played = view.played
        /\ view'.level[x] = view.level[x] + 1
        /\ \A y \in Saved \ {x} : view'.level[y] = view.level[y]
    BY <1>5, RaiseFacts
  <2>2. \A y \in Raised \ {x} : view'.level[y] = view.level[y]
    BY <2>1, Parts
  <2>3. Total(WorthAt(view'.level), Raised)
          = Total(WorthAt(view.level), Raised) + Price[x][view.level[x] + 1]
    <3> DEFINE l == view.level
               k == view'.level
    <3>1. /\ Raised \in SUBSET Content /\ Priced(l, Raised) /\ l[x] + 1 <= MaxLevel(x)
          /\ k[x] = l[x] + 1 /\ \A y \in Raised \ {x} : k[y] = l[y]
      BY <1>2, <2>1, <2>2, Parts
    <3>2. Total(WorthAt(k), Raised) = Total(WorthAt(l), Raised) + Price[x][l[x] + 1]
      <4> HIDE DEF l, k
      <4> QED
        BY ONLY <3>1, x \in Raised, RaisedWorth
    <3> QED
      BY <3>2
  <2>4. Balance(view') = view'.likes + Total(WorthAt(view'.level), Raised)
        /\ Balance(view) = view.likes + Total(WorthAt(view.level), Raised)
    BY DEF Balance
  <2>5. \A c \in ByServer : view'.level[c] = view.level[c]
    BY <2>1, Parts
  <2> QED
    BY <1>2, <1>3, <2>1, <2>3, <2>4, <2>5
<1>6. Same
  BY <1>4, <1>5 DEF Quiet
<1>7. ClientIsKept'
  BY <1>6, ClientStays DEF Quiet
<1>8. SavesAreKept'
  <2>1. \A r \in wire' : IsSave(r) => r \in wire \/ (r.view = view /\ r.told = told)
    BY DEF Quiet
  <2>2. gifts' = gifts /\ effects' = effects /\ level' = level
    BY DEF Quiet
  <2> QED
    BY <2>1, <2>2, SavesStay
<1> QED
  BY <1>7, <1>8

(* An answer brings the client what it was due; one that is lost leaves    *)
(* its command without an answer.                                          *)
LEMMA AnswersLeft ==
  ASSUME Types, Outcomes, NEW a \in answers, Told(a) \/ Forgets(a)
  PROVE  /\ answers' \subseteq answers /\ answers \ {a} \subseteq answers'
         /\ UNCHANGED <<wire, purse, level, gifts, saved, blind, last, effects>>
         /\ Unheard' = Unheard \ {a}
<1>1. /\ answers' = answers \/ answers' = answers \ {a}
      /\ UNCHANGED <<wire, purse, level, gifts, saved, blind, last, effects>>
  BY DEF Told, Forgets, server, history
<1>2. CASE Told(a)
  <2>1. told' = told \cup {a.seq}
    BY <1>2 DEF Told, Tell
  <2>2. \A x \in answers : x.seq = a.seq => x = a
    BY DEF Outcomes
  <2> QED
    BY <1>1, <2>1, <2>2 DEF Unheard
<1>3. CASE Forgets(a)
  <2>1. told' = told /\ answers' = answers \ {a}
    BY <1>3 DEF Forgets
  <2> QED
    BY <1>1, <2>1 DEF Unheard
<1> QED
  BY <1>1, <1>2, <1>3

LEMMA ToldKeeps ==
  ASSUME Types, Behind, Outcomes, gifts \in [Currency -> Int], ClientIsKept,
         NEW a \in answers, Told(a)
  PROVE  ClientIsKept'
<1>1. /\ UNCHANGED <<level, gifts, effects>> /\ Unheard' = Unheard \ {a}
      /\ answers \ {a} \subseteq answers'
  BY AnswersLeft
<1>2. /\ view'.likes = view.likes + a.likes /\ view'.played = view.played
      /\ told' = told \cup {a.seq} /\ a.seq \notin told
      /\ \A c \in Saved :
           view'.level[c] = IF c \in a.contents /\ a.level > view.level[c]
                            THEN a.level ELSE view.level[c]
  BY TellLevels DEF Told
<1>3. Net' = Net /\ Net \in Int
  BY <1>1, SameNet, NetFacts
<1>4. /\ view \in Copy /\ view.likes \in Int /\ view.played \in Int /\ Balance(view) \in Int
      /\ Priced(view.level, Raised)
  <2>1. view \in Copy /\ \A c \in Saved : view.level[c] <= Ceiling(c)
    BY DEF Types, Behind
  <2> QED
    BY <2>1, CopyBalance
<1>5. Balance(view') = Balance(view) + a.likes
  <2>1. \A c \in Raised : view'.level[c] = view.level[c]
    BY <1>2, Parts DEF Outcomes
  <2>2. Total(WorthAt(view'.level), Raised) = Total(WorthAt(view.level), Raised)
    <3> DEFINE l == view.level
               k == view'.level
    <3>1. Raised \in SUBSET Content /\ Priced(l, Raised) /\ \A c \in Raised : k[c] = l[c]
      BY <1>4, <2>1, Parts
    <3>2. Total(WorthAt(k), Raised) = Total(WorthAt(l), Raised)
      <4> HIDE DEF l, k
      <4> QED
        BY ONLY <3>1, SameWorth
    <3> QED
      BY <3>2
  <2>3. Total(WorthAt(view.level), Raised) \in Nat
    BY <1>4, Parts, WorthTotals
  <2>4. a.likes \in Int
    BY DEF Types, Outcome
  <2> QED
    BY <1>2, <1>4, <2>2, <2>3, <2>4 DEF Balance
<1>6. Due = a.likes + Due' /\ Due \in Int /\ Due' \in Int /\ a.likes \in Int
  <2>1. /\ IsFiniteSet(Unheard) /\ Unheard \subseteq Outcome /\ Due \in Int
        /\ \A x \in Outcome : Likes[x] = x.likes /\ x.likes \in Int
    BY DueFacts
  <2>2. a \in Outcome
    BY DEF Types
  <2>3. Due' = Total(Likes, Unheard \ {a})
    BY <1>1 DEF Due
  <2>4. CASE a \in Unheard
    <3>1. Due = Likes[a] + Total(Likes, Unheard \ {a})
      BY <2>1, <2>4, TotalRemove DEF Due
    <3>2. IsFiniteSet(Unheard \ {a}) /\ \A x \in Unheard \ {a} : Likes[x] \in Int
      BY <2>1, FS_RemoveElement
    <3>3. Total(Likes, Unheard \ {a}) \in Int
      BY <3>2, TotalSteps
    <3> QED
      BY <2>1, <2>2, <2>3, <3>1, <3>3
  <2>5. CASE a \notin Unheard
    <3>1. a.seq \notin effects
      BY <1>2, <2>5 DEF Unheard
    <3>2. a.likes = 0
      BY <3>1 DEF Outcomes
    <3>3. Unheard \ {a} = Unheard
      BY <2>5
    <3> QED
      <4>1. Due' = Due
        BY <2>3, <3>3 DEF Due
      <4> QED
        BY <2>1, <3>2, <4>1
  <2> QED
    BY <2>4, <2>5
<1>7. Covered' => Covered
  <2>1. ASSUME Covered', NEW s \in effects \ told PROVE \E x \in answers : x.seq = s
    <3>1. CASE s = a.seq
      BY <3>1
    <3>2. CASE s # a.seq
      BY <1>1, <1>2, <2>1, <3>2, AnswersLeft DEF Covered
    <3> QED
      BY <3>1, <3>2
  <2> QED
    BY <2>1 DEF Covered
<1>8. ASSUME NEW c \in ByServer, Heard(c)
      PROVE  Heard(c)'
  <2>1. c \in Saved /\ c \in Content /\ c \notin Raised
    BY Parts
  <2>2. /\ view.level[c] \in Nat /\ level[c] \in Nat /\ view.level[c] <= level[c]
        /\ a.level \in Nat /\ (c \in a.contents => a.level <= level[c])
    BY <1>4, <2>1, CopyFacts DEF Types, Behind, Ceiling, Outcome
  <2>3. CASE view.level[c] = level[c] \/ (c \in a.contents /\ a.level = level[c])
    <3>1. view'.level[c] = level[c]
      BY <1>2, <2>1, <2>2, <2>3
    <3> QED
      BY <1>1, <3>1 DEF Heard
  <2>4. ASSUME NEW x \in Unheard, x # a, c \in x.contents, x.level = level[c]
        PROVE  Heard(c)'
    BY <1>1, <2>4 DEF Heard
  <2> QED
    BY <1>8, <2>3, <2>4 DEF Heard
<1>9. Balance(view) + Due = view.played + Net => Balance(view') + Due' = view'.played + Net'
  <2>1. view'.played = view.played
    BY <1>2
  <2>2. Balance(view) + Due = Balance(view') + Due'
    BY <1>4, <1>5, <1>6
  <2> QED
    BY <1>3, <2>1, <2>2
<1> QED
  BY <1>7, <1>8, <1>9 DEF ClientIsKept

LEMMA ForgottenKeeps ==
  ASSUME Types, Behind, Outcomes, gifts \in [Currency -> Int], ClientIsKept,
         NEW a \in answers, Forgets(a)
  PROVE  ClientIsKept'
<1>1. /\ UNCHANGED <<level, gifts, effects>> /\ Unheard' = Unheard \ {a}
      /\ answers' = answers \ {a} /\ view' = view /\ told' = told
  BY AnswersLeft DEF Forgets
<1>2. Net' = Net
  BY <1>1, SameNet
<1>3. CASE a \in Unheard
  <2>1. a.seq \in effects \ told /\ \A x \in answers : x.seq = a.seq => x = a
    BY <1>3 DEF Unheard, Outcomes
  <2>2. ~ Covered'
    BY <1>1, <2>1 DEF Covered
  <2> QED
    BY <2>2 DEF ClientIsKept
<1>4. CASE a \notin Unheard
  <2>1. Unheard' = Unheard /\ Due' = Due
    BY <1>1, <1>4 DEF Due
  <2>2. Covered' => Covered
    BY <1>1 DEF Covered
  <2>3. \A c \in ByServer : Heard(c) => Heard(c)'
    BY <1>1, <2>1 DEF Heard
  <2> QED
    BY <1>1, <1>2, <2>1, <2>2, <2>3 DEF ClientIsKept
<1> QED
  BY <1>3, <1>4

(* A login reads the rows.                                                 *)
LEMMA LoginKeeps ==
  ASSUME Types, Behind, gifts \in [Currency -> Int], ~ blind, LikesAreKept, Login
  PROVE  ClientIsKept' /\ SavesAreKept'
<1>1. /\ view'.likes = purse["like"] /\ view'.played = saved
      /\ \A c \in Saved : view'.level[c] = level[c]
      /\ told' = {} /\ wire' = {} /\ answers' = {} /\ effects' = {}
      /\ UNCHANGED <<level, gifts>>
  BY LoginFacts
<1>2. Net' = Net
  BY <1>1, SameNet
<1>3. /\ Net \in Int /\ purse["like"] \in Int /\ saved \in Int
      /\ Total(WorthAt(level), Raised) \in Nat
      /\ purse["like"] + Total(WorthAt(level), Raised) = saved + Net
  BY NetFacts
<1>4. Total(WorthAt(view'.level), Raised) = Total(WorthAt(level), Raised)
  <2> DEFINE k == view'.level
  <2>1. Raised \in SUBSET Content /\ \A c \in Raised : k[c] = level[c]
    BY <1>1, Parts
  <2>2. Priced(level, Raised)
    BY Parts, LevelsArePriced
  <2> HIDE DEF k
  <2>3. Total(WorthAt(k), Raised) = Total(WorthAt(level), Raised)
    BY ONLY <2>1, <2>2, SameWorth
  <2> QED
    BY <2>3 DEF k
<1>5. Unheard' = {} /\ Due' = 0
  <2>1. Unheard' = {}
    BY <1>1 DEF Unheard
  <2>2. Total(Likes, {}) = 0
    BY FS_EmptySet, TotalZero
  <2> QED
    BY <2>1, <2>2 DEF Due
<1>6. Balance(view') + Due' = view'.played + Net'
  <2>1. Balance(view') = purse["like"] + Total(WorthAt(level), Raised)
    BY <1>1, <1>4 DEF Balance
  <2> QED
    BY <1>1, <1>2, <1>3, <1>5, <2>1
<1>7. \A c \in ByServer : Heard(c)'
  BY <1>1, Parts DEF Heard
<1> QED
  BY <1>1, <1>6, <1>7 DEF ClientIsKept, SavesAreKept

(* The balance after a step, from levels that have prices.                 *)
LEMMA NetNext ==
  ASSUME Grown, gifts' \in [Currency -> Int], purse' \in [Currency -> Int], saved' \in Int
  PROVE  LikesAreKept' <=>
           (~ blind' => purse'["like"] + Total(WorthAt(level'), Raised) = saved' + Net')
<1>1. Priced(level', Content)
  BY DEF Grown, Priced
<1> DEFINE x == Total(WorthAt(level'), Raised)
           y == Total(WorthAt(level'), ByServer)
<1>2. x \in Nat /\ y \in Nat /\ Worth("like")' = x + y
  BY <1>1, WorthSplits, WorthIs
<1>3. gifts'["like"] \in Int /\ purse'["like"] \in Int
  BY Parts
<1>4. Net' = gifts'["like"] - y
  BY DEF Net
<1>5. LikesAreKept' <=>
        (~ blind' => purse'["like"] + Worth("like")' = saved' + gifts'["like"])
  BY DEF LikesAreKept
<1> HIDE DEF x, y
<1>6. purse'["like"] + Worth("like")' = saved' + gifts'["like"]
        <=> purse'["like"] + x = saved' + Net'
  <2>1. \A p, s, g, a, b \in Int : p + (a + b) = s + g <=> p + a = s + (g - b)
    OBVIOUS
  <2> QED
    BY ONLY <1>2, <1>3, <1>4, <2>1, saved' \in Int
<1> QED
  BY <1>5, <1>6 DEF x

(* A full save that knew of all brings the client's copy; the other        *)
(* leaves the balance.                                                     *)
LEMMA SaveKeeps ==
  ASSUME Types, Behind, Outcomes, Raising, gifts \in [Currency -> Int], Grown,
         purse' \in [Currency -> Int], saved' \in Int,
         NEW r \in wire, UserSave(r), ~ blind', LikesAreKept, ClientIsKept, SavesAreKept
  PROVE  ~ blind /\ LikesAreKept' /\ ClientIsKept' /\ SavesAreKept'
<1>1. /\ gifts' = gifts /\ wire' = wire \ {r} /\ last < r.seq /\ Fresh(r) /\ IsSave(r)
      /\ UNCHANGED <<effects, answers, told, view>>
      /\ r.seq \in Nat /\ last \in Nat
  BY DEF UserSave, Committed, client, Fresh, IsSave, Types, Asked
<1>2. /\ \A c \in Content \ Raised : level'[c] = level[c]
      /\ \A c \in Raised :
           level'[c] = IF r.cmd.full /\ r.view.level[c] > level[c]
                       THEN r.view.level[c] ELSE level[c]
      /\ \A c \in Saved : r.view.level[c] \in Nat /\ r.view.level[c] <= Ceiling(c)
  BY SaveLevels
<1>3. \A c \in ByServer : level'[c] = level[c]
  BY <1>2, Parts
<1>4. Net' = Net
  BY <1>1, <1>3, SameNet
<1>5. /\ ~ blind /\ r.cmd.full \in BOOLEAN
      /\ r.cmd.full => \A s \in effects \ r.told : ~ (s < r.seq)
      /\ ~ r.cmd.full => gp1
  <2>1. blind' = (blind \/ (r.cmd.full /\ \E s \in effects \ r.told : s < r.seq)
                        \/ (~ r.cmd.full /\ ~ gp1))
    BY DEF UserSave
  <2>2. r.cmd.full \in BOOLEAN
    BY <1>1, CommandFacts DEF Types, IsSave
  <2> QED
    BY <2>1, <2>2
<1>6. purse'["like"] = SavedLikes(r) /\ saved' = IF r.cmd.full THEN r.view.played ELSE saved
  BY Parts DEF UserSave, Types
<1>7. /\ purse["like"] + Total(WorthAt(level), Raised) = saved + Net
      /\ Priced(level, Raised)
  BY <1>5, Parts, NetFacts, LevelsArePriced
<1>8. purse'["like"] + Total(WorthAt(level'), Raised) = saved' + Net'
  <2>1. CASE r.cmd.full
    <3>1. effects \subseteq r.told
      <4>1. \A s \in effects : s \in Nat /\ s < r.seq
        BY <1>1 DEF Outcomes
      <4> QED
        BY <1>5, <2>1, <4>1
    <3>2. Balance(r.view) = r.view.played + Net
      BY <1>1, <3>1 DEF SavesAreKept
    <3>3. \A c \in Raised : level'[c] = r.view.level[c]
      <4>1. \A c \in Raised : level[c] \in Nat /\ level[c] <= r.view.level[c]
        BY <1>1, Parts DEF Raising, Types
      <4> QED
        BY <1>2, <2>1, <4>1, Parts
    <3>4. Priced(r.view.level, Raised)
      BY <1>2, Parts DEF Priced, Ceiling
    <3>5. Total(WorthAt(level'), Raised) = Total(WorthAt(r.view.level), Raised)
      <4> DEFINE l == r.view.level
      <4>1. Priced(l, Raised) /\ \A c \in Raised : level'[c] = l[c]
        BY <3>3, <3>4
      <4> HIDE DEF l
      <4>2. Total(WorthAt(level'), Raised) = Total(WorthAt(l), Raised)
        BY <4>1, Parts, SameWorth
      <4> QED
        BY <4>2 DEF l
    <3>6. purse'["like"] = r.view.likes /\ saved' = r.view.played
      BY <1>6, <2>1 DEF SavedLikes
    <3> QED
      BY <1>4, <3>2, <3>5, <3>6 DEF Balance
  <2>2. CASE ~ r.cmd.full
    <3>1. purse'["like"] = purse["like"] /\ saved' = saved
      BY <1>5, <1>6, <2>2 DEF SavedLikes
    <3>2. \A c \in Raised : level'[c] = level[c]
      BY <1>2, <2>2
    <3>3. Total(WorthAt(level'), Raised) = Total(WorthAt(level), Raised)
      BY <1>7, <3>2, Parts, SameWorth
    <3> QED
      BY <1>4, <1>7, <3>1, <3>3
  <2> QED
    BY <1>5, <2>1, <2>2
<1>9. LikesAreKept'
  BY <1>1, <1>8, NetNext
<1>10. ClientIsKept'
  <2>1. /\ UNCHANGED <<gifts, effects, answers, told>> /\ view' = view
        /\ \A c \in ByServer : level'[c] = level[c] /\ view'.level[c] = view.level[c]
    BY <1>1, <1>3
  <2>2. view \in Copy /\ \A c \in Saved : view.level[c] <= Ceiling(c)
    BY DEF Types, Behind
  <2>3. Balance(view) \in Int /\ view.played \in Int
    BY <2>2, CopyBalance
  <2>4. Balance(view') \in Int /\ view'.played \in Int
        /\ Balance(view') - view'.played = Balance(view) - view.played
    BY <2>1, <2>3
  <2> QED
    BY <2>1, <2>4, ClientStays
<1>11. SavesAreKept'
  <2>1. \A q \in wire' : IsSave(q) => q \in wire \/ (q.view = view /\ q.told = told)
    BY <1>1
  <2> QED
    BY <1>1, <1>3, <2>1, SavesStay
<1> QED
  BY <1>5, <1>9, <1>10, <1>11

(* A command is balanced by its answer.                                    *)
LEMMA NetSettles ==
  ASSUME Types, OwnedHasLevel, Behind, Outcomes, RaisedAreNotGiven, gifts \in [Currency -> Int],
         NEW r \in wire, NEW b \in Outcome, Settled(r, b), effects' = effects \cup {b.seq}
  PROVE  /\ Net' = Net + b.likes
         /\ \A c \in ByServer : level'[c] = level[c] \/ (c \in b.contents /\ b.level = level'[c])
<1> DEFINE w == Total(WorthAt(level), ByServer)
           v == Total(WorthAt(level'), ByServer)
<1>1. Net = gifts["like"] - w /\ Net' = gifts'["like"] - v
  BY DEF Net
<1>2. w \in Nat /\ gifts["like"] \in Int /\ b.likes \in Int
  BY Parts, LevelsArePriced DEF Outcome
<1>3. b.seq \notin effects
  BY SettledFacts
<1>4. ASSUME NEW c \in Sold, Sells(c, b)
      PROVE  /\ Net' = Net + b.likes
             /\ \A x \in ByServer :
                  level'[x] = level[x] \/ (x \in b.contents /\ b.level = level'[x])
  <2> DEFINE price == Price[c][level[c] + 1]
  <2>1. /\ c \in Content /\ c \notin Raised /\ price \in Nat
        /\ level'[c] = level[c] + 1 /\ \A x \in Content \ {c} : level'[x] = level[x]
    BY <1>4, SaleFacts
  <2>2. v = w + IF c \in ByServer THEN price ELSE 0
    BY <1>4, Parts, SaleWorth
  <2>3. /\ gifts' = gifts /\ b.contents = {c} /\ b.level = level[c] + 1
        /\ b.likes = IF CurrencyOf[c] = "like" THEN - price ELSE 0
    BY <1>4 DEF Sells
  <2>4. c \in ByServer <=> CurrencyOf[c] = "like"
    BY <2>1 DEF ByServer, Paid
  <2>5. \A x \in ByServer : level'[x] = level[x] \/ (x \in b.contents /\ b.level = level'[x])
    BY <2>1, <2>3, Parts
  <2> HIDE DEF price, w, v
  <2> QED
    BY <1>1, <1>2, <2>1, <2>2, <2>3, <2>4, <2>5
<1>5. ASSUME NEW s \in SUBSET Content, NEW g \in [Currency -> Nat], Gives(s, g, b)
      PROVE  /\ Net' = Net + b.likes
             /\ \A x \in ByServer :
                  level'[x] = level[x] \/ (x \in b.contents /\ b.level = level'[x])
  <2>1. {c \in NewContent(s) : CurrencyOf[c] = "like"} \subseteq ByServer
        /\ \A c \in ByServer : CurrencyOf[c] = "like"
    BY <1>5 DEF RaisedAreNotGiven, Gives, Holding, NewContent, ByServer, Paid
  <2>2. NewWorth(s, "like") \in Nat /\ v = w + NewWorth(s, "like")
    BY <1>5, <2>1, Parts, GiftWorth
  <2>3. /\ gifts'["like"] = gifts["like"] + g["like"] + NewWorth(s, "like")
        /\ g["like"] \in Nat /\ b.likes = g["like"] /\ NewContent(s) \subseteq b.contents
        /\ b.level = 1
    BY <1>5, Parts DEF Gives
  <2>4. /\ \A c \in NewContent(s) : level'[c] = 1
        /\ \A c \in Content \ NewContent(s) : level'[c] = level[c]
    BY <1>5, GiftLevels
  <2>5. \A x \in ByServer : level'[x] = level[x] \/ (x \in b.contents /\ b.level = level'[x])
    BY <2>3, <2>4, Parts
  <2> HIDE DEF w, v
  <2> QED
    BY <1>1, <1>2, <2>2, <2>3, <2>5
<1>6. CASE NoEffect(b)
  BY <1>3, <1>6 DEF NoEffect
<1> QED
  BY <1>4, <1>5, <1>6 DEF Settled

LEMMA CommandKeeps ==
  ASSUME Types, OwnedHasLevel, Behind, Outcomes, RaisedAreNotGiven, gifts \in [Currency -> Int],
         Grown, gifts' \in [Currency -> Int], purse' \in [Currency -> Int],
         NEW r \in wire, NEW b \in Outcome, Settled(r, b),
         ~ blind, LikesAreKept, ClientIsKept, SavesAreKept
  PROVE  LikesAreKept' /\ ClientIsKept' /\ SavesAreKept'
<1>1. /\ b.seq \notin effects /\ b.seq \notin told /\ \A q \in wire : b.seq \notin q.told
      /\ answers' = answers \cup {b} /\ wire' = wire \ {r}
      /\ UNCHANGED <<view, told, saved, blind>>
      /\ (effects' = effects \/ effects' = effects \cup {b.seq})
      /\ \A a \in answers : a.seq # b.seq
  BY SettledFacts
<1>2. /\ Net \in Int /\ purse["like"] \in Int /\ saved \in Int
      /\ Balance(view) \in Int /\ view.played \in Int
      /\ IsFiniteSet(Unheard) /\ Unheard \subseteq Outcome /\ Due \in Int
      /\ Likes[b] = b.likes /\ b.likes \in Int
      /\ \A x \in Unheard : Likes[x] \in Int
  <2>1. view \in Copy /\ \A c \in Saved : view.level[c] <= Ceiling(c)
    BY DEF Types, Behind
  <2> QED
    BY <2>1, NetFacts, CopyBalance, DueFacts
<1>3. LikesAreKept'
  <2> DEFINE w == Worth("like")
             v == Worth("like")'
  <2>1. purse'["like"] + v + gifts["like"] = purse["like"] + w + gifts'["like"]
    BY Parts, SettledBalance DEF Balanced
  <2>2. purse["like"] + w = saved + gifts["like"]
    BY DEF LikesAreKept
  <2>3. /\ purse'["like"] \in Int /\ gifts'["like"] \in Int /\ gifts["like"] \in Int
        /\ w \in Int /\ v \in Int /\ saved \in Int /\ purse["like"] \in Int
    <3>1. Priced(level', Content) /\ Priced(level, Content)
      BY DEF Grown, Priced, Types, Behind
    <3>2. w \in Int /\ v \in Int
      BY <3>1, WorthSplits, WorthIs
    <3> QED
      BY <1>2, <3>2, Parts
  <2>4. \A p, q, x, y, g, h, s \in Int :
          q + y + g = p + x + h /\ p + x = s + g => q + y = s + h
    OBVIOUS
  <2>5. purse'["like"] + v = saved + gifts'["like"]
    <3> HIDE DEF w, v
    <3> QED
      BY ONLY <2>1, <2>2, <2>3, <2>4
  <2> QED
    BY <1>1, <2>5 DEF LikesAreKept
<1>4. CASE effects' = effects
  <2>1. NoEffect(b)
    BY <1>1, <1>4 DEF Settled, Sells, Gives
  <2>2. level' = level /\ gifts' = gifts
    BY <2>1 DEF NoEffect
  <2>3. Net' = Net
    BY <2>2, SameNet
  <2>4. Unheard' = Unheard /\ Due' = Due
    BY <1>1, <1>4 DEF Unheard, Due
  <2>5. Covered' => Covered
    BY <1>1, <1>4 DEF Covered
  <2>6. \A c \in ByServer : Heard(c) => Heard(c)'
    BY <1>1, <2>2, <2>4 DEF Heard
  <2>7. ClientIsKept'
    BY <1>1, <2>3, <2>4, <2>5, <2>6 DEF ClientIsKept
  <2>8. SavesAreKept'
    <3>1. \A q \in wire' : IsSave(q) => q \in wire
      BY <1>1
    <3> QED
      BY <1>4, <2>2, <3>1, SavesStay
  <2> QED
    BY <1>3, <2>7, <2>8
<1>5. CASE effects' = effects \cup {b.seq}
  <2>1. /\ Net' = Net + b.likes
        /\ \A c \in ByServer : level'[c] = level[c] \/ (c \in b.contents /\ b.level = level'[c])
    BY <1>5, NetSettles
  <2>2. Unheard' = Unheard \cup {b} /\ b \notin Unheard
    BY <1>1, <1>5 DEF Unheard
  <2>3. Due' = Due + b.likes
    <3>1. IsFiniteSet(Unheard \cup {b}) /\ \A x \in Unheard \cup {b} : Likes[x] \in Int
      BY <1>2, FS_AddElement
    <3>2. Total(Likes, Unheard \cup {b}) = Likes[b] + Total(Likes, (Unheard \cup {b}) \ {b})
      BY <3>1, TotalRemove
    <3>3. (Unheard \cup {b}) \ {b} = Unheard
      BY <2>2
    <3>4. Due' = Likes[b] + Due
      BY <2>2, <3>2, <3>3 DEF Due
    <3> QED
      BY <1>2, <3>4
  <2>4. Covered' => Covered
    <3>1. ASSUME Covered', NEW s \in effects \ told PROVE \E x \in answers : x.seq = s
      BY <1>1, <1>5, <3>1 DEF Covered
    <3> QED
      BY <3>1 DEF Covered
  <2>5. ASSUME NEW c \in ByServer, Heard(c) PROVE Heard(c)'
    <3>1. CASE level'[c] = level[c]
      BY <1>1, <2>2, <2>5, <3>1 DEF Heard
    <3>2. CASE c \in b.contents /\ b.level = level'[c]
      BY <2>2, <3>2 DEF Heard
    <3> QED
      BY <2>1, <3>1, <3>2
  <2>6. Balance(view) + Due = view.played + Net => Balance(view') + Due' = view'.played + Net'
    <3>1. view' = view
      BY <1>1
    <3>2. \A x, d, p, n, k \in Int : x + d = p + n => x + (d + k) = p + (n + k)
      OBVIOUS
    <3> QED
      BY ONLY <1>2, <2>1, <2>3, <3>1, <3>2
  <2>7. ClientIsKept'
    BY <2>4, <2>5, <2>6 DEF ClientIsKept
  <2>8. SavesAreKept'
    <3>1. \A q \in wire' : ~ (effects' \subseteq q.told)
      BY <1>1, <1>5
    <3> QED
      BY <3>1 DEF SavesAreKept
  <2> QED
    BY <1>3, <2>7, <2>8
<1> QED
  BY <1>1, <1>4, <1>5

LikesInv ==
  /\ Outcomes /\ Raising
  /\ LikesAreKept
  /\ ~ blind => ClientIsKept /\ SavesAreKept

LEMMA LikesInitially ==
  ASSUME Init
  PROVE  LikesInv
<1>1. /\ purse = [c \in Currency |-> 0] /\ level = [c \in Content |-> 0]
      /\ gifts = [c \in Currency |-> 0] /\ wire = {} /\ answers = {} /\ view = NewView
      /\ effects = {} /\ told = {} /\ last = 0 /\ saved = 0
  BY DEF Init
<1>2. Outcomes
  BY <1>1, FS_EmptySet DEF Outcomes
<1>3. view.likes = 0 /\ view.played = 0 /\ \A c \in Saved : view.level[c] = 0 /\ level[c] = 0
  BY <1>1, WalletAssumption DEF NewView
<1>4. Raising
  BY <1>1, <1>3, Parts DEF Raising
<1>5. /\ Total(WorthAt(level), Raised) = 0 /\ Total(WorthAt(level), ByServer) = 0
      /\ Worth("like") = 0
  BY Parts, WorthIs, NothingAtFirst
<1>6. LikesAreKept
  BY <1>1, <1>5, Parts DEF LikesAreKept
<1>7. ClientIsKept
  <2>1. Net = 0
    BY <1>1, <1>5, Parts DEF Net
  <2>2. Total(WorthAt(view.level), Raised) = 0
    <3> DEFINE k == view.level
    <3>1. \A c \in Raised : k[c] = level[c] /\ level[c] \in Nat /\ level[c] <= MaxLevel(c)
      <4> TAKE c \in Raised
      <4>1. c \in Saved /\ c \in Content
        BY Parts
      <4> QED
        BY <1>1, <1>3, <4>1, FirstLevels
    <3>2. Priced(level, Raised)
      BY <3>1 DEF Priced
    <3> HIDE DEF k
    <3>3. Total(WorthAt(k), Raised) = Total(WorthAt(level), Raised)
      BY <3>1, <3>2, Parts, SameWorth
    <3> QED
      BY <1>5, <3>3 DEF k
  <2>3. Due = 0
    <3>1. Unheard = {}
      BY <1>1 DEF Unheard
    <3> QED
      BY <3>1, FS_EmptySet, TotalZero DEF Due
  <2>4. \A c \in ByServer : Heard(c)
    BY <1>3, Parts DEF Heard
  <2> QED
    BY <1>3, <2>1, <2>2, <2>3, <2>4 DEF ClientIsKept, Balance
<1>8. SavesAreKept
  BY <1>1 DEF SavesAreKept
<1> QED
  BY <1>2, <1>4, <1>6, <1>7, <1>8 DEF LikesInv

LEMMA LikesStep ==
  ASSUME RaisedAreNotGiven, IInv, IInv', Valued, Valued', LikesInv, [Next]_vars
  PROVE  LikesInv'
<1>1. /\ Types /\ Advertising /\ OwnedHasLevel /\ Behind /\ gifts \in [Currency -> Int]
      /\ Outcomes /\ Raising /\ LikesAreKept /\ \A r \in wire : r.seq <= issued
      /\ (~ blind => ClientIsKept /\ SavesAreKept)
  BY DEF IInv, Valued, LikesInv, Talking
<1>2. /\ purse' \in [Currency -> Int] /\ saved' \in Int /\ gifts' \in [Currency -> Int]
      /\ Grown
  <2>1. Types' /\ gifts' \in [Currency -> Int]
    BY DEF IInv, Valued
  <2> QED
    BY <1>1, <2>1, LevelsGrow DEF Types
<1>3. Kinds
  BY <1>1, StepKinds
<1>4. Outcomes' /\ Raising'
  BY <1>1, <1>3, OutcomesStep, RaisingStep
<1> DEFINE Kept == LikesAreKept' /\ (~ blind' => ClientIsKept' /\ SavesAreKept')
<1>5. ASSUME Quiet PROVE Kept
  <2>1. LikesAreKept' /\ blind' = blind
    BY <1>1, <1>5 DEF Quiet, LikesAreKept, Worth
  <2> QED
    BY <1>1, <1>5, <2>1, QuietKeeps
<1>6. ASSUME NEW a \in answers, Told(a) \/ Forgets(a)
      PROVE  Kept
  <2>1. UNCHANGED <<wire, purse, level, gifts, saved, blind, effects>>
    BY <1>1, <1>6, AnswersLeft
  <2>2. LikesAreKept'
    BY <1>1, <2>1 DEF LikesAreKept, Worth
  <2>3. ASSUME ~ blind PROVE ClientIsKept' /\ SavesAreKept'
    <3>1. ClientIsKept'
      BY <1>1, <1>6, <2>3, ToldKeeps, ForgottenKeeps
    <3>2. \A r \in wire' : IsSave(r) => r \in wire
      BY <2>1
    <3> QED
      BY <1>1, <2>1, <2>3, <3>1, <3>2, SavesStay
  <2> QED
    BY <2>1, <2>2, <2>3
<1>7. ASSUME Login PROVE Kept
  <2>1. UNCHANGED <<purse, level, gifts, saved, blind>>
    BY <1>1, <1>7, LoginFacts
  <2>2. LikesAreKept'
    BY <1>1, <2>1 DEF LikesAreKept, Worth
  <2> QED
    BY <1>1, <1>7, <2>1, <2>2, LoginKeeps
<1>8. ASSUME NEW r \in wire, UserSave(r)
      PROVE  Kept
  <2>1. CASE blind'
    BY <2>1 DEF LikesAreKept
  <2>2. CASE ~ blind'
    <3>1. ~ blind
      BY <1>8, <2>2 DEF UserSave
    <3> QED
      BY <1>1, <1>2, <1>8, <2>2, <3>1, SaveKeeps
  <2> QED
    BY <2>1, <2>2
<1>9. ASSUME NEW r \in wire, NEW b \in Outcome, Settled(r, b)
      PROVE  Kept
  <2>1. blind' = blind
    BY <1>1, <1>9, SettledFacts
  <2>2. CASE blind
    BY <2>1, <2>2 DEF LikesAreKept
  <2>3. CASE ~ blind
    BY <1>1, <1>2, <1>9, <2>3, CommandKeeps
  <2> QED
    BY <2>2, <2>3
<1>10. Kept
  <2>1. Quiet \/ (\E a \in answers : Told(a) \/ Forgets(a)) \/ Login
        \/ (\E r \in wire : UserSave(r)) \/ \E r \in wire, b \in Outcome : Settled(r, b)
    BY <1>3 DEF Kinds, Quiet
  <2> HIDE DEF Kept
  <2> QED
    BY <1>5, <1>6, <1>7, <1>8, <1>9, <2>1
<1> QED
  BY <1>4, <1>10 DEF LikesInv

(* No content comes free and no reward is lost, unless a save was sent     *)
(* before its client was told what the server had done: for every catalog  *)
(* in which no product holds what the client raises by itself.             *)
THEOREM LikesStay ==
  ASSUME RaisedAreNotGiven
  PROVE  Spec => []LikesAreKept
<1>1. IInv /\ IInv' /\ Valued /\ Valued' /\ LikesInv /\ [Next]_vars => LikesInv'
  BY LikesStep
<1>2. LikesInv => LikesAreKept
  BY DEF LikesInv
<1> QED
  BY <1>1, <1>2, LikesInitially, WalletInvariant, ValueInvariant, PTL DEF Spec

-----------------------------------------------------------------------------
(* Prices.                                                                 *)

(* The steps of a curve taken at the level that follows n - 1 are those at *)
(* level n (StepsTo).                                                      *)
LEMMA NextLevel ==
  ASSUME NEW n \in Int, NEW first \in Int
  PROVE  StepsTo((n - 1) + 1, first) = StepsTo(n, first)
<1>1. (n - 1) + 1 = n
  OBVIOUS
<1> QED
  BY <1>1

(* No step is taken before the first target.                               *)
LEMMA StepsValue ==
  ASSUME NEW n \in Int, NEW first \in Int
  PROVE  StepsTo(n, first) = IF n >= first THEN n - first ELSE 0
<1> DEFINE S == {n - first, 0}
           m == IF n >= first THEN n - first ELSE 0
<1>1. m \in S /\ \A y \in S : m >= y
  OBVIOUS
<1>2. \A x \in S : (\A y \in S : x >= y) => x = m
  OBVIOUS
<1>3. Max(S) \in S /\ \A y \in S : Max(S) >= y
  <2> HIDE DEF S, m
  <2> QED
    BY <1>1 DEF Max
<1>4. Max(S) = m
  <2> HIDE DEF S, m
  <2> QED
    BY <1>2, <1>3
<1> QED
  BY <1>4 DEF StepsTo

(* Their number is one.                                                    *)
LEMMA StepsType ==
  ASSUME NEW n \in Nat, NEW first \in Nat
  PROVE  StepsTo(n, first) \in Nat
<1>1. StepsTo(n, first) = IF n >= first THEN n - first ELSE 0
  BY StepsValue
<1> QED
  BY <1>1

(* A row of the upgrade tables is sold at its published price: the two     *)
(* compute the same increment, or there is none (content_purchase_spec,    *)
(* transform_master_value).                                                *)
LEMMA RowAsShown ==
  ASSUME NEW r \in UpgradeRow, NEW n \in FirstTarget(r) .. r.max,
         SingleDigit(r.goods) \/ r.inc = 0
  PROVE  Charged(r, n - 1) = Shown(r, n)
<1> DEFINE k == StepsTo(n, FirstTarget(r))
<1>0. FirstTarget(r) \in Int /\ r.max \in Int
  BY PricingAssumption DEF FirstTarget
<1>1. n \in Int
  BY <1>0
<1>2. StepsTo((n - 1) + 1, FirstTarget(r)) = k
  BY <1>0, <1>1, NextLevel
<1>3. Charged(r, n - 1) = MappedUpgradeCost(r) + Along(ContentPurchaseSpec(r).inc, k)
  BY <1>2 DEF Charged, ContentPurchaseSpec
<1>4. Shown(r, n) = MappedUpgradeCost(r) + Along(Published(r).inc, k)
  BY DEF Shown, Published
<1>5. CASE SingleDigit(r.goods)
  <2>1. ContentPurchaseSpec(r).inc = Published(r).inc
    BY <1>5 DEF ContentPurchaseSpec, Published
  <2> QED
    BY <1>3, <1>4, <2>1
<1>6. CASE ~ SingleDigit(r.goods) /\ r.inc = 0
  <2>1. ContentPurchaseSpec(r).inc = Flat
    BY <1>6 DEF ContentPurchaseSpec, PremiumIncrement
  <2>2. Published(r).inc = [num |-> 0, den |-> 10]
    BY <1>6 DEF Published
  <2>3. k \in Int
    BY <1>0, <1>1, StepsValue
  <2>4. Along(Flat, k) = Along([num |-> 0, den |-> 10], k)
    BY <2>3 DEF Along, Flat
  <2> QED
    BY <1>3, <1>4, <2>1, <2>2, <2>4
<1> QED
  BY <1>5, <1>6

(* Furniture: the table of levels, the query and the purchase agree        *)
(* (prop_price_curve).                                                     *)
LEMMA PropAsShown ==
  ASSUME NEW p \in DOMAIN PropCost, NEW n \in DOMAIN PropCost[p], PropCost[p][n] > 0
  PROVE  /\ ChargedProp(p, n - 1) = PublishedProp(p, n)
         /\ QueriedProp(p, n - 1) = PublishedProp(p, n)
<1>1. n \in Nat /\ n >= 1
  BY PricingAssumption
<1>2. StepsTo((n - 1) + 1, 1) = StepsTo(n, 1)
  BY <1>1, NextLevel
<1>3. PropCost[p][n] # 0
  BY PricingAssumption
<1>4. StepsTo(n, 1) = n - 1
  BY <1>1, StepsValue
<1> QED
  BY <1>1, <1>2, <1>3, <1>4 DEF ChargedProp, PublishedProp, QueriedProp

(* What the client shows is what it is charged, for every catalog.         *)
THEOREM ChargedAsShown == ShownIsCharged
<1>1. ASSUME NEW o \in Official
      PROVE  /\ ChargedMusic(o) = PublishedUnlock(o)
             /\ \A g \in Goods : CosmeticPriceText(g, o) = PublishedCosmetic(g, o)
  <2>1. (0 + 9) \div 10 = 0
    OBVIOUS
  <2> QED
    BY <2>1 DEF ChargedMusic, PublishedUnlock, CosmeticPriceText, PublishedCosmetic,
      ScaledRequirement
<1> QED
  BY <1>1, RowAsShown, PropAsShown DEF ShownIsCharged

-----------------------------------------------------------------------------
(* Price curves.                                                           *)

(* Where a final price lies among its peers' (premium_upgrade_cap).        *)
LEMMA CapFacts ==
  ASSUME NEW F, IsFiniteSet(F), F \subseteq Nat \ {0}, NEW x \in F
  PROVE  /\ PremiumUpgradeCap(x, F) \in CapMin .. CapMax
         /\ x = Min(F) => PremiumUpgradeCap(x, F) = CapMin
         /\ x = Max(F) /\ Cardinality(F) > 1 => PremiumUpgradeCap(x, F) = CapMax
         /\ \A y \in F : x <= y => PremiumUpgradeCap(x, F) <= PremiumUpgradeCap(y, F)
<1> DEFINE low == Min(F)
           high == Max(F)
           width == high - low
           share(y) == (2 * (CapMax - CapMin) * (y - low) + width) \div (2 * width)
<1>1. /\ low \in F /\ high \in F /\ low \in Nat \ {0} /\ high \in Nat \ {0}
      /\ \A y \in F : y \in Nat \ {0} /\ low <= y /\ y <= high
  <2>1. F \subseteq Nat /\ F # {}
    OBVIOUS
  <2>2. low \in F /\ \A y \in F : low <= y
    BY <2>1, MinOfNaturals
  <2>3. high \in F /\ \A y \in F : y <= high
    BY <2>1, MaxOfFinite
  <2> HIDE DEF low, high
  <2> QED
    BY <2>2, <2>3
<1>2. \A y \in F : PremiumUpgradeCap(y, F) = IF width = 0 THEN CapMin ELSE CapMin + share(y)
  BY <1>1 DEF PremiumUpgradeCap
<1> HIDE DEF low, high
<1>3. CASE width = 0
  <2>1. \A y \in F : y = low
    BY <1>1, <1>3
  <2>2. F = {low}
    BY <1>1, <2>1
  <2>3. Cardinality(F) = 1
    BY <2>2, FS_Singleton
  <2> QED
    BY <1>2, <1>3, <2>3 DEF CapMin, CapMax
<1>4. CASE width # 0
  <2>1. width \in Nat \ {0} /\ 2 * width \in Nat \ {0}
    BY <1>1, <1>4
  <2> HIDE DEF width
  <2>2. \A y \in F : 20 * (y - low) + width \in Nat /\ y - low \in 0 .. width
    <3> SUFFICES ASSUME NEW y \in F
                 PROVE  20 * (y - low) + width \in Nat /\ y - low \in 0 .. width
      OBVIOUS
    <3>1. y \in Nat /\ low <= y /\ y <= high
      BY <1>1
    <3>2. y - low \in 0 .. width
      BY <1>1, <3>1 DEF width
    <3> QED
      BY <2>1, <3>2
  <2>3. \A y \in F : share(y) = (20 * (y - low) + width) \div (2 * width)
    BY <1>1 DEF CapMax, CapMin
  <2> HIDE DEF share
  <2>4. ASSUME NEW y \in F, NEW z \in F, y <= z PROVE share(y) \in Nat /\ share(y) <= share(z)
    <3>1. 20 * (y - low) + width <= 20 * (z - low) + width
      BY <1>1, <2>1, <2>2, <2>4
    <3> QED
      BY <2>1, <2>2, <2>3, <3>1, DivGrows
  <2>5. share(low) = 0
    <3>1. 20 * (low - low) + width = width
      BY <1>1, <2>1
    <3>2. width \div (2 * width) = 0
      BY <2>1, DivIs
    <3> QED
      BY <1>1, <2>3, <3>1, <3>2
  <2>6. share(high) = 10
    <3>1. 20 * (high - low) + width = 21 * width
      BY <1>1, <2>1 DEF width
    <3>2. (21 * width) \div (2 * width) = 10
      BY <2>1, DivIs
    <3> QED
      BY <1>1, <2>3, <3>1, <3>2
  <2>7. \A y \in F : PremiumUpgradeCap(y, F) = 10 + share(y) /\ share(y) \in 0 .. 10
    <3>1. \A y \in F : share(y) \in Nat /\ share(y) <= share(high)
      BY <1>1, <2>4
    <3> QED
      BY <1>2, <1>4, <2>6, <3>1 DEF CapMin
  <2> QED
    BY <1>1, <2>4, <2>5, <2>6, <2>7 DEF CapMin, CapMax, low, high
<1> QED
  BY <1>3, <1>4

(* A curve from 1 at level first to cap at level last.                     *)
RisesTo(cap, curve, first, upto, base) ==
  \A n \in first .. upto :
    curve[n] = 1 + Along(PremiumUpgradeIncrement(upto, base, first, cap), StepsTo(n, first))

(* What a curve charges at the first level, the last and between           *)
(* (premium_upgrade_increment).                                            *)
LEMMA CurveFacts ==
  ASSUME NEW cap \in CapMin .. CapMax, NEW first \in Nat, NEW upto \in Nat, first < upto,
         NEW base \in Nat \ {0}, NEW curve, RisesTo(cap, curve, first, upto, base)
  PROVE  /\ curve[first] = 1 /\ curve[upto] = cap
         /\ \A n \in first .. upto - 1 : curve[n] <= curve[n + 1]
<1>1. cap \in Nat /\ cap - 1 \in Nat /\ upto - first \in Nat \ {0}
  BY DEF CapMin, CapMax
<1>2. PremiumUpgradeIncrement(upto, base, first, cap) = [num |-> cap - 1, den |-> upto - first]
  BY DEF PremiumUpgradeIncrement
<1>3. ASSUME NEW n \in first .. upto
      PROVE  curve[n] = 1 + ((cap - 1) * (n - first)) \div (upto - first)
  <2>1. StepsTo(n, first) = n - first
    BY StepsValue
  <2> QED
    BY <1>2, <2>1 DEF Along, RisesTo
<1>4. curve[first] = 1
  <2>1. (cap - 1) * (first - first) = 0 /\ 0 \div (upto - first) = 0
    BY <1>1, DivIs
  <2> QED
    BY <1>3, <2>1
<1>5. curve[upto] = cap
  <2>1. ((cap - 1) * (upto - first)) \div (upto - first) = cap - 1
    BY <1>1, DivWhole
  <2> QED
    BY <1>1, <1>3, <2>1
<1>6. ASSUME NEW n \in first .. upto - 1 PROVE curve[n] <= curve[n + 1]
  <2> DEFINE j == n - first
             k == (n + 1) - first
  <2>1. n \in first .. upto /\ n + 1 \in first .. upto /\ j \in Nat /\ k \in Nat /\ j <= k
    OBVIOUS
  <2>2. curve[n] = 1 + ((cap - 1) * j) \div (upto - first)
    BY <1>3, <2>1
  <2>3. curve[n + 1] = 1 + ((cap - 1) * k) \div (upto - first)
    BY <1>3, <2>1
  <2> HIDE DEF j, k
  <2>4. (cap - 1) * j \in Nat /\ (cap - 1) * k \in Nat /\ (cap - 1) * j <= (cap - 1) * k
    BY <1>1, <2>1, ProductGrows
  <2>5. /\ ((cap - 1) * j) \div (upto - first) \in Nat /\ ((cap - 1) * k) \div (upto - first) \in Nat
        /\ ((cap - 1) * j) \div (upto - first) <= ((cap - 1) * k) \div (upto - first)
    BY <1>1, <2>4, DivGrows
  <2> QED
    BY <2>2, <2>3, <2>5
<1> QED
  BY <1>4, <1>5, <1>6

(* So a premium curve is fair, whatever its peers.                         *)
LEMMA CurveIsFair ==
  ASSUME NEW F, IsFiniteSet(F), F \subseteq Nat \ {0}, NEW x \in F,
         NEW first \in Nat, NEW upto \in Nat, first < upto, NEW base \in Nat \ {0}, NEW curve,
         RisesTo(PremiumUpgradeCap(x, F), curve, first, upto, base)
  PROVE  Fair(curve, first, upto, x, F) /\ curve[upto] = PremiumUpgradeCap(x, F)
<1>1. PremiumUpgradeCap(x, F) \in CapMin .. CapMax
  BY CapFacts
<1>2. /\ curve[first] = 1 /\ curve[upto] = PremiumUpgradeCap(x, F)
      /\ \A n \in first .. upto - 1 : curve[n] <= curve[n + 1]
  BY <1>1, CurveFacts
<1> QED
  BY <1>1, <1>2, CapFacts DEF Fair

(* Final prices of rows are numbers, those on a curve not zero.            *)
LEMMA FinalPriceType ==
  ASSUME NEW r \in UpgradeRow
  PROVE  FinalPrice(r) \in Nat /\ (r.cost > 0 => FinalPrice(r) > 0)
<1>1. r.cost \in Nat /\ r.inc \in Nat /\ r.max \in Nat /\ FirstTarget(r) \in Nat
  BY PricingAssumption DEF FirstTarget
<1>2. StepsTo(r.max, FirstTarget(r)) \in Nat
  BY <1>1, StepsType
<1>3. StepsTo(r.max, FirstTarget(r)) * r.inc \in Nat
  BY <1>1, <1>2
<1> QED
  BY <1>1, <1>3 DEF FinalPrice

(* The final prices a row is placed among.                                 *)
Finals(r) == {FinalPrice(q) : q \in Peers(r)}

(* The peers' final prices are finitely many.                              *)
LEMMA FinalsFinite ==
  ASSUME NEW r
  PROVE  IsFiniteSet(Finals(r)) /\ Finals(r) \subseteq Nat \ {0}
<1> DEFINE f == [q \in Peers(r) |-> FinalPrice(q)]
<1>1. IsFiniteSet(Peers(r))
  BY PricingAssumption, FS_Subset DEF Peers
<1>2. Finals(r) = {f[q] : q \in Peers(r)} /\ f = [x \in Peers(r) |-> f[x]]
  BY DEF Finals
<1> HIDE DEF f
<1>3. IsFiniteSet(Finals(r))
  BY <1>1, <1>2, FiniteImage
<1> QED
  BY <1>3, FinalPriceType DEF Finals, Peers

(* The curve of a skill or a unit.                                         *)
LEMMA RowIsFair ==
  ASSUME NEW r \in UpgradeRow, OnCurve(r)
  PROVE  /\ Fair(RowCurve(r), FirstTarget(r), r.max, FinalPrice(r), Finals(r))
         /\ RowCurve(r)[r.max] = PremiumUpgradeCap(FinalPrice(r), Finals(r))
<1>1. /\ r.cost \in Nat \ {0} /\ r.max \in Nat /\ FirstTarget(r) \in Nat
      /\ FirstTarget(r) < r.max /\ SingleDigit(r.goods) /\ r.table # "Follower"
  BY PricingAssumption DEF OnCurve, FirstTarget
<1>2. IsFiniteSet(Finals(r)) /\ Finals(r) \subseteq Nat \ {0}
  BY FinalsFinite
<1>3. FinalPrice(r) \in Finals(r)
  BY <1>1 DEF Finals, Peers
<1>4. RisesTo(PremiumUpgradeCap(FinalPrice(r), Finals(r)),
              RowCurve(r), FirstTarget(r), r.max, r.cost)
  <2> SUFFICES ASSUME NEW n \in FirstTarget(r) .. r.max
               PROVE  RowCurve(r)[n]
                      = 1 + Along(PremiumUpgradeIncrement(r.max, r.cost, FirstTarget(r),
                                    PremiumUpgradeCap(FinalPrice(r), Finals(r))),
                                  StepsTo(n, FirstTarget(r)))
    BY DEF RisesTo
  <2>1. RowCurve(r)[n] = Charged(r, n - 1)
    BY DEF RowCurve
  <2>2. MappedUpgradeCost(r) = 1
    BY <1>1 DEF MappedUpgradeCost
  <2>3. ContentPurchaseSpec(r).price = 1 /\ ContentPurchaseSpec(r).inc = PremiumIncrement(r)
    BY <1>1, <2>2 DEF ContentPurchaseSpec
  <2>4. PremiumIncrement(r) = PremiumUpgradeIncrement(r.max, r.cost, FirstTarget(r), Cap(r))
    BY <1>1 DEF PremiumIncrement
  <2>5. StepsTo((n - 1) + 1, FirstTarget(r)) = StepsTo(n, FirstTarget(r))
    BY <1>1, NextLevel
  <2> QED
    BY <2>1, <2>3, <2>4, <2>5 DEF Charged, Cap, Finals
<1> HIDE DEF RowCurve
<1> QED
  BY <1>1, <1>2, <1>3, <1>4, CurveIsFair

(* The price of furniture's dearest level.                                 *)
LEMMA TopCostType ==
  ASSUME NEW p \in DOMAIN PropCost
  PROVE  TopCost(p) \in Nat
<1> DEFINE S == {PropCost[p][i] : i \in DOMAIN PropCost[p]}
<1>1. PropCost[p] \in Seq(Nat) /\ PropCost[p] # <<>>
  BY PricingAssumption
<1>2. DOMAIN PropCost[p] = 1 .. Len(PropCost[p]) /\ Len(PropCost[p]) \in Nat
  BY <1>1
<1>3. S \subseteq Nat /\ S # {}
  BY <1>1, <1>2
<1>4. IsFiniteSet(S)
  <2>1. IsFiniteSet(DOMAIN PropCost[p])
    BY <1>2, FS_Interval
  <2>2. PropCost[p] = [i \in DOMAIN PropCost[p] |-> PropCost[p][i]]
    BY <1>1
  <2> QED
    BY <2>1, <2>2, FiniteImage
<1>5. Max(S) \in S
  <2> HIDE DEF S
  <2> QED
    BY <1>3, <1>4, MaxOfFinite
<1> QED
  BY <1>3, <1>5 DEF TopCost

(* What furniture is placed among; it is finite.                           *)
Tops == {TopCost(q) : q \in Furniture}

LEMMA TopsFinite == IsFiniteSet(Tops) /\ Tops \subseteq Nat \ {0}
<1> DEFINE f == [q \in Furniture |-> TopCost(q)]
<1>1. IsFiniteSet(Furniture)
  BY PricingAssumption, FS_Subset DEF Furniture
<1>2. Tops = {f[q] : q \in Furniture} /\ f = [x \in Furniture |-> f[x]]
  BY DEF Tops
<1> HIDE DEF f
<1>3. IsFiniteSet(Tops)
  BY <1>1, <1>2, FiniteImage
<1> QED
  BY <1>3, TopCostType DEF Tops, Furniture

(* The curve of furniture (prop_price_curve).                              *)
LEMMA PropIsFair ==
  ASSUME NEW p \in Furniture, Len(PropCost[p]) > 1
  PROVE  /\ Fair(PropCurve(p), 1, Len(PropCost[p]), TopCost(p), Tops)
         /\ PropCurve(p)[Len(PropCost[p])] = PremiumUpgradeCap(TopCost(p), Tops)
<1> DEFINE upto == Len(PropCost[p])
<1>1. /\ p \in DOMAIN PropCost /\ upto \in Nat /\ 1 < upto
      /\ DOMAIN PropCost[p] = 1 .. upto /\ TopCost(p) \in Nat \ {0}
  BY PricingAssumption, TopCostType DEF Furniture
<1>2. IsFiniteSet(Tops) /\ Tops \subseteq Nat \ {0}
  BY TopsFinite
<1>3. TopCost(p) \in Tops
  BY DEF Tops
<1>4. Tops = {TopCost(q) : q \in DOMAIN PropCost} \ {0}
  BY TopCostType DEF Tops, Furniture
<1>5. RisesTo(PremiumUpgradeCap(TopCost(p), Tops), PropCurve(p), 1, upto, TopCost(p))
  <2> SUFFICES ASSUME NEW n \in 1 .. upto
               PROVE  PropCurve(p)[n]
                      = 1 + Along(PremiumUpgradeIncrement(upto, TopCost(p), 1,
                                    PremiumUpgradeCap(TopCost(p), Tops)), StepsTo(n, 1))
    BY DEF RisesTo
  <2>1. PropCurve(p)[n] = ChargedProp(p, n - 1)
    BY <1>1 DEF PropCurve
  <2>2. StepsTo((n - 1) + 1, 1) = StepsTo(n, 1)
    BY NextLevel
  <2> QED
    BY <1>4, <2>1, <2>2 DEF ChargedProp, PropPriceCurve
<1> HIDE DEF upto, PropCurve
<1>6. Fair(PropCurve(p), 1, upto, TopCost(p), Tops)
      /\ PropCurve(p)[upto] = PremiumUpgradeCap(TopCost(p), Tops)
  <2>1. PICK first \in Nat : first = 1
    OBVIOUS
  <2>2. first < upto /\ RisesTo(PremiumUpgradeCap(TopCost(p), Tops), PropCurve(p), first, upto, TopCost(p))
    BY <1>1, <1>5, <2>1
  <2>3. /\ Fair(PropCurve(p), first, upto, TopCost(p), Tops)
        /\ PropCurve(p)[upto] = PremiumUpgradeCap(TopCost(p), Tops)
    <3>1. PremiumUpgradeCap(TopCost(p), Tops) \in CapMin .. CapMax
      BY <1>2, <1>3, CapFacts
    <3>2. upto \in Nat /\ TopCost(p) \in Nat \ {0}
      BY <1>1
    <3>3. /\ PropCurve(p)[first] = 1 /\ PropCurve(p)[upto] = PremiumUpgradeCap(TopCost(p), Tops)
          /\ \A n \in first .. upto - 1 : PropCurve(p)[n] <= PropCurve(p)[n + 1]
      BY <2>2, <3>1, <3>2, CurveFacts
    <3> QED
      BY <1>2, <1>3, <3>1, <3>3, CapFacts DEF Fair
  <2> QED
    BY <2>1, <2>3
<1> QED
  BY <1>6 DEF upto

(* Curves are fair, for every catalog.                                     *)
LEMMA AllCurvesAreFair == CurvesAreFair
<1>1. ASSUME NEW r \in UpgradeRow, OnCurve(r)
      PROVE  LET peers == {q \in UpgradeRow : q.cost > 0 /\ <<q.table, q.area, q.goods>>
                                                     = <<r.table, r.area, r.goods>>}
             IN /\ Fair(RowCurve(r), FirstTarget(r), r.max, FinalPrice(r), {FinalPrice(q) : q \in peers})
                /\ \A q \in {x \in peers : OnCurve(x)} :
                     FinalPrice(r) <= FinalPrice(q) => RowCurve(r)[r.max] <= RowCurve(q)[q.max]
  <2> DEFINE peers == {q \in UpgradeRow : q.cost > 0 /\ <<q.table, q.area, q.goods>>
                                                     = <<r.table, r.area, r.goods>>}
  <2>1. peers = Peers(r)
    BY DEF Peers
  <2> HIDE DEF peers
  <2>2. ASSUME NEW q \in Peers(r), OnCurve(q), FinalPrice(r) <= FinalPrice(q)
        PROVE  RowCurve(r)[r.max] <= RowCurve(q)[q.max]
    <3>1. Peers(q) = Peers(r) /\ q \in UpgradeRow
      BY <2>2 DEF Peers
    <3>2. Finals(q) = Finals(r)
      BY <3>1 DEF Finals
    <3>3. IsFiniteSet(Finals(r)) /\ Finals(r) \subseteq Nat \ {0}
      BY FinalsFinite
    <3>4. FinalPrice(r) \in Finals(r) /\ FinalPrice(q) \in Finals(r)
      <4>1. r \in Peers(r)
        BY <1>1 DEF Peers, OnCurve
      <4> QED
        BY <2>2, <4>1 DEF Finals
    <3>5. PremiumUpgradeCap(FinalPrice(r), Finals(r)) <= PremiumUpgradeCap(FinalPrice(q), Finals(r))
      BY <2>2, <3>3, <3>4, CapFacts
    <3> QED
      BY <1>1, <2>2, <3>1, <3>2, <3>5, RowIsFair
  <2>3. Fair(RowCurve(r), FirstTarget(r), r.max, FinalPrice(r), {FinalPrice(q) : q \in peers})
    BY <1>1, <2>1, RowIsFair DEF Finals
  <2> QED
    BY <2>1, <2>2, <2>3 DEF peers
<1>2. ASSUME NEW p \in Furniture, NEW q \in Furniture, Len(PropCost[p]) > 1, Len(PropCost[q]) > 1,
             TopCost(p) <= TopCost(q)
      PROVE  PropCurve(p)[Len(PropCost[p])] <= PropCurve(q)[Len(PropCost[q])]
  <2>1. IsFiniteSet(Tops) /\ Tops \subseteq Nat \ {0}
    BY TopsFinite
  <2>2. TopCost(p) \in Tops /\ TopCost(q) \in Tops
    BY DEF Tops
  <2>3. PremiumUpgradeCap(TopCost(p), Tops) <= PremiumUpgradeCap(TopCost(q), Tops)
    BY <1>2, <2>1, <2>2, CapFacts
  <2> QED
    BY <1>2, <2>3, PropIsFair
<1>3. \A p \in {x \in Furniture : Len(PropCost[x]) > 1} :
        /\ Fair(PropCurve(p), 1, Len(PropCost[p]), TopCost(p), {TopCost(q) : q \in Furniture})
        /\ \A q \in {x \in Furniture : Len(PropCost[x]) > 1} :
             TopCost(p) <= TopCost(q)
             => PropCurve(p)[Len(PropCost[p])] <= PropCurve(q)[Len(PropCost[q])]
  BY <1>2, PropIsFair DEF Tops
<1> QED
  BY <1>1, <1>3 DEF CurvesAreFair

-----------------------------------------------------------------------------
(* The overlay of the free shop.                                           *)

(* What the policy gives is a list.                                        *)
LEMMA ManifestType ==
  ASSUME NEW i \in Product
  PROVE  /\ Manifest[i] \in Seq(Grant) /\ Len(Manifest[i]) \in Nat
         /\ DOMAIN Manifest[i] = 1 .. Len(Manifest[i])
<1>1. Manifest[i] \in Seq(Grant)
  BY OverlayAssumption
<1> QED
  BY <1>1

(* The rewards of a product, numbered as the policy lists them.            *)
LEMMA RewardCount ==
  ASSUME NEW i \in Product, NEW k \in Nat, k <= Len(Manifest[i])
  PROVE  Cardinality({[group |-> i, no |-> j, grant |-> Manifest[i][j]] : j \in 1 .. k}) = k
<1> DEFINE row == [j \in 1 .. k |-> [group |-> i, no |-> j, grant |-> Manifest[i][j]]]
<1>1. \A x, y \in 1 .. k : row[x] = row[y] => x = y
  <2> SUFFICES ASSUME NEW x \in 1 .. k, NEW y \in 1 .. k, row[x] = row[y]
               PROVE  x = y
    OBVIOUS
  <2>1. row[x].no = x /\ row[y].no = y
    OBVIOUS
  <2> QED
    BY <2>1
<1>2. {[group |-> i, no |-> j, grant |-> Manifest[i][j]] : j \in 1 .. k} = {row[j] : j \in 1 .. k}
  OBVIOUS
<1>3. row = [j \in 1 .. k |-> row[j]]
  OBVIOUS
<1>4. IsFiniteSet(1 .. k) /\ Cardinality(1 .. k) = k
  BY FS_Interval
<1> HIDE DEF row
<1>5. Cardinality({row[j] : j \in 1 .. k}) = Cardinality(1 .. k)
  BY <1>1, <1>3, <1>4, InjectiveImage
<1> QED
  BY <1>2, <1>4, <1>5

(* Counting the rows before a row finds its place in that list.            *)
LEMMA RewardRowsInOrder ==
  ASSUME NEW i \in Product
  PROVE  SameInOrder(RewardRows(i), Manifest[i])
<1> DEFINE n == Len(Manifest[i])
           Rows(k) == {[group |-> i, no |-> j, grant |-> Manifest[i][j]] : j \in 1 .. k}
<1>1. n \in Nat /\ DOMAIN Manifest[i] = 1 .. n
  BY ManifestType
<1>2. RewardRows(i) = Rows(n)
  BY <1>1 DEF RewardRows
<1>3. Cardinality(RewardRows(i)) = n
  BY <1>1, <1>2, RewardCount
<1>4. ASSUME NEW w \in RewardRows(i)
      PROVE  w.grant = Manifest[i][1 + Cardinality({v \in RewardRows(i) : v.no < w.no})]
  <2>1. PICK k \in 1 .. n : w = [group |-> i, no |-> k, grant |-> Manifest[i][k]]
    BY <1>1, <1>2
  <2>2. {v \in Rows(n) : v.no < w.no} = Rows(k - 1)
    <3>1. w.no = k
      BY <2>1
    <3>2. ASSUME NEW v \in Rows(n), v.no < k PROVE v \in Rows(k - 1)
      <4>1. PICK j \in 1 .. n : v = [group |-> i, no |-> j, grant |-> Manifest[i][j]]
        OBVIOUS
      <4>2. v.no = j
        BY <4>1
      <4>3. j \in 1 .. k - 1
        BY <1>1, <3>2, <4>2
      <4> QED
        BY <4>1, <4>3
    <3>3. ASSUME NEW v \in Rows(k - 1) PROVE v \in Rows(n) /\ v.no < k
      <4>1. PICK j \in 1 .. k - 1 : v = [group |-> i, no |-> j, grant |-> Manifest[i][j]]
        OBVIOUS
      <4>2. v.no = j /\ j < k /\ j \in 1 .. n
        BY <1>1, <4>1
      <4> QED
        BY <4>1, <4>2
    <3> HIDE DEF Rows
    <3> QED
      BY <3>1, <3>2, <3>3
  <2>3. k - 1 \in Nat /\ k - 1 <= n
    BY <1>1
  <2>4. Cardinality(Rows(k - 1)) = k - 1
    BY <2>3, RewardCount
  <2>5. 1 + (k - 1) = k
    OBVIOUS
  <2>6. w.grant = Manifest[i][k]
    BY <2>1
  <2> HIDE DEF Rows
  <2> QED
    BY <1>2, <2>2, <2>4, <2>5, <2>6
<1> QED
  BY <1>3, <1>4 DEF SameInOrder

(* As many numbers are published as the list has rewards.                  *)
LEMMA PlacesCount ==
  ASSUME NEW i \in Product
  PROVE  Cardinality({<<i, k>> : k \in DOMAIN Manifest[i]}) = Len(Manifest[i])
<1> DEFINE n == Len(Manifest[i])
           S == 1 .. n
           place == [k \in S |-> <<i, k>>]
<1>1. n \in Nat /\ DOMAIN Manifest[i] = 1 .. n
  BY ManifestType
<1>2. {<<i, k>> : k \in DOMAIN Manifest[i]} = {place[k] : k \in S}
  BY <1>1
<1>3. /\ place = [k \in S |-> place[k]]
      /\ \A x, y \in S : place[x] = place[y] => x = y
  OBVIOUS
<1>4. IsFiniteSet(S) /\ Cardinality(S) = n
  BY <1>1, FS_Interval
<1> HIDE DEF place, S, n
<1>5. Cardinality({place[k] : k \in S}) = n
  BY <1>3, <1>4, InjectiveImage
<1> QED
  BY <1>2, <1>5 DEF n

(* As many rows are added as there are products.                           *)
LEMMA ShopRowCount == Cardinality({ShopRow(i) : i \in Product}) = Cardinality(Product)
<1> DEFINE row == [i \in Product |-> ShopRow(i)]
<1>1. IsFiniteSet(Product)
  BY OverlayAssumption, FS_Subset DEF Id
<1>2. {ShopRow(i) : i \in Product} = {row[i] : i \in Product} /\ row = [i \in Product |-> row[i]]
  OBVIOUS
<1>3. \A x, y \in Product : row[x] = row[y] => x = y
  <2> SUFFICES ASSUME NEW x \in Product, NEW y \in Product, row[x] = row[y]
               PROVE  x = y
    OBVIOUS
  <2>1. row[x].id = x /\ row[y].id = y
    BY DEF ShopRow
  <2> QED
    BY <2>1
<1> HIDE DEF row
<1>4. Cardinality({row[i] : i \in Product}) = Cardinality(Product)
  BY <1>1, <1>2, <1>3, InjectiveImage
<1> QED
  BY <1>2, <1>4

(* A file holds at most one row under an id.                               *)
LEMMA FileFacts ==
  ASSUME NEW f \in Files
  PROVE  \A s \in f.shops, t \in f.shops : s.id = t.id => s = t
<1>1. PICK terms \in [Id -> {"none", "free", "sold"}] : f.shops = ShopRows(terms)
  BY DEF Files
<1> SUFFICES ASSUME NEW s \in f.shops, NEW t \in f.shops, s.id = t.id
             PROVE  s = t
  OBVIOUS
<1>2. PICK i \in Id : s = [id |-> i, terms |-> terms[i]]
  BY <1>1 DEF ShopRows
<1>3. PICK j \in Id : t = [id |-> j, terms |-> terms[j]]
  BY <1>1 DEF ShopRows
<1> QED
  BY <1>2, <1>3

(* What a start that adds the products makes of master data without them.  *)
Extended(l) ==
  LET rows == UNION {RewardRows(i) : i \in Product} IN
  [shops |-> l.shops \cup {ShopRow(i) : i \in Product},
   rewards |-> l.rewards \cup rows,
   shopTable |-> l.shopTable \cup Product,
   rewardTable |-> l.rewardTable \cup {<<w.group, w.no>> : w \in rows}]

(* A file without rows of the policy's has none of its tables' either.     *)
LEMMA UntreatedIsVacant ==
  ASSUME NEW shops, NEW rewards, ~ Existing(Load(shops, rewards))
  PROVE  /\ Vacant(Load(shops, rewards))
         /\ \A s \in shops : s.id \notin Product
         /\ \A w \in rewards : w.group \notin Product
<1>1. /\ \A s \in shops : s.id \notin Product
      /\ \A w \in rewards : w.group \notin Product
  BY DEF Existing, Load
<1>2. ASSUME NEW i \in Product
      PROVE  /\ \A s \in shops : s.id # i
             /\ i \notin {s.id : s \in shops}
             /\ OfGroup(rewards, i) = {}
             /\ \A w \in {<<v.group, v.no>> : v \in rewards} : w[1] # i
  BY <1>1 DEF OfGroup
<1> QED
  BY <1>1, <1>2 DEF Vacant, Load

(* With the products added the master data is complete: another start takes*)
(* it as it is.                                                            *)
LEMMA ExtendedIsComplete ==
  ASSUME NEW shops, NEW rewards, ~ Existing(Load(shops, rewards)),
         NEW m, m = Extended(Load(shops, rewards))
  PROVE  /\ m # Refused /\ Existing(m) /\ Complete(m) /\ m = Load(m.shops, m.rewards)
         /\ \A i \in Product :
              /\ {s \in m.shops : s.id = i} = {ShopRow(i)} /\ i \in m.shopTable
              /\ SameInOrder(OfGroup(m.rewards, i), Manifest[i])
         /\ {s \in m.shops : s.id \in Other} = {s \in shops : s.id \in Other}
         /\ \A i \in Other : OfGroup(m.rewards, i) = OfGroup(rewards, i)
<1> DEFINE rows == UNION {RewardRows(i) : i \in Product}
           sold == {ShopRow(i) : i \in Product}
<1>1. /\ m.shops = shops \cup sold /\ m.rewards = rewards \cup rows
      /\ m.shopTable = {s.id : s \in shops} \cup Product
      /\ m.rewardTable = {<<w.group, w.no>> : w \in rewards} \cup {<<w.group, w.no>> : w \in rows}
      /\ m = [shops |-> m.shops, rewards |-> m.rewards,
              shopTable |-> m.shopTable, rewardTable |-> m.rewardTable]
  BY DEF Extended, Load
<1>2. /\ \A s \in shops : s.id \notin Product
      /\ \A w \in rewards : w.group \notin Product
  BY UntreatedIsVacant
<1>3. /\ \A i \in Product : ShopRow(i) \in sold /\ ShopRow(i).id = i
      /\ \A s \in sold : s.id \in Product /\ s = ShopRow(s.id)
  BY DEF ShopRow
<1>4. \A w \in rows : w.group \in Product /\ w \in RewardRows(w.group)
  BY DEF RewardRows
<1>5. \A i \in Product : \A w \in RewardRows(i) : w \in rows /\ w.group = i
  BY DEF RewardRows
<1>6. {s.id : s \in sold} = Product
  <2> HIDE DEF sold
  <2> QED
    BY <1>3
<1> HIDE DEF rows, sold
<1>7. m.shopTable = {s.id : s \in m.shops}
  BY <1>1, <1>6
<1>8. m.rewardTable = {<<w.group, w.no>> : w \in m.rewards}
  BY <1>1
<1>9. m = Load(m.shops, m.rewards)
  BY <1>1, <1>7, <1>8 DEF Load
<1>10. ASSUME NEW i \in Product
       PROVE  /\ {s \in m.shops : s.id = i} = {ShopRow(i)} /\ i \in m.shopTable
              /\ OfGroup(m.rewards, i) = RewardRows(i)
  <2>1. {s \in m.shops : s.id = i} = {ShopRow(i)}
    BY <1>1, <1>2, <1>3
  <2>2. OfGroup(m.rewards, i) = RewardRows(i)
    BY <1>1, <1>2, <1>4, <1>5 DEF OfGroup
  <2> QED
    BY <1>1, <2>1, <2>2
<1>11. /\ {s \in m.shops : s.id \in Other} = {s \in shops : s.id \in Other}
       /\ \A i \in Other : OfGroup(m.rewards, i) = OfGroup(rewards, i)
  BY <1>1, <1>3, <1>4, OverlayAssumption DEF OfGroup
<1>12. \A i \in Product : SameInOrder(OfGroup(m.rewards, i), Manifest[i])
  BY <1>10, RewardRowsInOrder
<1>13. Existing(m) /\ m # Refused
  <2>1. PICK i \in Product : TRUE
    BY OverlayAssumption
  <2>2. ShopRow(i) \in m.shops /\ ShopRow(i).id \in Product
    BY <1>1, <1>3
  <2> QED
    BY <2>2 DEF Existing, Refused
<1>14. Complete(m)
  <2>1. {s \in m.shops : s.id \in Product} = sold
    BY <1>1, <1>2, <1>3
  <2>2. Cardinality(sold) = Cardinality(Product)
    BY ShopRowCount DEF sold
  <2>3. ASSUME NEW i \in Product
        PROVE  Cardinality({w \in m.rewardTable : w[1] = i}) = Len(Manifest[i])
    <3>1. {w \in m.rewardTable : w[1] = i} = {<<w.group, w.no>> : w \in OfGroup(m.rewards, i)}
      BY <1>8 DEF OfGroup
    <3>2. {<<w.group, w.no>> : w \in RewardRows(i)} = {<<i, k>> : k \in DOMAIN Manifest[i]}
      <4>1. ASSUME NEW k \in DOMAIN Manifest[i]
            PROVE  \E w \in RewardRows(i) : <<i, k>> = <<w.group, w.no>>
        <5> DEFINE w == [group |-> i, no |-> k, grant |-> Manifest[i][k]]
        <5>1. w \in RewardRows(i) /\ w.group = i /\ w.no = k
          BY DEF RewardRows
        <5> HIDE DEF w
        <5> QED
          BY <5>1
      <4>2. ASSUME NEW w \in RewardRows(i)
            PROVE  w.group = i /\ w.no \in DOMAIN Manifest[i]
        BY DEF RewardRows
      <4> QED
        BY <4>1, <4>2
    <3> QED
      BY <1>10, <3>1, <3>2, PlacesCount
  <2>4. \A i \in Product : ShopRow(i) \in m.shops
    BY <1>1, <1>3
  <2> QED
    BY <1>10, <1>12, <2>1, <2>2, <2>3, <2>4 DEF Complete
<1> QED
  BY <1>9, <1>10, <1>11, <1>12, <1>13, <1>14

(* The free shop is whole, for every file.                                 *)
LEMMA FreeShopIsAlwaysWhole == FreeShopIsWhole
<1> SUFFICES ASSUME NEW f \in Files
             PROVE  LET loaded == Load(f.shops, f.rewards)
                        m == ApplyMemorialShopPolicy(loaded)
                    IN
                    /\ m = Refused => Existing(loaded)
                    /\ m # Refused =>
                         /\ \A i \in Product :
                              /\ {s \in m.shops : s.id = i} = {ShopRow(i)} /\ i \in m.shopTable
                              /\ SameInOrder(OfGroup(m.rewards, i), Manifest[i])
                         /\ m.shopTable = {s.id : s \in m.shops}
                         /\ m.rewardTable = {<<w.group, w.no>> : w \in m.rewards}
                         /\ {s \in m.shops : s.id \in Other} = {s \in f.shops : s.id \in Other}
                         /\ \A i \in Other : OfGroup(m.rewards, i) = OfGroup(f.rewards, i)
                         /\ ApplyMemorialShopPolicy(m) = m
                         /\ ApplyMemorialShopPolicy(Load(m.shops, m.rewards)) = m
  BY DEF FreeShopIsWhole
<1> DEFINE loaded == Load(f.shops, f.rewards)
           m == ApplyMemorialShopPolicy(loaded)
<1>1. /\ loaded.shops = f.shops /\ loaded.rewards = f.rewards
      /\ loaded.shopTable = {s.id : s \in f.shops}
      /\ loaded.rewardTable = {<<w.group, w.no>> : w \in f.rewards}
  BY DEF Load
<1>2. CASE Existing(loaded) /\ ~ Complete(loaded)
  BY <1>2 DEF ApplyMemorialShopPolicy
<1>3. CASE Existing(loaded) /\ Complete(loaded)
  <2>1. m = loaded
    BY <1>3 DEF ApplyMemorialShopPolicy
  <2>2. ASSUME NEW i \in Product
        PROVE  {s \in f.shops : s.id = i} = {ShopRow(i)}
    <3>1. ShopRow(i) \in f.shops /\ ShopRow(i).id = i
      BY <1>1, <1>3 DEF Complete, ShopRow
    <3> QED
      BY <3>1, FileFacts
  <2>3. \A i \in Product : i \in loaded.shopTable /\ SameInOrder(OfGroup(loaded.rewards, i), Manifest[i])
    BY <1>3 DEF Complete
  <2> HIDE DEF m
  <2> QED
    BY <1>1, <1>3, <2>1, <2>2, <2>3 DEF m
<1>4. CASE ~ Existing(loaded)
  <2>1. Vacant(loaded)
    BY <1>4, UntreatedIsVacant
  <2>2. m = Extended(loaded)
    BY <1>4, <2>1 DEF ApplyMemorialShopPolicy, Extended
  <2> HIDE DEF m
  <2>3. /\ m # Refused /\ Existing(m) /\ Complete(m) /\ m = Load(m.shops, m.rewards)
        /\ \A i \in Product :
             /\ {s \in m.shops : s.id = i} = {ShopRow(i)} /\ i \in m.shopTable
             /\ SameInOrder(OfGroup(m.rewards, i), Manifest[i])
        /\ {s \in m.shops : s.id \in Other} = {s \in f.shops : s.id \in Other}
        /\ \A i \in Other : OfGroup(m.rewards, i) = OfGroup(f.rewards, i)
    BY <1>4, <2>2, ExtendedIsComplete
  <2>4. ApplyMemorialShopPolicy(m) = m
    BY <2>3 DEF ApplyMemorialShopPolicy
  <2>5. m.shopTable = {s.id : s \in m.shops} /\ m.rewardTable = {<<w.group, w.no>> : w \in m.rewards}
    <3>1. /\ Load(m.shops, m.rewards).shopTable = {s.id : s \in m.shops}
          /\ Load(m.shops, m.rewards).rewardTable = {<<w.group, w.no>> : w \in m.rewards}
      BY DEF Load
    <3> QED
      BY <2>3, <3>1
  <2> QED
    BY <2>3, <2>4, <2>5 DEF m
<1> QED
  BY <1>2, <1>3, <1>4

(* For every catalog and every file a start may find: what a player is     *)
(* shown is what is charged, premium curves rise from 1 to between 10 and  *)
(* 20 in the order of their peers, and a server that starts sells each     *)
(* free product once, with its rewards, and nothing else differently.      *)
THEOREM PricesAreRight == Spec => []PricesHold
<1>1. PricesHold
  BY ChargedAsShown, AllCurvesAreFair, FreeShopIsAlwaysWhole DEF PricesHold
<1> QED
  BY <1>1, PTL
=============================================================================
