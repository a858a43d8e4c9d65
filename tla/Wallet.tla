------------------------------- MODULE Wallet -------------------------------
(***************************************************************************)
(* What a save slot owns: balances, contents and a conversation.  The      *)
(* client plays on a copy of its own and writes it back by userSave; the   *)
(* server sells and grants in transactions.  Both write the same rows.     *)
(*                                                                         *)
(* Chapter 1's likes belong to the client: a save replaces them.  Candy    *)
(* belongs to the server.  Levels are merged by the greater.  A command    *)
(* takes effect at most once and in sequence order, which RpcSession       *)
(* shows; an answer may be lost and asked for again.                       *)
(***************************************************************************)
EXTENDS Integers, Sequences, FiniteSets, FiniteSetsExt

CONSTANTS
  Content,      \* costumes, props, followers, ...
  CurrencyOf,   \* content -> what it is paid with
  Price,        \* content -> the price of each of its levels
  Sold,         \* contents the server sells
  Raised,       \* contents the client raises by itself
  Saved,        \* contents a userSave carries
  Item,         \* products of the shop
  Gift,         \* product -> likes, candy and contents, at each advertisement level
  AdItem,       \* products for an advertisement: they pay by a level of their own
  AdThreshold,  \* the advertisements each of its levels needs
  Package,      \* contents of the package
  Receipt,      \* receipts of the platform's store
  NoReceipt,
  Page,         \* the conversation's <<group, index>>, in the client's order
  MaxPlay,      \* bound: likes the client earns
  MaxLogin,     \* bound: logins
  MaxSeq,       \* bound: commands of a login
  MaxWire       \* bound: requests under way

Currency == {"like", "candy"}
MaxLevel(c) == Len(Price[c])

ASSUME WalletAssumption ==
  /\ IsFiniteSet(Content) /\ \A c \in Content : Price[c] # <<>>
  /\ CurrencyOf \in [Content -> Currency] /\ Price \in [Content -> Seq(Nat)]
  /\ Sold \subseteq Content /\ Saved \subseteq Content /\ Package \subseteq Content
  /\ Raised \subseteq Saved \ Sold /\ \A c \in Raised : CurrencyOf[c] = "like"
  /\ \A c \in Content : CurrencyOf[c] = "like" => c \in Saved
  /\ Gift \in [Item -> Seq([like : Nat, candy : Nat, content : SUBSET Content])]
  /\ AdThreshold \in Seq(Nat) /\ AdThreshold # <<>> /\ AdThreshold[1] = 0
  /\ \A k \in DOMAIN AdThreshold : k > 1 => AdThreshold[k] > 0
  /\ AdItem \subseteq Item
  /\ \A i \in Item : Len(Gift[i]) = IF i \in AdItem THEN Len(AdThreshold) ELSE 1
  /\ NoReceipt \notin Receipt
  /\ Page \in Seq(Nat \X Int) /\ Page # <<>>
  /\ \A i, j \in DOMAIN Page : Page[i] = Page[j] => i = j
  /\ MaxPlay \in Nat /\ MaxLogin \in Nat /\ MaxSeq \in Nat /\ MaxWire \in Nat

VARIABLES
  purse,      \* currencies: ch1_like and candy
  owned,      \* owned_content
  level,      \* content_levels, 0 without a row
  talk,       \* messenger_rooms: the group and last_confirm_index
  gp1,        \* one_time_flags: protocol.gp1.area1
  bought,     \* purchase_transactions
  ad,         \* ad_levels: level and experience
  last,       \* login_sessions.last_request_seq
  login,      \* logins so far
  view,       \* the client's copy
  told,       \* commands of this login whose outcome it was told
  issued,     \* commands it has issued in this login
  wire,       \* requests under way
  answers,    \* outcomes of commands, as the client will be told
  effects,    \* history: commands of this login that changed likes or saved contents
  gifts,      \* history: worth of what the server granted
  saved,      \* history: likes played, up to the last full save
  blind,      \* history: a save was merged that did not know what it overwrote
  granted,    \* history: receipts that were granted, with the requests
  empty       \* history: purchases without a receipt that granted nothing

server == <<purse, owned, level, talk, gp1, bought, ad, last>>
client == <<view, told, issued>>
history == <<effects, gifts, saved, blind, granted, empty>>
vars == <<server, login, client, wire, answers, history>>

Command ==
  [op : {"save"}, full : BOOLEAN]
    \cup [op : {"buy"}, content : Sold]
    \cup [op : {"shop"}, item : Item, receipt : Receipt \cup {NoReceipt}]
    \cup [op : {"package"}]

(* What a content's levels cost, and all contents paid in a currency.      *)
LevelWorth(c, n) == MapThenSumSet(LAMBDA i : Price[c][i], 1 .. n)
WorthOf(levels, currency) ==
  MapThenSumSet(LAMBDA c : LevelWorth(c, levels[c]), {c \in Content : CurrencyOf[c] = currency})
Worth(currency) == WorthOf(level, currency)

NewView == [likes |-> 0, level |-> [c \in Saved |-> 0], page |-> 1, played |-> 0]

Init ==
  /\ purse = [c \in Currency |-> 0] /\ owned = {} /\ level = [c \in Content |-> 0]
  /\ talk = Page[1] /\ gp1 = FALSE /\ bought = {} /\ last = 0 /\ login = 1
  /\ ad = [i \in AdItem |-> [level |-> 1, experience |-> 0]]
  /\ view = NewView
  /\ told = {} /\ issued = 0 /\ wire = {} /\ answers = {}
  /\ effects = {} /\ gifts = [c \in Currency |-> 0] /\ saved = 0 /\ blind = FALSE
  /\ granted = {} /\ empty = {}

-----------------------------------------------------------------------------
(* The client plays: it earns likes, raises contents and talks.  It waits  *)
(* for the outcome of a purchase before it spends likes again.             *)
Buying == (\E r \in wire : r.cmd.op = "buy") \/ (\E a \in answers : a.op = "buy")

Play ==
  /\ view.played < MaxPlay
  /\ view' = [view EXCEPT !.likes = @ + 1, !.played = @ + 1]
  /\ UNCHANGED <<server, login, told, issued, wire, answers, history>>

Raise(c) ==
  LET n == view.level[c] + 1 IN
  /\ n <= MaxLevel(c) /\ ~ Buying
  /\ view.likes >= Price[c][n]
  /\ view' = [view EXCEPT !.likes = @ - Price[c][n], !.level[c] = n]
  /\ UNCHANGED <<server, login, told, issued, wire, answers, history>>

Talk ==
  /\ view.page < Len(Page)
  /\ view' = [view EXCEPT !.page = @ + 1]
  /\ UNCHANGED <<server, login, told, issued, wire, answers, history>>

(* A save carries the client's copy.  The handler of a product for an      *)
(* advertisement has yet to read at which level it pays (0).               *)
ForAd(c) == c.op = "shop" /\ c.item \in AdItem

Request(c, n) ==
  [cmd |-> c, seq |-> n, view |-> IF c.op = "save" THEN view ELSE NewView,
   told |-> IF c.op = "save" THEN told ELSE {},
   tier |-> IF ForAd(c) THEN 0 ELSE 1, alone |-> TRUE]

Send(c) ==
  /\ c.op = "buy" => /\ ~ Buying
                     /\ CurrencyOf[c.content] = "like" => view.likes >= Price[c.content][1]
  /\ Cardinality(wire) < MaxWire
  /\ issued < MaxSeq /\ issued' = issued + 1
  /\ wire' = wire \cup {Request(c, issued + 1)}
  /\ UNCHANGED <<server, login, view, told, answers, history>>

Lose(r) ==
  /\ wire' = wire \ {r}
  /\ UNCHANGED <<server, login, client, answers, history>>

(* The answer comes; or it is late, the client repeats the request, and    *)
(* the ledger answers without rewards (commit_rpc_mutation_with_replay).   *)
Tell(a) ==
  /\ view' = [view EXCEPT !.likes = @ + a.likes,
                !.level = [c \in Saved |->
                             IF c \in a.contents THEN Max({@[c], a.level}) ELSE @[c]]]
  /\ told' = told \cup {a.seq}

Answer(a) ==
  /\ a.seq \notin told /\ Tell(a)
  /\ answers' = IF a.op = "shop" THEN answers ELSE answers \ {a}
  /\ UNCHANGED <<server, login, issued, wire, history>>

RepeatsRewards(a) == TRUE          \* mutant of RepeatsOutcome
RepeatsOutcome(a) == a.op # "shop"

RepeatedAnswer(a) ==
  /\ IF RepeatsOutcome(a) THEN Tell(a) ELSE UNCHANGED <<view, told>>
  /\ answers' = answers \ {a}
  /\ UNCHANGED <<server, login, issued, wire, history>>

(* A login reads the server's rows and starts sequences over.              *)
Login ==
  /\ login < MaxLogin /\ login' = login + 1
  /\ last' = 0 /\ issued' = 0 /\ told' = {} /\ wire' = {} /\ answers' = {} /\ effects' = {}
  /\ view' = [likes |-> purse["like"], level |-> [c \in Saved |-> level[c]],
              page |-> CHOOSE i \in DOMAIN Page : Page[i] = talk, played |-> saved]
  /\ UNCHANGED <<purse, owned, level, talk, gp1, bought, ad, gifts, saved, blind, granted,
                 empty>>

-----------------------------------------------------------------------------
AnyOrder(r) == TRUE                \* mutant of Fresh
Fresh(r) == r.seq > last

Committed(r) ==
  /\ last' = r.seq
  /\ wire' = wire \ {r}
  /\ UNCHANGED <<login, client>>

(* merge_user_save.  A full save carries the live balance (gp1) and the    *)
(* contents; the other only the legacy balance, which version 8 leaves at  *)
(* zero, and the conversation.                                             *)
LegacyBalance == 0

SavedLikes(r) ==
  IF r.cmd.full THEN r.view.likes
  ELSE IF gp1 THEN purse["like"]
  ELSE LegacyBalance

TakesRow(c, n) == TRUE             \* mutant of Acquires: locked rows too
Acquires(c, n) == n > 0

MergedLevel(old, new) == Max({old, new})

SavedTalk(old, new) == new

UserSave(r) ==
  LET carried == IF r.cmd.full THEN Saved ELSE {} IN
  /\ r.cmd.op = "save" /\ Fresh(r)
  /\ gp1' = (gp1 \/ r.cmd.full)
  /\ purse' = [purse EXCEPT !["like"] = SavedLikes(r)]
  /\ owned' = owned \cup {c \in carried : Acquires(c, r.view.level[c])}
  /\ level' = [c \in Content |->
                 IF c \in carried THEN MergedLevel(level[c], r.view.level[c]) ELSE level[c]]
  /\ talk' = SavedTalk(talk, Page[r.view.page])
  /\ saved' = IF r.cmd.full THEN r.view.played ELSE saved
  /\ blind' = \/ blind
              \/ r.cmd.full /\ \E s \in effects \ r.told : s < r.seq
              \/ ~ r.cmd.full /\ ~ gp1
  /\ UNCHANGED <<bought, ad, answers, effects, gifts, granted, empty>>
  /\ Committed(r)

(* purchase_content: nothing at the highest level, else the price of the   *)
(* next one.                                                               *)
BuyContents(r) ==
  LET c == r.cmd.content
      n == level[c] + 1
  IN
  /\ r.cmd.op = "buy" /\ Fresh(r)
  /\ \/ /\ level[c] >= MaxLevel(c)
        /\ answers' = answers \cup
             {[seq |-> r.seq, op |-> "buy", likes |-> 0, contents |-> {c}, level |-> level[c]]}
        /\ UNCHANGED <<purse, owned, level, effects>>
     \/ /\ level[c] < MaxLevel(c)
        /\ purse[CurrencyOf[c]] >= Price[c][n]
        /\ purse' = [purse EXCEPT ![CurrencyOf[c]] = @ - Price[c][n]]
        /\ owned' = owned \cup {c} /\ level' = [level EXCEPT ![c] = n]
        /\ answers' = answers \cup
             {[seq |-> r.seq, op |-> "buy", contents |-> {c}, level |-> n,
               likes |-> IF CurrencyOf[c] = "like" THEN - Price[c][n] ELSE 0]}
        /\ effects' = effects \cup {r.seq}
  /\ UNCHANGED <<talk, gp1, bought, ad, gifts, saved, blind, granted, empty>>
  /\ Committed(r)

(* buyShop reads the level of an advertisement's product in a job of its   *)
(* own, before the purchase.                                               *)
ReadAdLevel(r) ==
  /\ ForAd(r.cmd) /\ r.tier = 0
  /\ wire' = (wire \ {r}) \cup
       {[r EXCEPT !.tier = ad[r.cmd.item].level,
                  !.alone = \A q \in wire :
                    ForAd(q.cmd) /\ q.cmd.item = r.cmd.item => q.seq >= r.seq]}
  /\ UNCHANGED <<server, login, client, answers, history>>

(* What makes two purchases the same one.                                  *)
Chosen(r) == Gift[r.cmd.item][r.tier]
Permanent(gift) == gift.content # {}

IdBySequence(r) == [kind |-> "seq", item |-> r.cmd.item, of |-> <<r.seq>>]   \* mutant of TransactionId

TransactionId(r) ==
  IF r.cmd.receipt # NoReceipt
  THEN [kind |-> "receipt", item |-> r.cmd.receipt, of |-> <<>>]
  ELSE IF Permanent(Chosen(r))
  THEN [kind |-> "once", item |-> r.cmd.item, of |-> <<>>]
  ELSE [kind |-> "seq", item |-> r.cmd.item, of |-> <<r.seq>>]

(* apply_reward_grant on contents, INSERT OR IGNORE; the worth of those    *)
(* that are new.                                                           *)
NewContent(s) == s \ owned
NewWorth(s, currency) ==
  MapThenSumSet(LAMBDA c : LevelWorth(c, 1), {c \in NewContent(s) : CurrencyOf[c] = currency})

(* advance_ad_level: the highest level whose threshold is reached, and     *)
(* none that was reached before is lost.                                   *)
AdvanceAdLevel(i) ==
  LET n == ad[i].experience + 1
      reached == {k \in DOMAIN AdThreshold : AdThreshold[k] <= n}
  IN [ad EXCEPT ![i] = [level |-> Max(reached \cup {ad[i].level}), experience |-> n]]

(* purchase_rewards: a purchase already made grants nothing.               *)
BuyShop(r) ==
  LET id == TransactionId(r)
      gift == Chosen(r)
      new == NewContent(gift.content)
  IN
  /\ r.cmd.op = "shop" /\ r.tier > 0 /\ Fresh(r)
  /\ \/ /\ id \in bought
        /\ answers' = answers \cup
             {[seq |-> r.seq, op |-> "shop", likes |-> 0, contents |-> {}, level |-> 0]}
        /\ empty' = IF r.cmd.receipt = NoReceipt /\ ~ Permanent(gift)
                    THEN empty \cup {[login |-> login, item |-> r.cmd.item, seq |-> r.seq]}
                    ELSE empty
        /\ UNCHANGED <<purse, owned, level, bought, ad, effects, gifts, granted>>
     \/ /\ id \notin bought /\ bought' = bought \cup {id}
        /\ purse' = [c \in Currency |-> purse[c] + gift[c]]
        /\ owned' = owned \cup new
        /\ level' = [c \in Content |-> IF c \in new THEN 1 ELSE level[c]]
        /\ answers' = answers \cup {[seq |-> r.seq, op |-> "shop", likes |-> gift.like,
                                     contents |-> new, level |-> 1]}
        /\ ad' = IF ForAd(r.cmd) THEN AdvanceAdLevel(r.cmd.item) ELSE ad
        /\ effects' = effects \cup {r.seq}
        /\ gifts' = [c \in Currency |-> gifts[c] + gift[c] + NewWorth(gift.content, c)]
        /\ granted' = granted \cup
             {[login |-> login, seq |-> r.seq, receipt |-> r.cmd.receipt, item |-> r.cmd.item,
               tier |-> r.tier, alone |-> r.alone,
               due |-> IF ForAd(r.cmd) THEN ad[r.cmd.item].level ELSE 1]}
        /\ UNCHANGED empty
  /\ UNCHANGED <<talk, gp1, saved, blind>>
  /\ Committed(r)

(* buyPackage and grant_package_contents.                                  *)
FirstLevel(old) == 1               \* mutant of PackageLevel
PackageLevel(old) == Max({old, 1})

BuyPackage(r) ==
  /\ r.cmd.op = "package" /\ Fresh(r)
  /\ owned' = owned \cup Package
  /\ level' = [c \in Content |-> IF c \in Package THEN PackageLevel(level[c]) ELSE level[c]]
  /\ answers' = answers \cup
       {[seq |-> r.seq, op |-> "package", likes |-> 0, contents |-> Package, level |-> 1]}
  /\ effects' = effects \cup {r.seq}
  /\ gifts' = [c \in Currency |-> gifts[c] + NewWorth(Package, c)]
  /\ UNCHANGED <<purse, talk, gp1, bought, ad, saved, blind, granted, empty>>
  /\ Committed(r)

Next ==
  \/ Play \/ Talk \/ Login
  \/ \E c \in Raised : Raise(c)
  \/ \E c \in Command : Send(c)
  \/ \E r \in wire :
       \/ Lose(r) \/ UserSave(r) \/ BuyContents(r) \/ BuyPackage(r)
       \/ ReadAdLevel(r) \/ BuyShop(r)
  \/ \E a \in answers : Answer(a) \/ RepeatedAnswer(a)

Spec == Init /\ [][Next]_vars

-----------------------------------------------------------------------------
(* Every variable has its type, and the balances' CHECK (amount >= 0).     *)
TypeOK ==
  /\ purse \in [Currency -> Nat] /\ owned \subseteq Content
  /\ \A c \in Content : level[c] \in 0 .. MaxLevel(c)
  /\ \E i \in DOMAIN Page : talk = Page[i]
  /\ \A i \in AdItem : ad[i].level \in DOMAIN AdThreshold /\ ad[i].experience \in Nat
  /\ gp1 \in BOOLEAN /\ blind \in BOOLEAN /\ last \in 0 .. MaxSeq
  /\ view.likes \in Nat /\ view.page \in DOMAIN Page /\ view.played \in 0 .. MaxPlay
  /\ \A c \in Saved : view.level[c] \in 0 .. MaxLevel(c)
  /\ told \subseteq 1 .. MaxSeq /\ effects \subseteq 1 .. MaxSeq
  /\ \A r \in wire : r.cmd \in Command /\ r.seq \in 1 .. issued

(* Ownership and levels are two tables: whatever is owned has a level, and *)
(* a locked row of a save gives neither (merge_user_save, purchase_content,*)
(* apply_reward_grant, grant_package_contents).                            *)
OwnedHasLevel == owned = {c \in Content : level[c] > 0}

(* Candy is only sold for, and only granted: no save, however late, blind  *)
(* or partial, gives a piece back or takes one (docs/PASS_CANDY_UPGRADE.md)*)
CandyIsKept == purse["candy"] + Worth("candy") = gifts["candy"]

(* No product and no package holds what the client raises by itself.  A    *)
(* package has music, guitars and costumes; of a shop's product this is    *)
(* left to the master data, the server would grant any kind it names       *)
(* (apply_reward_grant).                                                   *)
RaisedAreNotGiven ==
  /\ Package \cap Raised = {}
  /\ \A i \in Item : \A n \in DOMAIN Gift[i] : Gift[i][n].content \cap Raised = {}

(* Likes are written from both sides.  What is held and what was bought    *)
(* for them is what was played, up to the last full save, and granted: no  *)
(* content comes free and no reward is lost, unless a save was sent before *)
(* its client was told what the server had done (merge_user_save), or a    *)
(* product held what the client had raised by itself and not yet saved.    *)
LikesAreKept == ~ blind => purse["like"] + Worth("like") = saved + gifts["like"]

(* The store's receipt pays once, in whatever login and request it comes   *)
(* again; so does a permanent product (purchase_rewards).                  *)
GrantedOnce(g) == Permanent(Gift[g.item][g.tier])

OneGrantPerReceipt ==
  \A g, h \in granted :
    g # h => /\ g.receipt # h.receipt \/ g.receipt = NoReceipt
             /\ ~ (/\ g.receipt = NoReceipt /\ h.receipt = NoReceipt
                   /\ g.item = h.item /\ GrantedOnce(g) /\ GrantedOnce(h))

(* A product that can be bought again is delivered each time               *)
(* (docs/PASS_CANDY_UPGRADE.md: "two 30-candy purchases give 240"), unless *)
(* an earlier login bought the same product under the same sequence number:*)
(* buyShop names the purchase without its login.                           *)
OnlyTwinsAreEmpty ==
  \A e \in empty : \E g \in granted : g.item = e.item /\ g.seq = e.seq /\ g.login < e.login

(* An advertisement counts once, in whatever request or login it comes     *)
(* again, and pays at the level that was due: never above, and below only  *)
(* when an earlier request for the same product was still under way as     *)
(* buyShop read the level (advance_ad_level).                              *)
AdvertisementsCountOnce ==
  /\ \A i \in AdItem :
       /\ ad[i].experience = Cardinality({g \in granted : g.item = i})
       /\ ad[i].level = Max({k \in DOMAIN AdThreshold : AdThreshold[k] <= ad[i].experience})
  /\ \A g \in granted : g.tier <= g.due /\ (g.alone => g.tier = g.due)

(* A purchase grants and counts once, in whatever request or login it      *)
(* comes (purchase_rewards).                                               *)
PurchasesGrantOnce == OneGrantPerReceipt /\ OnlyTwinsAreEmpty /\ AdvertisementsCountOnce

(* A conversation's group and index are stored together and only go the    *)
(* way the client went: no late save brings back a page that was left      *)
(* (docs/MESSENGER_GROUP_STATE.md; merge_user_save).                       *)
TalkGoesForward ==
  [][\A i \in DOMAIN Page : talk = Page[i] => \E j \in DOMAIN Page : j >= i /\ talk' = Page[j]]_vars
=============================================================================
