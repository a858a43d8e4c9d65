------------------------------ MODULE Mailbox ------------------------------
(***************************************************************************)
(* The mailbox of one save slot and the unique items it delivers: mails    *)
(* the settings page generates, the mails of the SamSeck event, which have *)
(* fixed numbers, and the client that lists, reads, claims and deletes.    *)
(*                                                                         *)
(* Each command is one transaction that takes effect at most once          *)
(* (RpcSession).  What the page and the client know is what they last      *)
(* fetched, and may be out of date when they act on it.                    *)
(***************************************************************************)
EXTENDS Naturals, FiniteSets

CONSTANTS
  Item,         \* unique content of the legacy catalog
  Currency,     \* a reward that may be sent again
  Event,        \* SamSeck events
  EventPost,    \* event -> mail_reward_id, the number of its mail
  EventReward,  \* event -> its reward
  MaxPost,      \* bound: generated mail numbers
  MaxCursor     \* bound: changes to the mailbox

Reward == Item \cup {Currency}
Post == 1 .. MaxPost

ASSUME MailboxAssumption ==
  /\ Currency \notin Item
  /\ EventPost \in [Event -> 1 .. MaxPost] /\ EventReward \in [Event -> Reward]
  /\ MaxPost \in Nat \ {0} /\ MaxCursor \in Nat

VARIABLES
  mail,       \* mail and mail_rewards: the rows, by post_id
  rewardOf,   \* post_id -> its reward, Currency where there is no row
  read,       \* mails with read_at
  claimed,    \* mails with claimed_at
  deleted,    \* mails with deleted_at
  cursor,     \* mail_state.cursor
  owned,      \* owned_content, of the items of the catalog
  completed,  \* event_points of type samseck
  catalog,    \* what list_legacy_items last said can be sent
  box,        \* the client's mailbox: cursor, and the mails of its last list
  received,   \* history: how often each mail's reward was applied
  sentBy      \* history: the events that put a mail in the box

rows == <<mail, rewardOf, read, claimed, deleted, cursor>>
views == <<catalog, box>>
mailboxVars == <<rows, owned, completed, views, received, sentBy>>

(* What a list shows of the mails in it.                                   *)
Visible == [mails : SUBSET Post, read : SUBSET Post, claimed : SUBSET Post]
Shown ==
  [mails |-> mail \ deleted, read |-> read \ deleted, claimed |-> claimed \ deleted]
Nothing == [mails |-> {}, read |-> {}, claimed |-> {}]

MailboxInit ==
  /\ mail = {} /\ rewardOf = [p \in Post |-> Currency]
  /\ read = {} /\ claimed = {} /\ deleted = {} /\ cursor = 0
  /\ owned = {} /\ completed = {}
  /\ catalog = {} /\ box = [cursor |-> 0, asked |-> 0, list |-> Nothing]
  /\ received = [p \in Post |-> 0] /\ sentBy = {}

-----------------------------------------------------------------------------
(* content_delivery_state: no mail that is neither claimed nor deleted.    *)
Open(r) == {p \in mail : rewardOf[p] = r /\ p \notin claimed \cup deleted}

Deliverable(i) == i \notin owned /\ Open(i) = {}

(* ensure_unique_content_can_be_mailed.                                    *)
Offered(r) == r = Currency \/ r \in catalog   \* mutant of CanBeMailed
CanBeMailed(r) == r = Currency \/ Deliverable(r)

(* COALESCE(MAX(post_id),0)+1 over all rows, deleted ones included.        *)
IsNextPost(p) == (\A q \in mail : q < p) /\ (p = 1 \/ p - 1 \in mail)

Changed ==
  /\ cursor < MaxCursor
  /\ cursor' = cursor + 1

(* mail and mail_rewards get their rows, the cursor moves.                 *)
Deliver(p, r) ==
  /\ mail' = mail \cup {p} /\ rewardOf' = [rewardOf EXCEPT ![p] = r]
  /\ read' = read \ {p} /\ claimed' = claimed \ {p} /\ deleted' = deleted \ {p}
  /\ Changed

(* list_legacy_items.                                                      *)
ListLegacyItems ==
  /\ catalog' = {i \in Item : Deliverable(i)}
  /\ UNCHANGED <<rows, owned, completed, box, received, sentBy>>

(* memorial.sendLegacyItem and memorial.sendCurrency.                      *)
SendMail(r) ==
  /\ r = Currency \/ r \in catalog
  /\ CanBeMailed(r)
  /\ \E p \in Post : IsNextPost(p) /\ Deliver(p, r)
  /\ UNCHANGED <<owned, completed, views, received, sentBy>>

(* queue_reward_mail_tx: the mail has a number of its own, and is silently *)
(* dropped when that number is taken (INSERT OR IGNORE).                   *)
QueueRewardMail(e) ==
  \/ /\ EventPost[e] \notin mail
     /\ Deliver(EventPost[e], EventReward[e])
     /\ sentBy' = sentBy \cup {e}
  \/ /\ EventPost[e] \in mail
     /\ UNCHANGED <<rows, sentBy>>

(* getSamSeckReward: the event is marked, whether its mail was sent or     *)
(* not.  Being eligible is the game's progress, which may come at any time *)
(* and does not go.                                                        *)
ClaimSamSeck(e) ==
  /\ e \notin completed
  /\ completed' = completed \cup {e}
  /\ QueueRewardMail(e)
  /\ UNCHANGED <<owned, views, received>>

(* An item comes from elsewhere: a shop, the pass, chapter 3.              *)
Acquire(i) ==
  /\ i \notin owned
  /\ owned' = owned \cup {i}
  /\ UNCHANGED <<rows, completed, views, received, sentBy>>

-----------------------------------------------------------------------------
(* The client asks for the cursor; if it has moved, it fetches the list    *)
(* and then keeps the cursor it was told before.                           *)
GetPostTime ==
  /\ box' = [box EXCEPT !.asked = cursor]
  /\ UNCHANGED <<rows, owned, completed, catalog, received, sentBy>>

GetPost ==
  /\ box.asked # box.cursor
  /\ box' = [cursor |-> box.asked, asked |-> box.asked, list |-> Shown]
  /\ UNCHANGED <<rows, owned, completed, catalog, received, sentBy>>

ReadPost(p) ==
  /\ p \in box.list.mails /\ p \in mail \ deleted
  /\ read' = read \cup {p}
  /\ Changed
  /\ UNCHANGED <<mail, rewardOf, claimed, deleted, owned, completed, views, received, sentBy>>

(* providePost, claim_mail_rpc.                                            *)
UnclaimedInView(p) == p \notin box.list.claimed   \* mutant of Claimable
Claimable(p) == p \in mail \ deleted /\ p \notin claimed

(* apply_stored_reward: an item is owned from now on, if it was not        *)
(* already (INSERT OR IGNORE); a currency is added.                        *)
ApplyStoredReward(p) ==
  /\ owned' = owned \cup ({rewardOf[p]} \cap Item)
  /\ received' = [received EXCEPT ![p] = @ + 1]

ProvidePost(p) ==
  /\ p \in box.list.mails /\ Claimable(p)
  /\ ApplyStoredReward(p)
  /\ claimed' = claimed \cup {p} /\ read' = read \cup {p}
  /\ Changed
  /\ UNCHANGED <<mail, rewardOf, deleted, completed, views, sentBy>>

(* deletePost: one claimed mail, or all that are claimed.  Every mail has  *)
(* a reward, so that the rule for mails without one never applies.  The    *)
(* cursor moves only if something was deleted.                             *)
DeleteQuietly(ps) ==                           \* mutant of Delete
  /\ deleted' = deleted \cup (ps \cap claimed)
  /\ UNCHANGED cursor

Delete(ps) ==
  /\ deleted' = deleted \cup (ps \cap claimed)
  /\ IF deleted' = deleted THEN UNCHANGED cursor ELSE Changed

DeletePost(ps) ==
  /\ Delete(ps)
  /\ UNCHANGED <<mail, rewardOf, read, claimed, owned, completed, views, received, sentBy>>

MailboxNext ==
  \/ ListLegacyItems \/ GetPostTime \/ GetPost
  \/ \E r \in Reward : SendMail(r)
  \/ \E e \in Event : ClaimSamSeck(e)
  \/ \E i \in Item : Acquire(i)
  \/ \E p \in Post : ReadPost(p) \/ ProvidePost(p) \/ DeletePost({p})
  \/ DeletePost(Post)

MailboxSpec == MailboxInit /\ [][MailboxNext]_mailboxVars

-----------------------------------------------------------------------------
(* Every variable has its type, and each mail's marks are those of a mail  *)
(* there is.                                                               *)
MailboxTypeOK ==
  /\ mail \subseteq Post /\ rewardOf \in [Post -> Reward]
  /\ read \subseteq mail /\ claimed \subseteq read /\ deleted \subseteq claimed
  /\ cursor \in 0 .. MaxCursor
  /\ owned \subseteq Item /\ completed \subseteq Event
  /\ catalog \subseteq Item
  /\ box \in [cursor : 0 .. MaxCursor, asked : 0 .. MaxCursor, list : Visible]
  /\ received \in [Post -> Nat] /\ sentBy \subseteq Event

(* The page puts a unique item under way at most once: the check is made   *)
(* by the transaction that sends, not by the page, which may be out of     *)
(* date.  Only an event's mail, which nothing checks, can add another      *)
(* (ensure_unique_content_can_be_mailed, queue_reward_mail_tx).            *)
OneOpenMailPerItem ==
  \A i \in Item :
    Cardinality(Open(i)) <= 1 + Cardinality({e \in sentBy : EventReward[e] = i})

(* A mail's reward is applied exactly once, when it is claimed, and no     *)
(* mail disappears before that (claim_mail_rpc, delete_mail).              *)
EveryMailPaysOnce ==
  \A p \in Post : received[p] = (IF p \in claimed THEN 1 ELSE 0)

(* A mail stays the mail it was: its number is never given to another, and *)
(* what has been claimed or deleted stays so                               *)
(* (insert_generated_mail_in_transaction).                                 *)
MailIsPermanent ==
  [][\A p \in mail : /\ p \in mail' /\ rewardOf'[p] = rewardOf[p]
                     /\ p \in claimed => p \in claimed'
                     /\ p \in deleted => p \in deleted']_mailboxVars

(* A client that holds the current cursor shows the current mailbox: what  *)
(* it would fetch is what it has, so that not fetching loses nothing       *)
(* (bump_mail_cursor in every command that changes a mail).                *)
CursorTellsOfChanges ==
  box.cursor = cursor => box.list = Shown
=============================================================================
