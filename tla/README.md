# Verification of the Guitar Girl memorial server

TLA+ models of the embedded game server in `src/`: what it keeps in its SQLite
save file, who may write to it, and what happens when requests are repeated,
reordered or lost, when the process is killed, when the file is damaged, and
when the device's clock is moved. TLC checks the models on small instances;
TLAPS proves the parts that can be proved for every value of the constants.

The server is a library inside the game's own process (`crates/android-ffi`).
A patch of the client starts it, waits for a loopback port and sends the game's
Thrift RPCs to it over HTTP. There is one user, one process and one file; the
difficulty is not load but *time*: the operating system kills the process at
any moment, the client repeats what it got no answer to, the player switches
slots while an autosave is under way, and the clock is whatever the player sets.

In this text `P` is `crates/persistence-sqlite/src/lib.rs`, `T` is
`crates/transport-http/src/lib.rs`, `G` is `crates/transport-http/src/gameplay.rs`.

## 1. Inventory

| Component | State it keeps | Operations | What makes it correct | Here |
|---|---|---|---|---|
| Login sessions, mutation ledger (P, T) | `login_sessions` (nonce, slot, capability, last sequence, open), `mutation_ledger`, the `LoginSession` in the server's mutex | `begin_login`; `legacy_rpc`, `admin_write_context`; `commit_rpc_mutation_with_replay` | A request takes effect at most once, in sequence order, on the slot it was built for; its answer is its own, also in a replay; an ended login writes nothing | `RpcSession`, `ExactlyOnce`, proved |
| Save slots, selection | `save_slots`, `runtime_selection` (active, pending) | create, select, delete, ensure a default slot; a login activates the pending one | The selection never names a deleted slot; a freed slot number carries nothing over | `RpcSession`, proved |
| Database file, snapshots | `ggfm.sqlite3`, `.backup`, `.backup.previous`, `.corrupt.<second>`, temporary snapshots | open and migrate, `open_database_with_recovery`, `prepare_shutdown`, `publish_backup` | A readable snapshot survives; recovery takes the newest; nothing that was on disk is lost; a kill never makes the save unusable | `Recovery`, proved |
| Embedded runtime (`android-ffi`) | the `STATE` mutex, the control channel, the server thread | the C ABI: start, begin_login, prepare_shutdown, stop, transfer | Every call returns; a stop saves what was answered; one writer of the file | `Runtime`, proved but for liveness |
| Database actor (`actor.rs`) | a queue and a thread | `execute`, drain and join on drop | What is answered is committed; what is queued commits even if its caller is gone | `Runtime`, proved but for liveness |
| Save transfer (`transfer.rs`) | none of its own | export and import between two files | Never beside a running server; all of a slot or nothing | `Runtime`: the exclusion; not the content |
| Chapter 3 | `ch3_energy`, `ch3_stages`, `ch3_chapter_claims`, experience | `getChThird`, `chThirdStage`, `chThirdStreamStage`, `getChThirdStarReward` | Energy is neither made nor lost; stages open in order; stars are in reach; rewards are earned and paid once | `Ch3`, proved |
| Mailbox, legacy items, SamSeck mails | `mail`, `mail_rewards`, `mail_state.cursor`, `owned_content`, `event_points` | send item, send currency, SamSeck claim; getPostTime, getPost, readPost, providePost, deletePost | A unique item is under way once; a mail pays once; the cursor tells of every change | `Mailbox`, proved |
| userSave merge | currencies, `owned_content`, `content_levels`, `messenger_rooms`, `one_time_flags`; also pass, quest, mission, music and skill tables | `merge_user_save` | An autosave, however late, takes back nothing the server has granted and makes nothing free | the sections with a hazard of their own: `Wallet`, `StarPass`, `Followers`, `Daily` |
| Purchases | currencies, `owned_content`, `content_levels`, `purchase_transactions`, `ad_levels` | `buyContents`, `buyShop`, `buyPackage` | Pay once, get once; a receipt pays once; an advertisement counts once; what is shown is what is charged | `Wallet`, `Pricing`, proved |
| Star Pass | `pass_season_anchors`, `pass_*`, `content_revision` | season selection, `getUpdateTime`, `getGameDataList`; fill, saved points, claims of two lanes, ticket | The client's tables show the active season; a point counts once; a step pays once per lane and only when reached | `PassCalendar`, `StarPass`, proved |
| Follower quests, affection, encores | `follower_quests`, their claims, `follower_profiles`, `music_states` | quest progress, three claims per stage, infinite quest, gifts, affection rewards, encore rewards | One active stage; a claim only above its threshold, once; the guide can be finished | `Followers`, proved but for liveness |
| Game rewards, events, attendance | achievements, daily missions, event rows, choice rewards, attendance days | claim and count | A date counts once; levels are claimed in order, once, and only when reached | `Daily`, proved |
| Memorial policy, master data | shop, reward and price tables in memory | load, overlay of the free shop, price curves | The published price is the charged one; the shop is whole whatever the file holds | `ShopOverlay`, `Pricing`, proved |
| Read-only queries, codec, assets, tools | none that changes | encode, decode, look up | Round trips; not a matter of state | not modelled |

How they interact. The FFI holds one runtime behind a mutex; its server thread
runs the HTTP server and a control loop. A handler checks the capability, clones
the session out of a mutex, builds an `RpcMutation`, and hands a closure to the
database thread, which runs it as **one immediate transaction**: session check,
ledger lookup, sequence check, the command itself, the ledger row, commit. The
reply goes back through a one-shot channel and is encoded into the HTTP answer.
All the game's rules (chapter 3, mailbox, pass and so on) are such closures: they
share nothing but the database, so that what `RpcSession` shows of any command
(at most once, in order, on its own slot) holds for all of them, and their own
modules start from there. A handler that needs state to build its closure reads
it in a *separate, earlier* job: what was read can be stale when the closure
runs. That is modelled where it matters (`ReadAdLevel` in `Wallet`, `read` in
`Ch3`).

Where it is hard: the cut between the session that is cloned before an await and
the transaction that uses it; a retry against a ledger whose keys do not all hold
the same things; the renames of recovery and publication with a kill between any
two; a shutdown that races handlers which are still running; queries that write;
clocks that travel with the requests and a date that moves both ways; numbers
that come from `MAX+1` beside numbers that are fixed; and a client whose copy of
the state is older than the server's and which writes it back. `PROJECT.json`
lists each of these hazards at its line with the properties that are about it.

## 2. Modules

| Module | Models | Checked with | Proved in |
|---|---|---|---|
| `ExactlyOnce` | the abstract promise of the command ledger | through `RpcExactlyOnce` | |
| `RpcSession` | logins, slots, ledger, requests on the wire, restarts, kills | `MCRpcSession` | `RpcSessionProofs` |
| `RpcExactlyOnce` | the refinement mapping from `RpcSession` to `ExactlyOnce` | `MCRpcSession` | `RpcSessionProofs` |
| `Recovery` | the files, one file operation per step | itself, with `Recovery.cfg` | `RecoveryProofs` |
| `Runtime` | C ABI calls, control loop, handlers, database thread | `MCRuntime` | `RuntimeProofs` |
| `Ch3` | chapter 3 of one slot | `MCCh3` | `Ch3Proofs` |
| `Mailbox` | the mailbox of one slot and its clients' views | `MCMailbox` | `RewardProofs` |
| `Wallet` | balances, contents, a conversation and ad levels of one slot; saves and purchases | `MCWallet` | `WalletProofs` |
| `ShopOverlay`, `Pricing` | the free shop's overlay; published, queried and charged prices | `MCWallet` | `WalletProofs` |
| `PricedWallet` | a wallet beside the catalog its contents are sold from: `PricesHold` | `MCWallet` | `WalletProofs` |
| `PassCalendar` | the rotation of the pass and the client's cached tables | `MCPassCalendar` | `RewardProofs` |
| `StarPass` | points, steps, claims and tickets of the pass | `MCStarPass` | `RewardProofs` |
| `Followers` | the guide, affection, encores | `MCFollowers` | `SlotProofs` |
| `Daily` | attendance, achievements, missions, event and choice rewards | `MCDaily` | `SlotProofs` |
| `DataLemmas` | nothing: facts about numbers, finite sets and sums | | itself |

Each component has one module with its constants, their assumption, one action
per operation and its properties; an MC module adds only the values of constants
and, for `MCRpcSession`, a start with two slots. A module of proofs can be about several
components at once; where two of them would use one name, the definition carries
its module's (`DailySpec`, `CalendarSpec`, `MailboxSpec`). Definitions called "mutant of X"
are plausible mistakes in the code X stands for; they are used nowhere in the
models. For every property there is one with which TLC finds that property
violated. `PROJECT.json` maps every definition to its lines.

### RpcSession, ExactlyOnce, RpcExactlyOnce

The rows of the file are `slot`, `active`, `pending`, `nonce`, `sess` and
`ledger`; the process is `phase`, `srvCap`, `login`, `session` (the mutex),
`current` (the FFI's `STATE`) and the capabilities generated so far; the client
is its own session and the set `sent`, from which a request can be delivered
late, twice, out of order or never. The remaining variables are history.

| Action | Code |
|---|---|
| `Start`, `Stop`, `Exit`, `Crash` | `ggfm_server_start`, `ggfm_server_stop`, the drop of the runtime, a kill |
| `BeginLogin`, `PublishSession` | `Database::begin_login` (one transaction); the rest of `ServerHandle::begin_login` (mutex) |
| `Send` | the client, with the sequence number of its own login |
| `Dispatch` | `legacy_rpc` and `admin_write_context` up to the first await |
| `RollBack`, `Replay`, `RefuseOvertaken`, `Write`, `CreateSlot`, `RequestSwitch`, `DeleteInactiveSlot` | the outcomes of `commit_rpc_mutation_with_replay` |

Two instances can overlap, because `ggfm_server_stop` empties `STATE` before it
joins the thread: `Exit` is a step of its own. A capability can be that of the
process so far or a fresh one. A gameplay command may fail by its own rules at
any time. What a command writes is abstracted to an entry of `history`.

`ExactlyOnce` is what a client may rely on, without slots, sessions, keys or
crashes: a log of effects and a set of answers, with the three actions `Commit`,
`Repeat` and `Refuse`. The answers it promises are those of the requests in `Told`.
`RpcExactlyOnce` maps the log to the requests of `history`
and the answers to those of `replies` that are about gameplay requests, which `Told`
are; `KeepsPromise` is `ExactlyOnce!Spec` under that mapping. So *every* command,
also one that creates, selects or deletes a slot, takes effect at most once and in
the order of its login, while the answers of the settings page's commands are
promised nothing: they can be another login's (finding 1).

### Recovery

Contents are a kind (a database, an empty one, one whose migration was cut off,
an incomplete copy, a spoilt file) and the number of commits in it. `pc` is the
program point of the process; `Crash` can happen at every one of them, every rename,
removal and copy whose error the code passes on can fail, and the storage spoils each
file at most once. A copy has three steps, as `fs::copy` has: the file is created
(`BeginCopy`, an empty file, which opens as a database of version 0), it is written
(`FillCopy`, a part of a database, which SQLite refuses), it is whole (`EndCopy`).
Every start has a second from `Clock`, in any order, since the player may set the
clock back: archives are named by it, and `clash` remembers that one took the
name of an earlier one. `cut` remembers the points where the process was cut off or
recovery gave up, and `bare` that this was while the primary's place held no file or
one of no bytes; the code does not survive every one, and the properties name which. WAL and
shared-memory sidecars move with the primary and are not files of their own; that
SQLite creates a missing file, takes one of no bytes for a new database, refuses one
that is shorter than its header says, and does not replay a WAL that belongs to
another file, is taken from SQLite.

### Runtime

Threads of the application make C ABI calls (`call`); `lock` is the `STATE`
mutex where it is held across a wait (start and transfer), `state` its content.
Each instance has a control channel, the command its server thread serves and
the await it stands at (`serving`, `step`), and the database thread's `queue`.
A handler arrives, submits its job, gets its answer, or is dropped at an await
once the control loop has ended. Each `prepare_shutdown` has a copy of its own:
`unsaved` is what an instance has written by `VACUUM INTO` and not yet published,
`snapshot` what was published last, by whichever instance. Control jobs and
`publish_backup` may fail; `Stop` then goes on without a snapshot, as the code does.
`due`, `behind` and `overtaken` are history: what had been answered when an
instance's stop was called, which instances held a copy at that moment, and the
instances over whose snapshot one of these has published its own. Left out:
refused mutations, the jobs of `start` (they run before anything else can), kills
(`RpcSession` and `Recovery` have them); `publish_backup` is one step here and one
step per file operation in `Recovery`, so that those of two instances are not
interleaved with each other.

### Ch3

Requests carry the clock of their dispatch, are lost, and are overtaken; a query
(`getChThird`) has no sequence number and stores the regenerated energy all the
same. That a command is executed once is `RpcSession`'s result and is assumed
here: a request that has been settled or overtaken leaves the wire. The clock is
set back and forward (`SetClock`); `late` records that a request was served after
one with a later clock, which is the only way in which energy is made. A stage's
result depends on Lily's level, read in an earlier job (`read`, `seen`), and on a
loadout of music and profiles, scored in integers; of the rewards only cookies
(energy) are kept.

### Mailbox

Rewards are unique items or a currency, without amounts. `catalog` is what the
settings page was told last and `box` what the client holds; both may be out of
date when they are acted on. A SamSeck mail has a fixed number and is inserted
with `INSERT OR IGNORE`; generated mails take `MAX+1`. Which events the player
is eligible for is left open.

### Wallet

A save slot's rows have two writers. The server's (`purse`, `owned`, `level`,
`talk`, `gp1`, `bought`, `ad`) change in transactions; the client plays on a copy
(`view`) and writes it back. Candy is owned by the server: a save's value is
ignored. Likes are owned by the client: a save's value replaces the stored one.
Levels are merged by the greater, ownership is only added, and a conversation's
group and index are replaced together.

| Action | Code |
|---|---|
| `Play`, `Raise`, `Talk`, `Send`, `Lose`, `Tell` | the client, external: it earns likes, spends them on what it raises by itself, and applies answers |
| `UserSave` | `merge_user_save`: with a full body, or with the legacy balance only |
| `ReadAdLevel` | the job of `buyShop` that reads at which level an advertisement's product pays |
| `BuyContents`, `BuyShop`, `BuyPackage` | `purchase_content`; `purchase_rewards` under the names `buyShop` gives purchases, with `advance_ad_level`; `grant_package_contents` |
| `Answer`, `RepeatedAnswer` | the first answer, and the ledger's answer to the same request; that of `buyShop` holds no rewards |
| `Login` | a new session: sequences start over, the copy is the server's rows |

`told` are the commands whose outcome the client has heard. A full save that
was sent before the client had heard of a command that changed likes or carried
contents makes `blind` true, and so does a save with nothing but the legacy field
before the first live balance (it stores zero); the balance of likes is claimed
as long as neither happened. A product that held what the client raises by itself
(a follower, the character) would be worth its price once more, when the client had
raised it and not yet saved: the balance is claimed for products that do not
(`RaisedAreNotGiven`, which `MCWallet` evaluates; packages hold other kinds, products
are the master data's). The client is assumed to wait for the outcome of a
`buyContents` before it spends likes again, since the game covers the screen; it
does not wait with saves. Left out: chapter 2's currencies, fans, equipment,
areas and skills.

### ShopOverlay and Pricing

Two modules without behaviour: functions of the master data, which the server
computes at its start and when it answers. `ShopOverlay` translates the load of
`Shop` and `Reward_group` and `apply_memorial_shop_policy`, for every file with at
most one shop row per id, at any terms, and at most one reward under a number of a
group (`Number` bounds the numbers). `Pricing` translates
the policy's curve, the published tables (`transform_master_value`), the
client's formula on them, the queries' value and what `content_purchase_spec`
charges, for skills, units, followers, furniture, cosmetics and songs. The code computes in float32 on both sides of the comparison with the
same expressions; here they are exact fractions, and rounding is left out.
`costincreasevalue` is taken to be a column of reals, as its name in the game's tables
(`f_CostIncreaseValue`) says: `scalar_like` (G:5197) publishes a real as it is and rounds
an integer or a text up, so that another increment would be shown than is charged.
The wallet's prices are checked to be those of `Pricing` (`PricesAreComputed`).

### PassCalendar and StarPass

`PassCalendar` has the clock and the time zone of the device, the anchor and the
revision of each slot, and the client's two requests (`GetUpdateTime`,
`GetGameDataList`) with anything between them; the client keeps one set of tables
under the update time it was told. A selection adds one second to the update time, and
is never taken back: `MaxSelect < Fine` stands for fewer than 60 selections in a slot's
life, with which one offset's midnight cannot run into that of another a minute away.
`StarPass` has, for each season and version,
the row's points and step, the claims, tickets and premium flags; the client's
`view` and what is `due` to a row (fills and play, each multiplied once). A save
adds the distance between the client's points and the stored ones, multiplied.

### Followers

The guide is a chain of stages of a few conditions; the client keeps a single row
for it (`guide`) and changes it when it hears an answer, which may never happen.
Saves carry counters of a stage the server may have left; `setFollowerQuestInfinite`
and logins replace the client's row. Affection has gifts, encores and
advertisements as sources. A song's encore pays and waits; when the time is over the
client lets it appear, and a save writes `encore_appears` as the client shows it.
Three histories count, for each song, the payments (`encorePaid`), the waiting times
that ended (`waits`) and the saves that brought an encore back while its song waited
(`carried`). A clock that is set back while a song waits is not modelled: the waiting
time then ends later, never earlier.

### Daily

`SetDay` moves the date both ways. Attendance keeps a last day, a streak, a best
streak and a count; achievement 10 is counted by attendance, the others by what
the client saves. Daily missions are claimed by level and day; `told` is the level
the client believes is next, `unheard` the missions whose last answer was lost.

## 3. Runs

| Run | Instance | What it shows |
|---|---|---|
| `rpc_retry` | two instances, two capabilities, two logins, two requests each, one slot and the creation of a second, gameplay requests and creations | `KeepsPromise`: every step is a step of `ExactlyOnce` or a stutter, across stops, overlaps, restarts and kills; `OnlyOpenSessionWrites`: an ended login writes nothing |
| `rpc_slots` | one instance at a time, two slots, all commands, from a device that has two slots | `NoForeignWrite`, `OpenSessionIsActive`, `SelectionExists` while slots are created, selected and deleted under way; the start is the shortest way to a slot number that is freed and used again |
| `rpc_admin_replay` | admin commands of two logins | **violated**: finding 1 |
| `recovery` | four starts, two seconds, two commits, each file spoilt once, all failures, kills everywhere, inside a copy too (8.7 million states) | the snapshots and the rejected primary survive, the server never runs behind a snapshot, a kill is harmless; the exceptions are those of section 4 |
| `runtime` | two threads that both drive the lifecycle, two instances, two requests | `SoleWriter` but for an instance whose stop is still joining, `AnsweredIsCommitted`, `CommandsAreServed`, `StopSavesAnswered` but for an older copy of such an instance; under fairness `CallsReturn` and `QueuedIsCommitted`; deadlock is checked here |
| `pass_calendar` | two slots, three seasons, two offsets less than a day apart, two midnights, one selection per slot | `TableIsOfToday`: tables kept under the present update time show the active season |
| `pass` | two seasons, versions 0 and 1, two steps | `PointsAreEarned`, `ClaimsAreReached`, `TicketMeansAll` under saves from any view, repeated and lost |
| `followers` | two stages of two conditions, one gift, two songs, two levels | `GuideIsEarned`, `AffectionIsEarned`; `EncoreWaits`: no song pays more often than its waiting times and the saves allow; under fairness `GuideEnds` |
| `daily` | three dates, two achievements with two levels, a mission, an event, a choice | `AttendanceIsHonest`, `LevelsAreReached`, `MissionsAreClaimable` |
| `wallet` | a costume for likes, a prop of two levels for candy, a follower the client raises, three products (one for advertisements, at two levels), a package, one receipt; two logins of two commands, two requests under way; a catalog of 14 upgrade rows and 4 props | candy is kept whatever a save carries, likes unless a save was blind; what is owned has a level; purchases grant and count once; conversations go forward; prices agree and free products are free |
| `ch3` | three stages (live, story, live), two chapter rewards, two levels, two loadouts, four commands, two requests under way, a clock of three seconds moved both ways | energy is made only if a request is overtaken by one with a later clock, lost only to a chapter reward with a cookie; stages, stars and rewards are earned |
| `mailbox` | two items, currency, one event whose reward is an item, three numbers, six changes | one open mail per item but for the event's own, each mail pays once, the cursor tells of every change |

Prices and products are constants of a running server, so that `PricesHold` says
`Init => ...`: TLC evaluates it once, in the first state, over the whole catalog and
every file; the theorem is about every catalog.
The other properties of these runs are invariants or properties of all steps.

Bounds. `MaxNonce = 2` is enough for every pair of an old and a new login and
`MaxSeq = 2` for every pair of an earlier and a later request, which is what the
session properties relate; the proofs remove both bounds. Four starts are needed
to spoil, recover from a snapshot, spoil again, fall back and fail; two seconds
give every order of an earlier and a later archive. Three stages give an order
with a story in between. Two requests under way give every overtaking of one by
another. Three mail numbers with the event's in the middle give a generated mail
before, at and after it. Two logins of two commands, with two requests under way,
give a save and a purchase in every order, a sequence number that comes again,
and an ad level that is read before and paid after another advertisement. Three
dates give a gap, a step back and a streak that resumes. Three seasons give a
rotation that is not a swap. Two steps and two versions give a lane that is
complete in one version only. Two stages of two conditions give a counter of one
stage carried into the next, and a stage left with a claim under way. Constants
that begin with `Max` are bounds of the model, not of the code. Deadlock checking
is off where bounded counters end the model (all but `runtime`, whose server can
always be started again).

Fairness is stated in two modules. In `Runtime`: weak fairness of each
application thread's return from a call, of each server thread, each database
thread and each handler's task. They are threads of the operating system and
tasks of a runtime that polls what is ready; none of them waits for another
except through the queues and channels that are in the model. No call and no
request is assumed to be made. In `Followers`: the player goes on playing each
condition of the guide (weak fairness of `Play`), and of the claims the client
sends again and again some are heard (strong fairness of `AdvanceQuest` with its
answer); that is what a player who follows the guide does, and an answer that is
lost every time is not to be repaired by a server. `GuideEnds` does not hold of a
player who also keeps logging in, or keeps asking for an infinite stage, before
each save: both replace the counters the client has not saved. It is conditional
on these coming to an end.

## 4. Findings and known divergences

Finding 1 (run `rpc_admin_replay`): *an admin command of a later login is answered
with an earlier login's result.* `admin_write_context` (T:1329) builds its key
without nonce and body, while sequences start over with each login.

The other places where the code does something its documents or its own shape do
not suggest are conditions of properties that hold: the property says that this
is the only way, and dropping the condition makes TLC show it.

- *Recovery.* A kill, or an operation that fails, while no file is at the primary's
  place, or a copy of which nothing has been written (a full disk leaves one, and
  nothing removes it), makes the next start migrate an empty database and return
  before it looks at the snapshots (T:244, T:256, P:119; `ARCHITECTURE.md:28-31`;
  `NeverBehindSnapshot`). A copy that was cut off later is refused by the next start,
  which recovers; without the empty file in `Bare`, TLC finds the property violated.
  A kill between the renames that publish a snapshot, and the next publication,
  leave none (T:199; `SnapshotSurvives`). A kill during the very first migration,
  which runs outside a transaction, makes every later start fail (P:122;
  `FailsOnlyWhenSpoilt`). An archive's name ends in the second: after the clock
  was set back it can replace an earlier archive (T:239; `RejectedIsKept`).
- *Runtime.* A second thread can open the file while the first one's stop is
  joining (`SoleWriter`). Each instance then publishes a copy of its own over the same
  name: the older one, written before the newer one's last requests were answered, can
  be renamed into place after it, and a recovery from that snapshot goes back behind
  them (T:154; `overtaken` in `StopSavesAnswered`). The primary itself is not affected.
  Stop ignores a snapshot that fails (`android-ffi/src/lib.rs:304`).
- *Chapter 3.* `getChThird` is a query that writes: overtaken, it sets the
  energy's clock back, and the seconds since are credited again (P:3460,
  `docs/PROTOCOL.md:34`); so does a clock that is set back, which
  `docs/TIMEZONE_AUDIT.md` accepts (`EnergyIsEarned`). A cookie from a chapter
  reward discards regenerated energy (P:3725; `LossOnlyByCookie`).
- *Mailbox.* An event whose mail number is taken is completed without its reward
  (P:1372, `docs/PROTOCOL.md:58`; `ClaimSamSeck` marks such an event and sends
  nothing). An event's mail is not checked against open mails, and two events pay
  items of the legacy catalog (`OneOpenMailPerItem`).
- *Purchases.* One without receipt is named by its sequence number, which starts
  over with each login: it is taken for one of an earlier login and answered as
  made, with no reward (G:1121; `docs/PASS_CANDY_UPGRADE.md:42`;
  `OnlyTwinsAreEmpty` in `PurchasesGrantOnce`). An advertisement pays at the level
  its handler read, which is below the one due if an earlier request for the same
  product commits in between (G:1084; `AdvertisementsCountOnce`).
- *Saves.* An autosave sent before its client has heard of a purchase or a reward
  writes the old balance back, so that the content is free or the reward lost
  (P:2126; `LikesAreKept`). A save of music states that is behind a claim lets the
  encore be claimed, and paid, again (P:2211; `carried` in `EncoreWaits`: once for each
  such save).
- *Guide.* A login, and the answer of `setFollowerQuestInfinite`, replace counters
  that were not saved (`GuideEnds`).
- *Missions.* A login counts the claims of all days (P:948), a claim is checked
  against those of the day (P:1445): after a claim on another day the client asks
  for a level that is refused (`MissionsAreClaimable`).
- *Pass.* Update times of two slots, or of offsets a day apart, can coincide
  (G:32; `TableIsOfToday` is of the slot and for offsets within a day).
- *Prices.* A prop's level that was free officially is published at 0 but charged
  1 (G:5214 against G:320); a row of a progression currency with an increment is
  charged its flat base by `buyContents`. `ShownIsCharged` excludes both.

## 5. Proofs

Every theorem is of its module's `Spec` (or of constants) and rests on the
module's named assumption: no bound, no number of slots, requests, stages
or products is fixed. Three have a hypothesis besides, which their run's constants
satisfy: `TableIsOfToday` that the offsets of the time zones are less than a day apart,
`StarsAreInReach` that a higher level is worth no less (`ScoresGrow`), and
`LikesAreKept` that no product holds what the client raises (`RaisedAreNotGiven`).

`RpcSessionProofs` proves that `TypeOK`, `InSessionOrder`, `NoForeignWrite`,
`OpenSessionIsActive`, `SelectionExists`, `RefusedHasNoEffect` and
`ReplyIsOwnEffect` are invariants and that every step satisfies
`OnlyOpenSessionWrites`. None of these is inductive. `IInv` adds: `Sessions`
(rows exist only for issued nonces, agree with what the login was bound to, and
only the latest is open, on the active slot); `Capabilities` (no two logins share
one: a login needs a capability without a row, capabilities are generated in
order, and only the latest can be reused); `Provenance` (what is held in a mutex,
a client, a request or a prepared mutation goes back to one login, identified by
its capability); `Progress` (what is committed or refused is at or below its
session's sequence number); `LedgerComplete` and `LedgerSound` (the ledger holds
exactly what the sessions that still have rows have committed). The capability is
what makes it work: the wire does not name the login, so that a request can only
be tied to the session that built it through the capability it carries. Deleting
a slot removes its session rows, which frees a capability; that it cannot be used
for a second login is the third conjunct of `Capabilities`.

Its last part proves the refinement, `Spec => KeepsPromise`, for requests of every
kind: the initial states correspond, and every step is a `Commit`, `Repeat` or
`Refuse` of `ExactlyOnce` or a stutter. A replay of an admin command's recorded result
is a stutter (`AdminReplayIsHidden`): it changes neither the log nor an answer that is
promised, whichever login's result it is. To `IInv` it adds
`LastIsCommitted`: the sequence number a session
has reached is that of a request in the log, without which a refusal would not be
justified by one that took effect.

`RuntimeProofs` proves `SoleWriter`, `AnsweredIsCommitted`, `CommandsAreServed` and
`StopSavesAnswered` for any number of threads, instances and requests. Each needs to
know who waits for whom, and `IInv` says that: the mutex is held across a wait
exactly by a start or a transfer, and then `STATE` is empty (`Mutex`); an instance
that runs is in `STATE`, being started or being joined (`Owned`); what each phase
still has (`Phases`); a command in the channel or being served has one caller, who
waits for it, and nothing follows a `Stop`, since whoever sends it has emptied
`STATE` (`Serving`, `Commands`); the job of the server thread is that of its step,
and there is one (`Jobs`); what a handler answers is committed (`Handlers`); and
what was answered when the stop was called goes with that stop's steps from the
committed to the instance's own copy and to the published one (`Saved`). For the last
step the proof needs every other instance: one that writes its copy after the stop was
called has what was due in it, and so may publish before or after; one that held its
copy already is in `behind`, and its publication makes the instance `overtaken`.

`Ch3Proofs` proves that `TypeOK`, `EnergyIsEarned`, `StagesInOrder`, `ExperienceIsPaid`,
`ChapterRewardsAreEarned` and `StarsAreInReach` are invariants and that every step
satisfies `LossOnlyByCookie`, for every price, cap, cookie and clock. `IInv` adds
`PaidWhenClaimed` (a chapter reward is paid exactly when its claim is stored) and
`ClaimsAreReached` (the stars a reward took are there: a stage keeps its best result,
so that a sum of stars only grows). `EnergyIsEarned` is inductive because `late` is set
by the very step that serves a request with an earlier clock than the stored one.
Stars are in reach because a stage is judged by the level read in an earlier job,
experience is never lost (`ReadBefore`), and the score is monotone in what it is made
of: the best music of the loadouts, the sum of all profiles, which a loadout that
names one twice does not exceed either, and the character's level.

`RewardProofs` is about what is kept until it is fetched. Of `StarPass` it proves
`TypeOK`, `PointsAreEarned`, `ClaimsAreReached` and `TicketMeansAll`. `PointsAreEarned`
is not inductive: between two saves the client is ahead of the stored points, and
the next save multiplies the distance. `Credit` (in `StarPassInv`) says that this
distance, multiplied, is still coming to the row: a save from any view, repeated,
leaves it true. Of `PassCalendar` it proves `TableIsOfToday`: `FetchedOn` ties the
client's tables to a day, an offset and a number of selections that their update time
stands for, whatever came between the two requests; an update time determines its day
as long as offsets are less than a day apart. Of `Mailbox` it proves `MailboxTypeOK`,
`EveryMailPaysOnce`, `CursorTellsOfChanges` and `OneOpenMailPerItem`, and that every
step satisfies `MailIsPermanent`: `MailboxInv` adds `CursorsBehind` (no client was told
a cursor ahead of the server's, so that every change makes the two differ) and
`SentOnce` (an event sends when it is completed, so that each open mail the page's
check does not see is one more event in `sentBy`).

`SlotProofs` is about what a slot counts. Of `Followers` it proves `GuideIsEarned`,
`AffectionIsEarned` and `EncoreWaits`, for every guide, table of levels and set of
songs. What a save or a claim carries is the client's word, so that `FollowersInv`
needs the client: `GuideWasPlayed` says that the counters of its row, and thereby of
every request and save, are no more than was played at the stage they name, also when
an answer that was never heard has moved the server on. `Chain` (the stages with rows
are those up to the current one) and `Highest` (the level is the highest the experience
reaches, found by a greatest element of a finite set) are the other parts. Payments
of an encore are counted by `EncoresCount`: a song that would be paid if it were claimed
now (it appears, or its time is over) is one payment below what `EncoreWaits` allows; a
claim spends that, and only the end of a waiting time or a save gives it back. Of `Daily`
it proves `AttendanceIsHonest`, `LevelsAreReached` and `MissionsAreClaimable`; the
last needs `ToldIsNext`, which speaks of the day a mission was claimed on, not of
today: the date moves both ways between a claim and the next.

`WalletProofs` proves that `OwnedHasLevel`, `PurchasesGrantOnce`, `CandyIsKept` and
`LikesAreKept` are invariants and that every step satisfies `TalkGoesForward`, for
every catalog, any number of logins, commands and requests under way. `IInv` adds:
`Booked` (a grant carries all that names its purchase, so that the purchases made are
the names of the grants, and those of this login are behind its sequence);
`Advertising` (a request's level is one its product has; if it was the first of its
product when it read it, it is the level due as long as the request can still take
effect, since whoever raises the level has a later number); `Talking` (the stored page
is not ahead of any save that can take effect, nor that of one save ahead of a later
one's).

For the balances, every command is first shown to be one of three things (`Settled`):
it changes nothing, it sells one level at that level's price, or it gives currencies
and contents, worth what they cost as far as they are new. That no save takes back a
level that was sold, or brings one that was not, needs `Behind` (no copy is above the
rows in what the server sells). With `Valued` candy balances after each. Likes are
written from both sides, and neither side balances alone. `ClientIsKept` says that the
client's copy, together with the answers that are due to it and not yet heard, is in
balance with the server's gifts and sales, as long as none of these is lost;
`SavesAreKept` says it of each save that knew of all that was done, which is the one
that may be merged without `blind`. `Outcomes` (one answer to a command, none of them
of what the client raises) and `Raising` (what the client raises goes up in its copy,
its saves in their order, then the rows) are the steps between. The proof found what
the model had left implicit: that the ad levels above the first take an advertisement,
that contents are finitely many and each has a price, and `RaisedAreNotGiven`.

It also proves `PricesHold`, whose three parts are about constants. `ShownIsCharged`:
the offsets of the client's formula, the query's and the purchase's agree at every
level of every row. `CurvesAreFair`: a curve is a whole division of the level's steps
by all of them, so that it is 1 at the first level, its cap at the last, and never
falls (`CurveFacts`); a cap is a whole division of the distance from the lowest final
price, so that it lies between 10 and 20 and follows the order of the peers
(`CapFacts`). `FreeShopIsWhole`: a file with a row of the policy's is refused or taken
as it is; to any other the products are added, and the result is what a start finds
complete (`ExtendedIsComplete`). The code compares numbers of rows, and so the proof
counts: rows are an injective image of the list they are made from. It needs a policy with at
least one product, as the embedded one has: the model's refused start has empty
tables, which is also what an empty policy would make of an empty file.

`RecoveryProofs` proves that `SnapshotSurvives`, `NeverBehindSnapshot`,
`RejectedIsKept` and `FailsOnlyWhenSpoilt` are invariants, for any clock, any number
of starts and commits and any set of points where the process dies or an operation
fails. `IInv` says what each file is worth at every program point: `Snapshots` (a
snapshot's name is only on a whole file), `SnapshotIsKept` (there is a backup, or
while the next one is published a previous one), `NewestIsTried` (a primary that
opens is behind no snapshot, one without commits meets none, the copy under way is
of the first candidate, and those already tried do not open), `Archived` (a rejected
primary is archived before another file takes its place) and `Unspoilt` (without a
spoilt file nothing is rejected). Each exception is a condition of the conjunct it
belongs to: one point in `cut`, or `bare`, or `clash`. `bare` is needed in
`NewestIsTried` only, which also says what the primary's place holds while candidates
are tried: nothing or a copy that was refused before a copy, and an empty or a partial
file during one.

`DataLemmas` has what these proofs share: least and largest elements, whole division,
images of finite sets, and sums over a finite set (`MapThenSumSet`): with one element
more or less, of equal and of ordered functions, over disjoint sets. Sums need induction over finite sets, and no theorem
the provers use can have an operator as its hypothesis; it can have a *set*.
`AllNaturals` and `SubsetInduction` are about a set that holds the first element and
whatever follows from smaller ones, shown by a least counterexample, and each
induction names the set of those for which its claim holds.

Model-checked only: liveness (`CallsReturn`, `QueuedIsCommitted`, `GuideEnds`), since
fairness and ENABLED are out of the prover's reach, and `AdminReplyIsOwnEffect`, which
does not hold (finding 1). Every other invariant and action property of the runs is a
theorem.

## 6. Assumptions

- SQLite: an immediate transaction is atomic, committed ones survive a kill
  (`WAL`, `synchronous=FULL`), a missing file is created on open.
- A kill ends the process, not the device: what was written and renamed is there
  afterwards, in that order. A loss of power, which could undo a rename or leave a
  copy's bytes unwritten behind its name, is not modelled.
- A login and a stop of the same instance are serialised by the control channel.
- The client numbers requests from one within each login, gameplay and admin
  requests from the same counter.
- A new process generates a capability that no earlier one had.
- The 8.0.0 client as `src/` and its documents describe it: it applies answers to
  its copy, keeps one row for the guide, fetches tables when the update time
  differs, and computes prices from the published tables. These parts are marked
  external in the map.
- A slot selects a season fewer than 60 times, and `costincreasevalue` is a real column
  (section 2, `PassCalendar` and `Pricing`).
- The master data is well formed where the code relies on it: each level of an
  advertisement above the first takes at least one, the pages of a conversation
  differ, each content has a price, the free shop has at least one product, the
  tables are finite, no product holds what the client raises by
  itself (a follower, the character), and a higher level of Lily's scores no less.

## 7. Not modelled, and the plan

Not modelled: the codec and the generated registry (stateless; round trips of
bytes are a matter for tests over captures); read-only queries; assets, texts and
logs; the desktop host and the build tools. Of `merge_user_save`: fans, areas,
equipment, music levels and skill state, which are merged by the greater or
replaced like what `Wallet` has and share no row with a command; of the reward
RPCs: `updateAchievement`, the review popup and the counters of advertisements,
each a single guarded write; the Fever buff that comes by mail (P:3388), a matter
of the reward's kind and the only listed hazard without a property; what save
transfer copies (tables, schema comparison, filtering by slot): its exclusion of a
running server is in `Runtime`; the file operations of two overlapping publications
between each other; cooldowns, and the rounding of float32.

Next, in this order: the content of save transfer as a relation between two files; the
fans' and skills' sections of the save.
