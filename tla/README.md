# Frendly backend: TLA+ models and proofs

Frendly is a social app: people create meetups, launch evening routes, chat,
swipe, pay for tokens and Frendly+. The repository holds its backend, four Node
processes (`src/backend/apps`) over one PostgreSQL database, with Redis between
them:

| process | source | what it does |
|---|---|---|
| API | `apps/api` (NestJS, Prisma) | every REST operation; transactions under PostgreSQL's default READ COMMITTED |
| chat | `apps/chat` (WebSocket) | message send and read, synchronization, broadcast to sockets |
| worker | `apps/worker` | the outbox, scheduled scans (evenings, reminders, cleanup), content imports, route drafts |
| telegram-relay | `apps/telegram-relay` | polls the Telegram bot and forwards its updates |

Each process may run several times, and every call works on what it has read a
moment before. So nearly all that can go wrong is of one shape: a decision is
made on rows that another call, the worker or a repeated message changes before
the decision is written. The modules here are about that.

Contents: [inventory](#inventory) · [modules](#the-modules) ·
[runs](#the-runs) · [bounds](#bounds-and-why-they-are-enough) ·
[fairness](#fairness) · [proofs](#what-is-proved) · [findings](#findings) ·
[also reachable](#also-reachable) · [left out](#what-is-not-modelled) ·
[plan](#plan)

## Inventory

State is in PostgreSQL rows unless said otherwise
(`packages/database/prisma/schema.prisma`). "Proved" means that every property
the runs check of the component is also a theorem.

| component | state | operations | hard behaviour | what makes it correct | module |
|---|---|---|---|---|---|
| Outbox | `OutboxEvent`: status, attempts, availableAt, lockedAt; per process the running loop | insert; claim in batches (UPDATE … SKIP LOCKED) or one by one (read, guarded update); handle; done; failed with backoff | leases that run out under a slow handler, crashes, writes whose answer is lost | no two tasks hold the same claim; done means handled; every row settles | `Outbox`, proved but for liveness |
| Unread counters | `ChatMember.unreadCount`, `lastReadAt`, `Message`, fan-out rows | send, read, delete, fan-out by page and by group, recount | fan-out delivered twice, times taken before commits, recounts overtaken | the counter is the number of newer visible messages; nobody is skipped | `ChatUnread`, proved but for paging and liveness |
| Realtime log | `RealtimeEvent`; subscriptions and the Redis bus in memory | append, sync by cursor, broadcast, REST load | ids drawn before commits; bus messages reordered by awaits; a sender that dies before it publishes | replayed by id the log ends as stored; a live client misses only what the protocol may withhold | `ChatSync`, proved |
| Meetup membership | `EventParticipant`, `ChatMember`, `EventAttendance`, `EventJoinRequest` | join, leave, request, invite, answer, review by host and admin, removal, check-in, edit | each a transaction of several statements; host, guest and admin act on the same rows | seat, chat and attendance agree; capacity; one verdict per request | `MeetupMembership`, proved |
| Meetup creation and edits | `Event`, idempotency key | create, retry, host edit, admin create and edit | a retry beside the first call; capacity compared with an old count | one meetup per key, weekly limit, seats within capacity | `MeetupCreation`, proved |
| Evening session | `EveningSession`, its chat's copy, steps, participants, check-ins | start, move, finish, join, request, review, check-in, leave; automatic advance and finish | host's calls race each other and the worker's clock | chat mirrors session; marks; seats; worker only goes forward; automatic evenings end | `EveningSession`, proved but for liveness |
| AI drafts of routes | `EveningAiDraft` as JSON in a row | create, accept, regenerate, confirm | minutes between read and write, of the whole row | what is saved is what was accepted; weekly limit | `EveningAiDraft`, proved |
| Payments, wallet, Frendly+ | `PaymentOrder`, `TokenWallet`, `TokenLedgerEntry`, `UserSubscription`; the bank's state | order, webhook, poll, Apple purchase, spend, subscribe | webhooks repeated and reordered, a poll beside them, deadlocks | credited once, never overdrawn, paid is delivered, nothing unpaid | `Payments`, proved but for liveness |
| Dating | `DatingAction`, `DatingUsageEvent`, direct chats | swipe, super like, rewind, block | mutual likes at once, quotas counted then used | likes meet in one chat, everyone is told, quotas and tokens | `Dating`, proved; `Discover` (feed) |
| Communities | members, requests, the chat's members | join, request, review, leave, remove, roles, transfer, hide, restore | seat and chat are two rows; owner handed over while somebody leaves | members and chat agree, the creator owns | `Communities`, proved |
| Partners | `PartnerAccount`, `Partner`, sessions, their meetups | register, log in, review of accounts, create, review a guest, cancel | a suspension between a login's read and its session | suspended means no session, one host user, seats follow verdicts | `Partners`, proved |
| Offer codes | `PartnerOfferCode`, rate limit in memory | issue, activate, expire | two scanners; expiry beside a scan | activated once, counted once | `OfferCodes`, proved |
| Telegram relay | last update in memory and in a file | poll, dispatch, answer, save | crash after each of four steps | confirmed means answered, in order | `TelegramRelay`, proved |
| Sign-in | `Session`, `PhoneOtpChallenge`, `TelegramLoginSession`, `AuthIdentity`, the guard's cache | codes, rotation, logout, Telegram, Google, Yandex, Apple, onboarding | lost answers, codes tried in parallel, cached sessions, unique contacts | a code lets in once, attempts bounded, one user per identity | `AuthSessions`, `TelegramLogin`, `SocialLogin`, proved |
| Profile photos | `ProfilePhoto` with its order, the avatar | upload, delete, make primary, reorder | only uploads lock | the avatar is a first photo, no two photos share a place | `ProfilePhotos`, proved |
| Verification | `UserVerification`, assets, the trial | submit, approve, return | two approvals, deletion after the commit | one trial; verified as reviewed | `Verification`, proved |
| Uploads | `MediaAsset`, variants, the finalize row | complete, finalize, scan | row and outbox row in two commits | an image without variants is on its way or known as missed | `Uploads`, proved |
| Notifications, push | notices, dedupe keys, tokens, cached counts | scan, mark, list, clean up, dispatch, fan-out | death between a notice and its outbox rows; retries of whole pages | announced once, nobody missed, one token per device | `Notices`, proved; `Pushes` |
| Drops | `DropTicket`, `DropDrawSnapshot`, winners | reward, apply, draw, reject | a monthly limit counted, then inserted | limits; a ticket wins once; the draw is whole | `Drops`, proved |
| Routes | candidates, batches, drafts, templates | plan, validate, generate, review, convert, publish | midnight, events without an end; batches run twice, decisions in three commits | a route can be walked in time; decisions hold | `RoutePlanner`, `RoutePlans`, `RouteDrafts` |
| Content import | `ExternalImportRun`, items, affiche rows | scheduled and requested runs, slices, expiry; merge of two sources | two workers on one run; merges with rows read long before | the catalogue is covered; one listing, as moderated | `ImportRuns`; `Affiche`, proved |
| Lists, feeds | – | pages with cursors | rows come, go and move between pages | in order, nobody twice, nobody lost | `Lists`, `Discover` |
| Caches | process memory, Redis, loads under way | read, write, clear, version | a load that outlasts the write that clears it | own writes are seen; copies fade | `Caches`, proved |
| Safety, blocks, reports | `UserBlock`, `UserReport` | upserts | none of its own | – | a fixed relation or an action in `ChatUnread`, `Dating` |
| Profile editor, seasons, stories, shares, settings, support | single rows | reads and upserts | – | – | not modelled |
| Administration, templates, analytics | back-office rows | CRUD | – | – | its tables in `Lists` |
| HTTP layer, contracts, metrics | none | – | – | – | not modelled |

How they interact. The API and the chat server never call the worker: they
insert outbox rows in their own transactions, and the worker finds them. Unread
fan-out, push fan-out and image finalizing are handlers the outbox delivers, at
least once: that is what `ChatUnread` (its `Abandon`), `Pushes` and `Uploads`
assume and what `Outbox` shows of the queue (`AtLeastOnceQueue`). Meetups,
evenings and communities own a chat each, whose members the chat server reads;
dating opens direct chats. Frendly+ is extended from two sides, orders and
token spends, which is why both are in one module. AI drafts and the meetups
made of them share one weekly limit with meetups made by hand. Services that
meet in nothing but the database are modelled apart.

`PROJECT.json` lists the hazards of this code at their lines, each with the
properties that watch it.

## The modules

| module | models | about |
|---|---|---|
| `AtLeastOnceQueue` | what producers may rely on | abstract: rows are inserted, delivered, completed, given up, reopened |
| `Outbox` | `worker.service.ts` | the loop as several workers run it |
| `ChatUnread` | `worker.service.ts`, `chat-server.service.ts`, `chats.service.ts` | the counters of one chat |
| `ChatSync` | `chat-server.service.ts`, `chats.service.ts`, `worker.service.ts` | the realtime log of one chat |
| `MeetupMembership` | `events.service.ts`, `host.service.ts`, `admin-meetups.service.ts`, `chats.service.ts` | one meetup |
| `MeetupCreation` | `events.service.ts`, `host.service.ts`, `admin-meetups.service.ts`, `meetup-creation-limit.ts` | the meetups of one host |
| `EveningSession` | `evening.service.ts`, `worker.service.ts`, `chats.service.ts` | one session |
| `EveningAiDraft` | `evening-ai-draft.service.ts`, `events.service.ts` | the drafts of one user's week |
| `Payments` | `payments.service.ts`, `tokens.service.ts`, `subscription.service.ts` | one user's orders, wallet, Frendly+ |
| `Dating`, `Discover` | `dating.service.ts`, `people.service.ts` | swipes of a pair; the feed |
| `Communities` | `communities.service.ts`, `admin-communities.service.ts`, `chats.service.ts` | one community |
| `Partners`, `OfferCodes` | `partner-auth.service.ts`, `partner-portal.service.ts`, `admin-venue.service.ts`; `partner-offer-code.service.ts` | one partner account; one code |
| `TelegramRelay` | `telegram-relay.service.ts` | all of it |
| `AuthSessions`, `TelegramLogin`, `SocialLogin` | `auth.service.ts`, `auth.guard.ts`; `telegram-auth.service.ts`; `social-auth.service.ts`, `onboarding.service.ts` | one number; two Telegram accounts; a few identities |
| `ProfilePhotos`, `Verification`, `Uploads` | `profile.service.ts`; `verification.service.ts`, `admin-users.service.ts`; `uploads.service.ts`, `worker.service.ts` | one user each |
| `Notices`, `Pushes` | `worker.service.ts`, `notifications.service.ts`, `retention-cleanup.ts` | one user's notices; one message's pushes |
| `Lists`, `Caches` | most services of the API | one list, one cached answer |
| `Drops` | `drops.service.ts`, `drops-reward.service.ts`, `drops-draw.service.ts` | one user's month, one drop |
| `RoutePlanner`, `RoutePlans`, `RouteDrafts` | `route-planner.ts`; `route-draft-generation.service.ts`, `admin-route-review.service.ts`, `admin-evening-route.service.ts` | the planner as operators, over selections of a pool, its drafts |
| `ImportRuns`, `Affiche` | `content-import.service.ts`, `tomesto.adapter.ts`; `affiche.service.ts`, `admin-affiche.service.ts` | one city's catalogue; one event in two sources |
| `OutboxProofs`, `EveningProofs`, `PaymentsProofs`, `ChatUnreadProofs`, `MembershipProofs` | – | theorems about the module named, for all constants |
| `ChatsProofs` | – | theorems about the services of `MCChats`: links to the last two modules above, and the proofs of `ChatSync`, `Communities`, `OfferCodes`, `Partners`, `TelegramRelay`, `EveningAiDraft`, `MeetupCreation` |
| `PeopleProofs` | – | theorems about the services of `MCPeople`: `Drops`, `Dating`, `ProfilePhotos`, `Verification`, `Uploads`, `AuthSessions`, `TelegramLogin`, `SocialLogin` |
| `ShownProofs` | – | theorems about what `MCPeople` shows a user: `Caches`, `Affiche`, `Notices` |
| `MCOutbox`, `MCLive`, `MCChats`, `MCPeople`, `MCPlaces`, `MCEveningSession`, `MCPayments` | – | the instances for TLC |

Definitions whose comment starts with "Slip:" are not used by the
specification. Each is a plausible mistake in the definition that follows it,
kept to show that the properties notice it (`PROJECT.json`, "mutants").
Constants named `Max…` bound the model and stand in the guards of the actions
they bound; where several bounds go together they are records of a set `Bounds`,
of which a behaviour picks one. Variables noted as history are read by
properties and bounds only. Two forms recur: a call *reads* (its early returns
are guards of the `Begin…` action), and *writes* later by what it has read; or,
where statements of a transaction may interleave with others, each is a step
that takes row locks and shows its writes at the commit.

**Outbox.** A row is `status`, `attempts`, `avail` and the age of its lock; time
is relative, so ages and delays move with `Tick` and the model stays finite. A
claim is a pair of a row and the attempt number it was given. `Claim` is
`claimNextEvents` (one UPDATE); `SeqRead`, `SeqIdle`, `SeqClaim` and `SeqLost`
are `claimNextEvent`, whose update is guarded by what was read but whose answer
hands on the attempt number read before it. A task holds the claims that are
handled together (unread fan-outs of one sender); it is queued until its handler
has had its effect (`handled`) or thrown (`threw`). `MarkDone` is the done
write, `MarkDoneFails` the same write applied or not, with its answer lost,
which sends the row to `ReportFailure` (`handleFailure`). When one row's report
throws, `Promise.all` rejects, the loop ends although other tasks go on, and the
next timer starts a second loop in the same process: `running` and the task's
`awaited` flag. `Crash` loses a process with everything it holds. `disturbed`
becomes true when a lease runs out under a task or a done write loses its
answer: until then rows are settled once (`SettledIsFinal`), afterwards the
queue is only at-least-once.

**ChatUnread.** A send takes its time, then commits (`BeginSend`,
`CommitSend`): it increments the counters itself, leaves a row with the time, or
(system messages) a row without it, which makes the worker recount. A read takes
its time, then sets `lastReadAt` and clears the counter. The worker takes a row
(`TakeRow`) or several of one sender (`TakeGroup`), creates the row of the next
page first, computes the numbers (`Compute`) and writes them (`Write`): between
the two, anything may commit. `Abandon` drops a task anywhere, and the row is
delivered again. The properties are exact: the history variable `drift` records,
per member, which of five causes (a deleted message, a second delivery, equal
times in one group, a read overtaken by a message, a number overtaken before it
was written) has touched his counter, and the property says which causes can
make the counter differ from a recount and in which direction.

**ChatSync.** A change of a message draws the id of its event, writes row and
event and commits (`row`, `log`); the sender then publishes to the bus or dies,
and the worker's relay publishes what it finds unpublished. A client loads over
REST in two queries, subscribes, synchronizes page by page after its cursor, and
hears what the broadcast, which awaits a query, sends to it. `heard` and `page`
are what has reached the client, `excuse` the events the protocol may withhold
from it and why (committed behind the cursor, or between the queries of a load).

**MeetupMembership.** A call reads what it decides on (`Begin` and the
operation's own action), then runs its statements one at a time; a written row
stays locked until `Commit`, where all writes appear at once, or `Abort`.
`CheckRoom` takes the event's row lock and counts; `DropSeat` (deleteMany) waits
for a row it sees and does not see an uncommitted one; `Decide` is an updateMany
guarded by the status. So lost updates, write skew and stale reads happen in the
model where the database allows them, and only there. `crossed` marks users who
were let in by one call and taken out by another while both were in flight: the
code makes no promise about them, and the properties name that exception.

**MeetupCreation.** `createEvent` looks for its key, counts the week, picks a
point and admission, and inserts; the insert meets the unique key. Host's and
administrator's edits and joins of others follow, each a read and a write.

**EveningSession.** Each API call is a read with its early returns (`Begin`) and
a later transaction (`Commit`, or `Abandon`); transactions that write the same
rows meet at the first of them, so one is one step. `Start`, `Move` and `Finish`
update by id alone, as the code does: a start overtaken by a finish revives the
session, and a move may write into a finished one. The worker scans (`Scan`),
decides by the clock of the route, and carries the decision out later
(`AdvanceAuto`, `FinishAuto`) if phase and step are still those it saw
(`StillAt`).

**EveningAiDraft.** A call copies the draft, waits for a language model, and
writes the whole row by its id (`CreateDraft`, `AcceptStep`, `RegenerateStep`,
`RegenerateDraft`, `ConfirmDraft`); the model's answer is any choice the validation lets pass.

**Payments.** As in `MeetupMembership`, a call is the list of its statements,
with what it has seen and the rows it has locked; two calls may wait for each
other, and the database then picks a victim (`DeadlockVictim`). The bank is
external: `BankMoves` lets a payment go through T-Bank's states and queue
notifications in `mail`, a set from which any notification may come, in any
order, until one is answered OK. Unique ledger entries, guarded decrements and
the unguarded update of the order's status are statements of their own.

**Dating.** A swipe counts its quota, charges or not, writes its row and looks
for the other's, opens the chat and notifies: five steps, two of them in one
transaction. A rewind deletes a pass; a block takes the likes away. **Discover**
is the feed: batches in registration order, ranked, the rest carried in the
cursor as a buffer.

**Communities.** Calls read the caller's role and the row they mean to change
(`Begin…`), then write the member row and, in a second statement, the chat's.
`Handed` is the transfer of ownership, which reads after its lock. `crossed`
marks the users of whom a call wrote what had changed under it, `raced` that the
owner changed under a call that then wrote an owner's row, `deposed` creators whom
the back office demoted or removed, or whom a leave that began earlier overtook
(`Overtaken`), `hidden` creators who deleted the chat for themselves.

**Partners** keeps account, sessions, partners with their host user, and the
meetups of the portal with one guest each; logins and suspensions are two steps.
**OfferCodes** keeps one code: issue, look, expiry, use and the analytics row.
**TelegramRelay** is a loop of `poll`, `dispatch`, `answer`, `end`, `save` over
numbered updates, with a fault after each and updates the backend refuses.

**AuthSessions**, **TelegramLogin**, **SocialLogin**. Codes are sent before their
challenge is written; claims and rotations read, then update on a condition;
answers are lost (`AuthSessions`), the cache of the guard outlives a logout that
a load overtook. Bot and app write one login session by its id; `verify` counts
attempts by an update (`TelegramLogin`). A sign-in is one transaction whose
statements meet the unique keys on identities, emails and numbers
(`SocialLogin`).

**ProfilePhotos**, **Verification**, **Uploads**. Each transaction in the order
of its statements: which read before they lock, and which delete after their
commit, is what the properties are about. A reordering of photos reads
(`BeginPrimary`, `BeginReorder`, `BeginDelete`), writes the photos and looks for the
first (`Pick`), and writes the profile (`Sync`), where a photo deleted since is
refused by the foreign key; uploads lock (`Lock`) and do the rest at once.

**Notices**, **Pushes**. A scan makes a notice under its unique key and then its
outbox rows; reads mark, counts and lists are cached per process and in Redis;
retention deletes. A dispatch sends to all tokens of a page at once and fails as
a whole.

**Lists**, **Caches**. One module for many services: a list is its `orderBy` and
the comparison of its cursor, which the code writes apart; a cached answer is the
places it is kept in, and each write the copies it clears, in its order. The
tables of kinds in both modules name, per service, what the code does.

**Drops**, **RoutePlanner**, **RoutePlans**, **RouteDrafts**, **ImportRuns**,
**Affiche**. Grants, applications and the draw with a replaced winner; the
planner and its validator as recursive operators over candidates on a street,
run over all selections of a pool; batches and decisions on drafts; slices of a
catalogue executed by several workers with expiry and resume; one event merged
from two sources while an administrator, a phone and the geocoder write the same
rows.

## The runs

| run | instance | distinct states | shows |
|---|---|---|---|
| `outbox` | a batch worker and a sequential worker, two rows in one group, two of crash, overrun, failed write | 2 761 099 | `IInv`; claims distinct; done was handled and failed was tried; settled rows stay settled while undisturbed; the loop implements `AtLeastOnceQueue` |
| `live` | the queue with one row and all three faults; the counters with three members and pages of one | 253 040 | every row ends done or failed for good; everybody is counted in the end (of messages not deleted first) |
| `chats` | nine services, one at a time: counters, log, community, membership, creation of meetups, AI drafts, offer code, partner, relay | 3 863 046 | see below |
| `people` | eleven services around an account and what it is shown: its tickets for drops, cached answers, the affiche and notices among them | 3 049 461 | see below |
| `places` | routes, imports, pushes and what is listed, six services | 734 545 | see below |
| `evening` | host and two guests, two calls and a worker, three steps | 532 752 | `IInv`; session, chat, steps, seats and reviews agree; the worker only advances; automatic evenings end |
| `payments` | a bundle at T-Bank and an Apple token purchase, two calls, two user calls, one failure | 436 637 | credited once, never overdrawn, confirmed means delivered, nothing unpaid, paid is delivered in the end |
| `unread_recounted` | system messages only, no fault | violated | a recount counts messages whose own rows are still waiting |
| `membership_review` | one request, one approval | violated | an approved request goes back to pending |
| `membership_capacity` | two guests, joins and a leave | violated | a repeated join takes a seat without a check |
| `payments_extended` | one subscription order | violated | two confirmations extend twice |
| `import_runs` | three rows, pages of one | violated | the import runs' list skips a row at each page |

`chats`, `people` and `places` hold many small services that do not touch one
another. `focus` picks one of them at the start; the variables `v1`, `v2`, … are
then that service's, and the others stay `"off"`. So the run explores the *sum*
of the services' state spaces, and a property reads
`focus = "x" => X!Property`. Some properties are conjunctions:

- `chats`. `LogHolds`: `LogReplays`, `NothingSkipped`. `CommunityHolds`:
  `SeatsMatch`, `CreatorOwns`. `Accounted`: the counter of an undisturbed member
  is exact and no message is lost between table, queue and counter;
  `DriftExplained`: a counter is off only as its causes allow; `NoneForgotten`:
  who is not counted yet waits in a row. `SeatsAgree`, `DecidedOnce`,
  `CheckedSeatFits`: of the meetup. `MeetupsHold`: drafts are saved as agreed and
  within limits; one meetup for a key, admission and seats as agreed.
  `OffersHold`: `CodesHold` and `PartnersHold`. `RelayHolds`.
- `people`. `SwipesMeet`: two likes have their chat and both are told, a chat was
  opened by two likes, quotas hold unless two counts overlapped, tokens match
  charges. `SignInHolds`: `SessionsHold`, `LoginsHold`, `ContactsHold`.
  `PhotosInOrder`. `ReviewHolds`. `ImagesAccounted`. `DropsHold`: tickets within
  their limits, the draw is whole. `CachesHold`: own writes are seen, copies fade.
  `NewsHolds`: `AfficheHolds` (one listing, gone is stale, rejected stays, meetups have
  a place) and `NoticesHold` (announced once, nobody missed, count and list follow).
- `places`. `RoutesHold`: `PlansFit` (what the planner builds passes the reference
  conditions) and batches and decisions as reviewed. `JobsHold`: `RunsHold` (the
  catalogue is covered and public, runs are accounted for) and `PushesHold` (everybody
  is reached, not again after success, only the wanted, one token per device).
  `PagesHold`: `ListsHold` (in order, none missed, but in the lists with a wrong cursor
  at most one for each page, and a list read again starts again) and `DiscoverHolds`
  (nobody twice in a cycle, passed users last, nobody lost).

`CHECK_DEADLOCK FALSE` is set where the bounds let the system stop with nothing
left to do; `outbox` has it on, for there the clock never stops.

### Bounds, and why they are enough

- *Two calls in flight* (`Calls`). Every hazard listed is a race of two; a third
  call in flight can only repeat what one of the two could do later. How many
  calls follow one another is bounded per service (`MaxCalls` 2 to 9, so that the
  longest protocol of the service fits twice). With three calls one after another
  `MeetupMembership` passes as well (5.9 million states), as does `Payments` with a
  third user call (1.2 million) and `Communities` with six calls; they take too
  long for every-day runs.
- *Two guests and a capacity of two or three*, host included: the last place is
  contested by two, and with three there is also a meetup that is not full.
- *Two rows, two workers, `MaxAttempts = 2`, a lease of two ticks, one tick of
  lag*: enough for a second claim of the same row while the first is still in
  work, for a group of two, for a row that is exhausted, and for one that is not.
  `TwoFaults` keeps the three faults from all happening in one behaviour of
  `outbox`; `live` allows all three, on one row.
- *Messages of a chat*: two, at equal and different times, read before, between
  and after. `MaxInAll` bounds messages, reads, deletions and abandoned tasks
  together (4). In `live` there are three members, of whom two block each
  other, and one disturbance in all; pages of one member make every member a page.
- *Three steps* of an evening, of which the first automatic advance jumps over one
  and the next does not.
- *Two prizes and one reserve* in `Drops`, with three tickets of one reward that
  exhaust the drop's limit and two more over the month's: two choices of the
  reserve can overtake a third, which with a single prize they cannot.
- *One fault or two* (`MaxAborts`, `MaxFaults`, …): the faults a call meets are
  independent, and a second starts from a state a first has already reached.
- *Lives of one tick* in `Caches`, leases or grace of zero or one tick elsewhere
  (`StaleAfter`, `Grace`): a tick is then longer than the period, which makes
  every order of a deadline and a step possible.
- *Records of bounds* (`ImportRuns`, `Affiche`, `MeetupCreation`, `Notices`,
  `Pushes`, `TelegramLogin`): each combines what interacts (two workers with many
  runs, one worker with a fault, …) and leaves out products of independent ones.
- What is proved (below) holds for any numbers.

Symmetry is used in the three joint runs, for the two calls and for the two users,
workers or assets that stand in for each other; their properties are invariants
and one action property, and no service orders either of the two.

### Fairness

Fairness is stated for what the code's runtime does by itself, and for nothing
that users or faults do. The three joint runs state none: they check safety.

- `live`, the queue: time passes (WF `Tick`), the timer calls `runOnce` again and
  again (WF `Fetch`), and a handler's promise settles (WF of a worker's tasks). No
  fairness for inserts, crashes or errors; these are bounded, so the claim
  is "once faults stop". The counters: the worker takes rows and goes on with
  tasks (WF `Take`, WF of the work), as the queue shows.
- `evening`: time passes, a call ends (WF `Commit ∨ Abandon`), the scan runs (WF
  `Scan`). What a scan decides may always fail; strong fairness of
  `AdvanceAuto ∨ FinishAuto` says that it does not fail for ever.
- `payments`: strong fairness for a call's next statement, because the database
  serves those waiting for a row in their order; WF of the deadlock detection;
  strong fairness of the delivery of a CONFIRMED notification, which T-Bank
  repeats until it is answered OK (the code answers anything else on an error).

## What is proved

The proofs are checked by TLAPS (SMT and Zenon for the steps, LS4 for the
temporal ones) and hold for every value of the constants that satisfies the
modules' assumptions. Each invariant a theorem rests on is inductive, and TLC
checked it on an instance before it was proved. They are laid out alike: what the
types and the readings of calls are, lemmas about operators, one lemma or step for
each action, `Invariance`, and the theorems that follow.

Every property of `outbox`, `chats` and `people` and every safety property of
`evening` and `payments` are theorems.

| module | for every | theorem | says |
|---|---|---|---|
| `OutboxProofs` | rows, workers, mode, limits | `Invariance`, `ClaimsAreDistinct`, `SettledRightly`, `SettledStays`, `Refinement` | the run's properties, and the loop implements the queue |
| `EveningProofs` | guests, route, calls, workers | `Invariance`, `ChatMirrors`, `CurrentMarked`, `SeatsAlwaysFit`, `SeatsAreReviewed`, `CheckInsReached`, `AutoAdvances` | the run's safety properties |
| `PaymentsProofs` | calls, prices | `WalletSafe`, `PaidSafe` | credited once, never overdrawn; confirmed is delivered, delivered is paid |
| `ChatUnreadProofs` | members, messages, tasks, pages | `CountersAccounted` | `Accounted`, `DriftExplained`, `NoneForgotten` |
| `MembershipProofs` | guests, calls, capacities | `MembershipHolds`, `CheckedSeatsFit` | `SeatsAgree`, `DecidedOnce`; `CheckedSeatFits` |
| `ChatsProofs` | values of the joint instance's constants | `CountersExact`, `DriftIsExplained`, `NobodyForgotten`, `SeatsAlwaysAgree`, `RequestsDecidedOnce`, `SeatsUnderLockFit` | what the run `chats` checks follows from the theorems above |
| `ChatsProofs` | clients, messages, calls, pages | `LogIsRight` | `LogHolds` |
| `ChatsProofs` | users, founder, calls and their number | `CommunityIsHeld` | `CommunityHolds` |
| `ChatsProofs` | calls, limits of attempts | `OffersAreHeld` | `OffersHold` |
| `ChatsProofs` | updates, faults | `UpdatesAreHandled` | `RelayHolds` |
| `ChatsProofs` | roles, candidates, keys, bodies, limits, calls | `MeetupsAreRight` | `MeetupsHold` |
| `PeopleProofs` | users, calls, quotas, prices | `LikersMeet` | `SwipesMeet` |
| `PeopleProofs` | photos, calls | `PhotosStayInOrder` | `PhotosInOrder` |
| `PeopleProofs` | selfies, documents, calls, expiries | `ReviewsHold` | `ReviewHolds` |
| `PeopleProofs` | images, calls, attempts, batches | `ImagesAreAccounted` | `ImagesAccounted` |
| `PeopleProofs` | calls, Telegram accounts, numbers, identities, limits | `SignInsHold` | `SignInHolds` |
| `PeopleProofs` | rewards, tickets, limits, places, calls | `DropsAreFair` | `DropsHold` |
| `ShownProofs` | processes, requests, lifetimes, answers and writers of the tables | `AnswersAreFresh` | `CachesHold` |
| `ShownProofs` | listings, venues, grace; occasions, workers, processes, calls, batches | `NewsAreRight` | `NewsHolds` |

**`OutboxProofs`** assumes only that limits are natural numbers as declared in
`Outbox`; rows, workers, batch keys and which workers batch are arbitrary.
`ClaimsDistinct` is not inductive, because of the sequential claim: it hands on
an attempt number it read before its update. `ReadCurrent` closes the gap: if the
row was claimed since the read, its lock or its delay is younger than the guard
of the update allows, so the guarded update finds nothing. `RanClaimed` ties
handlers' effects to claims that were made, `LeaseHeld` says that while nothing
was disturbed a live claim is the latest of its row, still locked;
`AbsentUntouched` that rows not inserted were never claimed. In `Refinement` a row
that is pending or processing is open, delivered rows are those whose handler
had its effect, late is `disturbed`. Each step is an abstract action or a
stutter: a done write is `Complete` (of all rows of a group at once), an
exhausted report `GiveUp`, a report that puts a settled row back `Reopen`,
possible only when late.

**`EveningProofs`** assumes that guests are finitely many and not the host, that
the route has a step, and that due times and bounds are natural numbers.
`ChatMirrorsSession`, `SeatsFit` and `JoinedAreMembers` hold by themselves; the
others depend on what a call or a worker has read before. `CallsFit` says what a
reading still means when it is written: a move names a step with a next one; a
call that will seat a guest directly belongs to a session whose entry is not
reviewed, for the privacy never changes; a check-in is at a step that was
reached, for no mark goes back to upcoming. `HostStays` keeps the host from
asking for a seat. `MovesFit` says that a worker's decision leads forward. The
capacity needs facts about finite sets (`JoinedFinite`, `SeatKeeps`).

**`PaymentsProofs`.** `Shape` lists what may be left of a call's statements.
`WalletInv`: a row is locked by one call at most (`Exclusive`), and a call about to
commit a credit or a debit has held the wallet since it looked at it (`HoldsWallet`),
so nobody has credited the order or taken the tokens in between. `PaidInv`: whatever is
about to confirm an order knows of a payment that was made (`ConfirmedIsPaid`), which
follows from what notifications may say (`MailIsTrue`) and from nothing being known
of an order before its payment is initialized (`Unheard`, `Untouched`, `InitIsAlone`).

**`ChatUnreadProofs`.** `AtMost` and `AtLeast` are the two halves of `Accounted`, each
with the causes of drift that can break it. They need `NumbersAreFresh`: between its
reading and its write a group's numbers are those it would compute now, and a
recount's are the messages it has seen, or the member is known to be stale; and
`WrittenIsCounted`: what a task has written is counted before its row is done.
`NobodyIsSkipped`: a stored message that is not counted for a member waits in a row
that no task is about to finish without him; that the row of the next page is
created before the page is written keeps this. Counting is by cardinality of sets
of messages, so each step needs a lemma on how such a set changes. `ConstantsFit`
lists what is assumed of the constants: finitely many members with positive ids, a
page of at least one.

**`MembershipProofs`.** A transaction's effects show only at its commit, so the
invariant speaks of rows *and* of what calls have written. `LockHolds`: one call
holds the event's row, while there is room, and nobody else has a seat on the way:
that is the capacity. `CrossedIsKnown` says that users let in and taken out by calls
in flight together are in `crossed`, `LetsIn` and `TakesOut` what such a call has done
so far; from these seat, chat and attendance agree. `RequestIsLocked` and
`DecidesPending` give one verdict: a request's row is being written by one call at
most, and a decision that is written was on a pending row.

**`ChatsProofs`.** `focus` never changes and each service steps by itself, so the
theorems of the other modules carry over. They assume what TLC evaluates on the
run: the host of the meetup is neither guest (`ModelValues`), the founder is a user
(`FounderLives`), a page of the log holds an event and no message has the name of
none (`LogFits`), limits are natural numbers and bodies and candidates have the
fields the code reads (`BoundsFit`, `DraftsFit`, `MeetupsFit`).

- *Realtime log.* `SyncInv`. `OpenFits`: an open writer holds its message alone, and
  its id is greater than any about that message; so the last event of a message is
  what its row says (`Replays`). `KeepsUp`: a live client holds every committed event,
  one that synchronizes those up to its cursors, where to hold is to have seen it, to
  have it under way, or to be excused (`Held`). `LowestIsDownward`, `PageIsWhole` and
  `PageShows` say that a page of a set of numbers leaves nothing between its members.
- *Community.* `GroupInv` relates each call to the rows it saw (`SawFits`,
  `BeganFits`, `WriteFits`): what it read still holds, or its user is in `crossed` or
  the change is in `raced` or `deposed`. The first attempt failed for a reason: a
  user joins, becomes an owner, begins to leave, is handed the community, his leave
  ends, he restores the chat and hands the community on. He then sits in the chat
  without being a member, which no run of five calls shows. The history `crossed`
  names this case since (`Overtaken`), and a run of six calls agrees.
- *Offer code.* A code is used once, and what calls hold says so: who has seen it
  expired has seen the evening over, who is to track the use has used it and is the
  only one; attempts let through are attempts.
- *Partner.* `SessionsEnd`: while an account is suspended a revocation is under way,
  or the sessions that live are those of a login that read before it or of a
  revocation that broke off half way. `OneHost`: partners are never deleted and a host
  user stays, so what a call has read of them still holds; each has one at most.
  `SeatsReviewed`: seat and chat are one, an approved guest has both, and a guest with a
  seat is approved unless answers crossed.
- *Relay.* `InOrder`: a poll goes on after the last update confirmed, and all before
  the one in work are answered. `Counted`: an update is handed on once more only for
  a fault or a poll repeated. `Answered`: what is confirmed, in memory or in the
  file, has been answered.
- *AI drafts.* `DraftInv`. `RowHonest` says of a draft's row, and `SketchFits` of the
  copies calls work on, that the route fits and each step accepted is one the user
  has seen in that place (`Honest`), unless it is in `crossedSteps`: so a write of the
  whole row from an old copy keeps it. What `routeFromGenerated` and the validation
  build step by step are recursive functions; `GeneratedGoes`, `GeneratedFits` and
  `RouteFits` follow them by the least step at which they would leave the fitting
  routes (`SomethingIsLeast`, from well-founded sets), because induction needs an
  operator as parameter. `HasRoom` carries what a call has counted of the week.
- *Creation of meetups.* `CreationInv`. `KeysAreUnique` and `CreationFitsCall` give
  one meetup for a key: whoever looks again after the key was refused finds it.
  `CreationAlone`: a call that runs alone inserts on a count that is still true, so
  only those that overlapped another may pass the limit (`LimitStays` says that a later
  meetup does not change what an earlier one was allowed by). Admission is a matter of
  the body and of later edits; seats within capacity of what an edit has read.

**`PeopleProofs`** assumes that who swipes is a user, that quotas and prices are
natural numbers (`SwipersFit`), that no selfie or document is the mark for none
(`NoneIsNoAsset`), for Telegram logins that finitely many calls overlap and a
code may be tried at least once (`GuessesFit`; the code's limit is 5), and for drops
that tickets are numbers, finitely many, each of one reward, and that those earned
earlier are within the limits (`DropsFit`). Otherwise sets of users, keys and calls
are arbitrary, infinite ones too.

- *Drops.* `DropInv`. `GrantFits`: what a grant has counted still holds until another
  is granted, for everything else only makes it less (`Standing`, without revived
  tickets). `ApplyFits` and `ListsNested`: of two lists of free tickets one holds the
  other, so the tickets assigned and any one list together stay within the drop's limit, and the
  second application adds only what the first has left. `DrawFits`: a draw has read
  every ticket that waits, or the ticket is `late`. The number of places depends on what a
  choice of a reserve has read: `ChooseFits` says that it still holds (`Fresh`), or was
  done by another call already (`Settled`), or the unique index refuses it
  (`Clashes`). The attempt to prove this of *every* choice failed for a reason: after
  two others were committed, a position may be given away and back, and the third
  then turns two winners into one place. The instance had one prize and could not
  show it; it has two since, the history `overtaken` names the case, and the property
  excepts it. `FirstsAreFew` and `AgesDiffer` say that the order by age is strict and that the
  first n of it are at most n, `MaxIsTheGreatest` what the greatest position is.

- *Dating.* `SwipeInv`. `LikesAnnounced`: a like was told, or the call that made it is
  about to tell it, or ended short. `MatchesPursued`: of two who like each other, a
  call that wrote one of the likes is on its way to the chat, until it is there.
  `ChatsMet` says whom a chat is opened for, `Allowed` that a call writes only what it
  has counted to be within its quota or charged.
- *Photos.* `PhotosInv`. `LockHolds`: one upload at a time holds the profile, and the
  last place it has read is still the last, because whoever else commits places
  waits for the profile. `ReadingFits`: as long as nothing was committed since a reordering read
  (`alone`), its list is that of the photos there are, the numbering it has
  written gives each its own place, and the photo it has picked is the first of
  them. `NumberingNumbers` and `HighestIsGreatest` say what the two helpers return,
  `CommitKeeps` that a commit leaves no other call `alone`. The attempt on `Sync`
  showed that the model had left a foreign key out: a photo picked as first and
  deleted before the profile is written makes that write fail. The guard is there
  since.
- *Verification.* `ReviewInv`. `TrialsTold`: trials are at most those whose notice
  has expired and the one whose notice is there; an approval inserts notice and
  trial in one transaction, and the unique key refuses the second. `SubmitsFit`: who
  submits has seen a row that allows it. `OvertakenIsKnown`: a call whose row
  changed since it was read is about to write, and that sets `overtaken`; so
  while it is unset, what is written agrees with what was read.
- *Uploads.* `MediaInv`. `ImageFits`, the property image by image, is inductive once
  the types say that each image has one row and variants only with a row
  (`MediaTyped`): a completion past its first commit (`Completing`) is what stands
  for the event that is not queued yet. `WithoutOne` says what the sequence is when
  one row is taken out and put at the end.
- *Sessions of a number.* `AuthInv`. A claim writes the challenge only while it is
  unclaimed, so a challenge that started a session is consumed and starts no other
  (`SessionsStarted`). `TokensFresh`: tokens are made in order, two sessions never
  have the same, and one that was honoured is nobody's current token; an answer
  under way brings a token no other session has (`SigningFits`). `TokensKnown` says where
  the token of a live session is: with the client, in an answer, or lost.
- *Telegram.* `TelegramInv`. `RowFits`: a login that waits for its code has one that was
  sent to its account and number. `LoginFits` carries that over to the calls that
  have matched the code and are about to let in, and `KnownBy` says that a user who
  is not the number's was let in by that account before. The limit of guesses
  is checked before the guess is counted, so a code may be
  guessed wrong once more by every call that read the count before. `GuessesBounded` counts the
  wrong guesses made with those under way; only their sum is inductive.
- *Other services.* `SocialInv`. An identity's account never changes once it is there,
  so what a sign-in has read of it still holds when it writes (`LinkingFits`).
  `ContactsUnshared` rests on the unique keys alone: every write of a contact
  meets them, and one that fails leaves nothing behind. `AskedGiven`: what
  onboarding required came in the same call, no sign-in takes a contact away, and
  onboarding that gives it anew answers for itself.

**`ShownProofs`.** What a user is shown and told: cached answers, the affiche, notices.

*Cached answers.* It is assumed that finitely many requests overlap (`GuessesFit`), none
of which is the mark for none, and that lifetimes are natural numbers, that of memory not
zero (`CachesFit`; the code has seconds). `CacheInv`. The tables come first: `PairsFit`
goes through every answer and every writer that clears any of it, and shows that one
whose write later requests must see clears every place the answer is kept in, and that a
versioned answer is never cleared before the write. `Holds` says that whatever a process
can come by under a key (a copy in memory or in Redis, what a load holds, what Redis has
answered) has seen a given write; `Valid` names the keys it may still ask by: the
version in Redis, its own copy of that, one a request has just read. `DueServed` has
`Holds` for what is due and every valid key, `Served` for each request and its own key,
from its start to its answer; a key that becomes valid was so for another request or is
new, and under a new key nothing is held yet (`StampFits`: there are as many versions as
writes). `Flow` is what all steps have in common, that values move from the database to
loads, to Redis and to memory, so `HoldsStays` needs one proof and no step can lose a
write. Where the code clears copies that an overlapping load may bring back, the reading
is excepted by the property; `AloneFits` and `Cleared` carry that no reading has
crossed, where it is not. `CopiesFade` is `CopiesFit`, deadlines that add up place by
place, and `RequestFits`, that a request lasts a tick at most.

*Affiche.* Assumed is what a listing is made of and that the grace is a natural number
(`ListingsFit`). `AfficheInv`. An import decides on the other source's row as it read it,
so it can be right only if it is alone from its read to its write (`AloneRunFits`, and
what it has found by then, `TicketlandFits` and `KudaGoFits`); the history `agreed` says
that the last import ran so, and `AgreedFits` that nothing has disturbed the two rows
since. The first attempt failed for a reason: an import that began while the other was
still on its way left `agreed` as it was, so with four imports the two rows could be
listed twice under a history that called them compared. No run of three shows it; the
history ends with the overlap since, and the instance has a bound of four imports.
`SeenFits` carries, for each source, that an import on its way saw the source no earlier
than the last sweep and that what is shown without force has been seen within the grace
of it; `Verdicts` and `PlacedFits` that neither a rejection nor coordinates are undone.

*Notices.* Assumed is that occasions are finitely many and a batch is a natural number
(`OccasionsFit`). `NoticeInv`. A notice is created under its unique key, so there is one
for an occasion (`CreatedFits`) even when retention deletes it: its window is then past
and no scan still holds the occasion, or a later scan of the same worker would announce
it again. `QueuedFits`: its outbox rows are written, or exactly one worker is about to
(`NoticePendingFits`), or its scan ended there (`cut`). `NoticeSeenFits`: what a scan has
read it has still to handle or it has a notice. `CountFits` and `ListFits` say that what
is cached or loaded exceeds what is unread only while a mark is between its write and its
clearing (of the count in all processes, of the list in the process that marked), or
after Redis refused to clear; a load that such a clearing overtakes is `old`, and what
it stores is excepted until it expires.

Only model-checked:
- liveness (`EventuallySettled`, `EventuallyCounted`, `AutoFinishes`,
  `PaidIsFulfilled`): it rests on ENABLED and on sums that decrease, which these
  provers do not do;
- all of `places`: in `RoutesHold` the planner is a set of recursive operators, about
  which induction would be needed; `PushesHold` counts what was sent with a fold over
  the rows, and `DiscoverHolds` and `ListsHold` sort sequences, which asks for the
  same; `RunsHold`, with offsets in chains of runs, has no proof yet;
- that types are kept is part of each inductive invariant and has no run of its
  own.

## Findings

Five places where the code does something its documents or tests deny. Each is
a run that ends in a counterexample of a few steps.

1. `unread_recounted` – `worker.service.ts:2179`. `ai-context/database.md:59`:
   "`ChatMember.unreadCount` stores materialized unread count." A system message's
   fan-out overwrites the counter with a COUNT that includes messages whose own
   rows are still waiting; those rows then add them again. No fault is needed,
   and nothing corrects the counter until the member reads the chat.
2. `membership_review` – `events.service.ts:1381`. `ai-context/backend-api.md:336`:
   "Concurrent join request review must not reset an approved request back to
   pending." The participants are read before the request; an approval between
   the two reads looks like an old one whose seat was given up, and is reopened.
3. `membership_capacity` – `events.service.ts:1204`. `ai-context/backend-api.md:330`:
   "Direct joins lock the event row and check capacity inside the transaction."
   A repeated join that saw its seat skips the check; a leave that commits before
   its upsert frees the seat for someone else, and the upsert adds one more.
4. `payments_extended` – `payments.service.ts:456`. The test
   `payments.service.unit.spec.ts:490` "confirms subscription only once for the
   same payment order" holds for calls one after another; two that overlap have
   both read the order as pending, and both extend.
5. `import_runs` – `admin-route-review.service.ts:245`. `ai-context/backend-api.md:106`:
   "returns `{ items, nextCursor }`, ordered by newest `startedAt` first, so admin
   can page through all-city import batches." The cursor is the first run that did
   not fit the page, and the next page begins *after* it: one run is lost at
   each page. Route drafts, content items, reports and the app's affiche page alike.

## Also reachable

What else the models (or the reading they took) show that a maintainer may want
to know. No sentence in the repository denies it, or the denial is about
something wider; most are the exceptions the properties name.

- *Outbox.* A failed report that comes late reopens a done row (`disturbed`).
- *Meetups, evenings.* A start overtaken by a finish revives an evening. A
  repeated join leaves a chat member without a seat in an evening. A retry that
  overlaps the first creation can get 429 though its meetup was stored.
  Meetups of a custom step always get 409, so `createPrivateEventRoute` is dead. A
  host's edit can make dating or after-dark meetups public and open; an admin's can
  combine friends with open joining. A host may set a capacity of 1 to 1000, creation
  takes 2 to 100, and joins between an edit's read and write can exceed the new one.
- *AI drafts.* Confirm, regenerate, accept, confirm returns a draft whose stored
  route differs from it. Overlapping creations exceed three a week
  (`ai-context/backend-api.md:231`). Two confirmations create two routes.
- *Drops.* With two prizes or more, a choice of a reserve that read before two others
  were committed can pass the unique index and leave one winner fewer: the second
  of them has given the position back that the first had taken. Cancelled tickets
  that were selected count again after the draw.
- *Payments.* A notification that is overtaken puts a confirmed order back to
  pending. A token purchase of Frendly+ overlapping a paid order loses one of the
  two periods.
- *Communities.* A leave overtaken by a transfer to the leaver makes a creator
  who is no member. After the back office demotes the creator, the owner named
  instead may leave, and there is no owner. A creator it removes keeps an
  administrator's rights through `createdById`.
- *Partners.* Approvals repeated or overlapping create a `Partner` each and move the
  account. A rejected account keeps its `partnerId`. A partner's review adds seat
  and chat, but no attendance, no check of capacity, and works on canceled meetups.
- *Sign-in.* A Telegram code's attempts are bounded by five and the overlapping
  requests. A Telegram account that shares a number no user has logs in its own user
  and leaves a stray second one, with whom later logins by that number conflict.
  `attachEmailIfEmpty` swallows a unique violation, but PostgreSQL has aborted the
  transaction: that sign-in fails each time. Sessions of a suspended user live on
  in the guard's cache for five seconds.
- *Verification.* Approve, return, approve fails on the notice's unique key until
  retention deletes the first notice. A submission in flight over an approval leaves
  a verified user under review.
- *Uploads.* A crash between the asset's row and its event is healed by the scan
  only, whose window is the oldest rows; one target's error ends a scan.
- *Relay.* An update the backend always refuses blocks all later ones, and earlier
  ones of its batch are answered again at each poll.
- *Notifications.* A worker that dies between a notice and its outbox rows leaves
  a notice never pushed, and its key blocks later scans. One invalid token fails
  a whole page and pushes the others again at each retry.
- *Lists.* Several comparisons of cursors do not match their order (see `Lists`):
  people's search drops the query from page two, communities' `createdAt >` never
  passes the first page, the geo feed without PostGIS sees only the first rows of a
  group. The dating deck ends early when the buffer holds exactly a page.
- *Caches.* Several writes clear one of the two places an answer is kept in, clear
  before the commit, or clear memory before Redis, so that a read in between
  brings the old answer back until it expires (see the tables in `Caches`).
- *Routes.* The validator does not compare timed events with a place between them.
  An anchored route is refused when the nearest place before is a bar, though one
  without it would do. A draft approved twice is stuck; a rejected draft is
  published when a conversion overwrites it.
- *Imports.* Two workers execute one pending run twice. A failed run, a crash
  between completion and enqueue, or a slice without rows ends the chain of slices
  silently. An administrator's "hide" is undone by the next import; KudaGo's import
  may republish a stale duplicate.

## What is not modelled

- *Of the modelled components.* `Outbox`: the number of lanes in one loop (every
  order of the tasks is allowed), rows skipped because another claim has them
  locked (the claim is atomic), retention cleanup. `ChatUnread`: a block made
  between counting and reading, the backfill script, the messages that tell
  clients the new number. `ChatSync`: cursors older than the retained events,
  typing, backpressure. `MeetupMembership`: entry requirements, gender and block
  checks (a refused call does nothing), admin cancel and restore.
  `EveningSession`: invite tokens, system messages and their dedupe keys,
  after-party, perks, the phase "canceled" (nothing sets it), the scan's batch
  limit. `Payments`: prices and discounts, receipts, signatures, amount mismatch,
  the first wallet row, promotion targets, trials and the passing of paid time
  (and what a subscription's stale reads make of it). `Dating`: the sliding of the
  quota windows. `Communities`: media, news, archiving. `Partners`: rotation of
  tokens, the portal's communities, venues and offers. `Uploads`: access rules,
  image processing. `Verification`: the moderation list. `Drops`: referral links,
  pending rewards, freezes. `RoutePlanner`: normalisation of categories, wording.
  `ImportRuns`, `Affiche`: parsing. The notes of the components in `PROJECT.json`
  say more.
- *Components without a protocol* (profiles, settings, the back office's single-row
  edits, templates, HTTP layer): one row read or written by one call; TLC would
  restate the query. Launching a template (`launchRoute`) checks neither its
  status nor the host's limit of sessions; nothing publishes a template at its
  `scheduledPublishAt`.
- *External data* (sources' pages, a model's answer, image processing) is a choice
  of any outcome the code lets pass; *cryptography* (tokens, provider signatures)
  is outside.

## Plan

Done, in this order: `Outbox` with its abstract queue, `ChatUnread` on its
delivery guarantee, `MeetupMembership`, `EveningSession`, `Payments`; `ChatSync`,
`Dating`, `Communities`, `Drops`, sign-in, `Uploads`, `Partners`, routes; the
remaining services in the joint runs; the proofs listed above.

Next, most important first:

1. `RunsHold`: a chain of slices has no gap, by an invariant over the offsets of the
   runs that are pending, at work or done.
2. The order and the cursors of the lists, once they are stated without sorting.
