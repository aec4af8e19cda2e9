# TLA+ models of nestjs-booster

TLA+ modules, TLC configurations and TLAPS proofs about the gateway of nestjs-booster
(`apps/gateway`) and the packages it uses. Paths are relative to the repository's root;
`A/` stands for `apps/gateway/src/`.

The gateway runs as several replicas of one Node.js process (five in
`.deploy/docker-compose-prod.yml`) over one PostgreSQL, one Redis and one RabbitMQ. It has no
locks, no transactions and no MULTI: a request is a sequence of awaited commands, and the
commands of all requests of all replicas interleave. The models are about what that can do.

## Inventory

| Component | State it keeps | Operations | Interacts with | What is hard | What makes it correct |
|---|---|---|---|---|---|
| Token pairs, `A/authentication/application/services/jwt-token.service.ts` | two Redis keys per pair, with TTLs | generate, refresh, verify, revokeToken | sign-ins, the authorization guard, Redis | GET ... DEL and SCAN ... DEL without atomicity; failures after each command; claims that a refresh does not verify | an exchanged or revoked pair stays refused; a rotation strands nobody; only own keys are removed |
| One-time passwords, `.../services/otp.service.ts`, `otp.entity.ts`, `typeorm-otp.repository.ts` | rows of `otp_logs` | generate, verify | the OTP use cases, notifications | check in memory, then an UPDATE without a condition; colliding codes; a lookup that ignores the reason | a code acts for the owner of its destination; a spent code is refused |
| OTP use cases, `A/authentication/application/usecases/` | none | send OTP, sign-ups, request and do a password reset, sign in, verify | OTPs, users, tokens, events | several writes per request; two settings that open registration | closed registration stays closed; an OTP has a user |
| Other sign-ins: password, Google, impersonation | none | sign in, sign up | users, tokens, events | upload and sign-up in one request | who gets a pair |
| Users, `A/users/profiles/` | rows of `users` (UNIQUE email and mobile) | create, update profile and password, mark verified, log the login time | events, attachments (avatar) | a stale entity saved by the columns that differ; verified flags that arrive by events | flags stand for proofs; verified is final but for a reset; an avatar stays whole but for a reset |
| Roles, `A/users/roles/` | rows of `roles` | find, seed | seeders, tokens (permissions) | permissions copied into tokens, and from token to token | permissions have a giver |
| Request guards, `A/common/application/security.ts` | none | throttle, authorise, captcha, permissions, enabled | tokens | order of the guards | a handler runs for holders of its permissions |
| Message bus, `packages/rabbit/src/rabbit-mq.service.ts` | connection, channels, handlers by consumer tag; durable queues in RabbitMQ | subscribe, publish, consume | users, notifications | start-up order, death before an ack, poison messages, lost connections | at-least-once delivery; no loss inside the broker; progress |
| Notifications, `A/notifications/` | rows of `notifications` | consume an event, dispatch email and SMS, list, mark read | the bus, mailer, SMS provider | redelivery after a partial dispatch; channels lost for good; concurrent reads of alerts | bounded duplication; read stays read |
| Attachments, `A/attachments/` | rows of `attachments`, `attachment_users`; files in a store | upload, download, delete, share, grant, revoke | storage provider, users | file and row are two writes; stale entities saved by the columns that differ | a row has its file; a dead link stays dead; downloads were allowed |
| Start-up and seeders, `A/app/app.module.ts` and the `*.seeder.ts` | seed rows | seed roles, default user, countries | users, roles, countries | all seeders of all replicas at once, nothing awaited | somebody may administer after a restart, unless a customer took the identifier; half a copy only where a process died |
| Countries, `A/countries/` | rows of countries, states, cities, city regions | seed, list page by page, create a city region | seeder | pages and totals are queries of their own while rows are inserted | a client that reads all pages misses nothing |
| Throttler, `A/common/throttler/` | none in use: see the end | | guards | | |
| Captcha, health, controllers, DTOs, configuration, exception filter, logging, Swagger, Sentry, utilities, migrations | none that changes at run time | | | | |

`PROJECT.json` lists the same components with the modules that model them, every hazard with
the line where it bites, and the code each definition models.

## Modules

| Module | Models | Rests on | Proofs |
|---|---|---|---|
| `Sessions` | what a client of the token endpoints may count on (abstract) | | |
| `JwtTokens` | token pairs in Redis | implements `Sessions` | `JwtTokensProofs` |
| `Otp` | one-time passwords and the use cases around them | | `OtpProofs` |
| `EventDelivery` | what a subscriber of the bus may count on (abstract) | | |
| `Broker` | the message bus | implements `EventDelivery` | `BrokerProofs` |
| `Accounts` | the users table, its writers and the claims it becomes | the promise of `EventDelivery` | `AccountsProofs` |
| `Notifications` | the subscriber of the bus: rows, dispatch, reading | keeps its side of `EventDelivery` (refinement) | `NotificationsProofs` |
| `Attachments` | files, rows, share tokens, grants, downloads | | `AttachmentsProofs` |
| `Listing`, `Countries` | paged lists; seeding of the countries, and reading them meanwhile | `Listing` | `CountriesProofs` |
| `Access` | seeding of role and default user, guards, roles, permissions in tokens | | `AccessProofs` |

A component is modelled against what it may rely on, and not against the detail of the others:
`Accounts` and `Notifications` take the events of `EventDelivery`, which `Broker` is shown to
implement; `Accounts` and `Access` take a redemption of a code as one step, which `Otp` resolves;
`Access` has a token that passes `verify()` or none, which `JwtTokens` resolves.

`save()` of every repository is TypeORM's: it selects the row again, compares it with the entity
and updates the columns that differ. Where the entity may be stale by then (password reset,
reading a notification, share flag) it is two actions after the read, `SelectAgain` and the
UPDATE; `update()` writes the columns it names and is one. So is the save of a redeemed OTP: no code
changes any other of its columns than `used_at`.

The `MC*` modules and their `.cfg` files are the instances TLC checks. In every module one action
is one awaited command with the synchronous code after it, every await may fail, and a process
may die at any of them. A definition headed "Mutant of" is no part of the model: it is a plausible
error in the definition it names, kept to show that a property would notice it.

What is left to do: that `Otp` implements the redemption in one step which `Accounts` and `Access`
take (stated in words only), and push tokens once some code reads them.

## JwtTokens: token pairs

One action is one Redis command with the synchronous code that follows it: `SignIn` is the start
of `generate()` up to its first await, then `SetRefreshKey`, `SetAccessKey` and `Reply`;
`Refresh` is the GET of `refresh()` with the checks after it, followed by the same two SETEX and
then `DelRefreshKey` and `DelAccessKey`; `RevokeToken` is the first SCAN of `revokeToken()`,
then `DelScannedAccess`, `ScanRefresh`, `DelScannedRefresh`. `Fail` ends a request at any await:
Redis failed (the catch blocks throw and undo nothing), the answer was lost, or the process
died. `ExpireAccess` and `ExpireRefresh` are the TTLs. `verify()` is the operator `Verifies`.

A token is its id. `verify()` checks the signature of a JWT; `refresh()` only decodes it, so the
user and the id it acts for are whatever the client says (`u` and `a` of `Refresh` are any), until
the Redis key they spell is found; the refresh token is one somebody was answered, as 200 random
characters are not guessed. The key is what the properties rest on. The other claims, which
nothing checks, are in `Accounts` and `Access`.
`issued`, `parent`, `deadRefresh` and `deadAccess` are history variables.

- `ExchangedOnce`: from the moment a client receives the successor of a pair, the pair is
  accepted nowhere. Refreshes of one pair whose GETs all precede the first DEL do all succeed:
  the property says that they cannot follow one another.
- `RevokedStayGone`: the tokens that were in clients' hands when a revocation was called are
  refused once it returned. A pair that is being generated meanwhile may survive it, which the
  model shows (drop `returned` from `due` in `Revoking` to see it).
- `NoStranding`: whatever fails, the refresh key of a complete pair stays until its TTL, until a
  revocation deletes it, or until the pair has a complete successor. The successor may be one the
  client never received: when a DEL fails, `refresh()` throws the new pair away.
- `OwnKeysOnly`: no step of a request removes a key of another user.
- `ImplementsSessions`: `JwtTokens` implements `Sessions`, the promise to the clients with no word of
  Redis. Held pairs are those a client received, open tokens those of held pairs whose key is
  there, and what a revocation still owes is `due` of the families its stage has left
  (`FamiliesLeft`). Pairs nobody received, and the commands between two keys, are stutters.

Runs: `sessions` (one user, three ids, two requests: a sign-in and two exchanges of it, or an
exchange and a revocation, in every order) and `sessions_two_users` (two users, two ids), which also
checks the refinement: two ids are a pair and its successor, or the pairs of two users, and the
evaluation of the abstract next-state relation on every step is slow with three.
Symmetry is used in both; neither has liveness properties. Nothing deadlocks.

## Otp: one-time passwords

One action is one SQL statement with the code that follows it. `SendOtp`, `SignUp` and
`RequestResetPassword` look the user up; `CreateUser` is the INSERT under the UNIQUE
constraints; `SaveOtp` is `generate()`. `FindOtp` is the SELECT of `verify()` and the checks of
`OTPEntity.verify`; `SaveUsed` is `markAsUsed()` and `save()`; `SigninByOtp`, `Verify` and
`ResetPassword` are what the use cases do with the user of the row. `granted` is the history of
redemptions that took effect. The configuration is chosen in `Init`. A code is both its digits
and their hash; the OTP type TOKEN is left out because no caller issues one; no code sets
`isBlocked`, so its guards are left out.

- `GrantsMatchDestination`: six digits collide and the lookup ignores the destination, yet a
  code acts only for the owner of the destination it was sent to.
- `NoReplay`: a redemption that starts after its code took effect does not find it.
- `IssuedToUsers`: a request that fails between the user and the OTP leaves no orphan OTP.
- `RegistrationClosed`: no sequence of requests registers anybody when it is closed.

Run `otp`: one seeded user and one who may register, an email each, two rows, two codes (so that
live rows can collide) and two concurrent requests. Two runs show where the code and what is
said of it differ:

- `otp_one_time` violates `OneTime`: two requests that both read the row before either saves it
  both succeed with one code (`otp.service.ts:86-88`: the check is in memory, the UPDATE has no
  condition on `used_at`). How often is proved (`ReplayIsBounded`): at most once for each request in
  flight, and never for a later one.
- `otp_reason` violates `ReasonRespected`: `findOne()` of the repository ignores the `reason` that
  its interface asks for and its callers pass (`typeorm-otp.repository.ts:21`), so a code issued
  to log in also verifies or resets a password.

## EventDelivery and Broker: the message bus

`EventDelivery` is what a subscriber may count on: an event may never reach the queue, a pending
event may be handled any number of times in any order, and it is settled only after a handler
ran to its end, except while some subscriber is starting. A handler may also end after its event was
settled: it lost its channel and ran on. `Broker` is `RabbitMqService` on every
replica with one durable queue: `StartProcess`, `Connect`, `BindQueue`, `Consume` and
`RecordHandler` are the awaits of the constructor and `registerSubscriber()`; `Publish` and
`PublishFails` the unconfirmed publish; `Deliver`, `Handle`, `Ack` and `Nack` the consumer
callback; `Crash` and `Disconnect` the failures. `Disconnect` drops the deliveries of the
replica with their handlers; a handler that runs on changes nothing here, since its ack or nack
throws on the closed channel, and what it does meanwhile is in `Notifications`. RabbitMQ itself is
modelled from how the service uses it: a message goes to a consumer with room in its prefetch window, an unacknowledged message
of a consumer that is gone returns to its place, and a message published with no queue bound is
dropped. A process may have several connections (`initialize()` tests `this.connection` before it
awaits), so publishing does not depend on how far the subscriber has come.

- `Conserved`: a published message is in exactly one place.
- `StartupLossBounded`: `registerSubscriber()` records its handler after `consume()`, so messages
  that were waiting in the queue may be acknowledged unhandled; at most a prefetch window of
  them for every consumer that ever started.
- `DeliversAtLeastOnce`: `Broker` implements `EventDelivery`, with `pending` the queue and what the
  replicas hold, and `starting` whether some replica has a consumer without a handler or a
  delivery that found none.
- `EventuallySettled`: a routed message that is not poison is acknowledged in the end, unless every
  replica lost its channel for good.

Run `broker`: two replicas, three messages, the first one poison (so that one is stuck, one can be
handled and one waits behind a full window), prefetch two as in the code, two failures. `NEvent` and
`MaxDowns` bound it. Deadlock is not checked: the system rests once everything is published and
settled.

Fairness (`FairSpec`): a replica that is down is restarted and boots (`restart_policy: any`; the
three attempts it allows are more than `MaxDowns`); RabbitMQ delivers some message as long as some
consumer has room (weak), and a message that is at the head of the queue again and again is
delivered some time (strong); the handler of a message that is not poison succeeds some time if it is
tried for ever (strong), and is then acknowledged (weak). Nothing is assumed of poison, of
publishers, of rejections or of failures. The result needs fewer poison messages than one prefetch window: with two of them the
messages behind them are never delivered to a single consumer.

## Accounts: the users table

A request reads the user and decides on what it read. All of them but the password reset then
write the columns they name, or nothing, so a stale read cannot hurt the row and the request is
one action. The password reset is three: `UpdatePassword` reads the entity, `SelectAgain` is the
SELECT of `save()`, which finds the columns and flags in which the row differs from the entity by
then, and `SavePassword` the UPDATE of those. So a reset may take back what others wrote between
its read and that SELECT, column by column. `MarkUserAsVerified` and `UpdateLoggedInTime` are the
two consumers; the sets of events are what `EventDelivery` leaves of a queue: lost, or handled any
number of times, in any order. Sign-ins make the claims of a token out of a row; `Refresh` makes
them out of whatever the client presents, because `refresh()` decodes the old token and verifies
nothing but the Redis key of its user and id (`jwt-token.service.ts:53,76-86`). `proven` is the
history of identifiers somebody has shown to own (a redeemed code, a vouching provider, the
configured default user).

- `VerifiedIsProven`: no flag in a row, an event, an entity in flight or a token of a sign-in is up
  for an identifier nobody has proven, however late or often any of them arrives. A token that
  came out of a refresh is left out: its claims are worth what the client that presented them is.
- `PasswordNeedsProof`: unless unverified users may sign in, a password opens a session only
  under a proven identifier. `signin-by-password.usecase.ts:47` asks `isEmail()` of the password
  instead of the identifier; the rule holds all the same, because a user with two identifiers has
  both verified from the start and no event or reset takes one flag of two away.
- `VerifiedStays`: only a password reset that read the row before it was verified takes a
  verification back.
- `AvatarStaysWhole`: a profile update writes one or both columns of the avatar and a reset those
  that differed. The two columns can come to name different attachments in one way only: a reset
  writes one of them, because the row had changed when `save()` looked, and leaves the other, which
  has changed since (or it had read them parted). That this does happen is why the property does
  not simply say that they agree.

A token is an observation and bears on nothing else here, so `token` is one token of the
behaviour: which one is chosen when it is made, and it then stays. What a refresh makes of other claims
than those signed is kept as such (`RefreshClaims`).

Run `accounts`: the default user with an email and a mobile, one user who may sign up with
another email, one attachment, one reset in flight, `AllowUnverifiedSignin` off (where it matters)
and impersonation on. One attachment and one reset are enough to part the columns of an avatar (a reset
puts one back that a profile update had cleared) and to race with the events; the proofs hold for
any number of both.

## Notifications: a subscriber of the bus

One action is one SQL statement or one call of a provider. `Take` is a delivery, `SaveRow` the
INSERT, `SendEmail` and `SendSMS` the dispatch, `Ack` the acknowledgement. The handlers of a
replica share its channel, as in `RabbitMqService` (`replica[h]`; as many as its prefetch). A
replica starts (`Start`), consumes before its handler is recorded (`Skip`: the event is
acknowledged unhandled), and is ready (`Subscribe`). `Fail` is a handler that rejects; `Crash` ends a
process with its handlers, and `Disconnect` loses its channel: its handlers run on with void
deliveries, their events are free for others, and nothing reconnects, so the replica takes no more
events until its process is started again. `FindToMark`/`SelectAgain`/`SaveRead`, `MarkAllAsRead` and
`FindAllAlerts`/`MarkAsSeen` are the requests of readers. Mailers swallow their errors; `return
promise` inside `try` catches nothing, so an SMS provider that cannot be reached rejects the event
(`notifications.dispatcher.ts:30`).

- `DuplicatesNeedFailures`: a second row, and so a second message, costs a failed attempt.
- `SettledWasNotified`: the subscriber implements its side of `EventDelivery`, where "handled" is
  that one row of the event went all the channels the event asks for: except while a replica
  starts, no event is settled before. Half attempts do not add up.
- `ReadStaysRead` and `SeenWasListed`: a save of an older read un-reads nothing, whichever columns
  it writes, and an alert that arrives between the query and the update is not marked as seen.
- `EventuallySettled`: an event in the queue is settled in the end, unless every replica lost its
  channel, which none of them notices. `Broker` has the same exception.

Runs: `notifications` (an alert with both channels and an event with none; two replicas, one with
two handlers; two failures of the first event and two deaths or lost channels, so that attempts
overlap on one replica and on two, both channels may go, or one of them and its replica come back) and
`notifications_reading` (two concurrent requests of a reader while rows arrive, one of them a second
row of the same alert; a page of one row). Requests and deliveries meet only in the rows inserted,
so the first run has no requests and the second one replica that stays up.

Fairness (`notifications` only): a replica that is down is started again and subscribes, RabbitMQ
delivers to some ready handler, and handlers that were started run on, as any promise of a live
process does. Failures are not assumed to stop; they are bounded by `MaxFails` and `MaxDowns`.

## Attachments: files, rows and who may read them

One action is one SQL statement or one call of the store. `UploadFile`/`SaveUploaded`,
`FindToDelete`/`DeleteFile`, `FindToShare`/`SelectAgain`/`SaveShared` (the last two once per entity:
`save()` compares draft flag, share flag and token with the row and writes those that differ),
`GrantAccess`/`GrantNext`/`FinishGrant`, `RevokeAccess`/`RevokeNext`/`RevokeAll` and
`FindToDownload`/`CheckGrant`/`Fetch` are the use cases; `FindShared` is the download under a share link,
which asks for no user. `delete()` removes the file and keeps the row, since `softDelete()` throws on
an entity without a delete-date column.

- `RowsHaveFiles`: whatever fails half-way, a row has its file unless a delete was asked for.
- `OneTokenOneAttachment`: a token belongs to one attachment.
- `DeadTokensStayDead`: a link that was replaced or withdrawn never opens its attachment again,
  although entities read while it was valid are saved later and flag and token are written
  apart. It holds because a save that shares always writes a new token with whatever else it writes.
- `DownloadsWereAllowed`: a file is fetched for a user who could read it at some moment of the
  download, or under a link that opened it; a grant revoked before does not count.

Run `attachments`: a private draft of one user and a public attachment of another, two requests
that share or withdraw both, and grant to or revoke from both users, and two tokens. Two requests are
every race of two; two tokens let one attachment have its link replaced, or withdrawn and shared
anew, and let both have one.

## Listing and Countries: seeding, and reading a growing list

`Listing` is what `findAll()` may answer: a query with ORDER BY, take and skip has several possible
pages when rows tie. `Countries` is `CountriesSeeder.run()` on several processes, one action per
statement, and a client that reads a list to its last page, where the items and the total are two
queries (TypeORM spares the second when a page is neither full nor empty).

- `HalfSeededNeedsDeath`: a run that ended by itself leaves a whole copy, or another run at work,
  or the half of one that died. A half that was left is never completed: the table is not empty.
- `PagesMissNothing`: a client that reads every page misses no row that was there when it began,
  except rows whose names tie (two processes that both seed make such rows).

Run `countries`: two processes, three countries with names out of the file's order (rows appear
before, between and after those already read), two states of the first, pages of one and two.

## Access: seeders, guards and permissions

`TestRoles`/`SaveRole` and `TestUsers`/`FindRoles`/`SaveUser` are the two seeders every process runs
side by side, nothing awaiting either. `SaveUser` is refused by the UNIQUE columns when another
process, or a customer who signed up meanwhile, has the configured email or mobile. `Arrive` is a
request through the guards in the order of `configureSecurity()`; `ReadUser`/`ReadRole` are the two
reads behind the permissions of a token, the other handlers are one statement each. `Refresh`
gives the client a token with the permissions `P` it presents, whatever they are: `refresh()` does
not verify what it decodes. `altered` remembers that some refresh was given other permissions than
those signed.

- `AdminAfterRestart`: on the first start the user seeder may look for a role before the role
  seeder saved it, and then makes nobody. A process that starts when a role with `*` and no user
  are there does not end its seeder without a default user, however the other processes interleave;
  except when a customer has taken the identifier configured for that user, or a client changed
  the roles under permissions that nobody gave it. (A customer who signs up before the restart
  prevents it too, for good: the seeder wants an empty table.)
- `AdmittedIsAllowed`: the permission guard passes a request without a user; handlers with required
  permissions are reached by holders only because the authorization guard comes first. It speaks
  of the claim in the token, wherever that comes from.
- `PermissionsAreGiven`: before a default user's first sign-in no sequence of sign-ups, sign-ins,
  refreshes and role routes gives anybody a role or a permission, as long as clients present the
  claims they were answered. The condition is needed: nothing in `refresh()` enforces it.

Run `access`: two processes with the same configured email, one customer with any identifier, one
client, one more role, one list of permissions to grant. More clients or grants are out of TLC's
reach; the proofs hold for any number. No liveness, no fairness.

## Proofs

The eight `*Proofs` modules prove, for every value of the constants that the named assumptions
admit, the type invariants and every safety property of the passing runs: `THEOREM Spec => []Inv`
through an inductive invariant `IInv` (initial states satisfy it, each action preserves it by a
lemma of its own, and it implies `Inv`), the action properties from the same invariant, and the
three refinements step by step. Beyond the properties of the runs they prove a few facts that say what
the failing or the unprovable ones are worth.

- `JwtTokensProofs`: none of the properties is inductive. `IInv` adds that an id no JWT carries is
  nowhere (`UnusedIsNowhere`), that the pair being generated belongs to one request (`OwnPair`),
  that the pair being exchanged was in a client's hands and how much of it is gone (`HeldPair`),
  how far `generate()` has written (`Written`), that an exchanged pair is out of the store
  (`Exchanged`: a key is written only under an id no client has seen, so it cannot return), and
  that what a revocation is due to delete and is still there was found by its SCAN
  (`Revocation`). Assumed: `NoUser` and `NoId` are no user and no id. `SessionsAreKept` is
  the refinement. A removal, or anything that happens to an unseen pair, is a step of `Close` or a
  stutter; `Reply` delivers a pair whose predecessor `Exchanged` keeps refused; a DEL finishes a family
  because `Revocation` has every due token that is left among those it scanned.
- `OtpProofs`: `IInv` adds that rows belong to the owner of their destination, that a request about
  to insert an OTP has a user (or is allowed to create one), that a request past the lookup holds
  a saved row of its destination, and that every granted OTP is marked used. `NoReplay` follows:
  the lookup finds unused rows only. `ReplayIsBounded` says how bad the race behind `OneTime` can
  get: every redemption of a code that took effect belongs to a request that had read the row before
  it was saved (`OnePerRequest`), so there are at most as many as requests in flight. It assumes that
  these are finitely many.
- `BrokerProofs`: `IInv` is `TypeOK`, `Conserved` and that a finished handler is recorded in
  `handled`. `BrokerDelivers` is the refinement: initial states map to initial states and every
  step to a step of `EventDelivery` or a stutter; an `Ack` settles because the message is done
  (handled) or early (some subscriber is starting), and `Conserved` makes it leave `pending`.
  `StartupLosses` is a counting argument without induction: each consumer that ever started has a
  window of `Prefetch` places, and `Windows` says that the messages lost or at risk of it can be
  given places of their own, those in the window of a starting consumer being its early
  deliveries. The prefetch limit leaves a free place for the next one, and the pigeonhole facts of
  `FiniteSetTheorems` give the bound. `ReplicasNeverJam` is the safety core of `EventuallySettled`,
  which itself stays with TLC: by `WindowsAreRespected`, and with fewer poison messages than places, a
  ready replica has room for the next message or holds one it can handle or acknowledge.
- `AccountsProofs`: a user is verified for all of its identifiers, or has one and is not verified
  (`Whole`); every row and every entity read from one is `Good`, and so is every mix of two good
  states of one user that `save()` may write; an event verifies a user for all its identifiers
  (`GoodEvent`), so a late one changes nothing; a reset holds an older state of its row
  (`GoodReset`); a token that no refresh made tells the truth (`GoodToken`). No write changes the
  identifiers of a row (`IdentsStay`), hence `IdentifiersAreUnique` and `SessionsHaveOneOwner`.
- `NotificationsProofs`: an attempt past the INSERT has a row of its event (`GoodAttempt`), one valid
  attempt per event (`OneValid`), what a request may write (`GoodRequest`), and the count behind
  `DuplicatesNeedFailures`: rows and attempts about to make one are at most the failures and the
  one live attempt (`Counted`). The refinement follows step by step: an `Ack` settles an event one of
  whose rows is complete (`GoodAttempt`), a `Skip` needs a replica that starts, and an attempt that
  ends with a void delivery settles nothing. `MessagesAreBounded` carries the count of rows over to
  the emails and SMS that go out, and `MessagesAreAsAsked` says by which channels.
- `AttachmentsProofs`: `GoodRequest` says what a request in flight has done: an upload stored its
  file, a share request read saved rows, a save that shares writes a new token, a download past
  its check, or about to pass it, was allowed.
- `CountriesProofs`: `RunAt` says what a run has inserted at each statement, and `GoodWalk` that rows
  due and not seen have at least as many rows ahead of them as the client has read, since inserts
  only move rows back. `Listing`'s pages are counted with the facts of `FiniteSetTheorems`; of a
  list that nobody writes, `QueriesAnswer`, `PagesAreExact` and `EachRowHasOnePage` show that the
  counting of `findAll()` is right, so that what goes wrong is due to ties and inserts.
- `AccessProofs`: `NothingGiven` (no permission before a default user's sign-in, as long as refreshes
  are given what was signed), `RolesFound` (the role a seeder found stays), `ReadyIsServed` (a seeder
  that began with a role keeps it until a default user is there, or meets a customer with its
  identifier).

Only model-checked: the liveness property `EventuallySettled` of `Broker` and of `Notifications`.
Liveness under fairness, ENABLED, induction over data and RECURSIVE operators
are out of the prover's reach; no module uses RECURSIVE.

## Not modelled, and what the models leave out

- Controllers, DTOs, validation and serialisation (no state; which guards their routes need and
  their pagination are modelled), configuration (read once), exception filter, utilities, logging,
  Swagger, Sentry, health checks and the captcha provider (calls of libraries or services),
  migrations (schema; its UNIQUE constraints are in `Otp` and `Access`), and the libraries
  themselves except as their use in the code shows them.
- Push tokens: saved and removed, read by nobody. OTPs are the only notifications published today.
- The local storage provider: it makes a directory of the path it then writes to, so it refuses
  every upload. The avatar of a third party: `moveUserAvatarToCdn()` hands a Buffer to a store that
  reads a stream, so moving it always fails, and the error is swallowed.
- `isBlocked` is set by no code, so `IsUserEnableGuard` refuses nobody whose claims the service
  signed from a row. `read:*` and `write:*` mean nothing special to the permission guard; only `*`
  does.
- The throttler. `app.module.ts:66-74` puts the Redis storage into an element of the array form of
  the options; `@nestjs/throttler` 5 takes a storage from the object form only, so the script of
  `throttler-storage-redis.service.ts` never runs. What counts is the library's storage in the memory
  of each process, which is no code of the repository; a refused request changes nothing here.
- How old the claims are that a refresh copies: no code, comment or test promises a bound, so no
  property states one.

Some operations that are modelled are called by no route yet: `delete`, `share`, `grant` and
`removeDraftFlag` of the attachments' service and `findAllAlerts`.

## Bounds

Runs use two concurrent actors wherever two race, and two or three of every other thing; each run's
paragraph says what its bounds still allow to happen. `NEvent`, `MaxDowns`, `MaxFails`, `MaxTokens`
and the sets of ids are the bounds of runs; the proofs hold for all their values.
Symmetry is used where all members of a set are alike and the run has no liveness property.
