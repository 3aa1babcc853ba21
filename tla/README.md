# TLA+ models of inno_taxi

inno_taxi is a set of Go services behind an nginx gateway. This directory holds
TLA+ modules for the parts of it whose correctness depends on the order in which
things happen, TLC configurations that check them on small instances, and proofs,
checked by TLAPS, that the safety properties those runs check hold for every instance.
The pure parts, routing, prices, paging and search, are operators of the same modules,
checked against what they are for and proved about like the rest.

- [The system](#the-system)
- [Modules](#modules)
- [From the code to the model](#from-the-code-to-the-model)
- [What TLC checks](#what-tlc-checks)
- [Where the code and its documents disagree](#where-the-code-and-its-documents-disagree)
- [What is proved](#what-is-proved)
- [What is not modelled](#what-is-not-modelled)
- [Plan](#plan)

## The system

Paths are relative to `src/services` unless they start with `src/`.

### Components

| Component | State it keeps | Operations that change it |
|---|---|---|
| order_service: lifecycle | table `orders` (Postgres) | CreateOrder, CancelOrder, StartTrip, CompleteTrip, RateTrip |
| order_service: search | index of order documents (Elasticsearch) | IndexOrder, called by each of the five; EnsureIndex at start |
| order_service: pricing, lists, search | none | pure functions and queries on rows and documents that change meanwhile |
| wallet_service | tables `wallets`, `transactions` (Postgres), list of recent transactions per wallet (Redis, 60 s) | CreateWallet, Charge, Refund; ListRecentTransactions fills the cache |
| driver_service | driver documents with status and taxi type (MongoDB) | CreateDriver, UpdateStatus (by drivers and by order_service), UpdateType, ClaimAvailableDriver |
| user_service | user documents (MongoDB) | CreateUser, UpdateProfile, UpdatePassword, AssignRole, DeleteProfile |
| auth_service | access and refresh sessions with TTLs (Redis) | Login, Refresh, Logout; Validate only reads |
| analytic_service | ClickHouse tables of user, order and rating events | three Kafka consumers insert; queries only read |
| gateway_service | none | nginx chooses a location, rewrites the path, asks auth_service where the location says so |
| shared, deploy | none | protobuf, clients, configuration, middleware; Helm charts |

### How they interact

- order_service calls wallet_service (`Charge`, `Refund`) and driver_service
  (`ClaimAvailableDriver`, `ReleaseDriver`) over HTTP, synchronously, from inside
  its gRPC handlers. The reference of every charge and refund is the order id.
- order_service publishes `order_created` and `order_rated`, user_service publishes
  `user_registered`, to Kafka, after their own write and best-effort: a failed
  publication is logged.
- wallet_service, driver_service and analytic_service consume `user_registered`;
  analytic_service also consumes the two order events. All consumers mark a
  message processed whether or not it was handled.
- driver_service asks analytic_service for a driver's rating (a read), auth_service
  asks user_service to verify credentials (a read). Services call each other directly,
  not through nginx.
- Clients reach the services through nginx alone. Which location it takes decides which
  role auth_service asks for; the services check the token again, two of them the role.
- No transaction spans two services, and no background job repairs anything: what a
  handler leaves half done stays so until a client calls again.

### What is hard

- Every handler of order_service reads the row, decides on that snapshot, then makes
  three to six calls to five systems. Handlers for one order overlap freely: there is
  no lock and no version on a row, and the `UPDATE`s match on the id only (except
  `RateOrder`, which also asks that the rating be null).
- Each of those calls may fail before it took effect, or after it with the answer lost.
  Some failures are compensated, some returned, some only logged.
- The process can die between any two calls.
- A driver changes their own status whenever they like, also while an order holds them.
- A call whose caller has given up may still be carried out, late, when the driver it is
  about serves another order.
- analytic_service's tables hold a redelivered event twice until ClickHouse merges it.
- Lists are paged by OFFSET over rows that are inserted and assigned meanwhile, and the
  total is a query of its own.
- wallet_service serialises the calls on one wallet by a row lock, and its cache is
  invalidated after the commit, by a call that may fail or never happen.

`PROJECT.json` lists each hazard at its line, with the properties that would catch it.

### What makes each component correct

- **Orders.** A rider pays for an order before it exists, gets the money back before it
  is cancelled, and both at most once. An order under way has a driver. Nobody replaces
  its driver or its rating. Events and documents about it never say what was never so.
- **Wallets.** Charge and Refund are atomic and idempotent by reference, no update is
  lost, no wallet goes below zero, every call returns, a list is stale only for a cause.
- **Drivers.** Two orders never hold one driver; a driver nobody needs is not on-trip.
- **Registration.** A wallet or profile belongs to a stored user whose role calls for it;
  every event that reaches the topic is acted on, or was tried and failed.
- **Sessions.** A pair of tokens is dead before the pair that replaces it exists; after
  a logout neither token renews the session or is accepted; an accepted access token comes
  with a refresh token that works; a refresh token is worth one new pair.
- **Accounts.** An email or a phone names one user; deletions, roles and passwords that
  were answered for hold; a role, and so a token, never says more than the user signed up
  for and an admin added.
- **Analytics.** An event counts once however often it is delivered, on its day; a rating
  is about the last trips; every event that reaches the topic is inserted or was tried.
- **Gateway.** Internal routes stay internal; what handlers leave to the gateway to check
  is checked there; every public endpoint reaches its own handler.
- **Reads.** Paging misses nothing, what is listed can be read, searches find exactly what
  was asked for, prices grow with the trip.

## Modules

| Module | What it is |
|---|---|
| `Ledger` | What wallet_service promises: Charge and Refund as single steps, idempotent by reference; what a balance is then (`BalanceIsLedgerSum`). |
| `OrderService` | The order lifecycle on top of `Ledger` (`EXTENDS Ledger`): one action per externally visible step of each handler. |
| `MCOrderService` | Constants of the TLC instances. |
| `OrderServiceProofs` | Theorems about `OrderService`: money, drivers, events and the search index; and under clients that send one call at a time. |
| `Wallet` | wallet_service in detail: transactions, row lock, cache. Implements `Ledger` (`L == INSTANCE Ledger WITH ...`, property `ImplementsLedger`). |
| `MCWallet`, `WalletProofs` | Constants of the TLC instance; theorems, the refinement among them. |
| `AuthSessions` | auth_service: session keys in Redis, one action per Redis call. |
| `MCAuthSessions`, `AuthSessionsProofs` | Symmetry of the TLC instance; theorems. |
| `Registration` | CreateUser, the topic `user_registered`, and its consumer groups with their offsets and sessions. |
| `MCRegistration` | Constants of the TLC instance. |
| `Analytics` | A consumer of analytic_service, its ClickHouse table with merges, and the three reports. |
| `MCAnalytics`, `AnalyticsProofs` | Constants of the TLC instance; theorems. |
| `DriverPool` | The drivers collection, and claims and releases as requests that may be late, lost or repeated. |
| `MCDriverPool`, `DriverPoolProofs` | Constants of the TLC instance; theorems. |
| `Accounts` | The users collection of user_service and the tokens issued from it. |
| `MCAccounts` | Constants of the TLC instance. |
| `UserServiceProofs` | Theorems about `Registration` and about `Accounts`, the two halves of user_service. |
| `Routes` | Locations of nginx, routes of the services, and how both are chosen: pure operators. |
| `Gateway` | The way of one request through them (`EXTENDS Routes`), from a client or from a service. |
| `MCGateway` | Every method, and every path of a route under every prefix. |
| `OrderReads` | Prices, ListOrders, GetOrder and SearchOrders over rows that change. |
| `MCOrderReads` | Constants of the TLC instance. |
| `RequestProofs` | Theorems about what a request is answered: by which handler (`Gateway`), and what those that read orders say (`OrderReads`). |
| `SumLemmas` | Sums over finite sets: what `SumFunctionOnSet` of the community module `Functions` adds up to. |

So the composition of orders and wallets is checked in two halves: `Wallet` implements `Ledger`, and
`OrderService` uses nothing of the wallet but `Ledger`. `OrderService` has the pool of
drivers as a function whose claims and releases are single steps; `DriverPool` opens them
up, and drops what orders do besides. `Registration` delivers the events that `DriverPool`
makes profiles from, and says which roles get one; `Accounts` says that nobody gets that
role later. `AuthSessions` says which tokens count, `Accounts` what they claim, `Gateway`
where they get one.

Definitions whose comment starts with `Mutant:` are plausible bugs, each placed before
the definition it stands in for. They belong to no specification; `PROJECT.json` says
which property each of them breaks.

## From the code to the model

### OrderService

| Variable | Code |
|---|---|
| `balance`, `debits`, `credits` | wallet_service, as `Ledger` has it |
| `row[o]` | the row of `orders`: status, driver_id, rating; `NoRow` before the insert |
| `indexed[o]` | the document in Elasticsearch |
| `pool[d]` | the driver's status in MongoDB |
| `created[o]`, `rated[o]` | what `order_created` and `order_rated` events of `o` carried; sets, so a duplicate delivery changes nothing |
| `step[o]`, `made[o]`, `claimed[o]` | the CreateOrder call that generates id `o`: where it stands, its variable `order`, the driver in hand |
| `op[s]`, `target[s]`, `at[s]`, `seen[s]`, `stars[s]` | a call on an existing order running in slot `s` |

| Actions | Code |
|---|---|
| `CreateCharge` ... `CreatePublish` | `order_service/service/create_order.go`, one action per call it makes |
| `BeginCancel`, `CancelRefund`, `CallRelease`, `CallWrite`, `CallIndex` | `cancel_order.go` |
| `BeginStart`, `CallWrite`, `CallIndex` | `start_trip.go` |
| `BeginComplete`, `CallRelease`, `CallWrite`, `CallIndex` | `complete_trip.go` |
| `BeginRate`, `CallWrite`, `CallIndex`, `RatePublish` | `rate_trip.go` |
| `DriverSetsStatus` | `driver_service`'s `PATCH /profile/status` |
| `Crash` | the process stops with every handler in it (`order_service/app/run.go`) |

`Begin*` is the `GetOrder` and the checks on it; a call those checks turn away changes
nothing and is left out. `CallWrite` is the `UPDATE ... RETURNING`: which status it
writes, and that it matches the row whatever its status, is `Written` and `Matches`.

Failures. A call to a dependency in `Faults` ends "ok", "refused" (it failed and was not
carried out) or "lost" (it was carried out and its answer never came). What the handler
does then is what the code does: CreateOrder returns when the charge fails, refunds when
the insert fails, and goes on when indexing, claiming, assigning or publishing fails;
CancelOrder returns when the refund fails; releases are logged. A client that disconnects
cancels the context of everything that follows, which is one of the behaviours of `db`
and `wallet` both failing.

Abstractions. Prices are positive, since the base fare alone is: the branches for a zero
or missing price are never taken. An order has one price and one rider, constants of the
model. Locations, comments and timestamps play no part in any branch and are left out.
A driver's taxi type is constant. A call that its caller has given up on takes effect
before the caller goes on or never. `DriverPool` has neither restriction.
`InitialBalance` stands for the top-ups of a wallet, which are refunds under references of
their own.

### Wallet

| Variable | Code |
|---|---|
| `wallets`, `balance` | table `wallets` as committed |
| `rows` | committed rows of `transactions`, as (type, reference_id) |
| `lock[u]` | holder of the row lock taken by `SELECT ... FOR UPDATE` |
| `at`, `type`, `ref`, `read`, `isNew` | a Charge or Refund call: where it stands, its arguments, the balance it has read, whether its transaction writes a row |
| `cache[u]` | the list in Redis, or `NoEntry` |
| `reading[r]`, `fetched[r]` | a ListRecentTransactions call: whose list, and the rows it has |
| `overtaken` | history: readers whose rows a COMMIT has made old since they asked for them |
| `excused` | history: users whose cached list may miss rows, for one of the four causes `StaleOnlyForACause` names |

`GetWalletForUpdate`, `Prepare`, `Finish` and `Invalidate` are the steps of `charge.go`
and `refund.go`; `Prepare` takes the idempotency check, the balance check and both
writes in one step, since nobody sees them before the `COMMIT` (`Finish`), and the row
lock is held throughout. `Fail` and `Rollback` are the deferred `Abort` of
`transactional_operation.go`. `Miss`, `Query`, `SetRecent` are `list_transactions.go`;
a cache hit changes nothing. The list is a set: its order and its cut at 20 rows are not
modelled. `Expire` is the TTL, on which no property depends. In `Crash` Postgres rolls
open transactions back. The two history variables decide nothing.

The amount under a reference is a constant: all callers derive reference and amount
from the same order.

### AuthSessions

| Variable | Code |
|---|---|
| `access`, `refresh` | sessions whose key `auth:session:<sid>:access` / `:refresh` exists in Redis |
| `minted`, `age[s]` | sessions for which tokens have been signed, and how many of the two tokens have passed their `ExpiresAt` |
| `parent[s]` | the session one of whose tokens paid for `s`, if one did: history, read by no action |
| `held`, `left` | sessions whose pair a client got, and those a Logout with both tokens answered 204 for: history, `held` also says which tokens clients can send |
| `at`, `kind`, `sid`, `brought`, `new` | a Login, Refresh or Logout in progress: where it stands, the session of the tokens it brought, which of the two a Logout has in which field, the session it is saving |

`Login`, `Refresh` and `Logout` begin a request: they are the check of the credentials,
the parsing of a token with the look-up of the session's refresh key, and nothing.
`DropAccess` and `DropRefresh` are the two `DEL`s, `SaveAccess` and `SaveRefresh` the two
`SET`s of `issueTokenPair`. With "redis" in `Faults` each ends "ok", "refused" or "lost",
as above. Logout deletes the access key if the token in its first field still parses, the
refresh key if the one in its second does, and answers 204 either way. `Age` is time passing a token's `ExpiresAt`: the access token's first, 20 minutes
against 14 days. `Expire` is Redis dropping a key, which never happens before the token
has expired: the key is `SET` with the same duration after the token was signed.

Abstractions. A token is a session id, which of the pair it is, and its age; signatures, user
ids and roles decide no branch once a token was issued by this service. Which of the pair it
is decides when it expires and nothing else: both have the same claims, the same id and the
same key, and are parsed alike. So `Parses`, `Accepted` (what Validate asks), `Renewable`
(what Refresh asks) and the two fields of a Logout take either. A client sends Logout
tokens of one pair. A request turned away (wrong password, invalid token, unknown session) changes
nothing and neither does Validate.

### Registration

| Variable | Code |
|---|---|
| `users` | documents in user_service's MongoDB, one per email and phone (unique indexes) |
| `publishing` | users whose CreateUser is between its insert and its event |
| `log` | the topic, in the order of its offsets |
| `position[g]`, `marked[g]`, `committed[g]` | of consumer group `g`: messages it is past, messages it has marked, the offset Kafka has |
| `alive[g]` | whether the context of its session is still live |
| `stage[g]` | between messages, with one in hand, or about to mark it |
| `done[g]`, `dropped[g]` | users it has inserted its wallet, profile or row for; users whose insert failed and whose message went on to be marked (history) |

`CreateUser` is the insert, `PublishUserRegistered` the `SendMessage` whose error is
logged; the producer is idempotent, so a user is in the topic at most once. `Poll`,
`HandleMessage`, `MarkMessage` are the loop of `ConsumeClaim`, the same in all three
services. sarama commits what is marked once a second (`AutoCommit`) and when a session
closes. `Cancel` is what SIGTERM or a rebalance does first: the context of the session is
cancelled, so an insert then fails, or succeeds unseen; the loop may still take messages
that are in its channel, because `select` chooses either. `NextSession` is the end of
`Consume` and its next call, here or in the process that takes over. `Crash` is a process
dying without any of that.

Abstractions. The topic has one partition. Two members of a group never
handle one message at once. A second insert for one user is refused by a unique index, or
collapsed by ReplacingMergeTree in analytic_service, so what a group has made is a set. A CreateUser with a taken email or phone changes nothing.
`POST /internal/wallets` and `/internal/drivers`, which nothing calls, are left out here.

### Analytics

| Variable | Code |
|---|---|
| `event[k]` | the content of the one event about order or user `k` |
| `log`, `position`, `committed` | the topic, how far the consumer is and has marked, what it has committed |
| `copies[k]` | rows of `k` in the ReplacingMergeTree; copies differ in `ingested_at` alone |
| `ingested`, `dropped` | history: keys whose insert was carried out; keys whose insert was tried and failed |

`Handle` is the loop of `ConsumeClaim` for one message: the insert, which may fail, may be
carried out and report failure, and the mark that follows in every case. `Restart` goes
back to the committed offset, which is the oldest message if there is none
(`OffsetOldest`). `Merge` is a background merge dropping a copy. `FinalRows` is what a
`SELECT ... FINAL` reads; `ParseDateRange`, `TotalOrders`, `CountByStatus`,
`CountByTaxiType`, `DailyOrderCounts` and `RecentTrips` are `date_range.go` and the
queries of `repository/ch_repo`. `RecentTrips` is the set of the results that `ORDER BY`
allows when two trips share a second.

Abstractions. The three consumers share neither topic, nor group, nor table, and are the
same loop, so a behaviour follows one. An average is represented by the trips it is taken
over. Malformed messages and dates are turned away and change nothing.

### DriverPool

| Variable | Code |
|---|---|
| `status[d]`, `taxi_type[d]` | the driver's document in MongoDB; "none" without one |
| `writer[d]` | history: whether the driver wrote the status last |
| `place[o]`, `driver[o]` | where order `o` stands with its driver, and who that is |
| `pending` | orders with a release under way that nobody waits for |
| `contested` | history: drivers somebody made available while an order held them |

`Register`, `UserRegistered`, `UpdateType`, `UpdateStatus`, `ClaimAvailableDriver` and
`UpdateStatusInternal` are driver_service's operations (`repository/repository.go` and the
handlers above it). `SendClaim`, `AnswerClaim`, `GiveUpClaim`, `SendRelease`,
`GiveUpRelease` are the caller's side, `order_service/gateway/driver_service` and the
services that use it: a context that ends aborts the call, but not what the server does
with it. `LateRelease` is a request carried out afterwards, `LoseClaim` and
`LoseRelease` one that never is. An order goes back from "releasing" to "serving" when the
status could not be written after the release ("retry"): it is then completed or
cancelled again, and releases again.

### Accounts

| Variable | Code |
|---|---|
| `docs[u]` | the document in `users`: email, phone, password, roles, deleted_at |
| `signed[u]`, `confirmed[u]`, `told` | history: the role of the sign-up, the password last answered for, deletions and roles answered for |
| `tokens` | the claims of the tokens issued |
| `at`, `user`, `claims`, `next` | an UpdatePassword between its `FindByID` and its `SetPassword`, or a Login between VerifyCredentials and the signing |

`Register` (the insert of CreateUser), `UpdateProfile`, `DeleteProfile` and `AssignRole`
are one MongoDB write each,
refused by a unique index (`Taken`) or by the filter `{_id, deleted_at: nil}` (`Update`).
Requests come from those with a token, as the middleware has it; admins are documents put
in by hand, since no code makes one. `FindByLogin` is the `$or` of two fields,
of which `FindOne` returns any match. Its filter does not ask for `deleted_at`, so whoever
has deleted their profile can still log in. Names, and the form of emails, phones and
passwords, are left out.

### Routes and Gateway

A path is a sequence of segments. `Locations` is `nginx.conf`, and `Locate` how nginx
chooses: exact matches, then regular expressions in the order of the file, then prefixes,
none of which lies in another. `Rewritten` is the `proxy_pass` and `rewrite` of a location;
`args` says whether the query string survives it. `RoutesOf` lists what each service
registers; `Selected` is the router of the service, which for grpc-gateway takes the
pattern registered last. `Calls` are the requests
services make of each other. In `Gateway` one request goes `Pass`, `Validate`, then
`Serve`, or `Forward` and `Intercept`; `Fail` is a service that is down, `Elapse` a token
that expires or is logged out on the way.

### OrderReads

| Variable | Code |
|---|---|
| `rows` | the table `orders` |
| `phase`, `limit`, `offset`, `page`, `total` | a user's ListOrders: between its two queries, or answered |
| `seen`, `first` | history: orders in the answers so far; the user's orders when the listing began |

`CreateOrder`, `AssignDriver`, `UpdateOrderStatus` and `RateOrder` are the writes of the
other handlers, one row at a time; `created_at` is when a transaction began, so rows need
not appear in its order. `QueryPage` and `QueryCount` are the two queries of
`list_orders.go`, `Continue` a client that asks for the rows after those it got, until it
gets none. `PriceForTrip` is `pricing.go` given a distance. `SearchFilterFromProto`,
`OrderDocumentFromDomain`, `ToDomain`, `OrderToProto` are the conversions of
`handler/grpc/mapping.go` and of the search document, with their zero values. Times are
ticks of half a second from Go's zero time, `time.Time{}`, so a bound that was not given and
one that was given as that time are both 0 in the filter, as in the code; rows were created
later. `Satisfies` is the query, whose upper bound of a second Elasticsearch rounds up to its end (external,
documented behaviour of `lte` without a fraction). All results are taken together, not the
pages of a search.

## What TLC checks

`Slots`, `Calls` and `Readers` bound how many requests *overlap*, not how many there
are: a slot is reused for ever. State counts are distinct states.

| Run | Instance | Shows |
|---|---|---|
| `order_faults` | 1 order, 2 drivers, 2 overlapping calls, ratings 1 and 5, all dependencies and the process failing, drivers setting any status (336k) | `MoneyFollowsOrder` (which is `ChargedBeforeOrder`, `RefundedBeforeCancelled` and `AtMostOneOfEach`), `EventsAreTrue` (`RatedEventsAgree` and `CreatedEventsAgree`), `SearchShowsOwnPast`, `DriverAndRatingAreFinal`: what no interleaving and no failure breaks |
| `order_serial` | 3 orders of a rider with money for two, 2 drivers, 2 calls, clients that send one call at a time on an order, only Kafka failing, drivers leave their status alone (182k) | `LifecycleMovesForward`, `CancelReleasesDriver`, `SearchIsCurrent`, `OneOrderPerDriver`, `RidesArePaid`: what the documents promise, under the conditions it takes |
| `order_settled` | 2 orders of a rider with money for one, 1 driver, 1 call beside the two CreateOrders, only the database failing (223k) | `BalanceIsLedgerSum`; `PaidForNothingOnlyByFault`, `ChargeIsSettled`: a database failure never leaves a rider paying for nothing |
| `wallet_ledger` | 2 overlapping calls on one wallet, 2 references of different amounts, 1 reader, statements, COMMITs, cache and process failing (76k) | `ImplementsLedger`, `CallsReturn`, `StaleOnlyForACause` |
| `auth_sessions` | 3 sessions, 2 overlapping requests, Refresh with either token, Logout with both or with the refresh token in the access token's place, Redis and process failing (1.6M) | `RetiredBeforeReplaced`, `LoggedOutIsOut`, `AcceptedIsRenewable` |
| `registration` | a rider and a driver, wallet_service and driver_service, databases, brokers, sessions and processes failing (47k) | `ProvisionedAreRegistered`, `CommittedIsHandled`, `EveryEventIsHandled` |
| `analytics` | 3 events, days of 2 instants, requests about 2 days and the last 2 trips, at most 2 copies of a row, ClickHouse and the consumer failing (116k) | `ReportsAreExact` (`StatsAreExact` and `DailyAgreesWithStats`), `RatingIsOfLastTrips`, `EveryEventIsTried` |
| `driver_pool` | 3 orders, 2 drivers who set any status, 2 taxi types, callers that give up, requests late or lost, orders completed or cancelled again (275k) | `DriversAreNotShared`, `HeldIsOnTrip`, `OnTripIsAccountedFor` |
| `accounts` | an admin and one user to come, 2 values of each field, 2 requests under way, MongoDB and the process failing (103k) | `LoginNamesOneUser`, `AnswersAreTrue`, `RolesFollowSignUp`, `ClaimsAreCovered`, `DeletedAreFrozen` |
| `requests` | every method, every path of every service under every prefix of nginx, every kind of token, services down, tokens ending on the way (72k) | `AnsweredWereAllowed`, `InternalStaysInside`, `EndpointsAreServed` |
| `order_reads` | 3 orders, 2 of the user's own and one driven, pages of 1 and 2, a client that may start below offset 0, 14 searches (268k) | `NothingIsMissed`, `ListsAgree` (`ListedCanBeRead` and `TotalCoversPages`), `PricesFollowTrips`, `SearchIsExact`, `PagingEnds` |
| `profile_rating` | the calls of services to each other, of which any may be down | `CallsAreServed` is violated, see [below](#where-the-code-and-its-documents-disagree) |

Why these bounds are enough. Handlers for different orders meet only in the wallet of
one rider and in the pool of drivers, so one order with two overlapping calls *and* its
CreateOrder is every pairwise race on an order, and the smallest number of orders that
can compete for money and drivers is two (three, with two drivers, when a driver freed by
one may go to either of two others). Two drivers and two ratings are what it takes to
notice a replaced one. Two calls on a wallet are one that holds the lock and one that
waits for it, and may be its replay; what the lock guarantees is proved for more; two
amounts tell a doubled payment from two payments. Three sessions are one that is refreshed twice at once, or a chain of three;
session ids are never reused, so `Sids` does bound the length of such a history, and the
theorems are there for longer ones. Symmetry is used on drivers, slots, sessions, requests,
orders of one type, users to come and their emails and phones, in safety runs only.

Two users are the shortest topic in which one message can be handled again while another
waits, and a rider and a driver are the two cases of every consumer; users publish once,
so `Users` bounds the topic, and the theorems are there for longer ones.

In `analytics` three events on three days of two instants put events at midnight, within a
day and in one second, and more trips than `LastTrips`; `MaxCopies` 2 is one redelivery of
each, and merging and `FINAL` treat a third copy like the second. In `driver_pool` two
orders are what can share a driver; the third asks for another type, so that a change of
type during a trip counts. One driver is claimed, released late and claimed again well
within three orders. In `accounts` two documents are what can share a field, and the
admin's can be freed by an update and taken by a registration. `requests` is the whole of
`nginx.conf` and of the route tables: its ids include the literals `search`, `profile` and
`claim`, which is where patterns could be confused. In `order_reads` three rows and pages
of one make three pages, with an insertion or an assignment before, between and after any
of them; `created_at` ranges over three ticks of half a second, so two rows may share the
second a search can name; bounds lie in both seconds and at the zero time.
The two longer trips cost a fraction of a minor unit before rounding.

Deadlock is checked in the wallet runs. In the registration runs it is not, because the
system is done when all users are registered and provisioned. In the auth runs it is not, because once all ids
in `Sids` are used a Login cannot proceed. In the order runs it is not: once every order is
rated or cancelled, or all creations failed and drivers do not move, the system has
nothing left to do. The instances of the other modules are done as well: all events are in
the topic and committed, all orders are over, every account is deleted with no token to
act on it, the request is answered, the list is read and the rows have reached their last
state.

Fairness. `OrderService!LiveSpec` assumes that a CreateOrder that has begun keeps going
(weak fairness of its next step): the goroutine is scheduled, and all its calls have
timeouts, so each of them ends. It is not assumed of orders not yet begun, nor of
clients. `Wallet!LiveSpec` assumes that of calls that have begun, and strong fairness of
getting the row lock, because Postgres grants it in the order in which it was asked for.
It is not assumed that readers ever finish, that keys expire, or that any
faulty call ever succeeds. `LiveRegistration` assumes that consumers keep polling
(the loop around `Consume` in `app/run.go`) and, strongly, that a consumer with a message
in hand sometimes gets to handle it, to mark it and to commit: restarts may go on for
ever, but not so that each one comes within the same few milliseconds. Nothing is assumed
of user_service. `Analytics!LiveSpec` assumes the same of its consumer: it handles what is
in the topic, and is now and then up for the second it takes to commit.
`OrderReads!LiveSpec` assumes that both queries of a ListOrders are answered and that a
client who has begun to page goes on; rows may change at any time, but there are finitely
many to insert.

## Where the code and its documents disagree

**The ratings of drivers.** Run `profile_rating` violates `CallsAreServed`.
`GetDriverRatingStats` of driver_service asks analytic_service for
`/analytics/ratings/drivers/{id}` (`driver_service/gateway/analytic_service/analytic_service.go:38`),
but analytic_service serves `/ratings/drivers/:driver_id` (`analytic_service/app/run.go:157`):
`/analytics` is a prefix that nginx takes off, and this call does not go through nginx. It
ends in 404, which is logged and shown as an average and a count of 0 in every driver's
profile. The comment above the gateway says it "hits the same public route".

Seven more promises of the documents do not hold of `OrderService`, `Wallet`,
`AuthSessions` and `Registration` as such. Each is a definition in its module and no
run checks it there; TLC refutes it in the smallest instance of the module with
`Faults = {}` (for the last one `{"session"}`). Those about orders are checked by
`order_serial`, with clients that send one call at a time.

- `LifecycleMovesForward`. `UpdateOrderStatus` and `AssignDriver` write the status without
  looking at the one they replace; the check was on an earlier read. CancelOrder
  overlapping StartTrip, or CreateOrder's assignment, takes a cancelled and refunded
  order back to in_progress or driver_assigned. `src/README.md` gives the lifecycle as
  created → driver_assigned → in_progress → completed/cancelled.
- `CancelReleasesDriver`. CancelOrder releases the driver of the row it read before the
  refund; a driver assigned since stays on-trip with a cancelled order. The
  driver-assignment design says cancelling releases the claimed driver.
- `SearchIsCurrent`. Two calls index an order in the other order than they wrote it.
  The order-search design promises "no lag window".
- `NextReadIsNotStale`. A reader that queried before a COMMIT caches its rows after the
  invalidation. The wallet design says the next read is not stale; what holds is
  `StaleOnlyForACause`, of whose causes this is one, until the entry expires after 60
  seconds or the next Charge or Refund.
- `RefreshTokenIsSingleUse`. Refresh looks its session up with one Redis call and deletes
  it with another, and deleting a key that is gone is a success: two overlapping requests
  with one token both get a pair. The auth design calls a refresh token single-use; what
  holds is `RetiredBeforeReplaced`: a Refresh that begins after the new pair was signed is
  refused.
- `LoggedOutAtOnce`. Logout passes over a token that does not parse. If the access token
  expires before its `DEL` is decided, while its key, set a little later, is still there, the
  key stays, and Validate goes by that key for the refresh token too. `src/README.md` says of
  a logout that both tokens become immediately invalid; what holds is `LoggedOutIsOut`:
  neither token renews the session, and nothing is accepted unless the access token has
  expired.
- `EveryEventIsProvisioned`. A consumer handles a message with the context of its session
  and marks it whatever came of it. When the session ends, the insert in hand is
  cancelled, and its mark is committed as the session closes: that user never gets a
  wallet, although nothing failed but a restart. The README says wallets are created
  automatically upon registration; what holds is `EveryEventIsHandled`.

Four more things to know, which no document denies:

- `UpdateStatusByUserID` does not look at the status it replaces. A driver who sets
  available while an order holds them, and one whose release is carried out late or
  again, can be claimed a second time: they are the `contested` drivers of `DriverPool`.
- A user who has deleted their profile can log in, since `find_by_login.go` does not ask
  for `deleted_at`; every profile request then answers that there is no such user.
- AssignRoleAnalytic answers 500, and not 404, for an unknown user.
- A search with a `created_before` of Go's zero time, the start of the year 1, is answered
  with all orders and not with none: the filter cannot tell it from a bound that was not
  given. `SearchIsExact` names it as the one criterion that is lost.

## What is proved

For all values of the constants that satisfy `LedgerAssumption`,
`OrderServiceAssumption`, `WalletAssumption`, `AuthAssumption`,
`RegistrationAssumption`, `AnalyticsAssumption`, `DriverPoolAssumption`,
`AccountsAssumption`, `OrderReadsAssumption` and `GatewayAssumption`: any number of
orders, riders, drivers, sessions, registrations, events, rows, overlapping calls and
references, any prices, paths, searches and limits, any set of failing dependencies. Those
assumptions give the constants their types, and say that prices are positive, that the
null values are not real ones, that no email is a phone, that admins were put in without
sharing either, and that a path is a sequence of strings. Where a theorem asks for more,
finitely many orders or keys, or that some failures do not happen, its table says so.

Every safety property of a passing run, invariant or action property, is stated by a
theorem below. Theorems about what every behaviour of a specification keeps have the form
`Spec => []P`, from an inductive invariant (`IInv` and its extensions) that starts true,
is kept by every action, with a lemma or a step for each, and implies `P`.

### OrderServiceProofs

`InductiveInvariant` is `Spec => []IInv`, where `IInv` is
`TypeOK /\ CreationOK /\ MoneyOK /\ CallsOK` with three of the properties themselves.
None of the properties is inductive alone: that a cancelled order is refunded needs that
a cancellation past its refund has it in the ledger (`CallsOK`), which needs that an
order that exists was charged (`MoneyOK`), which needs to know how far its CreateOrder
has got (`CreationOK`). From it follow

| Theorem | Property |
|---|---|
| `TypeCorrect` | `TypeOK` |
| `ChargeGatesOrder` | `ChargedBeforeOrder` |
| `RefundGatesCancel` | `RefundedBeforeCancelled` |
| `MoneyMovesOnce` | `AtMostOneOfEach` |
| `MoneyCorrect` | `MoneyFollowsOrder`, the three above |
| `TripsHaveDrivers` | `MovingOrderHasDriver` |
| `FailuresAreCompensated` | `PaidForNothingOnlyByFault` |
| `DriverAndRatingFinal` | `DriverAndRatingAreFinal` (with `NoRowYet`: an order id whose CreateOrder has not inserted yet has no row) |

*Events and search.* What has been announced, rated and indexed is a past of the row,
and so must be what is about to be. `HistoryOK` adds to `IInv` and `NoRowYet` that the order
in CreateOrder's hands (`MadeOK`) and the row a call has written (`SeenOK`) show no driver
and no rating but the row's, that a RateTrip is about an order with a driver (`RatingOK`),
and that an announcement is the last thing CreateOrder does (`AnnouncedOK`). That a past
stays one is `DriverAndRatingKept`: rows gain a driver and a rating, and never lose them.

| Theorem | Property |
|---|---|
| `RatedEventsCorrect`, `AnnouncementsCorrect` | `RatedEventsAgree`, `CreatedEventsAgree` |
| `EventsCorrect` | `EventsAreTrue`, both |
| `SearchIsAPast` | `SearchShowsOwnPast` |

*One call at a time.* `SerialSpec` is `Spec` with clients that begin a call on an order
only when none is under way on it. `SerialInvariant` adds `SerialOK` to `IInv`: two slots
never have one order, no CreateOrder is still writing an order that a call is about, and so
the row a call decided on is the row it writes. Each theorem adds
what its property needs, and excludes the failures that break the promise: TLC refutes each
property when one of them is put back.

| Theorem | Property | Excluded | Because |
|---|---|---|---|
| `LifecycleForward` | `LifecycleMovesForward` | nothing | |
| `RidesPaid` | `RidesArePaid` | failures of the wallet, the database, the process (`NoMoneyFaults`) | a cancellation that got no further than the refund leaves an order that can be ridden |
| `SearchCurrent` | `SearchIsCurrent` | failures of the search, the database, the process (`NoSearchFaults`) | a row is written and its document is not, and nothing indexes it again |
| `OneOrderForEachDriver` | `OneOrderPerDriver` | failures of the database and the process, drivers who set themselves available (`NoHoldFaults`) | a driver released or available again may be claimed for another order while the row still names them |
| `CancelReleases` | `CancelReleasesDriver` | failures of driver_service and the process, drivers who set themselves on-trip (`NoTripFaults`) | a release that was not carried out, or not reached, is never tried again |

`PaidOK` and `IndexOK` follow a refund and a row to the end of the call that made them.
The two about drivers rest on `Holds(o, d)`: an order holds the driver it has claimed until
it writes or releases them, and the driver of its row until the call that gives them up.

*Money adds up.* `UsesLedger` is that every step of order_service is a step of `LedgerSpec`
or leaves the ledger alone: the refinement of the contract. `LedgerBalances` is that such
steps keep `BalanceIsLedgerSum`, a balance being what the wallet held at first and the sum of
its ledger rows, since exactly one row moves and by the same amount. `BalancesCorrect` is
both together, for finitely many orders.

**SumLemmas.** The sum over a set is a recursive function under a `CHOOSE`, and induction
over data is out of the provers' reach. The lemmas do without: the subsets of a finite set
are well-founded under strict inclusion, so a set of subsets on which something fails has a
minimal member (`MinimalSubset`), and it is that one which cannot be. So the function
exists (`AddsExists`) and is the only one (`AddsUnique`); from this follow that an element
can be taken out (`SumRemove`), that one change of a summand changes the sum by it
(`SumChange`), and that a set adds up by its parts (`SumOfParts`).

### WalletProofs

`IInv` is `TypeOK /\ LockOK /\ FetchedOK` with `StaleOnlyForACause`. `LockOK`: a transaction
past its `SELECT` holds the lock of its wallet and what it read is still the committed balance; one about to commit a
row is covered by that balance and its reference is not in the table. Without it a
`COMMIT` could not be shown to subtract from the *current* balance. `FetchedOK`: the rows a
reader has in hand are the rows of the wallet, unless a `COMMIT` has overtaken it. From it

| Theorem | Property |
|---|---|
| `TypeCorrect` | `TypeOK` |
| `InsertNeverRaces` | `NeverLosesTheRace` |
| `StaleHasACause` | `StaleOnlyForACause` |
| `WalletImplementsLedger` | `ImplementsLedger`: initial states map to initial states, and every step to a Charge, a Refund or a stutter |

### AuthSessionsProofs

`IInv` is `TypeOK /\ HeldOK /\ ParentOK /\ SavingOK /\ DroppingOK`
with two of the properties. `DroppingOK` says how far a request has got: a Refresh about
to sign a new pair has found both keys of the old one gone. That they stay gone needs
that the only keys ever set are those of new sessions nobody has seen (`SavingOK`,
`HeldOK`), and that whoever is a parent was seen (`ParentOK`). From it

| Theorem | Property |
|---|---|
| `TypeCorrect` | `TypeOK` |
| `OldPairIsRetired` | `RetiredBeforeReplaced` |
| `LogoutIsFinal` | `LoggedOutIsOut` |
| `AcceptedStaysRenewable` | `AcceptedIsRenewable`, if clients that fill the refresh field of a Logout fill the other too (`AccessFieldFilled`): one that logs out a refresh token alone keeps an accepted access token it cannot renew |

### UserServiceProofs

*Registration.* `RegistrationInv` is `RegistrationTypeOK /\ UsersOK /\ OffsetsOK` with
`ProvisionedAreRegistered`. `CommittedIsHandled` follows from `OffsetsOK`: everything
marked was handled, and an offset is never committed past what is marked. `UsersOK` is
that whoever is in the topic, or about to be, is stored.

*Accounts.* `IInv` is the properties about states with `FieldsAreUnique`, from
which `LoginNamesOneUser` follows because no email is a phone, and with the types of
requests under way (`CallsOK`, `PasswordsOK`).

| Theorem | Property |
|---|---|
| `NothingForNobody` | `ProvisionedAreRegistered` |
| `CommitsFollowHandling` | `CommittedIsHandled` |
| `LoginCorrect` | `LoginNamesOneUser` |
| `AnswersCorrect` | `AnswersAreTrue` |
| `RolesCorrect` | `RolesFollowSignUp` |
| `ClaimsCorrect` | `ClaimsAreCovered` |
| `DeletedCorrect` | `DeletedAreFrozen` |

### AnalyticsProofs

`IInv` is `TypeOK /\ TableIsIngested /\ TriedOK`: the table holds
exactly the events whose insert was carried out, and everything the consumer is past was
inserted or tried. The rest is about the queries alone, of any table with those rows.
`RatingOK`: the last trips `FINAL` and `LIMIT` leave are those of `RatingIsOfLastTrips`.
`StatsOK`: the rows of a range are, one each, the orders of its days, both ends included,
which is `DayBounds`, integer division by the length of a day. `DailyOK`: the groups of
`DailyOrderCounts` are disjoint and cover the range, so `SumOfParts` adds them up. They count
rows and trips, so they ask that `Keys` be finite.

| Theorem | Property |
|---|---|
| `TableCorrect` | `TableIsIngested` |
| `CommitsFollowInserts` | `CommittedWasTried` |
| `RatingCorrect` | `RatingIsOfLastTrips`, if `IsFiniteSet(Keys)` |
| `ReportsCorrect` | `ReportsAreExact`, if `IsFiniteSet(Keys)` |

### DriverPoolProofs

`IInv` is the three properties with `DriversKnown` (whoever an order
thinks of has a profile) and `PendingOK` (a release nobody waits for is of an order that
had a driver). They need each other: a claim takes an available driver, who by
`HeldIsOnTrip` is nobody's unless contested, so `DriversAreNotShared` stays true.

| Theorem | Property |
|---|---|
| `SharingCorrect` | `DriversAreNotShared` |
| `HeldCorrect` | `HeldIsOnTrip` |
| `OnTripCorrect` | `OnTripIsAccountedFor` |

### RequestProofs

*Gateway.* The run sends the paths of the routes; the theorems are about every path. In
`RequestInv` a client's request is in the location `Locate` gives (`Routed`), past a check
only if that location asks for one and its role is there (`Cleared`), and answered by the
route the service selects, or refused (`Answered`). What is left is about the tables: each
location and each route is written out (`LocationTable`, and a lemma `...Table` and a lemma
`...Serves` per service), `LocateTable` says of each location what its paths look like, and
`HandlersBeyond` which handlers a request can get to by it. None of them is internal, and
those behind the locations without a check are the four that need none.

*OrderReads.* `IInv` is `TypeOK` with what rows owe to their trips (`RowsAgree`) and with
`ShownAreMine`. For `PagingMissesNothing`, `NothingIsPassed`: an order the listing began
with, and that was not in a page, has an index not below the offset. Writes push rows back
and bring none forward; `PageIsRange` says that a page is the rows of the indices asked
for, because no two rows share a `created_at` and so indices are positions
(`IndexIsPosition`). `PagesCorrect` says the same from the user's side: lay her orders out from
the newest on, and a page is the piece from the offset that the limit allows (`SubSeq`), none
skipped and none shown twice. `SearchCorrect` goes through the conversions there and back, one
field at a time.

| Theorem | Property |
|---|---|
| `AccessCorrect` | `AnsweredWereAllowed` |
| `InternalCorrect` | `InternalStaysInside` |
| `EndpointsCorrect` | `EndpointsAreServed` |
| `PagesCorrect` | `PagesAreCut` |
| `ListsCorrect` | `ListsAgree` |
| `PricesCorrect` | `PricesFollowTrips` |
| `PagingMissesNothing` | `NothingIsMissed`, if no client asks to start after the newest order (`FromTheStart`) |
| `SearchCorrect` | `SearchIsExact`, with its exception for the zero time |

The type invariant of each module with an invariant of its own is proved (`TypeCorrect`, or
as a part of `IInv`) and is in no configuration. Neither is `PagesAreCut`, on which TLC agrees
in the instance of `order_reads`.

**Only model-checked.** `ChargeIsSettled`, `CallsReturn`, `EveryEventIsHandled`,
`EveryEventIsTried`, `PagingEnds`: liveness under fairness is out of
the prover's reach. So is `CallsAreServed`, which does not hold.

## What is not modelled

- Distances: the haversine formula is floating point; prices are checked from metres on.
- The order and the cut at 20 of the recent transactions of a wallet: `Wallet` has them as
  a set. Rows of `orders` with one `created_at`: OFFSET paging may then miss or repeat
  some, since nothing else orders them.
- The values of averages, which are represented by the trips they are taken over.
- nginx's rate limit, its health check, and prefixes that end within a segment (locations
  are compared segment by segment).
- Failing queries, malformed messages, dates and bodies, unknown enum values: they are
  turned away at once and change nothing.
- `EnsureIndex` and migrations as programs, generated serialisation, configuration and
  clients under `src/shared`, Helm charts: no logic of the system's own.

## Plan

All components with logic of their own are modelled, and every safety property that a
passing run checks is stated by a theorem. What is left, in this order:

1. That `DriverPool` with callers that never give up implements the pool of
   `OrderService`, as a refinement, and `DriversAreNotShared` without `contested` when
   drivers leave their status alone.
2. The order and limit of the recent transactions, in `Wallet`: a call that waited for the
   row lock has an earlier `created_at` than those that committed before it.
3. `L!BalanceIsLedgerSum` of `Wallet`, through the refinement: the committed balances add
   up although the wallet computes them from what a transaction has read.
