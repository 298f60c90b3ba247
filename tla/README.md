# A verification model of GATRA

GATRA is a reverse proxy between AI agents and the tools they call. Every call
carries a signed capability token; the proxy judges it by the rules of a policy,
keeps count of what each *trajectory* (an agent's session) has consumed, and
forwards it or not. This directory holds TLA+ modules that model its data plane,
the TLC instances that check them, and TLAPS proofs of the main results.

Run from this directory: `tlc -config engine_budget.cfg MCEngine` checks a run,
`tlapm EngineProofs.tla` checks the proofs of a module.

## Inventory

| Component | Source | State | Operations | What makes it hard | What makes it correct |
|---|---|---|---|---|---|
| engine | `internal/engine` | `trajectories`: per trajectory and rule a sum, a count, a set and the start of its window, under `e.mu` | `EvaluateAndIncrement`, the janitor, reload in `NewEngine` | the test and the charge must be one step; dropped errors of saves and deletions; purges; restarts; calendar windows; versions of a rule sharing one state | what is granted in a window respects the cap; what is denied deserves it; RAM and disk agree where it matters |
| storage | `internal/storage` | a bbolt bucket, one JSON record per trajectory | save, delete, load all, close | writes fail; the file is closed under handlers still running | each operation is one transaction |
| policy store | `internal/config/store.go` | the live policy, the policy file | add or update, delete, save, snapshot | RAM is changed first, then validated, then written | acknowledged changes are in the file; the file can be loaded |
| policy validation | `internal/config/config.go` | none | `LoadPolicy`, `Validate` | | ids are unique, accumulators known |
| admin API | `internal/admin` | none of its own | POST and DELETE of rules, GET, a page | status codes against effects | a success is a success |
| proxy | `internal/proxy` | per request: claims, directive, snapshot, position in it | `ServeHTTP` | concurrent requests, changes of the policy, dry run, directives, partial charges | what is forwarded met every rule of one policy |
| evaluator, CEL, MCP | `internal/evaluator`, `internal/mcp` | none | match, extract, limit per call, condition, unpack | nil results | (inputs of the proxy model) |
| token, keyring | `internal/token`, `cmd/gatra/genkeys.go` | the public keys; the three files of gen-keys; tokens in circulation | generate, save, load, mint, verify | several keys, each with its own reading of the clock; the error returned is the last key's; gen-keys stops half way; rotation | a token has one verdict, as if judged at one instant by all keys at once; files of one run belong together |
| plugins, metrics, logger, errors | `internal/plugin`, ... | counters, a list of hooks | `ExecutePost` | several outcomes of one request, many requests at once | a rejected request is logged as blocked once, by the rule that rejected it; one that passed is counted as approved once, one that was flagged never |
| discovery | `internal/discovery`, `cmd/gatra/discover.go` | the rules drafted so far | drafts a policy from a manifest, writes it | parameters are a Go map, visited in any order; sanitized ids coincide; numbers are printed with six decimals; literals are pasted into CEL | the draft loads, refuses what the schema forbids and nothing else, as far as its literals mean what the schema says |
| command line | `cmd/gatra` | the process | start, shutdown; validate, discover, gen-keys | a shutdown that times out | |
| target | outside, and the mock backend | none | answers a forwarded call | may be unreachable after the call was charged | |
| SDKs | `sdks` | none | mint a token, send a call | | |

The proxy calls the engine under the engine's mutex, once per matching rule with
a cumulative limit; the engine calls the storage while it holds the mutex. The
admin API calls the policy store under the store's own mutex; the proxy takes a
copy of the rules from it once per request. Nothing else is shared.

`PROJECT.json` lists the hazards of this code with their lines and the
properties aimed at each.

## Plan

Order, most important first. All items are done except where one says otherwise.

1. `Calendar`, `Accumulator`, `Engine`, `TrajectoryLedger`: the engine over its
   storage, and the abstract ledger it implements. Proofs in `EngineProofs`.
2. `RuleList`, `PolicyStore`: the policy store behind the admin API. Proofs in
   `PolicyStoreProofs`.
3. `Proxy` over `TrajectoryLedger` and `RuleList`: concurrent requests, changes
   of the policy, directives, dry run.
4. Proofs about `Proxy`: the ceilings of one call (`ProxyProofs`).
5. `Proxy`, extended: charges of requests that are rejected later, the audit
   trail of each request, a target that cannot be reached. A restart under
   running requests is left to `Engine`, whose calls may come at any moment of it.
6. `Keyring` over `TokenCheck`: key files, rotation, tokens, verification key by
   key. Proofs in `KeyringProofs`.
7. `Discovery`: the drafted policy. Proofs in `DiscoveryProofs`.
8. More proofs: the whole of the policy store; the proxy's types and audit trail
   (`ProxyTrailProofs`), `JudgedByOnePolicy` (`ProxyProofs`), `ChargesAccounted` and
   `ConsumptionWithinCap` (`ProxyLedgerProofs`); `DraftLoads` (`DiscoveryProofs`). The
   lemmas that several of them need are in `CollectionProofs`. Every invariant that
   holds is now proved; what is left to the runs is liveness.

## Modules and the code they stand for

**Calendar** is `isWindowExpired` (`IsWindowExpired`) and, as the reference it is
judged by, the calendar window an instant lies in (`WindowOf`). Time is a number
of hours; a day has `HoursPerDay` and a year `DaysPerYear` days, so that the
model may be small and still cross both ends. A time zone is an offset; daylight
saving is not modelled.

**Accumulator** is the switch on `rule.Accumulator.Type`: which results cannot be
read (`Unreadable`), which are nil and panic (`Dereferences`), which calls exceed
the cap (`Exceeds`) and what a granted call adds (`Charged`). Amounts are
integers: float64 rounding is not modelled. The ledger entries are the reference.

**Engine** is `internal/engine` with `internal/storage`. `trajectories` is the map
in RAM, `disk` the bucket, `phase` the process (`"closed"` is the time between
`store.Close` and the exit, in which handlers that outlived `server.Shutdown`
still run). One call is one action, because `EvaluateAndIncrement` holds `e.mu`
throughout: `CallUnlimited`, `CallUnreadable`, `CallPanics`, `CallDenied` and
`CallGranted` are its ways out, with the state each leaves behind; the first
touches nothing, the next three touch the session in RAM and are not saved, the
last is saved or fails to be. `Janitor` is one round; `Stop` may fall into the
middle of one. `Start` loads the disk. `ledger`, `unsaved` and `forgotten` are
history: what was granted per calendar window, which trajectories have a grant no
save has recorded, and which of those were in that state when the process died.
The history of a forgotten trajectory is no longer kept.

**TrajectoryLedger** is what the engine promises: the verdicts that the whole
history of grants dictates, without RAM, disk, janitor or restarts.

**EngineProperties** states the properties of the engine and the hypotheses on
the configuration that they need.

**RuleList** holds the changes of the list of rules, **PolicyStore** the store,
its file and the admin API's answers. `os.WriteFile` ends in one of four ways:
written, failed before it touched the file, torn, or failed after all was written.
A crash in it leaves one of the same files.

**Proxy** runs one `ServeHTTP` per request. Its steps are `Arrive` (the token),
`Snapshot` (body, MCP, `GetPolicy`), per rule `Skip` or `Check` (the stateless
checks), `Lock` and `Call` (the engine under `e.mu`), and `Forward`. The engine
there is `TrajectoryLedger`, the specification `Engine` is proved to implement, at
one instant and with saves that succeed. A payload says, for each value path and
condition, what extraction and evaluation give: gjson, `path.Match` and CEL are
inputs. `trail` is what the audit logger is given of each request, in order; the
request counter of the metrics counts the same events. `log` is what the audit logger
then writes (`LineOf`): "blocked" for a rejection, with its rule, and "approved" for
every other event, without it. A forwarded call reaches
the target or finds it unreachable; the outcome is recorded before that. A request
that panics leaves no outcome in the trail. `charged` is history: what the engine
charged for which request. **ProxyProperties** states what holds of the calls that
pass, of the charges and of the trail, and the hypotheses under which amounts add up.

**Keyring** is `internal/token` and `gatra gen-keys`. gen-keys generates a pair and
writes three files, each write one step that may fail or tear the file
(`SaveFile`); it exits at the first failure. `Start` loads the list of keys it is
configured with, some from the key file, and refuses as a whole if one is no key.
A check is one run of `Keyring.VerifyToken`; `TryKey` is one turn of its loop,
which reads the clock each time, and other checks, the clock and the end of the
process come between two turns. A token is its key, its expiry and what is left of
its encoding on arrival. Ed25519 is ideal, and the clock does not step back.
**TokenCheck** is what that implements: a verdict at one instant against the set
of keys.

**Discovery** is `gatra discover`, one parameter at a time in any order (`Visit`),
then tool by tool (`NextTool`), then the file (`Write`). `Draft` is what
`analyzeToolSchema` adds for a parameter. A name is a sequence of characters so
that sanitizing can make two names one; numbers are counted in fractions of a
millionth because limits are printed with `%f`. `Validate`, `Compiles` and
`Admitted` are how `gatra start` and the proxy then take the file. What the
heuristics find in names and descriptions, and what a pattern matches, are inputs. So is
what CEL makes of a literal once an enum or a pattern is pasted into it (`EnumReads`,
`PatternReads`): what was meant, or nothing (`Garbled`), or any other set of arguments.
`MCDiscovery` has one of each kind: `O'Brien` and `^\d+$` do not compile, the member
`EUR', '..` becomes two, and `^EUR\?$` becomes `^EUR?$`. A literal whose condition comes
to depend on other parameters, and a parameter whose name is itself a CEL expression
(`x-1`), are left out.

`MCEngine`, `EngineInstances`, `MCPolicyStore`, `MCProxy`, `MCKeyring` and
`MCDiscovery` hold the instances.

## The properties and the runs

| Run | Expected | Properties | The question |
|---|---|---|---|
| `engine_budget` | pass | `SpendWithinCap` `DenialJustified` `ChargesDurable` `LedgerFollowed` | one trajectory, a daily budget in another zone with two caps and none; negative amounts, results of wrong types, failing writes, crashes, purges; across the end of a year |
| `engine_two_rules` | pass | `TypeOK` `NoOrphans` `SpendWithinCap` `ImplementsLedger` `OnlyGrantsSpend` `IdleSessionsReclaimed` | two rules of one session, a daily count and an hourly set, saved as one record, under the shortest TTL |
| `engine_idle_purge` | violation | `SpendWithinCap` | a cap with no window, and a TTL |
| `engine_at_daily` | violation | `DenialJustified` | a window spelled `@daily` |
| `policy_store` | pass | `TypeOK` `AcknowledgedSticks` `FileBoots` `SuccessIsWhole` `LiveIdsUnique` | every admin request, write failure and restart |
| `policy_live_invalid` | violation | `LiveRulesValid` | is the live policy one that `Validate` accepts |
| `proxy_enforce` | pass | `TypeOK` `JudgedByOnePolicy` `CeilingsHold` `ConsumptionWithinCap` `ChargesAccounted` `TrailTells` | two requests, two rules, two changes of the policy |
| `proxy_dry_run` | pass | `CeilingsHold` `ConsumptionWithinCap` `ChargesAccounted` `TrailTells` `EveryRequestDecided` | the same in a dry run, with panics |
| `proxy_dry_run_blocks` | violation | `DryRunNeverBlocks` | does a dry run let every call through |
| `keyring` | pass | `TypeOK` `FilesMatch` `ImplementsTokenCheck` `ExpiryIsFinal` | two tokens checked at once while they expire, under one key or two, with failed key generations and restarts |
| `discovery` | pass | `TypeOK` `DraftLoads` `PlainSchemaEnforced` `ContentedCallsAdmitted` | manifests of one tool with two parameters, or of two tools whose sanitized names may coincide, against every combination of arguments |
| `discovery_literals` | violation | `SchemaEnforced` | is every schema enforced, whatever characters its enums and patterns hold |

Each property of a passing run is paired in `PROJECT.json` with a mutation of the
code's model, kept beside the definition it would replace and marked "a plausible
slip", that the run detects.

**Bounds.** `MaxTime` (two or three hours, with days of two hours and years of two
days) covers the end of an hour, a day and a year, a TTL that runs out, and a
state reloaded in a later window. One trajectory is enough wherever the question
is about one: no operation of the engine reads a second one but the janitor's round,
which treats each alike. The safety theorems of `EngineProofs` hold for any set of them;
only `IdleSessionsReclaimed` is checked for one alone. Caps of 1 and 2 with
amounts of -1, 1 and 2 reach a cap exactly, pass it, and fall below it again.
`Overdraft` bounds how far negative amounts bring a sum below zero; it is the only
guard of a call that the code does not have. `MaxChanges` bounds the policy changes
of a proxy run: two are needed for a mixture of two policies that was never live.
Two requests are the least that can
race; what a request meets of the others is only the policy, the ledger and the
mutex; all of the proxy's invariants are proved for any number of them.
In `keyring` two pairs and two checks let a token meet a foreign key before its own,
expire between the two, and be refused by one check while the other still runs; the
clock goes to 2, which is one expiry. In `discovery` one tool has up to two
parameters, each any of twelve schemas, or two tools have one each; a rule depends on
one parameter only, and a clash of ids takes two names. `Precision` 3 gives numbers
that `%f` rounds up and down and never a tie.

Symmetry is used in `proxy_enforce` (the two requests) and `keyring` (the two
checks); both are interchangeable, and neither run checks liveness.

**Deadlock** is not checked in the policy store, where a torn file makes every
start refuse, nor in the proxy, where every request ends and the changes of the
policy run out, nor in discovery, a program that ends, nor in the keyring, where the
pairs, the checks and the clock run out. It is checked in the engine.

**Fairness.** The janitor is weakly fair: it is a goroutine with a ticker of its
own, and `e.mu` is released on every path. In the proxy each handler is weakly fair
from the moment it has read its request: it then waits for nothing but `e.mu`, and
Go's mutexes starve nobody. Arrival, the reading of a body from the client, admin
requests and the target are promised nothing.

## What disagrees

Five runs show a disagreement between the code and what the repository says of it:

* `engine_idle_purge`: README.md:36 promises a limit "to $200 total per trajectory";
  the janitor deletes the usage after `--session-ttl` of idleness, one hour unless
  set otherwise, while a token lives a day.
* `engine_at_daily`: the command line, the discovery defaults and the shipped
  policies spell schedules `@daily`; the engine knows `daily` and `hourly`, and
  treats any other as a window without end.
* `policy_live_invalid`: a rule that `Validate` refuses is answered with 500 and
  live all the same, until the next restart or change.
* `proxy_dry_run_blocks`: in a dry run a failed extraction leaves a nil result,
  which `EvaluateRule` dereferences under a limit per call; the call is lost.
* `discovery_literals`: enum members are pasted into the CEL condition unescaped
  (discovery.go:141) and patterns with only their quotes escaped (discovery.go:165), so
  the literal may mean something else than the schema: the member `a', 'b` is two
  members, `C:\new` holds a line feed, `^ok\?$` is `^ok?$`. The drafted rule then admits
  calls that the schema forbids. `PlainSchemaEnforced` is what is left: the bounds of
  numbers, and every enum and pattern whose literal does not read as *more* than it says.

Noted on the way, where no document says otherwise or the property states it as a
condition:

* A tool whose parameters draw no rule gets a "rate limit" (discovery.go:196) with
  the value path `$`, which finds nothing, and no limit: every call is refused with
  400. `ContentedCallsAdmitted` says so in its condition.
* The schema's `required` is never read: a call that leaves out an optional
  parameter with a guard is refused.
* A numeric parameter whose name or description speaks of files or code gets a guard
  on text, which always errs.
* A literal that does not compile, as `O'Brien` in an enum or `\d` in a pattern, makes
  its rule refuse every call; `Legible` leaves such parameters out.
* A maximum above the default cumulative limit, or two names with one sanitized id,
  make `gatra start` refuse the whole draft; discover does not validate it before it
  overwrites the policy file. `DraftLoads` names exactly these cases.
* A token signed over JSON that Go would encode differently never verifies
  (`"reencoded"`), since the claims are encoded again before the signature is tested.
* The audit log writes "tool execution approved" for every event but a rejection
  (internal/plugin/audit.go:33). A dry run's flags are such events: a flagged call is
  logged as approved, once per flag, with neither the rule nor a word of the flag, and
  one that then panics has the line too. `cmd/gatra/start.go:51` promises to "log and
  record violations without blocking traffic"; the proxy's own log and the counters do,
  the audit log does not. `TrailTells` states exactly what each of them tells.
* Neither gives an outcome of a call that panics, and an unreachable target is recorded
  as approved.

## What is proved

All theorems hold for every value of the constants that meets the named
assumptions (`CalendarAssumption`, `EngineAssumption`, `PolicyAssumption`,
`ProxyAssumption`, `KeyringAssumption`, `DiscoveryAssumption`).

*Engine* (`EngineProofs`). `TypeCorrect` and `FileHoldsLiveSessions` (while no write
fails, the disk holds no session that RAM has purged) need nothing else. The others
assume `Hypotheses`, on the configuration only:

* `StableSchedules`: versions of one rule id agree on their window;
* `SoundWindows`: `IsWindowExpired` agrees with the calendar;
* `TtlCoversWindows`: a session cannot go stale within a window it was used in.

`ConfigurationsCovered` proves the last two for the configurations named in
`CoveredByTtl`: rules without window when sessions never expire, daily rules when
the TTL is a day or more (or sessions never expire), hourly rules as long as the
clock stays within a year; the arithmetic of windows is in the same module. The run
`engine_idle_purge` shows what is lost without the last hypothesis and
`engine_at_daily` what is lost without the second.

The argument: `SpendWithinCap` is not inductive, as it says nothing of where the
engine looks. `LedgerFollowed` is. It says that RAM gives each rule the balance the
ledger dictates (the disk does while the process is down), that the disk agrees
with RAM for every trajectory whose last grant was saved, and that no record and
no ledger entry is dated later than it can be; without the dates a purge could
take usage of the present window with it. A balance is what a call at this instant
would find, so a reset window, a purged session and a stale record left on disk all
count as zero. From it follow `CapsHold`, `DenialsJustified`, `ChargesSurvive`,
`OnlyGrantsChangeBalances` and, step by step, `EngineImplementsLedger`, in which the
engine's history variables are the ledger's state and every step is a step of the
ledger or a stutter.

*Policy store* (`PolicyStoreProofs`). `FileAlwaysBoots` and `SuccessIsDurable`, from
their conjunction, which is inductive. `StoreTyped`, `LiveIdsStayUnique` and
`AcknowledgedChangesStick` from `StoreInv`, which adds what the file holds when it
can be read: ids that are unique, and every change that was acknowledged and not
overtaken, both in the file and in the live policy while the process runs.

*Proxy* (`ProxyProofs`). `DirectivesOnlyTighten`: for any number of requests, any
policy, payloads and answers of the engine, an approved call meets the policy's own
conditions and limits per call and the directive's. The invariant behind it,
`CeilingInv`, says the same of every request that is still unflagged, for the rules
it has been judged by so far; its core is the lemma `UnobjectedMeets`, that a call
to which nothing is objected under the tightened rule meets the rule itself.

`TrailIsTrue` (`ProxyTrailProofs`): a rejected request has one line "blocked" in the audit
log, the last, by the rule that was judging it, and no other request has any; its lines
"approved" are its events "approved" and "flagged", the latter in a dry run only and by
rules that judged it; and it is counted as approved exactly when it passed unflagged.
`TrailInv` ties each stage of a handler to the shape of its
trail: nothing, flags by rules that judged it, or flags and one outcome; it keeps
that each line is what `LineOf` makes of its event, and that the rule a request brings to the engine is the last that judged it, which is whom
the engine's denial is recorded under. `ProxyTyped`, in the same module, adds that the
rule is one of the policy's, tightened (so that the ledger keeps its type), and that
`e.mu` is held exactly by the request inside the engine.

`OnePolicyJudges` (`ProxyProofs`): `OrderInv` says that a snapshot was live
while its request ran and stays counted so, and that the rules a request has been
judged by are those of its snapshot that match, in order, up to its position; the
witness is the sequence of their positions, which `Check` extends and `Skip` does not.

*The proxy's ledger* (`ProxyLedgerProofs`). Four hypotheses, stated in
`ProxyProperties` and evaluated by TLC on the instances (`MCHypotheses`), speak of the
rules that may ever be in the policy and of the payloads:

* `StableRules`: versions of one rule id agree on what they accumulate and on their
  window. A sum cannot be compared with a count; what the engine does when an admin
  changes one into the other is not stated.
* `KnownAccumulators`: a capped rule has a sum, a count or a set, as `Validate` asks.
* `AmountsNonNegative`: otherwise a refund that comes later than a call makes room that
  the call did not have. `Engine` has negative amounts and its cap holds for what is
  granted.
* `SetsStayCapped`: a rule that counts distinct values has a cap in every version of it
  or in none. Without it the property is false: while the policy's version has no cap, a
  directive may set one of its own, so values enter the set that a capped version later
  takes for known ones and lets through without limit. For sums and counts the same
  history only leaves less room.

`LedgerIsExplained` needs the first alone: the ledger of a trajectory under an id is the
total of the charges of its requests, each by a rule that judged the request, once;
the rule that rejects charges nothing and whoever passed was charged by all. The
property says nothing of a request half way. `AccountInv` does: at each stage the
charges of a request are by rules before the one at hand, and while nothing is
objected all of those that can charge have. `UniqueInv` (every policy a request lived
under has unique ids) is why a second charge under the same id cannot hide behind the
first; it rests on `OrderInv`. `LedgerInv` is then that the ledger is the sum over a
*set* of charges, with a finite set of them, in the one window of the id; a call of the
engine adds one new element or, for a rule that is done already, none.

`ApprovalsStayWithinCap` needs all four. Consumption is a sum over approved requests, and
the engine's test is one of a ledger that also holds charges of requests that were
rejected later, of versions without a cap and under directives. `CapInv` says that the
charges by capped versions fit under the cap of one of them; when a call is granted under
a capped version, all of the ledger fits under that version's cap, tightened or not, and
when it is granted under another version, the capped charges do not change. At the end
the approved requests are mapped one to one into those charges (`SumEmbeds`), and what
is not negative only adds. `ArrivedFinite` keeps the sums finite for any set of requests.

*Collections* (`CollectionProofs`). Lookups and changes in a list with unique ids; and
sums over finite sets: one element more or less, equal summands, a larger set, a set
embedded in another. They are proved with the induction over finite subsets, stated
about a set of sets so that it takes no operator as a parameter.

*Keyring* (`KeyringProofs`). `KeyringTyped`; `SuccessLeavesMatchingFiles` from
`FilesInv` (the files before the one being written are of the pair at hand);
`RefusalIsFinal` and `KeyringImplementsTokenCheck` from `VerifyInv`: a check under way
tried its earlier keys in vain, each of which would still fail now, and a token once
refused as expired is expired by now. The first is what makes the last key's reason the
token's own: only expiry can turn a later key's verdict, and it turns every key's.

*Discovery* (`DiscoveryProofs`). `DiscoveryTyped`, `SchemasAreEnforced` and
`NoOtherRefusals` from `DraftInv`: the rules drafted so far are exactly those drawn by
the parameters visited so far, in whatever order, and by the tools passed. The last
two theorems then speak about the set of rules and need no order. `SchemasAreEnforced`
states `PlainSchemaEnforced`, whose condition on the literals cannot be dropped: the run
`discovery_literals` refutes `SchemaEnforced`, which lacks it.

`DraftsAreAccepted`: `gatra start` takes the draft exactly when no tool is nameless, no
maximum exceeds the cumulative default and no two ids clash. This is about the *list* of
rules: two equal rules are one in the set but two in the file. `TraceInv` therefore
traces each position of the list to its origin, a tool, a parameter and a kind of guard:
one position for each origin, whatever the order of the visits. What is left is about
origins: equal ids come from the same kind of guard, as the kind is the id's last
character (`Suffixed`), and from qualified names that sanitize to one, since sanitizing
respects concatenation (`SanitizedJoin`).

## What is only model-checked

Liveness (`IdleSessionsReclaimed`, `EveryRequestDecided`): the prover does not reason
about fairness. The five violations are counterexamples on an instance. That the
hypotheses of the engine's and the proxy's theorems hold is evaluated on the instances
(and, for the engine, proved of the configurations of `CoveredByTtl`).

## What is not modelled, and why

The durations of the metrics, the logger and the error values are output; the embedded
page, `/healthz` and GET change nothing; the mock backend answers one constant;
`validate` prints; the SDKs sign a token and send one request, and do not retry.
`UpdatePolicy` has no caller. A pre-execute hook is never registered, and plugins are
registered at start only. A restart under running requests is modelled in `Engine` and
not in `Proxy`, whose requests do not survive it. The schedule of a drafted rule is one
string for all of them and the subject of `engine_at_daily`; the substring search of
discovery's heuristics is an input. Float rounding in the engine, daylight saving, a
clock that steps back, JSON encoding, gjson paths, glob patterns, CEL and Ed25519 are
abstracted to their outcomes.
