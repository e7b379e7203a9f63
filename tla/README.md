# TenderSense in TLA+

TenderSense collects public tender notices, extracts their attributes with a
language model, scores them against the capability profile of each customer
organization, decides by the organization's rules whether it is eligible, and
tells people about the matches by mail and in the app. The backend
(`src/backend/app`) is a FastAPI process, two ARQ workers fed by Redis, and one
PostgreSQL database that all of them share. Nearly everything that is hard about
it comes from that shape: every request and every job is a handful of READ
COMMITTED transactions, they overlap, retry and die, and what one of them read
may be stale when it writes.

This directory models those parts and checks them with TLC on small instances.
Every type invariant, every safety invariant, every action property and the
refinement that a passing run checks is also proved with TLAPS, for every
instance; what is left to TLC alone is liveness.

## Inventory

| Part (under `src/backend/app`) | State | Operations | What is hard | What makes it correct |
|---|---|---|---|---|
| E-mail outbox (`modules/notifications/email`, `jobs/tasks/email.py`) | rows: status, attempts, next attempt | enqueue, claim, send, mark sent/failed, admin retry | overlapping pumps, a pump that dies, relay answers | one holder per row, exact attempt count, nothing lost silently |
| Notifications (`modules/notifications/service.py`, `jobs/tasks/notifications.py`) | recipients, ledger, in-app centre, "announced" stamps | add, verify, resend, update, unsubscribe, remove; instant alerts, reminders, amendment news | two jobs on one subject, rollback, consent changing meanwhile | told once, only who agreed, the ledger tells the truth |
| Daily digest (`jobs/tasks/notifications.py`) | settings, last date sent, window | dispatch, build, stamp, commit | local time, kept job results, missed days, settings edits | one per date, windows that meet, always runs |
| Match pipeline (`jobs/tasks/matching.py`, `modules/matching`) | profile version, rules, notice, extraction, vectors, match, history | process, reprocess, re-match; edits and amendments | several transactions per job around slow AI calls, a fingerprint guard | verdicts that correspond to their inputs, a complete history |
| Rules engine (`modules/rules/engine.py`, `facts.py`, `catalog.py`, `preview.py`) | none; the verdict it stores in the match | evaluate, answer, preview | unknown facts, confidence, currencies, what the fingerprint leaves out | unknown is never guessed, a stored verdict is current |
| Explanations (`jobs/tasks/explanations.py`, `ai/explanation.py`, `modules/matching/ai_usage.py`) | text and its kind, tokens of the day | explain, score, age | three writers of one row, a budget compared before and recorded after | what is shown together fits, the cap holds |
| Ingestion (`jobs/tasks/scraping.py`, `ingestion`) | notices, versions, payloads on disk, the queue of follow-ups | scrape, upsert, reparse, reprocess, import, sweep | crash between commit and enqueue, aborted runs, a listing that stops at a known notice | what is listed is held, what is stored is processed, rows and payloads agree |
| Run records and source health (`jobs/tracking.py`, `ingestion/runs.py`, `jobs/tasks/maintenance.py`) | `job_runs`, `scraper_runs`, streak, health, alerts | scrape, record, close, mark quiet portals, alert | runs that are cut, sweeps that write what they read before | records say what became of a run, outages are told |
| Members and invitations (`modules/orgs`) | memberships, invitations | invite, accept, resend, revoke, update, remove | check-then-act on the last admin, replayed links | never without an admin, the newest link wins |
| Rule sets (`modules/rules/service.py`) | versions, the one in force | open, save, activate | two saves of one number, stale pointer | what is in force is what was asked for |
| Decisions (`modules/decisions`) | the trail, the current row | record, clear | demote and insert under a partial unique index | one current row: the last word |
| Authentication (`modules/auth`) | refresh sessions, action tokens, cookies | sign in, refresh, sign out, sign out everywhere, forgot, reset | rotations that overlap, late and lost responses, commit after the response | nobody is signed out by mistake, and everybody who should be is |
| Profiles (`modules/profiles`) | profile, version, completeness, child rows, the re-match job | put, add, update, delete, read, re-match by hand | edits that overlap, a job id that refuses | edits add up and are followed |
| Rate limiting (`core/rate_limit.py`) | a counter and its expiry | INCR, EXPIRE | two commands | a limit lifts |

The parts meet in few places. Scraping stores notices and enqueues the match
pipeline; the pipeline stamps a match when it is first stored, asks for
explanations and, when it finishes, calls the instant alert; alerts, reminders
and digests claim the ledger and add rows to the outbox in one transaction; the
pump empties the outbox. Edits of a profile and of a rule set enqueue a
re-match. Every enqueue goes through an ARQ job id, which refuses a second job
while the first is queued, running, or has left a result that is kept (one
hour); the modules that enqueue model it.

## Modules

A comment that starts with "Fault:" marks a plausible error of the code. No
specification uses those definitions; each is what a property is tried against,
to see that the property would notice. Variables after a comment "history" are
read by no action that models code.

### The mail: `MailPromise`, `EmailOutbox`, `EmailOutboxProofs`

`MailPromise` is the abstract specification: a message is submitted, attempted
at most `MaxAttempts` times a round, delivered or abandoned, and only an
abandoned one may be reopened. `EmailOutbox` is the table and the pump.
`SelectBatch` is `claim_batch` (the rows it may return exclude those other
transactions have locked), `PublishClaim` the commit that follows it,
`HandOver` the SMTP call, `MarkSent`/`MarkFailed` each outcome with its commit,
`Die` the end of a run between two commits, `RequeueRead`/`RequeueWrite` the two
halves of the admin's retry. An UPDATE of a row waits for a claim's lock on it.
Time is one bit per row (`waiting`: the next attempt is in the future). Two
retries of one row may overlap: `overtaken` are those whose row another one has
written since they read it, and `overwritten` the rows such a retry has written
although they were no longer `failed`; of these `MailPromise` promises nothing
(`ReopenLate`, `Unbound`). `Phase` is the refinement mapping.

### Who is told: `OrgNotifications`, `Digest`, `NotificationsProofs`

In `OrgNotifications` each job is one transaction, as in the code: claims,
entries and messages become visible at `Commit` or vanish at `RollBack`. A claim
is the unique insert, which waits for a transaction that holds the same key. The
ids of rows are used once; an address that is removed and registered again has
another id. `window` is a history variable: who was deliverable at some moment
since a job began. Requests are single steps except `resend_verification`,
whose read and write are apart, because only there does a stale read matter.

`Digest` is the dispatcher, the job and the two things that move under them:
matches (stamped in one step, visible in another) and the admin's settings. Time
is a tick; a day has `DayLength` of them. The local clock is the clock shifted by
the offset of the timezone. A transaction is shorter than a tick.

### Matches: `MatchPipeline`, `RulesEngine`, `Verdicts`, `Scoring`, `Explanations`, and the proofs of three

`MatchPipeline` has one organization and one notice. Texts and contents are
numbers that grow with each change; vectors, extractions and verdicts are named
by what they were computed from, so "was this score computed from that text" is
a comparison of numbers. Runs keep what they have read (`my`) and write it
later: `Extract`, `StoreExtraction` (the pipeline's first transaction),
`LoadProfile`, `SyncProfile`, `LoadMatch`, `ScoreMatch` (per organization). A
re-match commits the profile vectors before it looks at notices; a pipeline
keeps them in the transaction of the match. An UPDATE carries only the columns
that changed (`UpdatedMatch`). A rule save is one step; an edit of the profile is
three, because its enqueue comes before its commit.

`RulesEngine` is the engine as operators: the catalogue, the value of an
attribute and the confidence it is known with, every operator of a rule, the
three outcomes, severities, `on_missing`, the answers of teammates, the verdict.
`Verdicts` puts it among the things that move: the fields of the portal, an
extraction, the profile, rates, rulings, the clock, and the match whose
fingerprint says whether to evaluate again. The preview evaluates without
storing and is the same operator.

`Scoring` holds grades, urgency, recommendation and the choice of matches worth
a call of the model. `Explanations` has three writers of one row: a scoring run
(`Load`, `Store`), the hourly sweep (`AgeUrgency`) and the job (`Begin`, `Skip`,
`Ask`, `AttemptFails`, `Answer`, `Commit`, `Die`), which writes texts for the
rows as it loaded them and holds the rows it has written to until it commits.
`spent` is what `spent_today` sees, `paid` what the provider has counted.

### Notices: `Ingestion`, `SourceHealth`, and the proofs of both

`Ingestion` is one portal. Notices are numbered in the order of publication, so
the listing, newest first, is a count-down: a run is at `next`, and `bottom` is
where `list_notices` stops (`Recognised`: a notice it knows, or one older than
the last good run less the overlap; `WalkEnds`: the page limit). A run knows only
the `SeenLimit` notices it stored last. `Fetch` writes the payload's file inside
the open transaction, `Commit` publishes the row and its documents, `StoreFails`
rolls them back and leaves the file. `Finish` is the transaction after the walk,
`Ask` one call of the loop that follows it. `WorkerDies` may come anywhere; the
next `StartScrape` is ARQ's retry. `StartReplay`, `ReplayOne` are
`reparse_source`, `ReprocessTender` the operator's, `Import` a notice typed in.
The sweep reads the keys that have rows and lists the files in one step
(`StartSweep`): a file written between the two is as unknown to it as one written
before. `oldest` stands for time.

`SourceHealth` has the two records every scrape leaves (`job_runs` around the
job, `scraper_runs` around the run), the streak and the health of the source,
the sweep that marks a portal as quiet (its read and its write apart) and the
alert to the staff. `Cut` is `job_timeout` or a dead worker.

### Requests: `Requests`, `Members`, `RuleSetVersions`, `Decisions`, `Workspace`, `Sessions`, `RateLimits`, `Profiles`, `RequestsProofs`

`Requests` is the discipline all of the API shares: a request takes a slot when
it has read and passed its guards, and gives it back with its write; `raced`
holds the slots that have seen another request commit, `crossed` the kinds of
request that were committed when raced. `Members`, `RuleSetVersions` and
`Decisions` are built on it, and `Workspace` composes them: the right to make a
request about any of them is read from the membership when it begins.
`Sessions` is one account: a token is generated, sent, and only then committed
(the exit code of `get_db` runs after the response), and responses are late or
lost. `Profiles` composes `Requests` and `RateLimits`: a creation on first read,
edits in four steps (`Begin`, `Flush`, `Touch`, `Schedule`, then `Commit`), the
re-match job they ask for and the one asked for by hand.

## Runs

| Run | Bounds | States | What it shows |
|---|---|---|---|
| `EmailOutbox` | 2 rows, batches of 2, 2 pumps, 2 admins, 2 attempts, 1 crash, 3 retries | 120,289 | nobody shares a row and none is forgotten, the table implements `MailPromise`, every row settles unless the pump that held it died; rows a late retry overwrites are excepted, and only they |
| `OrgNotifications` | 1 address, 2 row ids, 1 subject of each kind, 2 jobs, 2 links, 1 failure | 2,467,528 | told once, only who agreed, the ledger exact, a stop lasts |
| `NotificationsUnsubscribe` (violated) | same | | the link in a message finds no row |
| `Digest` | 10 ticks of 4-tick days, 2 digest times, 2 timezones, 1 edit, 1 failure, 1 match | 609,142 | one digest per date, windows that meet while the settings stand, a due digest runs |
| `MatchPipeline` | 2 pipeline ids and the re-match, a profile blank or filled in, 1 edit, 1 rule save, 1 amendment, 1 failure, 3 jobs | 3,698,433 | a complete history, an undisturbed run settles, the forced re-match repairs |
| `Verdicts` | 5 rule sets, 3 ticks, 2 changes beside extractions and runs | 262,106 | why a notice is rejected, what a stored verdict may miss, what learning may change |
| `Explanations` | 2 matches, 2 jobs, 2 attempts, 2 days, a budget of 5 against calls of 2 or 3, 3 runs | 1,829,728 | what is shown together fits, what is spent was counted on |
| `Ingestion` | 2 notices, 2 texts, 2 amendments, 4 runs, pages of 1 or 2 rows, 1 identifier known, 1 failure to give up, 2 failures, 1 errand (sweep, import or reprocessing) | 2,499,641 | what may be missed, left unprocessed or lost, and nothing else is |
| `SourceHealth` | 6 runs, down after 2, 2 ticks, 1 fault, 1 switch | 5,077,900 | records and health agree with the runs; which outages nobody is told of |
| `Workspace` | 2 people, 2 requests at once, 4 in all | 455,712 | what each request alone keeps true, and which overlaps may break it |
| `Sessions` | 2 devices, 2 requests at once, 3 in all | 935,896 | who is signed out by whom, how often a link works |
| `Profiles` | 2 requests at once, 4 in all, 1 column, 2 child rows, a limit of 2 | 1,122,107 | versions, completeness, the re-match that follows, the limit that lifts |

Why these bounds are enough. Two pumps, two jobs and two requests are the fewest
that overlap, and no action involves three. Two rows are claimed in one batch or
by two pumps, and three retries allow two that overlap and one after them; two
row ids allow an address to be removed and registered again; ten ticks allow a missed day between two digests;
three jobs of the pipeline allow one of each id, or one id three times; four
scrapes allow a text to be captured, amended, reverted and replayed, and two
notices one below the other in the listing. Six runs allow a portal to go down,
recover and go down again after as many failures or more. Four requests allow
an invitation, its acceptance and two changes of the members that overlap.
A budget of five and calls of two or three leave it met exactly, passed by the
last call, and passed by two jobs at once.

Symmetry is used where the members of a set (jobs, row ids, pipeline ids,
people, devices, slots, values) are interchangeable in every initial state and
action, and only in runs that check no liveness. Their properties are
invariants, or action properties that name no single member.

Deadlock is checked in `OrgNotifications`. The other systems may really stop:
everything is sent, the clock has reached its bound, the requests or the runs are
used up.

## What the properties except

A property that the code keeps only with exceptions states them, and the run
shows that there is no other. They are the findings a reader should know of:

- `ClaimsAccounted`, `KeepsPromise` (`overwritten`): `requeue` (`outbox.py:176`)
  reads the row and writes it later, so of two retries that overlap the second
  may reset a row a pump has claimed, or sent, since. The row may then be mailed
  twice or by two pumps at once; no other row is affected.
- `SettlesUnlessOrphaned`: a row that was claimed by a pump that dies stays
  `sending`; nothing takes it up again, although `outbox.py:4` says that the
  outbox survives a crash.
- `SteadyDigestsLeaveNothingOut`: a digest time moved later between two digests
  moves the next window past the matches between the two times; a run delayed
  past midnight opens its window too early.
- `CalmRunsSettle` is of runs nothing disturbs. An edit between the sync of the
  vectors and the load of the profile leaves a match with the new fingerprint
  and the old score, which only the forced re-match repairs; an extraction that
  succeeds after a failed one on the same text is discarded
  (`jobs/tasks/matching.py:79`).
- `VerdictIsCurrent` (`OutsideTheFingerprint`): the fingerprint does not name the
  exchange rates, the teammates' answers and the clock, on which a verdict
  depends too, although `scoring.py:217` says that a match with an unchanged
  fingerprint cannot have changed.
- `NeverRejectedUnread` (`GuessedValue`): the catalogue calls the contract value a
  field of the portal, so that the confidence floor is not applied to one the
  model has read.
- `LearningNeverFlips` (`HalfARange`): with one bound that cannot be converted,
  the other decides alone, and the yes does not outlive the rate.
- `WhatIsShownFits`: the hourly sweep moves the urgency and leaves the
  recommendation (`aged`); a run that finds nothing new moves the recommendation
  and not the text (`outdated`); a run that was overtaken writes over a row it
  has not read (`crossed`).
- `BudgetHolds` (`caveats`): overlapping jobs do not see each other's calls, a
  call may take more than the estimate, the tokens of a failed attempt or a lost
  job are recorded nowhere.
- `NoticesReachThePipeline`: what a run that gave up, died or ran out of pages had
  before it (`leftOut`), what lies before a notice typed in by hand (`planted`);
  requests that died with the worker or were refused because a result is kept,
  and imports, for which none is made (`unasked`), although `importer.py:5` says
  that imports are indistinguishable downstream.
- `TextIsNewestPayload`: a text that goes back to an earlier one is not captured
  again and a replay restores the one between (`reverted`); a sweep deletes the
  payload of a transaction it overlaps (`raced`); texts typed in (`typed`).
- `RecordsTellTruth`: a run that is cut leaves both its rows at `running` and does
  not count towards DOWN; the sweep for quiet portals may write over the health a
  run has recorded since (`overtaken`). (`scraping.py:11` speaks of five failures
  in a row; the constant is three.)
- `OutagesAreAlerted`: the key that keeps an alert from being repeated names the
  length of the outage alone, so a second one of the same length is silent.
- `AdminUnlessRaced`: the guard counts before the write; two admins who demote,
  disable or remove each other leave none.
- `NewestLinkWins`: of two resends within a second the second draws a link that is
  never mailed (`dropped`); a resend that was overtaken mails the link of an
  invitation that is no longer pending.
- `AnswersStand`: a roll-back to the version it found in force writes nothing, so
  a save that commits before it stays in force; a withdrawal that did not see a
  decision withdraws nothing.
- `DevicesStaySignedIn` is of devices that send one request at a time and lose no
  response (`troubled`): a lost response to a rotation makes the next one look
  like reuse. `ResetSignsOut`: a token that an overlapping request is about to
  commit has no row a reset could revoke. `LinksWorkOnce`: two requests for a
  link, or two uses, that overlap.
- `EditsAddUp`: two edits that load one version both write the next one, and each
  counts its own rows only. `EditsAreFollowed` (`unasked`): the handlers of child
  rows schedule no re-match, although `profiles/router.py:4` says that every
  write does; a request is refused while the last job runs or has left a result,
  does not reach Redis, or is overtaken by the job it relied on. `LimitLifts`:
  the EXPIRE that follows an INCR may be lost (`untimed`).

Behaviour the models contain and no property denies: an invitation accepted once
opens again after its member was removed; two in-app entries for one match when
`process:` and `reprocess:` overlap; the version of a profile may fall when
three edits overlap, which `MatchPipelineProofs` takes into account; a scope
vector that outlives its extraction.

`UnsubscribeLinkWorks` is violated outright and is a finding: every message
carries a link built from the row's id, which no lookup accepts.

## Fairness

`EmailOutbox` assumes that the cron goes on starting pumps, that a pump that is
not killed goes on (`WF` of each pump's steps), and that time passes. `Digest`
assumes that the dispatcher is woken, that the worker runs what is queued, and
that kept results expire. Both are what `jobs/worker.py` configures (cron jobs,
`keep_result`). Nothing is assumed of admins, producers, matches, crashes or the
clock of `Digest`, and no fairness is assumed in the other modules: what should
happen eventually there is stated as an invariant (a notice that is not
processed is on its way, or lost in a way that is named), which needs none.

## What is proved

| Module | Of | Theorems | For every |
|---|---|---|---|
| `EmailOutboxProofs` | `EmailOutbox` | `TypeOK`, `ClaimsAccounted` and its parts, `GivesUpOnTime`, the refinement `KeepsPromise` | set of rows, pumps and admins, batch size, maximum of attempts, number of crashes and retries |
| `NotificationsProofs` | `OrgNotifications` | `TypeOK`, `LedgerTellsTruth`, `StopsAreHonoured` | set of addresses, rows, subjects and jobs, number of links and failures |
| | `Digest` | `DigestTypeOK`, `OneDigestPerDate`, `SteadyDigestsLeaveNothingOut` | length of the day, digest times, offsets of timezones, matches, number of ticks, edits and failed runs |
| `MatchPipelineProofs` | `MatchPipeline` | `TypeOK`, `EveryMoveRecorded`, `CalmRunsSettle` | set of pipelines and concurrent edits, number of changes, failures and jobs |
| `VerdictsProofs` | `Verdicts` | `TypeOK`, `VerdictIsCurrent`, `NeverRejectedUnread`, `LearningNeverFlips` | rule set, profile, notice, extraction, rates and clock |
| `ExplanationsProofs` | `Explanations` | `TypeOK`, `WhatIsShownFits`, `BudgetHolds` | set of matches and jobs, budget, estimate, costs, attempts and days |
| `IngestionProofs` | `Ingestion` | `TypeOK`, `NoticesReachThePipeline`, `TextIsNewestPayload` | number of notices, amendments, runs, failures and errands, set of texts and page limits, size of the window of known notices, failures to give up after |
| `SourceHealthProofs` | `SourceHealth` | `TypeOK`, `RecordsTellTruth`, `OutagesAreAlerted` | threshold, number of runs, ticks, faults and switches |
| `RequestsProofs` | `Workspace` | `TypeOK`, `AdminUnlessRaced`, `NewestLinkWins`, `AloneNeverFails`, `AnswersStand`; one pending invitation to an address, no gap in the versions | finite set of people, set of requests that overlap, number of requests |
| | `Profiles` | `ProfilesTypeOK`, `EditsAddUp`, `EditsAreFollowed`, `LimitLifts` | columns, rows, values, set of requests that overlap, number of requests |
| | `Sessions` | `SessionsTypeOK`, `DevicesStaySignedIn`, `ResetSignsOut`, `LinksWorkOnce` | finite set of devices, set of requests that overlap, number of requests |

Each part has one inductive invariant (`IInv`, or `DigestIInv`, `WorkspaceInv`,
`ProfilesInv`, `SessionsInv` where a module proves several), one lemma per action
under it, and theorems that follow from it. No theorem has a hypothesis beyond
the assumptions on the constants.

- `EmailOutbox`: `RunShape` relates program counter, batch and current row;
  `LocksApart` that a lock has one owner; `ClaimedRows` says what status the rows
  of a run have, before and after its claim is published; `OwnedRows` that a
  `sending` row is in a live run's batch or orphaned; `Counted` that the row's
  count, the copy the run made at the claim and the true number of hand-overs
  agree; `ConfirmedRows` where an accepted message can be; `RetriesFailed` that a
  retry in progress is about a row still `failed`, unless it was overtaken. None
  of the properties is inductive alone: `GivesUpOnTime` needs `Counted`, which
  needs `ClaimExclusive`, which needs `ClaimedRows`. What is said of a row is said
  until it is overwritten, except what locks guarantee and the bound of its
  count, which hold of every row and keep the types. The refinement has one lemma
  per action that is an abstract step.
- `OrgNotifications`: `ClaimsApart` (two open transactions hold no key in common)
  and `ClaimsAreMeant` (what a job holds, is about to mail and to enter agree)
  make the commit keep the ledger true; `AddressesApart`, `WindowsAreOpen` and
  `LinksAreFresh` carry who may be mailed and which link is still unclicked.
- `Digest`: `RunsRemembered` is what a run has read and what the last one that
  committed has left; `DatesInOrder` that dates are covered in their order while
  the timezone stands; `WindowsMeet` that a window opens before the digest it
  follows was read, by way of the moment a date is due (`DueAt`). Dates are
  quotients of the clock by the length of a day: `Quotient` and the lemmas after
  it are the facts about division and remainder the steps need.
- `MatchPipeline`: `RunsHaveRead` is what a run has read by the time it comes to a
  step, and that a row it loaded is still there; `EditsInTurn` bounds every
  version, also one that falls, by the number of texts; `ExtractionsCounted`
  bounds the extractions stored by the jobs accepted and the workers dead (a
  cardinality argument); `CalmRuns` says that what an undisturbed run has read is
  how things are. `EveryMoveRecorded` is inductive with the first of these:
  a column an update leaves alone was recorded when it was written.
- `Verdicts`: `Stored` says of a stored match that its verdict is that of what it
  has seen (`seen`), and that the fingerprint and `seen` agree. What remains is
  about the operators of `RulesEngine`: that a verdict of "ineligible" has a rule
  behind it, and that an outcome survives the extension of what is known.
- `Explanations`: `LoadedAreThere` (what a job has loaded is still a row),
  `Reckoned` (unless there is a caveat, what was paid is what was recorded and
  what the open job has spent) and `AskedWithin` (a call in progress was within
  the budget with its estimate).
- `Ingestion`: a notice is `Accounted` for when it is held or left out in a way
  the code accepts, and `Covered` when it is accounted for or still ahead of the
  run that goes on. `NothingForgotten` says that all notices a run has listed are
  covered, and all that are older than a notice held: that is why a walk may stop
  at a notice it knows. `SweepSpares` says that the file of a payload with a row,
  or of the open transaction, is there and not doomed unless the sweep raced it;
  `NewestText` is the text as it stands. The place where a walk stops is a maximum
  the code takes of a set; that it exists (`MaxExists`) is by well-foundedness.
- `SourceHealth`: `OpenIsLatest` (only the latest run is open, and what the job
  must have left behind at each of its stages), `DownIsFailures` (a source is
  down for its failures alone), `QuietWhileMarking` (what the sweep read).
- `Workspace`, `Profiles`, `Sessions`: what a request in progress has read and may
  rely on. As long as no other request has been committed since (`Unraced`), what
  it has read is how things are; a commit takes that away from every other
  request, and the properties name those they then except. `Workspace` has one
  such part per kind of request (`UpdateRequest`, `AcceptRequest`,
  `VersionRequest`, ...) and one invariant per component, with lemmas about the
  steps of `Requests` the three share. `Profiles` adds that the version is the
  last one told and that a version tells one profile from another. `Sessions`
  adds `FamiliesApart` (the tokens two devices know descend from two sign-ins),
  `DevicesOrderly` (what an untroubled device holds, has sent and is about to
  receive) and `SeesAll` (what a sign-out that nobody overtook has seen).

Assumptions on constants are named in the modules that declare them, are those a
reader expects (bounds are natural numbers, people and devices are finite sets,
`None` is no value of the data), and are evaluated in every run. `Verdicts`
assumes besides that no value of a profile is a range, which the schema of a
profile guarantees.

Only model-checked: liveness (`SettlesUnlessOrphaned`, `DueDigestRuns`), which is
out of the prover's reach as is `ENABLED`, and `UnsubscribeLinkWorks`, which is
violated. Nothing is proved of what a fold or a recursive definition computes for
every input: the completeness of a profile is proved to be that of its rows, and
to be a percentage, from the weights as the code lists them.

## Not modelled

- Parsing of HTML and JSON, prompts, rendering and wording: no property is about
  them. The score is an average of cosines: it is named by what it was computed
  from.
- The expiry of refresh sessions, action tokens and access tokens; deactivated
  accounts; `change_password` (a subset of the reset); the linking of Google
  accounts; links that verify an address, which take the same code as reset
  links. A user is a member of one organization.
- Read marks and the two retention purges, which delete rows nothing reads again;
  the creation and deletion of sources; the name, slug and timezone of an
  organization.
- The AI clients but for the attempts of a structured call and what they cost;
  their failures are steps of `MatchPipeline` and `Explanations`.
- The web frontend (a client of the API that keeps no state of record; where its
  cookie matters it is part of `Sessions`), migrations, settings and deployment.

Some behaviour was met while modelling and is outside the modules: a response
that clears the refresh cookie loses the header when the handler raises; two
explanation jobs that write to the same rows in different orders may deadlock in
PostgreSQL (`Die` covers what follows).

## Plan

What is left, in order of worth:

1. Compose `MatchPipeline` with the instant alert: a crash between the commit of
   the matches (`jobs/tasks/matching.py:205`) and `notify_instant` loses the
   alert, and the two modules do not meet yet.
2. One module for the re-match job and its id, shared by `Profiles`,
   `RuleSetVersions` and `MatchPipeline`, which each have their own.
3. Theorems about the operators of `Scoring` and `RulesEngine` on their own
   (monotonicity of the bands and of a range under conversion), and the composed
   modules of the two points before.
4. Expiry of sessions and links, deactivated accounts.
