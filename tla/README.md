# image-updater: a TLA+ verification project

image-updater is a Go worker that receives container-push events from an SQS queue, finds the
manifest repositories that track the pushed image, edits the `newTag` of their `kustomization.yaml`
files, and proposes the change as one GitHub pull request per repository. This directory holds TLA+
models of its components, TLC configurations that check them on small instances, and TLAPS proofs of
the main results for every value of the constants: every safety property that a run checks has a theorem.

    tlc -workers 2 -config MCUpdateService_race.cfg MCUpdateService     one run
    tlapm UpdateServiceProofs.tla                                       the proofs

`PROJECT.json` lists components, runs, the mutants that show each property can fail, the source lines
behind each definition, the findings, the hazards and the theorems.

## 1. Inventory

| Component | State | Operations | Module |
|---|---|---|---|
| `Service` (application/updater/service.go) | per call: event, plan, position, checkout, joined error | Handle, plan, apply, applyRepository, resolveManifestTargets, imageLabels | `UpdateService`, `RulePlan`, `Proposal`, `ManifestTree`, `Registry` |
| GitHub adapter (githost/github) | none; the remote repositories | Checkout, CreateBranch, Commit, Push, FindOpenPullRequest, CreatePullRequest | `UpdateService` |
| Rules (model/rule.go) | compiled rules, fixed at start | NewRuleSet, Matches, ValidateTag, Location | `RulePlan`, `Proposal` |
| Kustomize patcher (manifest/kustomize) | the walk over a checkout; the lines of one file | Resolve, Patch, setNewTags, upsertImageManifest | `ManifestTree`, `Kustomize`, `UpdateService` |
| Managed block (model/manifest.go) | entries in a YAML comment | Parse, Upsert, Render | `Kustomize` |
| SQS source (queue/sqs/source.go) | loop, batch, one goroutine and one heartbeat per message | Run, receive, dispatch, process, acknowledge, renewVisibility | `QueueSource`, `Heartbeat` |
| Ports (model/port.go) | - | EventSource.Run, EventHandler.Handle | `EventSource` |
| Worker (application/updater/worker.go) | - | binds source and handler | `ImageUpdater` |
| Lifecycle (pkg/lifecycle) | errgroup, channels, timeout | Run, finish, shutdown | `Lifecycle` |
| Errors (model/error.go) | - | Retryable, IsRetryable | the flag `retry` of `UpdateService` |
| Message renderer (application/updater/message_renderer.go, pull_request_body.go) | templates, fixed at start | NewMessageRenderer, render, FormatPullRequestBody | `Messages`, `Proposal` |
| Labels (model/labels.go, label_value.go) | - | NewImageLabels and the sanitizers | `Messages` |
| ECR decoder (registry/ecr/decoder.go) | - | Decode | `Proposal` |
| ECR authenticator (registry/ecr/authenticator.go) | token, expiry, mutex | AuthHeader | `Registry` |
| OCI client and router (registry/oci, registry/router.go) | - | Resolve, manifest, imageConfig, getJSON | `Registry` |
| Rule file loader (ruleset/loader.go) | - | LoadFile, ParseFile | `Proposal` |
| Configuration, wiring, main (config, container, cmd) | the settings | run, Load, validate, BuildWorker | `Process` |

Interaction: `lifecycle.Run` runs the worker; the worker's source polls SQS, starts `process()` per
message, which starts a heartbeat goroutine, decodes and calls `Service.Handle`. Handle plans from
the rules, reads the image's labels from the registry, where all workers of a process share one
authenticator, renders the messages and then talks to GitHub. Its error, retryable or not, decides whether the message is deleted. Replicas share
nothing but the queue and GitHub. No state survives a process.

What is hard here:

- *Concurrency.* SQS delivers at least once; replicas and goroutines may handle one event at once.
  There is no lock: GitHub's refusal of a second branch of the same name is the only mutual exclusion.
- *Partial failure.* Push and pull request are two calls; a crash or a lost answer between them leaves
  a branch without a pull request that a later attempt must finish. An event may concern several
  repositories of which some fail.
- *Leases.* A message must stay hidden while its handler runs and must not stay hidden afterwards.
- *Shutdown.* Signals, failures, cancellation and a timeout race in two `select` statements.
- *Shared credentials.* One token, cached under a mutex, serves all lookups of a process for hours,
  while the tag that is looked up may move.
- *What startup accepts.* Rules, templates and settings are checked once; an event that does not fit
  them is found out later, and is then given up for good.
- *Editing text by line number.* The patcher keeps a user's file as it is and edits lines found by an
  earlier parse.

The correctness properties of each component are those listed with its run in section 3; the hazards
they answer are in `PROJECT.json`.

## 2. The modules

### UpdateService
The core. `Workers` execute Handle concurrently. `pc` names the remote call (or group of local calls)
the worker is about to make; the labels follow `applyRepository` from `find` (first
`ensureNoOpenPullRequest`) through `checkout`, `resolve`, `patch`, `commit`, `push` to `create`, with
`recheck` for the second lookup after a rejected push. Each remote call is one step with three kinds
of outcome: it succeeds; it fails before GitHub acted; or GitHub acted and the answer is lost. `Finish`
is the return of applyRepository: close the checkout, join the error, go to the next repository. GitHub
is `base` (a tree per repository), `branch` (the commit of each update branch with the tree it was cut
from) and `pr`. Owners merge, decline, delete branches and edit the base branch. A tree gives each
directory no file, an unreadable one, or a tag per image: what decides how Resolve and Patch end (a
file with a newTag that Patch cannot rewrite ends like an unreadable one and counts as such). `opened`, `moot` and `settled` are history variables.

Abstractions: `Plan`, `TargetsOf`, `BranchOf` and `LegacyName` are constants here, computed by
`RulePlan` from the rules. The messages are only renderable or not, which `Proposal` computes; the
label lookup, whose failure the code tolerates, is `Registry`; assignees and reviewers are left out. Commit cannot find an empty difference, because Patch
has reported a change.

### RulePlan
`RuleSet.Matches` and `Service.plan` as loops with one step per iteration, over every list of at most
`MaxRules` rules. Paths and tags are sequences of segments and pieces; captures, their expansion and
the dropping of empty segments are as in `variables`, `expandVariables` and `splitPath`. Regular
expressions are the sets of tags they accept. `Fold` is the lower-casing that makes GitHub names equal
and gives the sort order. The branch name is the tuple that is hashed into it; git refuses one for the
names of the event (`BadEvent`) or for the one environment of its repository. `annotateFromLabels` is
the setting of that name, off by default: without it no target writes the managed block, whatever its
rule says, and no labels are read.

### Messages, Proposal
`Messages` has the text of a pull request as operators: `NewImageLabels` with the sanitizer of every
label, `FormatPullRequestBody`, the templates with what `parseMessageTemplate` allows, `render` with
its limits, and the trial rendering of `NewMessageRenderer`. A text is abstracted to what the limits
and checks tell apart: its length, how many of its characters Markdown escapes, and whether it has
line breaks, control characters or nothing but space. `++` puts one text after another and `JoinAll`
joins those of a list or a set, such as what the nodes of a template print: lengths add up, a line break
in one is one in all. `Proposal` composes it with `RulePlan`: the
steps before (`LoadFile`, `provideMessageRenderer`, `Decode`) and after (`RenderRepository` for each
planned repository), with the steps of plan in between taken over as they are.

### ManifestTree
`resolveManifestTargets` on a checkout of directories, files and symlinks: `Inspect` is one iteration
of `rejectSymlinkPath`, `Visit` one call of the function given to `WalkDir`, `Normalize` the merge of
what several patterns found. The order of the walk is left open; the code sorts what it finds.

### Registry
`imageLabels` of several workers at once. `Turn` to `FetchAnswers` are `AuthHeader`, with the mutex
held from `FetchToken` to the answer; the header then serves the requests `manifest`, `index` and
`config` of `Client.Resolve`. Time is the registry's, the process's clock is off by `drift`. A token
is represented by the moment the registry stops honouring it. `MoveTag` is a push of another image
under the same tag.

### Kustomize
`Patcher.Patch` on one file, a sequence of typed lines. `parse` fixes the lines of the items (`nodes`)
once; `setNewTags` edits one item per step, from the bottom upwards (`NextIndex`); then the managed comment
block above `images:` is found and rewritten, with its entries in the order of their names (`Upsert`);
then the file is written. A YAML value is a model of one line,
a tag a sequence <<value>> or <<identifier, value>>. A newTag that the parser reads and setNewTag cannot
rewrite (an alias, a block scalar, a value with a YAML tag) is `fixed`; `SetNewTagFails` meets one, drops
the edits made so far and ends in ErrInvalidManifest.

### QueueSource, EventSource, Heartbeat
`QueueSource` has the Run loop of each instance, a `process()` state per message of the batch and the
state of its heartbeat. Time is abstracted: the lease of a message lapses at any moment at which no
heartbeat keeps it. A receipt handle is represented by its holder. An acknowledgement may fail, or be
made with an old receipt, which SQS may or may not honour. `EventSource` is the contract of the port
(a message is removed only after it was concluded); the queue source implements it under the mapping in
`QueueSource`. `Heartbeat` is `renewVisibility` again with the clock: its lease and retry arithmetic, in
ticks, with calls of any duration.

### ImageUpdater
The composition: worker `<<i, m>>` of `UpdateService` is the handler call of message m in instance i.
Decode and Handle start in one step, Return and the decision about the message are one step, and a
crash takes the instance with all its workers.

### Lifecycle
`lifecycle.Run`: the goroutines around each application's Run and Shutdown, the buffered channel of
failures, the errgroup's first error, the two selects and the timeout. A select with several ready
cases takes any.

### Process
The process around it: arguments, `config.Load`, the constructors of `BuildWorker` in the order in which
dig calls them, then the steps of `Lifecycle`, then the exit code. A signal before `lifecycle.Run` has
installed its handler ends the process.

## 3. Runs

| Run | Instance | What it shows |
|---|---|---|
| `update_race` | 2 workers, 1 event, 1 repository, 2 directories, 3 base edits | NoLostUpdate, OpenPullRequestStable, HandleReturns against every interleaving with crashes, lost answers, merges and edits |
| `update_plan` | 1 worker, 4 events, 2 repositories, 3 directories | the walk over several repositories: joined errors, overlapping patterns, refused and legacy pull requests, unrenderable messages |
| `queue_source` | 2 instances, 2 messages, batch 2, 1 goroutine | the queue safety properties and the refinement of EventSource |
| `updater` | 1 instance, 2 messages, 1 decodable | DeletedMeansUpdated, EveryEventConcluded and ShutdownCompletes, end to end |
| `process` | 2 applications, one returns ctx.Err(); 30 environments | from the settings to the exit code |
| `heartbeat` | lease 5 s, lifetime 13.75 s, 8 ticks a second | lease arithmetic, including the end of the lifetime |
| `proposal` | lists of at most 3 of 20 rules, 10 events; 40 setups of templates, labels, documents and notices; annotation on and off | the plan agrees with a declarative reference; labels never stop an update; what else stops one after startup |
| `patch_history` | 21 files, at most 3 patches of 11 updates | edits by line number are right, and stay right on their own output |
| `registry` | 2 workers, 5 images, 9 units of time, clock off by 1 | the token cache and the lookup while tags move |
| `manifest_tree` | every tree over 6 directories, 1 or 2 patterns | Resolve agrees with the meaning of `**` |
| `update_collision`, `patch_flow` | | findings, section 6 |

Why these bounds are enough to be interesting. Two workers are the least that race, and every pair of
calls of two Handle executions interleaves in `update_race`; a third attempt of the same event is
reached because a worker that returned or crashed may start again. One directory appears, readable or not, and one stops
managing the image, so the checkout of one attempt differs from that of the next. Two repositories are
needed for joined errors, and the second must be able to fail in each way after the first succeeded.
In `queue_source` a batch of two and one goroutine make the batch limit bite, and a second instance can
receive what the first lost. The heartbeat's lease is long enough for the fixed maximum of a call
(`MaxCall`) to apply and short enough, near the lifetime, for the delays to be rounded to nothing.
Three rules are the least with a fallback before, a fallback after and a tie; the pool has spellings
that differ in case, a host that differs, captures from segments and tags, and names git refuses. A
patch writes what the next one reads, so three patches reach files no initial file is like. Templates
and labels that are varied go with at most `MaxVaried` rules: more rules make no other message. The
labels include the longest that each sanitizer keeps, with URLs that are three times as long when
printed. In `registry`, time is long enough for a token to be fetched, shared, reused to its last
moment and replaced; one unit is the timeout of a call, and the constants are in the relation of those
of the code (assumption `SkewCovers`). The trees have a name that occurs twice on a path, so that a
prefix and a suffix can overlap, and a `.git` with a manifest in it. `updater` has one instance,
because liveness of two is out of TLC's reach; two instances meet in `queue_source`, two workers on one
event in `update_race`, and NoLostUpdate, on which DeletedMeansUpdated rests, is proved for any number.

Deadlock is checked except where the component ends: a proposal, a patch history, a walk, a heartbeat
and the process end.

Symmetry is used in runs without liveness only.

### Fairness

- `UpdateService`: weak fairness of a worker's steps. Every remote call of the adapter carries a
  context and returns, with an error if need be. No outcome is assumed: a call may fail forever.
- `ImageUpdater`: weak fairness of the goroutines; of `Restart` (Kubernetes restarts a container that
  ended); of `Lapse` (an SQS lease that nobody renews ends); strong fairness of receiving a given
  visible message (a standard queue samples its hosts and returns each message eventually).
  EveryEventConcluded also assumes that disruptions (crashes, failing calls) end at some time; it says
  nothing about when. Fairness of the heartbeat is not assumed.
- `Process`: weak fairness of the goroutine of main and Run, of the deadline and of the step by which
  a returned application reaches the group. Nothing says that an application or a Shutdown returns.

## 4. Properties

- **NoLostUpdate** (UpdateService). When Handle settled an event (nil or terminal error), every
  repository of its plan has had a pull request for it, or a checkout was seen in which the event has
  nothing (permitted) to change, or GitHub refuses the pull request.
- **WholeRepository**. What is pushed updates every directory the rules select in the tree it was cut
  from, or nothing is pushed.
- **OpenPullRequestStable**. The branch under an open pull request is not rewritten.
- **OneOpenPullRequest**. An update that is open under the unhashed name of the previous release is
  not proposed again.
- **NothingPartlyApplied**. Messages that do not render for one repository leave no trace in others.
- **HandleReturns**. Handle returns whatever the calls answer.
- **ImplementsEventSource** (QueueSource). A message is deleted only when its event
  was concluded. **LeaseExclusive**, **HeartbeatJoined**, **StoppedDrained**: two live leases never
  cover one message; no heartbeat or handler outlives its
  batch, and only a cancelled Run ends.
- **DeletedMeansUpdated, EveryEventConcluded, ShutdownCompletes** (ImageUpdater). The same, end to end.
- **NilMeansDrained, FailureReported, SignalIsClean, ShutdownBounded** (Lifecycle). The exit code says
  what happened, and Run returns even if no application does.
- **AsConfigured** (Process). Three places check and default the settings; the worker runs with those
  of the environment or not at all.
- **LeaseKept, RenewalAccepted, RetryInTime** (Heartbeat). After a failed renewal the next attempt
  comes before the lease ends, and not at once.
- **MostSpecificWin, PlanComplete, OnePlanPerRepository, BranchNamesEvent** (RulePlan). PlanComplete: the
  targets are those of the most specific rules that accept the tag, all of which are complete: a tied
  rule that rejects the tag is passed over, one that is incomplete leaves no plan.
- **LabelsNeverStopUpdate** (Proposal). An event that cannot be rendered could not be rendered without
  its labels either, if the body shows the default body at most twice and has at most
  `maxUnlabelledRunes` = 22000 characters without them (the URI and the size of the image, which are not
  labels, stay). The bound came out of the proof: a template whose own text nearly fills the limit of
  65536 has no room for labels. **StartupCatches** lists, for each error that ends
  an accepted configuration's event, its causes. A message is not rendered because it is too long or
  an environment has a line break or control character. A plan is incomplete because a rule captures, or
  two rules disagree about a directory (about its environment, or with annotation on about
  `imageManifest`). A branch is refused for the names of the event, or for an environment git refuses
  when no rule with another environment shares the repository; see section 6 for the latter.
- **TokenHonoured, OneFetchPerToken, OneImage, LookupBounded** (Registry). Every request carries a token
  the registry honours; a usable token is not replaced; labels and size belong to one image; a lookup
  waits for at most its own calls and those of the workers before it.
- **ExactlyMatching, NothingOutside** (ManifestTree). The directories updated are those the patterns
  describe, or there is an error if and only if a symlink or a file is in the way, nothing matches or two
  patterns conflict; none of them is reached through a symlink. Of the errors, ExactlyMatching only tells
  a conflict from the others: for a missing match see section 6.
- **EditsMatch, RestUntouched, RedeliveryIsNoop, IdentifierKept, BlockMerged** (Kustomize).

## 5. Proofs

Each `...Proofs` module extends the module it is about. The invariants that the proofs needed were
checked with TLC on the instance of the run before they were proved. Each step of a specification has a
lemma of its own, and each theorem holds for every value of the constants that satisfies the assumptions
of its module. TLC evaluates those assumptions in every run.

### UpdateServiceProofs

- `TypeCorrect`: `Spec => []TypeOK`.
- `ReviewStable`: `Spec => OpenPullRequestStable`. From TypeOK: the only step that writes a branch is a
  push that GitHub accepts, for which the branch must not exist; an open pull request has a branch.
- `NoUpdateLost`: `Spec => []NoLostUpdate`, under `LegacyDistinct` and `~BranchCleanup`.
- `AllOrNothing`: `Spec => []NothingPartlyApplied`. A worker within applyRepository has an event
  whose messages all render, and only such a worker pushes.
- `BranchesAreWhole`: `Spec => []WholeRepository`, under `LegacyWhole`. A worker at `commit` or `push`
  holds a tree in which nothing that is selected is unpatchable; what it pushes was cut from that tree.
- `ProposedOnce`: `Spec => []OneOpenPullRequest`. A worker past its lookup knows that the legacy pull
  request is not open, and nothing opens one under a legacy name after that.

NoLostUpdate is not inductive: it speaks of settled events only. The strengthening says what a worker
already owes:

- `WalkServes`: while a Handle has met no retryable error, each repository before its position is
  served (opened, moot or refused), and at `return` all of them are before it;
- `MootNoted`: a worker that holds a checkout with nothing to do has noted so, which is what a terminal
  error of resolve or patch rests on;
- `BranchesNamed`, `PullRequestsCounted`: a branch carries a name of its event and a pull request was
  opened for the event of its branch, so `ErrDuplicatePullRequest` means opened;
- `Pushed`: from a rejected or accepted push on, the branch exists or the event was opened already, so a
  terminal answer to `create` is a refusal of the pull request as such, or follows an opened one.

The hypotheses of theorems, which the code does not guarantee:

- `LegacyDistinct`: two events of one repository do not share a legacy branch name. Without it the
  theorem is false: run `update_collision`.
- `~BranchCleanup`: nobody deletes an update branch that has no pull request yet. Without it GitHub
  answers 422 to the create call because the head is gone, and the adapter calls every 422
  `ErrInvalidPullRequest`, which is terminal (TLC finds the trace with `BranchCleanup = TRUE`).
- `LegacyWhole`: the branches the previous release left behind were whole.

`ConstantTypes`, `SpecialValues`, `BranchIdentity` (SHA-256 does not collide) and `LegacyPlausible` are
assumptions of the module.

### QueueSourceProofs

`TypeCorrect`, `NoHeartbeatLeaks` (HeartbeatJoined), `ReturnsDrained` (StoppedDrained),
`MessageLeasedOnce` (LeaseExclusive) and `SourceImplementsPort` (the refinement of EventSource), for any
number of instances and any finite set of messages.

- `BatchInv`: outside a batch nothing is in process, and a heartbeat belongs to a process() that runs.
- `LeaseInv` adds `BatchFits`, that a batch has at most as many messages as there are goroutines, and
  `LeaseHeld`, that a queued message or one with a live heartbeat is held by its instance. The first is
  what `receive` asks SQS for; it is proved by counting, and it is why a queued message never has to wait
  for a goroutine while its lease runs out.
- `OutcomeInv`: a message about to be acknowledged, or deleted, is final. With it each step maps to a
  step of EventSource or to a stutter.

The same module proves `Heartbeat`, one message against the clock: `RenewalsAccepted` and `RetriesInTime` for every lease of a second or more and every resolution of the
clock. `LeaseIsKept` under `LeaseRoom`: what is left of the lease after a late timer and the longest call
covers the age of the first lease and the time a call took to answer. The run satisfies it. In the code a
call takes at most five seconds and the default lease is 20, so that the second half of the lease holds
exactly two calls: with the default, a heartbeat whose calls take their full five seconds keeps
the lease only if its timers are punctual. A lease of 2 * (2 * 5 + jitter) seconds or more always has
room.

### ImageUpdaterProofs

`PartsRun`: the composition refines `QueueSource` and `UpdateService`, each with its own variables, so
every theorem about either holds of the composed system. `NothingDroppedEndToEnd`: DeletedMeansUpdated,
under the hypotheses of NoUpdateLost. The linking invariant says that the worker of a message handles the
event of that message, and that a message that is acknowledged or deleted has a settled event; the rest
is NoUpdateLost. `ComponentConstants` repeats the assumptions of the parts, because INSTANCE does not
bring them in.

### ProcessProofs

`ProcessRuns`: the process refines `lifecycle.Run`, so what holds of Run holds of the process.
`RunTypeCorrect`, `NilIsDrained`, `FailuresReported`, `SignalsAreClean`, for any set of applications:
the invariant follows an error from the application to the channel, the errgroup and the result, and says
that a channel Run no longer waits for has delivered the final result. `RunsAsConfigured`, for every
environment: validate implies all that NewSource checks and leaves applyDefaults and WithIndent nothing
to change (`DefaultsUnused`). That both places have the same limit of 43200 seconds is part of it.

### RegistryProofs

For any number of workers, any clock drift up to `MaxDrift`, and timeouts that satisfy `SkewCovers` (the
skew of five minutes covers three requests and the drift; a token outlives the fallback):

- `TokensHonoured`: a usable token has three calls left, a header at `index` two, at `config` one, all
  measured from the beginning of the current call;
- `TokenFetchedOnce`: a worker fetches exactly if it holds the mutex, and then there is no usable token;
- `ReadsOneImage`: from the documents, that `imageDigest` finds the preferred image or the first one.
  `PushedImages` says what the constants of the model mean: the images of a push are those its index
  leads to;
- `LookupsBounded`: the moment the mutex is free at the latest, plus one fetch for each worker that came
  earlier and still waits, never exceeds what the waiting worker was granted, a fetch of each other
  worker (`WaitInv`). A worker that comes again stands behind. The proof counts the workers ahead.

### ProposalProofs

For every pool of rules and events and lists of every length: `ProposalPlans` (Proposal refines
RulePlan), `SpecificRulesWin`, `PlansEverything`, `RepositoriesPlannedOnce`, `BranchesNameEvents`. The
loop of Matches has found the covering rules of the best weight so far (`Found`); the loop of plan has
one repository per key that lists the targets of its key (`Grouping`); after sorting, those already
normalised have one target per directory (`Normalizing`). That sorting by rank is a permutation and sorts
is proved by counting: the rank of a key is the number of smaller keys, which is injective, hence onto.
Where an induction over a list was needed, the least counterexample is taken from a well-founded set
instead, which needs no operator parameter (lemma `First`). `PlanConstants` says that rules and events
have their form and that Fold ranks every name a rule can produce.

`LabelsHarmless` (LabelsNeverStopUpdate) and `StartupSuffices` (StartupCatches) are about texts, for all
labels, templates, documents and events. The argument, from the bottom:

- `SumAdds`, `SumGrows`: the community module's `SumFunction` is a recursive function over the subsets of
  its domain; that one exists, and what it adds up, is shown with the least set for which it fails.
  `JoinAllText`, `JoinText` then give the length and the flags of a join from those of its parts.
- `LabelsSanitized`, `LabelsAdd`: each sanitizer bounds its label, and a default body with labels has at
  most `LabelRunes` = 21575 characters more than one without. Twice that and 22000 fit into 65536.
- `AcceptedNodes`, `TrialLine`, `TrialBody`: what the trial rendering shows of each node. Because the trial
  data have a default body of several lines, no accepted title or commit message shows it, directly or
  through `{{.}}`. Hence `AcceptedRenders` (data whose fields are printable and not blank render if they
  fit) and `LabelledRenders` (data that differ in the default body only).
- `EventText`, `EnvironmentText`: what Decode lets through and toModel accepts gives such data.
- `PlainComplete`: a rule without captures that compileRule accepts is complete for every event.

`ProposalInv` carries what startup and Decode checked to the step that renders, and says of an event that
was not rendered which repository failed; `IncompleteInv` says why a plan failed for a rule, `RefusedInv`
why for a branch: sorting and merging keep the environments of a repository, so that the one git refused
is that of every rule that leads there. `CompleteInv`, which PlansEverything needs, says that the loop of
plan has passed complete rules only.
`ProposalConstants` has the form of the input: names are printable, a raw label has a text no longer than
its bytes (of a URL, three times), a template is a finite list of nodes.

### KustomizeProofs

For files of any length and histories of any number of patches: `PatchTypes` and, under `RegularFiles`,
`PatchEditsMatch`, `PatchRestUntouched`, `PatchRedeliveryIsNoop`, `PatchIdentifierKept` and
`PatchBlockMerged`. `RegularFiles` says that no item of an initial file is in flow style, without which
EditsMatch is false (finding 2), and that its managed block has one entry per image, which every block
the program writes has. The files of `patch_history` satisfy it.

- While tags are set (`TagsPending`), the items up to the lowest one still to be edited are at the lines
  parse recorded, because edits go from the bottom upwards and an inserted line shifts only what is below
  it; the items already edited read as replaceTag decided.
- `TagEdit` is one edit: the lines of the file embed into those of the edited one, in order and with their
  kinds, and what is not in the image of the embedding is a newTag (`Embeds`). Line numbers, nodes, images
  and the rest of the file are computed from that.
- `Spliced` is the rewriting of the block: lines before and after it are those of the file, and the parser
  finds the block again where it was written.
- Sorting by rank is a permutation by counting, as in ProposalProofs; Upsert keeps one entry per image.
- `PatchInv` adds that the file of the last patch holds its update (RedeliveryIsNoop), so that the next
  patch starts from a file of the same form.

### ManifestTreeProofs

For every checkout, every list of patterns and every order of the walk: `ResolvesExactly` and
`StaysInside`. `MatchIsFit` shows that comparing prefix, suffix and lengths is to let `**` stand for any
number of segments. While the walk lasts, the way to every directory that is described and not yet found
leads through a path that is still to be visited (`WalkInv`): a visit of a directory replaces it by the
next path on the way, which is not pruned, and a visit of the file finds it. When nothing is left to
visit, all of them are found. While rejectSymlinkPath loops, the components before it are there and no
links (`Looked`); when it ends early at a component that is absent, nothing below that is there either,
since in a checkout only directories have something below them (`CheckoutTrees`).
The proof corrected the reference definition: the name of the fixed part itself is looked at when
the walk starts there, so that a pattern whose fixed part ends in `.git` finds nothing below it,
while a `.git` earlier in the fixed part is passed.

### Only model-checked

- HandleReturns, EveryEventConcluded, ShutdownCompletes, ShutdownBounded: liveness under fairness is
  beyond the prover.

## 6. Findings

1. `update_collision`: the legacy branch name drops the first segment of the image and has no hash.
   An open pull request of `pay/api:v1` under that name makes the lookup for `shop/api:v1` report a
   duplicate; the event is settled and no pull request is ever opened for it.
2. `patch_flow`: an `images:` item in flow style is edited as if it were in block style and the
   committed file no longer parses.

Seen while modelling, without a run of their own:

- A branch left by a crashed attempt is proposed as it is; a directory that has appeared since under a
  `**` pattern is patched in the new checkout, whose push is rejected, and is missing from the pull
  request (WholeRepository speaks of the tree the branch was cut from).
- An empty capture (tag `v1.` for `*.$1`) moves the target up by one directory.
- After the shutdown timeout lifecycle.Run returns while goroutines still run, although
  lifecycle.go:30 says that nothing is left running behind a returned error. If an application returns
  `context.Canceled` before another one fails, the failure ends as nil (FailureReported excludes it;
  the only application of this program returns nil when cancelled).
- The default title has 32 characters of its own, so that an image name of more than about 220 makes
  it longer than 256; the event is then refused for good, as is one whose environment has a line break,
  which startup and validateBranch let through.
- A body template that shows the default body three times or more can exceed the limit of 65536 with
  the longest labels, which is why LabelsNeverStopUpdate stops at two.
- A rule whose URL uses a capture that its pattern does not define, and two rules that conflict about a
  directory, pass startup, although rule.go:113 says that NewRuleSet rejects "any rule that cannot be
  used"; the events they match end with ErrIncompleteRule. A plain rule whose environment git refuses
  in a branch name, such as `a b`, passes startup too: only `validateBranch` looks at it, and every event
  that the rule alone sends to a repository ends in a terminal error. StartupCatches lists these causes; without
  the last one TLC violates it with a list of one rule (`refused` of MCProposal).
- A file where the fixed part of a pattern expects a directory gives an error that is neither
  ErrManifestNotFound nor ErrInvalidManifest, and is therefore retried until the queue gives the message
  up; configuration.md:146 says that no matches produce ErrManifestNotFound, which is final.

## 7. Not modelled

- Assignees and reviewers of a pull request, the build actor and the extra labels: failures are logged
  and nothing else depends on them. Two extra labels whose keys are normalised to the same one are kept
  in the order of a Go map; Patch decides by tags only, so this cannot cause a commit.
- The installation token of the GitHub App, which a library caches.
- The syntax of URLs, regular expressions, YAML and image references: each is a choice between what the
  code accepts and what it refuses. `LOG_LEVEL` and the version.
- A change of the rules between deployments, which changes branch identities and so lets a redelivered
  event open a second pull request: no rule of the program forbids it.
- The order of pushes: events carry no order and the code compares no versions.
- Paths the input cannot take: a message without receipt handle (source.go:268 and 360; SQS gives every
  message one), an empty list of applications (lifecycle.Run refuses it; main passes the worker), absolute
  paths and paths out of the checkout in `rejectSymlinkPath` (assumption `PlannedSources`:
  `validateManifestPath` has refused them).
- The scheduling of `sync.Mutex`: the authenticator's mutex is handed over in the order of arrival. Go lets
  a newcomer overtake a waiter that has just been woken, until the waiter has waited for a millisecond;
  LookupBounded counts a fetch of every other worker, whoever comes first.
- A call of five seconds in the run `heartbeat`: `MaxCall` is one second there, in the proportion to the
  lease of five seconds that `LeaseRoom` needs; the proofs are for every value (section 5).

## 8. Plan

All modules of section 2 are written; all their safety properties are proved. Of what is open:

1. a model of the GitHub App's installation token, whose cache belongs to a library;
2. a liveness run with two instances, which is out of TLC's reach with the present `updater`; it needs an
   abstraction of `UpdateService` by its outcomes, justified by PartsRun;
3. `RegularFiles` without the condition on block entries: a block edited by hand may hold an image twice,
   of which Upsert keeps the others in the order of their names.
