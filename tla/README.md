# Formal models of the programs in this repository

The repository is the GitOps source of three Kubernetes clusters (Ottawa,
Robbinsdale, St. Petersburg). Most of it is declarative input to Flux, Helm,
Talos and Mimir. Among the manifests there are a few programs of its own:
watchdogs, probes, a page server, a bucket sidecar, small control loops, live
checks of the alert rules, and an overlay of an inference server. They
run for long, share state with things that change under them, lose messages and
are killed between two steps; their unit tests, where there are any, feed one
payload to one function. This directory holds TLA+ models of those programs, the
TLC configurations that check them and TLAPS proofs of what matters most.

    tlc -config RuleCompleteness.cfg RuleCompleteness     # one run
    tlapm RuleCompletenessProofs.tla                      # one proof module

`PROJECT.json` lists the runs with the properties of each, the theorems, the
source lines every definition stands for, the hazards the properties are aimed
at, and for every property a mutant of the code that it catches.

Paths below are relative to `src/`; `BASE` is `src/kubernetes/apps/base`.

## Inventory

For each component: the state it keeps, its operations, what it interacts with,
what is hard about it, and what makes it correct.

### 1. Mimir rule-completeness watchdog

`BASE/monitoring/mimir-rule-completeness/rule_completeness.py`

- State: five dictionaries in memory, keyed by tenant (`missing_since`,
  `firing_since`, `last_missing`, `error_since`, `error_firing_since`).
- Operations: once per poll read the clock, query the ruler of every tenant,
  compare with the rule groups declared in Git, append alerts, POST them with an
  explicit `endsAt`.
- Interacts with the Mimir ruler (answers, lacks groups, is down) and
  Alertmanager, which drops an alert at its end time unless it is renewed.
- Hard: outages interleaved with comparisons, lost POSTs, a process that dies
  and forgets, wall-clock stamps compared across cycles.
- Correct: no alert without a full grace period of evidence; no lapse while
  POSTs arrive; nothing left behind; a real fault escalates in bounded time.

### 2. qBittorrent port-forward probe

`BASE/media/media-{ottawa,robbinsdale}/qb/portforward-probe.yaml`, ADR 0003

- State: shell variables of a run; gluetun's VPN, exit address and forwarded port.
- Operations: read status, address, port and qBittorrent's port in separate
  requests, dial, settle, repeat, rotate the VPN with two PUTs.
- Interacts with gluetun, whose health check and NAT-PMP client change what has
  just been read; with the port-sync sidecar; with the CronJob controller.
- Hard: torn reads, two PUTs that are not one step, lost responses.
- Correct: only a draw that failed every dial is rotated; a missing port is left
  alone; a bad draw does not last; what was stopped is started.

### 3. RBD device observer

`BASE/rook-ceph/rook-ceph-ottawa/app/rbd-device-observer-config.yaml`

- State: the lines of the last cycle in a file on the host; the journal is the
  log stream.
- Operations: list PVs, scan `/sys` and `mountinfo` device by device, report the
  two differences, copy the file.
- Hard: the node changes during the scan; the pod dies between report and copy.
- Correct: the journal replays to what is there, nothing goes unreported.

### 4. Running-workload image probe

`BASE/monitoring/running-workload-image-probe/probe.py`,
`BASE/mimir/mimir-ottawa/rules/running-workload-images.yaml`

- State: the metrics page, replaced in one step; in Mimir, the age of each
  rule's condition.
- Operations: list pods, HEAD (or GET) every manifest on a pool of threads, list
  the objects of component 5, publish; on any exception publish an empty page.
- Hard: an outage that looks like a deletion, failures between HEAD and GET,
  a page that is wiped while an alert ripens.
- Correct: missing means gone, alerts rest on repeated evidence, a deletion that
  lasts is noticed.

### 5. Velero PVC selection probe

`probe.py` again, lines 332-537

- State: none of its own; four lists read one after the other.
- Operations: does some live Schedule select the claim, or a pod that mounts it,
  and would file-system backup take the volume?
- Hard: the lists are minutes apart; opt-in and opt-out annotations, completed
  pods, wildcards, label expressions.
- Correct: for what stood still, the verdict is Velero's; stale verdicts go away.

### 6. Homepage

`BASE/home/home/homepage/server.py`

- State: a discovery cache and two metrics caches, each `data` and `expires_at`.
- Operations: list SecurityPolicies, then HTTPRoutes, join, show each user the
  cards he may open; fan out Mimir queries to a thread pool for the Garage page.
- Hard: cache lives counted from before slow work, one server thread, lists
  read at two times, an API call without a timeout.
- Correct: pages are recent, an outage of the API server hides nothing, the thread
  is held for a bounded time.

### 7. Garage admin: object sidecar

`garage-webadmin/sidecar/main.go`

- State: none but the bucket's; a goroutine per request.
- Operations: list, upload, mkdir, download, delete a key or a whole folder page
  by page, measure a folder page by page.
- Hard: other requests write between two pages; partial failure of a batch.
- Correct: a deletion that says done has deleted; a size counts each object once.

### 8. Vision-Exp overlay of the inference server

`BASE/ai/ai/inference/vision-exp/vision_exp/` (image_processor.py, processor.py,
apply.py, vision.py) and the text `hotfix-dsv4-vision-exp.py` injects

- State: a one-slot cell per model for the kind of the coming batch, an
  attribute on vLLM's forward context, the encoder cache of vLLM under keys the
  overlay salts.
- Operations: refuse images outside user messages; resize an image and lay its
  tokens out in a block whose length depends on where it starts; encode it,
  merge the gathered rows into a batch; publish, consume and memoize the kind of
  the batch; route each row in every gate of the model and of its draft model.
- Interacts with vLLM's scheduler (chunked prefill, batches of several
  requests), encoder cache, forward context, captured graphs.
- Hard: a cache entry of another layout; a kind that outlives its batch; passes
  that publish nothing or consume nothing; arithmetic at the token limit.
- Correct: every image row gets its own slot of its own image; every gate routes
  each row by what that row is; the device is waited for once.

### 9. Mimir alert-stability diagnostic

`tools/check-mimir-alert-stability.py`

- State: of one sweep: the window, the pending queries, the states, the errors.
- Operations: pin the window, query every rule for every tenant on a pool, then
  the ruler's alerts on another, measure the runs of each alert, classify, exit.
- Hard: what sampling and the edges of the window hide; queries that fail one by
  one; one alert carried by several series; a ruler that goes on meanwhile.
- Correct: a candidate really fell short of its `for`; an exit of 0 missed none.

### 10. Mimir label-contract check

`tools/check-mimir-label-contract.py`

- State: of one pass: a cache of answers, the counts of failures and errors.
- Operations: take the selectors out of every rule's expression, skip those of
  other tenants, ask for the metric family and for the selector, exit.
- Hard: a lexer that must agree with PromQL about what is a selector; answers of
  different times; the exit status as the only interface.
- Correct: what it reports fails; an exit of 0 has asked for every selector.

### Components not modelled

| component | why |
|---|---|
| Garage admin browser pages (`garage-webadmin/overlay/src/pages/...`) | planned: BucketPage |
| CLIProxy pi-bridge sync (`BASE/cliproxy/cliproxy/app/deployment.yaml`) | planned: PiBridgeSync |
| CephFS RWX probe (`BASE/cephfs-proof/cephfs-rwx-probe/configmap.yaml`) | planned: CephfsProbe |
| Tailnet cleanup workflow | one sequential actor, list then delete; its one race is in Tailscale's hands |
| Other linters and tests under `tools/` | single-pass text checks without state or concurrency |
| Qwen patches (`BASE/ai/ai/inference/qwen-patches`) | each looks for an anchor in a third-party server's source, replaces it and stops if it is missing; the code that results is that server's |
| Vision-Exp: weights, image decoding, tensors, text substitution | loading happens once before serving; the numbers of an embedding are not what can go wrong between requests |
| Flux graph, Helm releases, other Mimir rules, Talos configs | declarative input to state machines that live elsewhere |
| Cluster scripts under `clusters/*/scripts`, `tailscale/scripts` | run by hand, print or make one API call |

Other shell fragments (init containers of Hermes, Komga, Home Assistant, Frigate
and others) run once before their application and write one file each.

## Modules

| module | what it is |
|---|---|
| `RuleCompleteness` | component 1, with the ruler and Alertmanager |
| `PortForwardProbe`, `MCPortForwardProbe` | component 2, both variants, with gluetun; the sites and weathers for TLC |
| `RbdDeviceObserver` | component 3, with the node |
| `ImageProbe` | component 4, with the registry and the three rules |
| `VeleroSelection` | the pure functions of component 5 |
| `VeleroScan`, `MCVeleroScan` | the scan around them (EXTENDS it); the small pools for TLC |
| `HomepageDiscovery` | component 6, the app page |
| `GaragePage` | component 6, the metrics fetches |
| `HomepageServer`, `MCHomepageServer` | both on the one thread (EXTENDS the first, INSTANCE of the second); symmetry for TLC |
| `BucketDelete` | component 7, folder deletion and size |
| `VisionLayout` | the arithmetic of component 8: sizes, grids, blocks |
| `VisionRouting` | what routing by modality promises, the abstract specification |
| `VisionServing`, `MCVisionServing` | component 8 with vLLM around it; it implements `VisionRouting` |
| `AlertStability` | component 9, with a ruler |
| `PromqlSelectors` | the lexer of component 10, and PromQL by construction |
| `LabelContract` | component 10, with Mimir |
| `MimirTools`, `MCMimirTools` | either of the two tools (EXTENDS `AlertStability` and `PromqlSelectors`, INSTANCE of `LabelContract`); small tenants, rules and expressions for TLC |
| `ProbeProofs` | the theorems about `ImageProbe` and `VeleroScan`; it EXTENDS both, so the second has names of its own (`VeleroInit`, `VeleroSpec`, `step`, ...) |
| `*Proofs` | the theorems about the module they are named after |

In every module the variables come in three groups, in this order: those of the
environment, those of the program under the program's own names, and history
variables that no action reads. `Init` is one conjunction; an action is one
request, one list, one line of a loop, whatever happens between two points at
which something else can run. Definitions marked `mutant` are plausible bugs;
no specification uses them.

### RuleCompleteness

`Check(t)` is one turn of the `for tenant` loop with its query: `CheckError`
(215-249), `CheckerRecovers` (251-263), `FoundMissing` (265-292), `FoundWhole`
(293-309). `Send` is `send_alerts` and the sleep, with a POST that is lost or
delivered; a lost response is a delivered POST, for the loop treats them alike.
`Tick` lets time pass during requests, up to `Work`. Tenants are visited in any
order: no turn reads another's stamps. A dictionary is a function with `Absent`.

### PortForwardProbe

Every `curl` is an action, in the script's order, and `Reconnect` and `Forward`
may happen between any two. The action that reads a value also performs the
checks up to the next request. `CondemnNoPort` selects Ottawa's script or
Robbinsdale's, `Flaky` and `CanKill` the weather; they are a record, `setting`,
chosen once in `Init`. Addresses and ports are draws from a finite set and are not drawn
twice in a run, as gluetun's random ones practically are not. `result` is the
exit status of the Job.

### RbdDeviceObserver

A device climbs `none, mapped, staged, published`; `Mounts` says what each stage
shows. A line of the file is device, phase and what the PV join gave, which is
what `grep -F -x` tells lines apart by; the attributes of a device do not change
while it is mapped. `ScanVanishing` is the device that goes away between the
`-d` test and the reads. `EmitMap` and `EmitUnmap` are the two `while read`
loops line by line; `Copy` is `cp`, and `Crash` may catch it after truncation.
`replay` is the journal as a reader sees it: the set of lines reported as mapped
and not reported as unmapped since; `crashed` remembers that a pod died.

### ImageProbe

`ListPods`, `HeadRequest`, `GetRequest`, `PoolDone`, the three further lists and
`Wake` are `scan_once` and `scan_loop`; `ScanFails` is the `except` that publishes
an empty page. `Evaluate` is Mimir: the age of a rule's condition grows with every tick
it holds and drops to zero when it does not (`for: 15m`).

### VeleroSelection and VeleroScan

`VeleroSelection` translates `selector_matches`, `resource_selector_matches`,
`schedule_selects`, `schedule_selects_volume`, `structural_exclusion_reason` and
`evaluate_pvc_selection`. `matchLabels` is expressed by `In`. `VeleroScan` runs
it over four lists read at four times while claims, pods and Schedules change:
`ReadPods` to `ReadSchedules`, `SelectionFails` (the `except`) and `NextScan`.
`Captured`, in the properties, states anew what Velero backs up, as one
quantifier over Schedules and pods and without the program's functions: the
abstract specification of the verdict.

### HomepageDiscovery, GaragePage and HomepageServer

There is no absolute clock: the remaining life of a cache runs down and ages run
up, capped at the cache's life, which makes the state finite and loses nothing.
`Expires` and `Life` are `now + TTL` with the `now` of before the work.
`GaragePage` stands for both metrics endpoints; an answer is represented by its
age. `CacheHit` and `Hit` are requests the cache answers. In `HomepageServer`
the two share the clock and the thread: `handle_home` and `handle_garage` run
only while the other is idle, `Cluster` and `Clock` whenever time can pass, and
`Replaced` loses both caches. `Fallback` is what a failed list leaves to show,
`AllAnswered` where the pool lets the handler go on. `since`, `moved` and
`cache_moved` are history: for how long a route has not changed, and which routes
changed since the policies just read, or those of the cache, were listed.

### BucketDelete

`List` and `DeleteObjects` alternate as in `deleteByPrefix`, `AddUp` is a page of
`handleSize`, `Put` and `DeleteKey` are the other handlers. `Listing` is
ListObjectsV2 with a token: some page of the keys after it, at most `MaxKeys` of
them. `KeyErrors` lets DeleteObjects succeed as a call and fail for single keys.

### VisionLayout, VisionRouting and VisionServing

`VisionLayout` is `grid_tokens`, `image_block_num_tokens`, `solve_resize_ratio`,
`safe_resize`, the size part of `pil_to_patches` and `build_image_block`. Square
roots and divisions are exact where the code has floats. A block is a sequence
of slots, `<<type, row of the aligner>>`. The `assert max_w > 1` of the row case
holds for any budget of 8 and more and is not modelled.

`Size` is a constant only so that TLC computes it once: its ASSUME says it is what
`pil_to_patches` makes of each picture.
`VisionServing` follows a request: `Arrive` is the role check and the processor
(`Laid` is the loop of `_call_hf_processor`, `Take` one turn of it, `Spans` its
result), `Schedule` a step of vLLM with
`embed_multimodal` for what the cache lacks, `embed_input_ids` the merge and the
publication, `NewContext` the forward context of the pass, `RunGate` one gate of
`_wrap_router_compute_routing`, `Replay` a captured graph in which no Python
runs, `BeginDraft` and `RunDraftGate` the draft model, whose gates have no cell.
`Warmup` is the pass over dummy tokens before serving. A conversation is a
sequence of messages: prose, a quoted image token, or an image. A prefix-cache
hit is a piece of the prompt computed earlier. Requests of the same batch are
gathered in their order. The deployed pod runs with `--enforce-eager`; `Replay`
is there because the code caters for it. The mega-MoE path (`moe_forward`)
classifies as the router does and swaps a module global in one thread; it is the
same action. Gates of which the rows are not the tokens (194-201) are not
modelled.

`VisionRouting` knows only the rows of a pass, their kinds and the routes each
gate gave them. `RoutesOwnRows` is `VisionRouting!Spec` under the mapping that
shows the batch while gates run; the cell, the memo and the kinds are hidden.

### AlertStability

Time is counted in evaluations of the ruler, an alert is a tenant, a rule and a
label set. `Evaluate` decides which expressions are present; `before` is how
long a first stretch had lasted already; `churning` makes the source labels
change from sample to sample. `Begin` is `run` up to line 516, `query_one` one
future of the pool with its three outcomes, `alert_states` the second pool,
`Report` lines 555-628. `RunsIn` says what `measure_runs` counts in one pass
over the bits. `MinShown` is `MinActive` rounded up to whole samples, since the
tool measures a stretch in multiples of `Step`. `Span` and `Stretches`, at the ruler's resolution, are what the
properties compare the report with.

### PromqlSelectors and LabelContract

An expression is a sequence of tokens; a string or the inside of a matcher is
one token, so `skip_string` is the token `String` and quoted braces cannot
occur. `Past` and `Found` are the body of the lexer's loop: where it goes on,
and what it took. Beside it `Expressions` builds PromQL bottom up and carries
the selectors along, which is the reference the lexer is checked against.
`MetricsAssumption` keeps metrics apart from the words of PromQL.
`LabelContract` is `run`: `Take` an occurrence, `AskFamily`, `AskSelected`,
each with the cache of `series`, `RequestFails`, `ResponseCutShort`, `Finish`.
Occurrences are taken in any order. Mimir only ever gains series during a pass:
none leaves the lookback. `MimirTools` is one sweep or one pass, the variables
of the other tool standing still; `RulesAssumption` says that a rule set holds
expressions that `PromqlSelectors` builds.

## Runs

| run | states | what it shows |
|---|---|---|
| `rule_completeness` | 6.0 M | all four safety properties of the watchdog with outages, lost POSTs, crashes |
| `portforward` | 0.45 M | rotation only of a condemned draw; a missing port is left alone, is no failure in Robbinsdale and always one in Ottawa; a bad draw does not last |
| `portforward_restart` | violation | the VPN stays stopped after a lost PUT |
| `rbd` | 1.6 M | at least once and no false unmap with crashes anywhere; without one an exact journal that catches up |
| `image_probe` | 0.2 M | missing is definitive, repeated evidence, deletion noticed |
| `velero_scan` | 0.27 M | true verdicts for what stood still; closed gaps clear |
| `homepage` | 2.6 M | fresh pages, outages that hide nothing, bounded fetches, recent caches, on one thread |
| `bucket_delete` | 39 k | deletion complete, size honest, requests end |
| `bucket_delete_errors` | violation | done, with an object left |
| `vision_serving` | 0.21 M | slots, lengths, one wait, and the refinement of `VisionRouting` |
| `mimir_tools` | 4.7 M | what the two live checks report is so, and what exit 0 says is so |
| `mimir_tools_exit` | violation | exit status 1 without a mismatch |

Every property has a mutant of the code in `PROJECT.json` that TLC refutes under
the same configuration, so none of them holds by the shape of the model.

### Bounds, and why they are enough

- `rule_completeness`: one tenant and one group. Tenants do not read each
  other's stamps (the proofs are for any set of them); a second group only makes
  `last_missing` larger. Poll 1, Grace 2, Ttl 4, Work 1 keep the order of the
  deployed 60, 300, 180 and 40 seconds as far as `RenewalAssumption`
  (Work + Poll + Work < Ttl) goes; Grace is shorter than Ttl here and longer
  there, which only the theorems cover. `MaxTime` 9 has room for a grace period,
  an outage, a restart and a second escalation. `Escalates` speaks from the
  eighth tick on, so it is exercised for faults and restarts of the first two
  instants, after up to one earlier cycle.
- `portforward`: two rounds as deployed, two attempts instead of three. Four
  settings: Ottawa with failing requests, killed pods and three changes of
  gluetun within a run, enough to move the address and move a port before, in
  and after each round; Robbinsdale with failing requests; and both sites in calm
  weather with one change per run, since each run may start with any draw, where
  the liveness is promised.
- `rbd`: two devices, three changes of stage or PV: a device can be
  staged and published, or lose its PV, while the other stands still.
- `image_probe`: one image of each kind; For 6 and Interval 2 let three scans
  fit into a rule's quarter of an hour (15 minutes and 5 minutes).
- `velero_scan`: one claim of four kinds (bound, exempt, local, unbound), two
  kinds of pod, eleven Schedules that differ in one field each, one of them at
  a time. The theorem is for any number of Schedules at a time.
- `homepage`: a route, two users, CACHE_TTL 2, rebuild at most 1; three queries
  on two workers, so that the last round is not full; 2 rounds of 1 tick against
  a life of 3. `PagesAreFreshCorrect` is for any of the former.
- `bucket_delete`: two keys, one per page, two deletions and a size request.

- `vision_serving`: patches of 2 pixels, grids of cells of 2 by 2 patches, blocks
  of up to 16 tokens. Three images: one cell, an odd row of two cells, and one
  that must be made smaller to fit; six conversations, among them an image at
  each of two alignments, two images, a tool's result that quotes the token, and
  one that is refused; pieces of 3 and 8 tokens cut blocks apart; a cache of two
  entries evicts; two gates of the model and one of the draft. The theorems
  are for any of these.
- `mimir_tools`: a window of 10 evaluations sampled every second one, a `for` of
  4, one alert that may be present at any of 12 evaluations, so that runs touch
  either edge, both, or none, and fall between samples; two tenants, one of
  which answers for no alert. Two metrics, four matchers (both tenants, another
  one, a label, an unreadable one) and every expression of `PromqlSelectors` up
  to a binary operator, beside a second rule that shares the cache.

`MaxTime`, `MaxChanges`, `MaxSchedules`, `CanKill`, `CanFail`, `Flaky`,
`KeyErrors`, `MaxTicks` and `MaxIngested` are bounds or switches of the models.
Every run checks for deadlock, but for the two tools, which end.

### Fairness

- `PortForwardProbe`: `WF` of `Start` (the CronJob controller), of the script's
  steps (every request has a `--max-time`) and of the port sync's own cron. None
  for gluetun: it owes nobody a reconnect or a port.
- `RbdDeviceObserver`: `WF` of the loop and `SF` of a successful refresh: the API
  server does not fail every time. `rbd` has another volume of the driver
  (`OtherPv`), see the observations.
- `ImageProbe`: `WF` of the scan thread, which catches every exception and whose
  requests have timeouts, and of time. `DeletionIsNoticed` has a premise of its
  own, that scans stop failing at some point, and is false without it.
- `VeleroScan`: `WF` of the thread, `SF` of each list (`ReadPods`, `ReadPvcs`,
  `ReadPvs`, `ReadSchedules`): some scans get through.
- `BucketDelete`: `WF` of each request's next step. None for uploads.

## Proofs

Theorems hold for every value of the constants that satisfies the ASSUMEs of the
module.

- **RuleCompletenessProofs.** `TypeCorrect`; then three invariants.
  `StampInv`: the stamps of a tenant are ordered, `firing_since` lies at least a
  grace period back and not before the last cycle that refuted the fault;
  `NoFalseAlarm` follows. `ZombieInv`: whatever Alertmanager holds or the current
  batch will deliver for a whole ruler ends at most a TTL after the ruler became
  whole, or already has; it needs nothing about POSTs, which is why lost ones do
  no harm. `GapInv` has three parts: `Timing` (how far the clock may be from
  `current` at each point of the cycle), `BatchInv` (each key that fires has
  exactly one renewal in the batch once its tenant was visited) and `PostedInv`
  (the end time Alertmanager holds outlasts the rest of the cycle). `NoGap` is
  the one theorem that uses `RenewalAssumption`. `EscalateInv` says of each tenant
  that lacks a group (`LateFor`) that its stamp is no later than a cycle after the
  fault, and that as long as it does not fire the clock reading of the cycle is
  before the fault, or before the stamp's grace period has run out, or the tenant
  has still to be queried in this cycle; with `Timing`, hence `Escalates`.
- **RbdDeviceObserverProofs.** `TypeCorrect`. `ReportInv` says how far the
  first loop has got: every line read so far is reported, all of them from the
  second loop on; hence `AtLeastOnce`, with crashes. `HistoryInv` says what the
  journal replays to in the middle of each loop as long as no pod has died;
  hence `JournalIsHistory`. `SnapshotInv`: a mount that has stood since the
  glob is a mount now, and its device has still to be read or its line has been
  written; hence `NoFalseUnmap`.
- **ProbeProofs**, the images. `GoneInv`: what the registry lacks now is in
  `gone_seen`, and results exist only within a scan. `TypeCorrect`.
  `EvidenceInv`: the age of a rule's condition is at most one period, an interval
  and a scan's work, for each earlier scan of the streak and the age of the page
  for the last one; hence `FiresOnRepeatedEvidence`.
- **ProbeProofs**, the claims. `SatisfiesMeaning` and `DataMeansCaptured` show that the
  program's functions agree with `Captured` for all label maps, selectors and
  Schedules; `ScanInv` says the lists read so far are right about untouched
  claims. `VeleroTypeCorrect`, and `NoStaleVerdict` for the pages of failed
  scans; hence `SettledVerdictCorrect`.
- **HomepageServerProofs.** `AgeInv`: the policies just read and the cached
  join are right about every route that has not changed for longer than the
  time since they were read, of which `took` and `left` keep account; hence
  `PagesAreFresh` for `HomepageDiscovery`. `DiscoveryImplemented` and
  `GarageImplemented` are the refinements: each step of the server is a step of
  either page's module or leaves its variables alone, so what is proved of a page
  holds on the server (`ServerPagesAreFresh`). `StandInv`: of a route that stood
  still since, the policies just read and the cache are what the cluster has,
  however long ago; hence `OutageHidesNothing` (`ServerOutageHidesNothing`), which
  no age bounds. `PoolInv`: no query waits while a
  worker is free, and no query runs longer than its timeout. `InRounds` is the
  counting argument behind `FetchIsBounded`: x seconds into round m + 1 every
  worker has been given a query for each round begun, so the queries that were
  taken off the list number at least `Workers` times the rounds begun, and the
  fetch cannot go on after `Rounds` of them. `AgesInv`: an answer in the cache is
  as old as it was when the fetch began plus what the cache has aged; hence
  `CachedIsRecent` and `RefreshHitsCache`.
- **BucketDeleteProofs.** `DeleteInv`: what a deletion has still to remove is in
  its current batch or after its token, and there is a next page if any is after
  it. Under `~KeyErrors`, which the run `bucket_delete_errors` shows is needed.
  `SizeInv`: the bucket lies between what was there all along and what was ever
  there (`Bracketed`), and the count between the numbers of either up to the token
  (`CountedUpTo`); hence `SizeIsHonest`.
- **PortForwardProbeProofs.** `ControlInv`: what the control state says of the
  registers of the script. `DrawInv`: draws do not recur within a run, and the
  answers a round rests on hold for as long as `first_port` is the last draw, so
  two equal reads at different moments are one and the same draw. `CountInv`: a
  refused dial is told from the earlier ones by its round and attempt, and as many
  as are due went to the first address, or all but the last of them and then the
  address is gone for good. Hence
  `RotatesOnlyCondemned` and `LeavesUnforwardedAlone`. `CalmInv`: while nothing is
  lost the VPN runs whenever the script asks. With it, and by one lemma for each
  site, the action property `UnforwardedIsJudgedBySite`.
- **VisionServingProofs.** A kind is `Honest` if "text" stands for no row with
  an embedding and "image" for nothing but image tokens: then every row is routed
  as its own kind asks. `RoutingInv` says that whatever the next gate will read,
  memo, cell or a scan, is honest about the current batch; it is inductive
  because a publication happens on every path into a pass, and the cell is
  consumed before another batch exists. `RoutesOwnRowsCorrect` is the refinement:
  every step is a step of `VisionRouting` or changes none of its variables.
  `OnceInv` adds that before the first gate a wait means a published kind; hence
  `ClassifiedOnceCorrect`. The next two theorems are about arithmetic and about
  the loop of the processor. `FourIsEnough` and `ResizeFits`: the loop of
  `safe_resize` that lowers the budget until the grid fits ends at a budget of 4
  at the latest, so a resized image keeps the limit of `MaxTokens` less 3 for the
  alignment (`SizesFit`). The loop is a recursive function, and induction over it
  is done by hand, as a first position that breaks `LaidOut` (`LeastNatural`);
  `LaidOut` says that the spans laid out so far lie in what is laid out, with the
  length of their block, in order, one for each placeholder passed. Hence
  `EveryImageFitsCorrect`, and `TypeCorrect` with `TypeInv`, in which the rows of
  the batch are no more than their requests have left (`RowsLeft`).
  `RowsMatchLayoutCorrect` has four parts. The permutation of a block: `Place` and
  the order of `build_image_block` are inverse to each other, so a block has at
  each position what `Wanted` asks for (`SlotIsWanted`), and its image slots are as
  many as the aligner's rows, hence no `LayoutMismatch` (`SlotsMatchRows`). The
  cache: the salted key of a span is its image with the length of its block, and
  the length determines the alignment and so the block (`CachedBlock`); this is
  where a key by content alone would fail. The gathering: a sequence `Lists` a set
  of rows if it has the right slot of each at its rank; lists of rows that come one
  after the other are concatenated to a list of all (`ListsConcat`,
  `ListsFlatten`), a part of a span lists the rows of the span in the batch
  (`PartLists`), hence so do the parts of a request (`PartsList`) and what is
  gathered for all (`GatheredLists`). The invariant: `SlotsInv` says that a batch
  about to be embedded was scheduled as pieces that begin where their requests are
  done, with the blocks they need in the cache (`Scheduled`), and that the cache
  holds blocks under their own keys.
- **MimirToolsProofs**, the label contract. The lexer is a recursive function of
  the position. `Past` always goes on to the right or stops (`PastAdvances`), so
  such a function exists (`LexingExists`). `Reads(f, i, j, S)` says that between
  positions i and j it finds S and at most the ghost, the tail `h:5m` of a
  subquery that it takes for a metric. There is a lemma for each kind of token
  (`StepBraced`, `StepBare`, `StepList`, ...), and an expression `Parses` if
  `Reads` holds of it wherever it stands, behind and before anything that ends an
  identifier; every constructor of `Expressions` is shown to preserve that, a
  level of nesting at a time, hence `LexerFindsSelectors`. `ContractInv` then
  follows a pass: what is cached lies between the matches at the start and the
  matches now (`CacheSound`), what has failed was asked for and is no ghost, for a
  ghost is its own family and cannot fail (`FailedSound`), and as long as there is
  no error every occurrence is still to do, in hand, or `Settled` (`AllSeen`).
  Hence `FailuresAreRealCorrect` and `CleanExitMeansMatchedCorrect`, for any
  metrics and matchers, any Mimir that only gains series, and requests that fail.
- **MimirToolsProofs**, the sweep. `RunAround`: an interval of a bounded set lies
  in one of its runs; `RunsApart`: runs that meet are one. `IndicesAreShown`: put
  together, the results of a rule give the indices of the samples at which the
  alert was active (`Shown`), whatever series carried it. `Reportable` says what a
  candidate is in terms of the runs of those (`CandidatesAreReportable`). One way,
  the samples of a stretch lie in one run and are less than a step from its ends
  (`ReportableFellShort`); the other way, if no gap is missed, the samples of a run
  lie in one stretch, shown by the first sample that does not (`RunInAStretch`), so
  two stretches are two runs and none is too long (`FlapsAreReportable`).
  `SweepInv` says that a report, once made, is of the window whose end was fixed
  at the start, and of all rules if the exit status is 0. Hence
  `CandidatesFellShortCorrect` and `CompleteSweepReportsCorrect`, for any step,
  window, `for` and history.

Assumptions about the outside: `RenewalAssumption` (three queries and a POST
with a timeout of 10 s each take 40 s, 40 + 60 + 40 < 180; the timeout of
`urlopen` bounds each socket operation, so a server that trickles its answer can
exceed it); `Work < CACHE_TTL` in `HomepageDiscovery`, although `k8s_api` has no
timeout at all; `MaxTokens >= 9` in `VisionLayout`, the smallest grid with its
alignment (384 is configured), and images of at least one pixel; in
`AlertStability`, a window of whole steps (`WindowAssumption`, which the tool's
option parser enforces), and alerts of known tenants and rules
(`AlertsAssumption`).

Model-checked only:

- all liveness (`BadDrawIsReplaced`, `JournalCatchesUp`, `DeletionIsNoticed`,
  `ClosedGapClears`, `RequestsEnd`), which is out of the prover's reach.

Every invariant, action property and refinement that a passing run checks is a
theorem too.

## Findings

1. **A lost PUT leaves the VPN stopped** (`portforward_restart`). The script
   stops the VPN and starts it with two unchecked PUTs. If the second is lost, or
   the pod between them, later runs find a status that is not `running` and exit
   successfully, so nothing starts it and the Job does not fail.
2. **Keys that DeleteObjects could not delete are counted as deleted**
   (`bucket_delete_errors`). Only the error of the call is looked at, not the
   `Errors` of its output.
3. **A response cut short is reported as a mismatch** (`mimir_tools_exit`).
   `http.client.IncompleteRead` is neither `OSError` nor `CheckError`; the
   label-contract check ends with a traceback and exit status 1, which its page
   documents as "at least one present family had zero full-selector matches".

## Observations without a run of their own

Met while modelling; each is visible in the module named.

- `RuleCompleteness`: `deployment.yaml:41-44` gives 6 minutes as the worst case
  from fault to alert. A fault that begins just after a tenant's query is first
  seen a poll and the requests of two cycles later and fires at the first cycle
  after 300 s: `Escalates` has the bound Grace + 2 (Work + Poll) + Work. After a
  restart an alert that fires lapses for Grace minus what is left of its life.
- `PortForwardProbe`: ADR 0003:50-52 wants a worst-case run "well inside" the
  schedule of 300 s; the timeouts of the script add up to about 440 s. ADR
  0003:36 says the Stale alert "covers the probe silently doing nothing", but a
  run that finds nothing to do succeeds and refreshes what that alert looks at.
- `RbdDeviceObserver`: with a crash between the records and `cp` the next cycle
  repeats records, or never reports the unmap of a device that went away and came
  back; with `cp` truncated, unmaps are lost. `jq -er` (137-151) prints nothing
  and fails when the cluster's last RBD volume is deleted, and the cycle stops
  before it reports its devices: the comment at 207-208 promises both records.
- `ImageProbe`: while scans fail and succeed in turn none of the three alerts
  ripens: a failed scan wipes every status, a good one ends the unavailability.
  A failed scan also publishes 0.0 as the time of the last success (895), which
  the help text (789) calls the time of the last successful scan.
- `HomepageDiscovery`: policies are listed before routes, so a route created
  together with its policy between the two lists is shown as public until the
  next rebuild, unlike the comment at 602-603. The display is concerned, not
  access: the gateway enforces the policy.
- `GaragePage`: the metrics endpoint has 27 queries on 22 workers with a timeout
  of 5 s, two rounds of up to 10 s, and a life of 8 s. It fails the premise of
  `RefreshHitsCache` that the time-series endpoint (10 queries, 10 workers, 10 s,
  60 s) meets: when Mimir is slow a refresh does not hit the cache, against the
  comment at 208, and the one thread is held again.
- `VisionServing`: a tool's result may quote the image token (hotfix 19-20), but
  if the conversation also has an image there are more tokens than images and the
  processor ends in StopIteration at line 193; the ValueError of 216-220 that
  would say so cannot be reached. A quoted token in a prompt without images is
  routed by the table when it is alone in its batch and by `bias_vl` when it
  shares the batch with an image or is seen by the draft model, although
  image_processor.py:107-109 calls the runner's mask "exactly the rows that must
  route with `bias_vl`"; `VisionRouting` promises nothing of such a row.
- `AlertStability`: the end of the window is pinned before the queries (509), so
  asking for the ruler's state after them (comment at 538-540) makes the state
  later than the window by the whole sweep. An alert that became active in the
  meantime is reported as a state mismatch of a healthy ruler. A gap shorter than
  a step is not sampled, so the measured duration is no lower bound at the
  ruler's resolution, unlike the docstring at 339-340; `CandidatesFellShort` and
  `CompleteSweepReports` carry terms of `Step` for it. `IncompleteRead` ends this
  tool with exit status 1 too.
- `PromqlSelectors`: units of a subquery (`[30m:]`, `[6h:5m]`) and the second part
  of a compound duration (`1h30m`, where the unit is followed by a digit) are
  taken for metric names. Such a family is absent in Mimir, so it is skipped; if
  it were present it would match, being the bare name of its own family, which is
  how the proof of `FailuresAreReal` disposes of it.

## Plan

Written so far, in the order of their weight in operation: the watchdog, the
port-forward probe, the two halves of the image probe, the observer, the
sidecar's folder operations, the homepage server with its two kinds of page, the
Vision-Exp overlay, and the two live checks of the alert rules. One run is kept
for each question, and neighbouring questions about one program share a run.

Next modules, in this order:

1. `PiBridgeSync`: the loop at `deployment.yaml` 810-853, reload and wait,
   read-modify-write of the management document against another writer, the
   readiness file over crashes. Run: ready means synchronized since the process
   started; no edit lost. Theorem: the readiness invariant.
2. `CephfsProbe`: two pods, writer and completion barriers with timeouts, the
   journal, restarts at every step. Runs: marker implies both journals complete;
   the restart that can never pass again.
3. `BucketPage`: the object browser of `[id].vue` over `BucketDelete`'s sidecar
   (EXTENDS or INSTANCE): responses out of order, the token stack, the dialog.
   Abstract specification: the page shows a listing of the folder in its
   breadcrumb; the mapping from loading states to it.
4. `AlertState`: an abstract alert (silent, firing) that `RuleCompleteness`
   implements through Alertmanager's end times, as a refinement.

Theorems worth adding: the refinement of plan item 4.
