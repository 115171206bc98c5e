# TLA+ model of the Unicity state transition SDK (Rust)

This directory holds TLA+ modules that model the stateful core of
`state-transition-sdk-rust`, TLC configurations that check them on small
instances, and TLAPS proofs of the most important results for every value of
the constants. `PROJECT.json` lists components, runs, mutants, the map from
definitions to source lines, hazards, findings and theorems. Paths below are
relative to the crate's `src/`.

## 1. The system

The SDK lets a client mint and transfer tokens. A token is a history of
certified transactions; certification is done by an aggregator that keeps a
tree of spent states and has its root sealed by a quorum of root nodes. The SDK
submits requests, waits for proofs, verifies proofs and whole tokens, splits
tokens, and *consolidates* the proofs of a token under one seal. It is a
library: it persists nothing, and its threads are those of the caller and of
one consolidation wave.

| component | state it keeps | operations | what is hard |
|---|---|---|---|
| deadline wait (`client/http/wait.rs`) | time left, wait latch, unknown count, statistics | `wait_for_inclusion_proof` | timeouts against late answers, unauthenticated echoes, cancellation |
| attempts loop (`client/http.rs`) | attempt, unknown count | `get_inclusion_proof` | the same rules a second time, a budget looked at only sometimes |
| mint, transfer, submit (`client/mod.rs`, `client/http.rs`) | resubmission count | `mint`, `transfer`, `submit_and_wait[_verified]` | lost answers, races for one state, restarts |
| FIFO memo (`fifo_index.rs`) | buckets, queue, sequence number | `contains`, `insert` | eviction under collisions |
| quorum (`verify/seal.rs`) | counted ids and keys | `quorum_met` | repeated ids, shared keys, early exit |
| seal session (`verify/seal.rs`, `verify/mod.rs`) | memo of seals, memo of bodies, validation flag | every certificate, proof and token verifier | reuse across policies, eviction, partial failure |
| consolidation (`client/consolidate/`) | deadline, cancel and abort flags, master batch, results of a wave | `consolidate`, `consolidate_proofs` | threads, partial failure, deadline and cancellation at any point |
| shard identifiers, topology, routing, admission (`api/bft/shard_id.rs`, `consolidation/topology.rs`, `plan.rs`) | a scheme in canonical order, groups of a bundle | `canonical_order`, `route_index`, `ProofClient::new`, `group` | prefix-freeness and completeness seen from neighbours only, repeated states, limits |
| partition view, shard tree (`consolidation/partition_view.rs`, `shard_tree.rs`, `assemble.rs`) | a view once authenticated | `authenticate`, `certificate_of`, `assemble_certificates` | a view that does not belong to its certificate, certificates that are derived and not received |
| state paths (`radix.rs`, `api/*inclusion_certificate.rs`) | immutable | `fold_certificate_path`, `verify`, `authenticates` | a genuine path shown for another key |
| token verification (`verify/`) | depth and bytes of embedded tokens | `verify_token_*`, registered verifiers | limits over a recursion, checks left to nobody |
| certificate interner (`api/bft/uc_interner.rs`) | decoded certificates by their bytes | `decode` | one certificate taken for another |
| split (`payment/`, `rsmst/`) | none of its own: the burn and the mints are the aggregator's | `split`, `split_unchecked`, split justification verifier, sum tree | an irreversible burn before any output is checked, crashes after it, outputs checked one by one |
| predicates, transactions, tokens (`predicate/`, `transaction/`) | immutable | build, decode, hash, sign | what a decoder derives and what it takes from the wire |
| codecs, crypto | immutable | encode, decode, hash, sign | byte level |

How they interact: `submit_and_wait` calls the read of the HTTP client, which
is the deadline wait or the attempts loop; a consolidation attempt opens one
seal session for the whole attempt and calls the batch endpoint from several
threads (the session stays on the attempt's own thread); the session's memos
are FIFO indexes; every memo miss runs the quorum count. A token is verified in
one context (session, interner, counted limits) that its mint justification's
verifier re-enters for the source embedded in it. A consolidation verifies the
token it is given, routes its states to shards, authenticates the master's
partition view, derives each shard's certificate from it, checks every
replacement proof under its certificate, and verifies the rebuilt token.

What makes each part correct: a wait never outlives its deadline, never asks
faster than its pace and judges answers alike in both loops; no two conflicting
spends end with verified proofs and a lost race is real; the FIFO memo answers
like a bounded set; the quorum depends on the set of signers alone; a warm
session judges like a cold one; a token verifies exactly when it and what is
embedded in it are legitimate, and no two tokens that verify diverge; accepted
schemes tile the key space; an authenticated view is the one that was sealed and
the certificates derived from it verify; nothing is shown both present and
absent; a consolidation succeeds only on verified,
sufficiently new material and reports what really went wrong; accepted outputs
of a split never exceed its source, and a split the SDK built can be finished if
its source can be embedded, with the burn, within the limits.

## 2. Modules

| module | models | proofs |
|---|---|---|
| `ProofRead` | abstract: what a read may conclude from the answers it saw | |
| `ProofWait` | `wait_loop` with time, calls, pauses, cancellation | `ProofWaitProofs` |
| `ProofPoll` | attempts loop of `get_inclusion_proof` | `ProofPollProofs` |
| `SubmitAndWait`, `MCSubmitAndWait` | client calls contending for one state, and the aggregator (external) | `SubmitAndWaitProofs` |
| `BoundedFifo` | abstract: a FIFO set of the last `Capacity` values | |
| `FifoIndex`, `MCFifoIndex` | the chained hash table with its queue | `FifoIndexProofs` |
| `SealQuorum`, `MCSealQuorum` | `quorum_met_counted` | `SealProofs` |
| `Results` | `Option`, `Result`, lists of checks, bounded memos (operators only) | |
| `SealVerify` | the session's state and the certificate, membership and non-inclusion verifiers (operators only) | |
| `Transactions` | predicates, signatures, transactions, proofs, tokens, the interner, decoding, and the token rebuilt from new proofs (operators only) | |
| `TokenVerify` | verification of tokens with their embedded sources, and consolidation of a token in an unsharded partition (operators only) | |
| `SealCalls` | one session under any sequence of direct calls to the verifiers | `SealProofs` |
| `SealSession`, `MCSealSession` | `SealCalls` with tokens in the mix, and the consolidation of a token | |
| `ShardId` | shard identifiers and their encoding (operators only) | |
| `ShardRouting` | schemes, the router, `ProofClient::new`, admission of a bundle (operators only) | |
| `RadixPath` | paths of the state tree, inclusion and non-inclusion certificates (operators only) | |
| `ShardView` | partition views, the shard tree, derived certificates (operators only) | |
| `Partition`, `MCPartition` | a client of a sharded partition whose views and proofs are served by anybody; the root chain (external) | `PartitionProofs` |
| `Consolidation` | one attempt, with the threads of its wave | `ConsolidationProofs` |
| `Rsmst` | the sum tree: building, proofs, verification (operators only) | |
| `Split`, `MCSplit` | the owner's split, its burn and mints, and the verifier of an output | `SplitProofs` |

How they compose. `ProofWait` and `ProofPoll` both implement `ProofRead`
(`ImplementsProofRead`), and `SubmitAndWait` judges the answers of its reads
with `ProofRead!VerdictsOf`, so that what is shown of submission holds with
either loop. `FifoIndex` implements `BoundedFifo`, and `SealSession` uses its
memos as bounded FIFO sets. `SealQuorum` shows that the count depends only on
the set of signing keys, and `SealVerify` represents a seal by that set.
`SealSession` extends `SealCalls`, whose calls it takes among its own, so that
what is proved of the memos is checked once more with tokens between the calls.
`SealVerify` is shared: `SealSession` calls it with certificates that say whether
they fold to the hash of their seal, `Partition` computes that from trees of
symbolic hashes. `TokenVerify` takes what `Split` models (payment data, manifest,
allocation proofs) as one flag. `Partition` composes `ShardRouting`, `ShardView`,
`RadixPath` and `SealVerify`.
`Consolidation` represents the verifications of a batch by their results.
`Split` is built from the operators of `Rsmst`.

### State and actions

* **ProofWait.** `pc` is the place in the loop: `top` (the checks at 271-283),
  `planned` (the call is about to start), `calling`, `pausing` (`pause`, which
  sleeps in slices and looks at the token between them) and `done`. `plan` is
  the `CallPlan` with the time left it was made for; `send_wait`,
  `unknown_seen` and `stats` are the locals of that name. One action per way an
  answer is handled (`TransportFailure`, `Overload`, `LegacyPending`,
  `FinalError`, and the results `Refused`, `Certified`, `Expired`, `Unknown`,
  `Pending`). `Tick` moves the clock during calls, sleeps and between
  iterations; a sleep may oversleep. `log` and `late` are history.
* **ProofPoll.** `attempt` is the loop variable; sleeping and calling take
  time. A sleep lasts exactly as asked.
* **SubmitAndWait.** Per client `pc`, `resubmits`, the answers `seen` by the
  running read, `outcome` and `proof`; for the aggregator the request it holds,
  whether one was dropped, and the certified leaf. `Crash` restarts a call.
* **FifoIndex.** `buckets`, `order`, `next_seq`, `probes` are the fields;
  hashes come from the caller and may collide.
* **SealQuorum.** The loop over the signature entries, one entry per step.
* **SealCalls, SealSession.** A direct call is one call of a certificate,
  membership or non-inclusion verifier with one argument. `SealCalls` allows any
  sequence of them; `SealSession` adds the calls that verify a token, and
  `Consolidate`, the `ProofClient::consolidate` of a token, which opens a
  session of its own and is explored by itself. The operators take and return
  `[verdict, session, ...]` as the Rust methods take `&mut self` and return a
  `Result`, and leave a failed result alone as `?` does; rules are lists of
  (condition, error) in code order. Of the session's statistics the quorum
  checks are kept. `rejected`, `accepted` and `outcome` are history.
  A token call starts with the wire form: `from_cbor_interned` decodes it with
  an interner of its own and links every transfer to the state before it, so
  tokens are decoded ones. (`Token::new` bundles parts without linking them; the
  models do not verify such tokens.) A hash is the record of its preimage, a
  signature that of its key and message; `well_formed` stands for tags,
  versions, lengths and ranges of the wire. The trees behind root hashes are the
  constant `Trees`, with one leaf per state: that an aggregator never certifies
  a state twice is what the root chain guarantees, and is external. The position
  an error is wrapped with is left out, and the overflow of the byte count is the
  limit, which gives the same error.
* **Partition.** `DecodeId`, `Configure` and `Admit` are the calls that need no
  session. `Seal` is the root chain committing to a world: a view of the
  partition and the states below each of its shards. `Authenticate`, `Assemble`
  and `CertificateOf` are the calls on a served view, `CheckMembership` and
  `CheckAbsence` those on state proofs under a derived or a served certificate.
  `answer` is the last call with its arguments and result, `proved` what the
  accepted state proofs said. An identifier keeps its byte array, unused bits
  included, because equality in the code compares it. Of an input record the
  fields its rules read are kept; the limits on the encoded sizes of a record
  and a view, which the limits on their parts imply, are left out.
* **Consolidation.** `pc` is the place of the attempt's own thread, `worker[w]`
  that of each thread of the wave. Every `budget.check()` of the code is one
  evaluation of `budget_check`; the check before a request, the request, its
  answer and the check after it are four steps. The clock stops at the deadline
  because every later time is alike. A batch is a failure class, or the first
  check it fails. Only `ThreadedExecutor` is modelled (`MaxParallel = 1` is
  `SequentialExecutor`), so the count test on a foreign executor's results
  (865-870) cannot fire. Admission and the context checks are one step each
  with any of their errors; `ShardRouting` and `TokenVerify` have their rules.
* **Split.** `pc` is the place of the owner's process: `start`, `built` (it holds
  a `Split`), `burned` (the burn is certified) and the ends `refused` and
  `lost`. `burn` and `minted` are what the aggregator certified. `Build` is
  `split` or `split_unchecked`; `MintOutput` is a mint that somebody accepted,
  so `verify_split`, the whole of `SplitMintJustificationVerifier::verify`, is
  its guard. `Crash` loses the `Split`; the caller is assumed to have kept its
  requests (their salts) and the mask, and may hold the requests in another
  order. An owner who does not use the SDK takes `BurnAnyhow` and
  `MintAnything`. Hashes are symbolic: the hash of a node is the record of its
  preimage, so that a committed tree is a term with any claimed sums.
  Of the history of a source the model keeps what the limits of
  `VerificationLimits` are about: the levels of sources embedded in it, their
  bytes, its own encoded length and its transfers. `split` verifies the source at
  depth 0 and as it is (`payment/split.rs:223`); an output embeds it one level
  deeper, with the burn as one more transfer and some more bytes
  (`verify/context.rs:144-159`, `verify/mod.rs:144`). `HasRoom` says that it fits
  there. **A source that meets a limit exactly verifies, is burned, and no output
  of the split is ever accepted under these limits**: neither `split` nor
  `build_split` looks ahead. `payment/tests.rs:475-513` has such a refusal, with a
  depth limit of 0. The documentation makes no promise for this case, so it is
  stated in the properties, as the exact condition, and listed as a hazard.

## 3. Runs

State counts are distinct states.

| run | question | states |
|---|---|---|
| `proof_wait_deadline` | does the wait keep its deadline, pace, latch and cancellation, judge answers as `ProofRead`, and end? | 81,193 |
| `proof_poll_attempts` | is the attempts loop bounded whatever the server asks for, does it implement `ProofRead`, and end? | 3,194 |
| `proof_poll_budget` (violation) | does the attempts loop keep the documented total budget? | |
| `submit` | three calls, two with the same request and one conflicting: double spends, lost races, and does every call return? | 664,527 |
| `fifo_set` | is the index a bounded FIFO set, with bounded scans? | 27,569 |
| `seal_quorum` | all seals of three entries over four ids, two of which share a key | 21,312 |
| `session` | two calls and any third on a session whose memos hold one entry, or every seal; 27 tokens and 15 consolidations | 2,237 |
| `consolidation_wave` | three shards on two threads, or one unsharded, every flaw at every position | 4,870,613 |
| `consolidation_threads` | three jobs on two threads: exactly once, stop after one request, always return | 156,925 |
| `consolidation_cancelled` (violation) | is `Cancelled` reported only if the caller cancelled? | |
| `partition` | do accepted schemes tile, are bundles grouped exactly, is an authenticated view the sealed one, do derived certificates verify, and has a key one answer? | 46,632 |
| `split` | can accepted outputs exceed their source, when exactly is what the SDK builds accepted, is it exact and resumable? | 77,018 |

### Bounds, and why they are enough

* `ProofWait`: a total of 6 with an interval of 2, waits of up to 2 and margin 2
  leaves room for three calls, of which the first two can be long polls, and
  for every fallback followed by a plain call; `Horizon` 9 allows oversleeping
  past the deadline. Grace 1 distinguishes the first from the second unknown.
  The invariants are proved for all values.
* `ProofPoll`: three attempts, Retry-After inside and outside the budget.
* `SubmitAndWait`: one resubmission, one crash, one answer without a proof per
  read (and grace 0, so that it may be the last): enough for lost answer, crash,
  resubmission and a conflicting certification in any order.
* `FifoIndex`: capacity 3 in 4 buckets, two equal hashes, two hashes of one
  bucket and one of another; six insertions evict three times. Proved for all.
* `SealQuorum`: threshold 2, three entries. Proved for all.
* `SealSession`: one seal, certificate, proof, absence or token per rule that
  can be the first to fail, two policies, two contexts, four authorities of
  which two are unsafe. `WarmIsCold` (direct calls) and `TokenVerdictExact`
  (tokens) quantify over every next call, so with `MaxCalls` 2 a memo entry is
  made, evicted by the second call and asked for again by a third. Tokens nest
  two deep, so that both limits can be met exactly and exceeded by one; two
  sources may be embedded side by side; certificates are shared between a token
  and its source; some tokens have the id of another and a different history.
  `Capacities` 1 evicts with every success, 7 never. Consolidations cover a
  shared seal of the current and of an old epoch, and batches that are short,
  older, of two certificates, pinned to another shard configuration, without a
  quorum, or of a tree without the states asked for.
* `Partition`: bytes, keys and identifiers of up to three bits put the end marker
  in every position of a byte and alone in one, and let shards be one to three
  bits deep. Schemes are all sequences of up to three identifiers and some of
  four and five, one over the limit. Views, certificates and pins differ from
  the sealed ones in one respect each, or are those of another world with the
  same scheme; paths are shown for every key. Two state proofs (`Attempts`)
  suffice for a contradiction.
* `Consolidation`: three jobs on two threads is the least with a thread that
  takes a second job while another runs; two rounds distinguish an old view
  from a new one; a deadline of 1 can pass between any two steps.
* `Split`: `NoOverIssue` is proved for all values. Keys of two bits and three
  outputs give every shape of tree with up to three leaves. `MaxAmount` 3 is the
  overflow boundary. The trees of an owner without the SDK are every leaf, every
  pair at any depth and with any claimed sums, and pairs with a leaf under a root
  of depth 0 whose total is the amount of a source, or would be if it wrapped; in
  the right place or not. The proofs presented are the paths
  of the committed tree for any id, because with hashes free of collisions no
  other steps end in its root. For two assets the manifest has any two leaves or
  nodes over two leaves of two of the ids, and a proof may come from either root. Requests cover
  every reason for refusal. With limits of 2 levels, 2 transfers and 6 units of
  length, of which the burn takes one and each root another, sources just fit each
  limit with their burn, exceed it only with the burn, or exceed it by themselves.
  One crash can fall between any two steps.

Deadlock is checked except in `fifo_set`, `session` and `partition`, where a
behaviour ends when its bounded number of calls is used up, and in `split`,
which ends when the outputs are minted.

### Fairness

* `ProofWait`, `ProofPoll`: weak fairness of the loop's own steps, of answers
  (the transport ends every call by its timeout) and of the clock.
* `SubmitAndWait`: weak fairness of each client's steps. None of the
  aggregator: a read ends by its deadline.
* `Consolidation`: weak fairness of the attempt's thread and of each thread of
  the wave (the scheduler runs threads that can run), answers included (each
  request carries a timeout). None of the clock, of the caller's cancellation,
  or of any particular answer.
* `Split`: the owner's process goes on (`Build`, `CertifyBurn`, `MintOutput`).
  For `Build` this is written as `[]<>~(owner = "sdk" /\ pc = "start")`, which is
  weak fairness of it, since it is enabled exactly there. The aggregator answers
  a certification it can give. Termination is claimed for a supplied mask only:
  with a random one a process that crashes after the burn cannot rebuild it.

### What the violations show

* `proof_poll_budget`: the attempts loop probes after `interval * attempts`,
  because pending and unknown answers do not look at the budget.
* `consolidation_cancelled`: when the deadline expires during the wave, the
  first job to notice fails with `Timeout` and sets the abort flag, which makes
  the others fail with `Cancelled`. The collection ranks both as secondary and
  takes the first in input order, so the attempt may report that the caller
  cancelled when nobody did.

A smaller exception is written into `OneRequestEach`: the retry of a master
request without `waitMs` looks at the time that is left and not at the
`CancelToken` (`client/batch.rs:411`), so a cancelled long-polling attempt may
still send it.

`ProofWait` is model-checked with plain calls capped by the deadline
(`KeepPlain = FALSE`, as `wait_for_inclusion_proof` makes them); the trait
method's plain calls, which keep the client's own timeout, are covered by the
proofs, which hold for both values.

## 4. Proofs

All theorems hold for every value of the constants that satisfies the named
assumptions of the module: `WaitAssumption`, `PollAssumption`,
`SubmitAssumption`, `IndexAssumption`, `QuorumAssumption`,
`ConsolidationAssumption`, `SessionAssumption`, `PolicyAssumption`,
`RsmstAssumption`, `SplitAssumption`, `ByteAssumption`, `RoutingAssumption`,
`AdmissionAssumption`, `RadixAssumption`, `ServedAssumption`,
`CommitmentAssumption`. Most say that
sizes, times and limits are naturals, that the names of errors are those of the
code, and that the absent value is no value. Some say more:

* `PolicyAssumption`: a non-inclusion context is never equal to a membership
  policy (their digests are made with different domain tags).
* `SplitAssumption`: the payment data of a source is absent or a list of ids with
  amounts, canonical or not; so are the assets of a request, whose token id is a
  key. `BurnBytes`, what a certified burn adds to the encoding of a token, depends
  on the number of roots only (the length of its inclusion proof is one and the
  same in a run).
* `ByteAssumption`, `AdmissionAssumption`: `Option::None` is no identifier, no bit,
  no index and no error of admission.
* `ServedAssumption`: what is served is what a decoder can return (strings of
  bytes, records with their fields), the schemes that are configured or pinned are
  lists of identifiers, in any order and number, a bundle is a list of states with
  rounds, endpoints are a list, a topology has one configuration hash for a
  shard, and the root chain is not forked: a seal with a quorum carries the hash
  that was committed to. Views, certificates, paths and pins are otherwise
  anything.
* `CommitmentAssumption`: what the root chain, which is external, commits to. Its
  shards are identifiers in canonical order that leave no key out, and the
  certificate of each of them folds to the hash of the seal. Identifiers are no
  longer than keys (64 and 256 bits in the code).

Each proof has the same plan: an inductive invariant `IInv` (theorem
`Invariance`, or the lemmas before the first theorem), one lemma per action, and
the properties from the invariant.

* **FifoIndexProofs.** `TypeCorrect`, `QueueAndTableAgree`
  (`IndexConsistent`), `ScansBounded` (`ProbesBounded`) and `Refinement`
  (`ImplementsBoundedFifo`). The inductive invariant adds to `IndexConsistent`
  the typing of queue and table; it is needed because an eviction finds its
  slot by sequence number only. The steps are: `swap_remove` keeps every slot
  but one (`SwapRemoveProperties`), an eviction and a push keep the agreement of
  queue and table, so a bucket has no more slots than the queue has entries
  (an injection, by `FiniteSetTheorems`). For the refinement the queue is mapped
  to the values of its slots: eviction drops the head, a push appends, and a
  match in the bucket of a hash exists iff the value is held. The proof does not
  need `NumBuckets` to be a power of two.
* **ProofWaitProofs.** `TypeCorrect`, `DeadlineKept` (`CallsEndByDeadline`),
  `Paced` (`RequestsPaced`), `Economy` (`NoMoreThanClassicPoller`),
  `RefusalRespected` (`NoWaitAfterRefusal`) and `CancellationRespected`
  (`CancellationWins`). Each answer handler is first shown to have one common
  effect (`AnswerEffect`: end, pause to the pace or the deadline, or call again
  when the pace has already passed). The invariant then says when the next call
  may start in terms of the last call, that requests times the pace fit in the
  time of the last call, and that a refusal either cleared the latch or came
  when no wait fitted the time left. The last part is needed because an
  overload answer to a plain call does not clear the latch: `WaitsShrink` shows
  that with less time left no wait fits again. `Refinement`
  (`ImplementsProofRead`): the answers logged so far are those of `ProofRead`,
  and every handler concludes what `ProofRead` allows after one more answer; the
  invariant ties `unknown_seen` to the unknown answers at the end of the log.
* **ProofPollProofs.** `DurationBounded` (`LoopIsBounded`) and `Refinement`
  (`ImplementsProofRead`). The invariant says when attempt number `a` can begin
  at the latest: a Retry-After is slept only inside the budget, which is looked
  at nowhere else, so that is the budget plus one interval and one request
  timeout for each attempt made. The refinement is that of `ProofWait` for the other
  loop: both judge answers alike.
* **SubmitAndWaitProofs.** `OneWinner` (`NoDoubleSpend`) and `RaceReallyLost`
  (`LostRaceIsReal`). What a call returned and what the state is certified with
  are decided at different times by different actors. With the types, and with
  "an outcome exists only at the end of a call", the two properties are
  inductive: a certified leaf is never replaced, a genuine proof shows the leaf
  that is there, and a read without a proof never reports a lost race
  (`AnswerVerdicts`).
* **ConsolidationProofs.** `TypeCorrect`, `SoundSuccess` (`SuccessIsSound`),
  `MasterVerifiedFirst` (`MasterFirst`), `ExactlyOnce` (`JobsExactlyOnce`),
  `FailureReported` (`OriginatingFailure`), `StopsPromptly` (`OneRequestEach`)
  and `SuccessInTime` (`NoLateSuccess`, an action property), for any number of
  shards, threads, rounds and requests. The invariant has one part per question:
  which thread owns which claimed job (`Owned`), what a stored result rests on
  (`Stored`), what a place of the attempt's own thread implies for the wave
  (`Phased`) and for the master's batch (`Known`), that requests are counted
  (`Counted`), and that a thread which was stopped owes at most one request
  (`LateBounded`). `Owned` is needed because a job is claimed by a counter and
  stored by whoever claimed it; `Stored`, because the first failing job in input
  order is reported and the abort flag makes others fail after it. A slot that
  is still empty when all threads have left is excluded by `Owned`.
  `NoLateSuccess` is about a consolidated result: proofs that already share an
  acceptable seal are returned as they are (`client/consolidate/mod.rs:706-721`),
  without the final look at the budget, and the property does not cover them.
* **SealProofs.** Of the quorum: `TypeCorrect`, `QuorumDecided`
  (`VerdictIsQuorum`) and `EarlyExit` (`StopsAtThreshold`). The invariant: the
  counted keys are exactly the signers among the entries passed, ids and keys
  correspond one to one, and below the threshold while the loop runs.
  Of a session's direct calls: `Invariance`, `ReuseIsSound` (`WarmIsCold`) and
  `WorkIsMinimal` (`OneCheckPerSeal`), for every trust base, capacity and set of
  calls. The invariant: the memos are earned, that is, every remembered seal has
  a quorum of the session's trust base, and every remembered body passes all
  rules of the policy it is remembered under. For each verifier a verdict
  without a session is defined; in an earned session the verifier returns that
  verdict and an earned session (`Result`), whatever was remembered or evicted.
  So a warm session and one of capacity 0 agree. For the work, each call is
  shown to add one memo entry per signature check, or to end at a seal without a
  quorum (`Worked`); with room for every seal nothing is evicted, by counting.
  The theorems are about `CallSpec`, direct calls only: token verification is
  recursive, and the run `session` checks the same properties with tokens mixed
  in.
* **SplitProofs.** `Invariance` and `Conservation` (`NoOverIssue`), for keys of
  any length, amounts of any size, any trees, proofs, payments, orders and
  crashes. The invariant says that every accepted output verifies against the
  burn that is certified now, which holds because the source is spent once. The
  rest is about what a proof that verifies means, with no tree at hand: it is a
  climb from a leaf to the root (`VerifyClimbs`), and the sums that join from the
  left give the leaf an offset (`Climbs`). Two climbs with the same root and the
  same total for different keys are followed down from the root together: they
  come from two sides of a node, which commits to both sums, or meet again in the
  child (`MeetBelow`); they cannot end in the same leaf, nor one in a leaf and
  the other in a node, because of the hash prefixes. So the places of different
  outputs do not overlap (`Disjoint`), and the units of an asset in all accepted
  outputs are numbered injectively within the amount of the source
  (`UnitsFit`). The canonical order of payment data is used once, for the asset
  to have one place in the source (`OnePosition`). The induction over levels is
  done with a largest element of a finite set (`UpTo`, `DownFrom`), because the
  induction theorems of the library cannot be applied by the installed provers.
  `PlanInvariance` and `PlanWorth` (`BuiltSplitVerifies`): the outputs that
  `build_split` returns hold the source exactly, and each is accepted if and only
  if the source is authentic and has room for being embedded with its burn
  (`EmbeddedSource`), for all limits and lengths. The invariant says this of a plan
  that is held before its burn. Without room every output is refused, after a
  `split` that verified the source; so the theorem does not say that nothing is
  lost by every split, it says when. The rest is about the tree: the sum of a
  subtree is that of the leaves below it
  (`build_subtree` divides its leaves by a bit), the proof of a leaf climbs
  through the nodes that `find` descends, and both induct over the depth that is
  left. `build_split` checks totals and counts, never the trees, so that the
  trees agree with the manifest is what had to be shown.
* **PartitionProofs.** For keys and identifiers of any length, trees of any
  number of shards and any session.
  `Invariance` and `OneAnswerPerKey` (`KeyHasOneAnswer`): everything that was
  accepted is what some certificate under the committed hash says about the key,
  and the session's memos hold only seals with a quorum and bodies that fold to
  the hash of one. Two accepted answers about a key are followed from that hash
  down: the partition's path, the shard's path and the state path are each
  determined by a hash and the bits of the key (a hash determines what was
  hashed, a leaf is never a node), so both end in one terminal leaf. The rule that
  a certificate has one sibling per bit is what excludes a path that stops early.
  `CodecExact` (`IdCodecExact`): decoding is exact on canonical encodings, for
  bytes of any width.
  `ViewCommitted` (`ViewIsCommitted`): an accepted view is the committed one. The
  stack pass that fills the shard tree is followed by an invariant (`Passing`):
  the subtrees on the stack have the leaves below them on paths to their hash, and
  leave no key below them out. So a key of a leaf of the view is below a committed
  leaf whose path takes the same sides from the same root, and conversely
  (`Leads`); the leaves are the same set, both lists are in canonical order, and
  two strictly ordered lists of one set are equal (`OrderedEqual`). For the pins,
  the sort rearranges what it sorts (`SortRearranges`).
  `SchemesExact` (`SchemesTile`): which schemes `canonical_order` accepts, and that
  routing and the tree work on all of them. After the stable sort an overlap of any
  two shards shows between neighbours, since what lies between an identifier and
  one that it is a prefix of starts with it as well (`Squeezed`, `OverlapsIs`). The
  recursion of `covers` is followed over slices that agree on their first bits
  (`Held`, `CoversIs`): the next bit divides a slice at one place, and a slice holds
  its keys iff both parts do. In an accepted order the shards before the one of a
  key compare less and those after it greater, which is what the halving search
  needs (`SearchFinds`, `RouteFinds`); `route_index` answers with the first shard
  when the search fails, and the theorem says that it never does. The stack of the
  pass stays in order, without common keys and without siblings left to merge
  (`Neat`, `Calm`); in the end every key is below an entry, and the deepest entry
  would have its sibling next to it, so there is one entry, the root
  (`OnlyTheRoot`, `BuildSucceeds`).
  `GroupsAdmitted` (`GroupsExact`): which bundles `group` admits, what the groups are
  and which round `from_routed` names. The loop is followed item by item
  (`Running`, `Stopped`): while nothing has to be refused, the slot of a shard holds
  in order the first items of the states that belong there, and no other. `group`
  has two limits, a batch for each shard and before it a cap of a batch for each
  endpoint on the distinct states of all shards together. The cap is tested first,
  so it could refuse what the shards would take; it never does, because an endpoint
  serves one shard and states that fit their shards are divided among the endpoints
  (`Divided`, `AllFit`).

A proof fails when the code it is about is broken: with the wrapping sum of
`node_hashMutant` `SplitProofs` stops at `ClimbStep`, and with the mutant of
`body_verified` `SealProofs` stops at the memo of bodies, with `decodeMutant`
`PartitionProofs` stops at `DecodeIs`, with `LeafMatchesMutant` at `PinnedHash`,
with `CoversAloneMutant` at `HeldAlone` and with `ConflictingMutant` at
`AdmitRepeated`.

Only model-checked:

* liveness (`Termination`, `EveryCallReturns`, `SplitCompletes`): fairness is
  beyond the prover;
* `TokenVerdictExact`, `SingleHistory` and `ConsolidationKeepsToken` of
  `SealSession`: tokens nest, and their verification is a `RECURSIVE` operator,
  for which the prover has no induction and no SMT backend;
* `CertificatesVerify` of `Partition`: the reference tree `Subtree` computes by
  recursion over data. (That an honest view is accepted is part of
  `CertificatesVerify`; that an accepted view is honest is proved.)

Recursion that a proof is about is written as recursive functions (the sum tree,
paths, the cover test, the binary search, the stack pass, the loops of admission),
whose equations are proved where they are used; the stable sort is written with
ranks.

The type invariants of `FifoIndex` and `SealQuorum` are proved and not part of a
run.

## 5. Not modelled

* The byte level of codecs and cryptography: pure functions over bytes, covered
  by vectors and round trips in the repository. Which values decode is modelled;
  hashes are injective, and a signature verifies iff it is canonical and
  recovers the key for the message.
* Submitting through a queue that reports duplicates (`is_queue_duplicate`) is
  one of the replies of the aggregator in `SubmitAndWait`; JSON and HTTP
  classification is reduced to its classes.
* The status and non-inclusion reads (no state between calls), whose answers are
  verified in `SealVerify` and `RadixPath`.
* Justification verifiers of applications: `verify_wrapped` stands for one that
  verifies the tokens embedded in its justification.
* Counters that only report work (comparisons, memo hits, decode statistics).
* In `Split`: custom payment decoders, issuance policies and other payload
  verifiers of an application (one may refuse an output), the limits of the CBOR
  decoder (a justification above 16 MiB, or of too many items, does not decode),
  and the expiry of a burn. That the proofs and payloads of a source check out is
  a flag, the same for the owner and for everybody else: they are taken to use one
  trust base, registry and set of limits. A verifier with smaller limits refuses
  more.
* Some checks of byte lengths: of a whole encoded input record and of the hash of
  its executed transactions (`LeafRules`), and the upper limit on the length of a
  node id (`validate`).
* Examples, the zkVM hosts and guests, the end-to-end program.

## 6. Plan

Written in this order, the most important behaviour first.

1. Done: waits, submission, memos, quorum, session, consolidation attempt,
   splitting and the sum tree.
2. Done: identifiers, schemes, routing, admission, views, shard tree and state
   paths (`Partition`).
3. Done: predicates, transactions, tokens, their verification with embedded
   sources, and the consolidation of a token (`SealSession`).
4. Done: proofs of the two reads and their common specification, submission,
   the FIFO memo, the quorum, the session's memos, the consolidation attempt, the
   conservation of value by splits and when a built split loses nothing.
5. Done: proofs of `Partition`: one answer per key, the codec of identifiers, that
   an authenticated view is the committed one, which schemes are accepted and which
   bundles are admitted.
6. Left: `CertificatesVerify` for every value of the constants; the tokens of
   `SealSession` are beyond the prover.
