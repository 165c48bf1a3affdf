# TLA+ verification of the triple precomputation core

This directory holds a TLA+ model of the MPC signing node's triple pool
(`src/node/src/protocol/triple.rs`), with the cluster around it: the
message transport and the presignature manager that consumes triples. It
also holds TLC configurations for model checking small instances, TLAPS
proofs for every instance, and `PROJECT.json`. That file lists:

- the components and which module covers each;
- the runs, with the property each one checks;
- the mutants;
- the map from definitions to source lines;
- the findings, the hazards and the theorems.

Run everything from this directory:
`tlc -workers 2 -config <cfg> MC_TripleManager` and `tlapm <Proofs>.tla`.

## 1. The system and its parts

A cluster of nodes precomputes Beaver triples. Each triple is built by an
interactive, multi-round cait-sith protocol that runs among all nodes. A
presignature consumes two triples, and a signature consumes one
presignature.

| Part | Where | State | Operations |
|---|---|---|---|
| TripleManager | `triple.rs` | `triples: HashMap<TripleId, Triple>` (completed, unspent); `generators: HashMap<TripleId, TripleGenerator{protocol, mine}>`; `mine: VecDeque<TripleId>`; a fixed `participants`, `me`, `threshold`, `epoch` | `new`, `generate`, `take`, `take_mine_twice`, `get_or_generate`, `poke`; read-only `len`, `my_len`, `potential_len` |
| Protocol driver | the cait-sith crate (not in this repository) | one protocol state per generator | `poke() -> Wait / SendMany / SendPrivate / Return`, or `Err` |
| PresignatureManager | not in this repository (spec 4.4) | presignature pool | takes a pair with `take_mine_twice` (owner) or `take(t0)`, `take(t1)` (peer) |
| MessageRouter | not in this repository (spec 4.6) | none | hands each inbound `TripleMessage` to `get_or_generate` and the protocol |
| PoolStore | not in this repository (spec 4.1) | Redis main index and "mine" index | `insert`, `insert_mine`, `take*`, counters |
| SupplyController | not in this repository (spec 4.5) | none | calls `generate()` while the pool is short |
| Persistence tests | `mod.rs` 210-368 | one storage-backed manager per test | call `insert`, `take_two`, `len_generated`... on a manager that is not the `triple.rs` of this repository |

### How they interact

1. A node calls `generate()`, which picks a random `u64` id and starts a
   generator with `mine = true`.
2. `poke()` runs each generator's protocol until it waits. It broadcasts
   `SendMany` to every participant, the node itself included. Its peers'
   routers call `get_or_generate(id)`, which starts a `mine = false`
   generator for an unknown id, or returns `None` when the triple is
   already completed.
3. When a protocol returns, `poke()` stores the triple in `triples`,
   appends the id to `mine` if this node started it, and drops the
   generator.
4. The owner's presignature manager takes two ids from the head of `mine`
   (`take_mine_twice`) and announces the pair. Every other node takes the
   same two triples with `take`.

### What is hard here

These cases are hard to reach with tests. `PROJECT.json` lists them as
hazards, each at the line where it bites.

- **At-least-once, unordered delivery.** Duplicated and late messages,
  including a node's own broadcast, can arrive after the triple was
  completed and even after it was spent.
- **Interleaving of initiator and peers.** The owner may complete and
  spend a pair while a peer is still in the last round.
- **Partial failure inside one `poke()`.** One generator's `Err` changes
  what happens to all the others.
- **Stale ownership queue.** `take()` and `take_mine_twice()` interact
  through `mine`.
- **Random ids.** Nothing rejects a collision.
- **Liveness.** Every generator must finish, and every announced pair must
  be joined.

### Properties that make it correct

- *At most once* (spec 3, invariant 1): no id is both completed and
  generating on a node.
- *Sound mine queue*: the queue holds distinct ids of this node's own
  unspent completed triples.
- *Peers ready*: when a pair is announced, every peer that has not joined
  yet holds both triples, completed or still generating, unless the
  protocol of one of them failed.
- *No triple used twice*: no two announced presignatures name a common
  triple (a reused Beaver triple leaks the key).
- *No work lost on exit*: `poke()` drops a generator only when its
  protocol failed, or once its triple is stored (and queued on `mine` if
  the generator was mine).
- *No resurrection*: a spent id never comes back.
- *Termination*: every generator for an unused id finishes, and every
  announced pair is served on every peer.

## 2. Modules

| Module | Models | Kind |
|---|---|---|
| `TripleManager.tla` | a cluster of nodes, each running `triple.rs`, over an unreliable network | specification |
| `MC_TripleManager.tla` | model values for 2 or 3 nodes and 1 or 2 ids, the forged request, the crash-stop fault model | TLC instance |
| `TripleManagerProofs.tla` | `TypeCorrect`, `FreshIdsAtMostOnce` | TLAPS proofs |
| `TripleMineProofs.tla` | `FreshIdsMineSound` | TLAPS proofs |
| `TripleOnceProofs.tla` | `FreshIdsRequestsDisjoint` (and its invariant `OnceInv`) | TLAPS proofs |
| `TriplePeerProofs.tla` | `GeneratorExitsStored`, `FreshIdsPeerReady` (and its invariant `PInv`) | TLAPS proofs |

### TripleManager.tla

**Constants.**

- `Node`, `Id`: participants and triple ids.
- `R`: the number of protocol rounds.
- `MaxFail`: a bound on protocol failures.
- `FreshIds`: whether `generate()` may repeat an id.
- `Forged`: presignature requests a faulty peer may announce.
- `Absent`: the value of an empty slot in the generators map.

**Variables.**

| Variable | Code |
|---|---|
| `triples[p]` | the keys of `self.triples` |
| `generators[p][i]` | `self.generators`, `Absent` where there is no entry; a generator records `mine`, its protocol `round`, whether it `sent` that round, and the `(peer, round)` messages it `recv`d |
| `mine[p]` | `self.mine` |
| `msgs` | every message ever sent; never pruned, so delivery is at-least-once, duplicated and in any order |
| `reqs` | announced presignature pairs |
| `issued`, `spent`, `served`, `failed` | ghost history for the properties |

**Actions.** There is one action per operation, each covering the whole
handler.

- **`Generate(p, i)`** is `generate()` (81-97). Any `i` is allowed unless
  `FreshIds`; the `HashMap::insert` overwrites.
- **`HandleMessage(p, m)`** is the router delivering `m` into
  `get_or_generate` (133-157) and then into the protocol.
- **`Poke(p)`** is the whole retain loop of `poke()` (163-229):
  1. Any subset of the running generators fails (`Err`, 168-173).
  2. Each other generator advances as far as its received messages allow
     (`Reach`). It emits its round broadcasts to all participants,
     itself included (`Emitted`/`Outbox`, 181-193), and then waits
     (`Advance`, 176-180) or returns.
  3. A generator that returns is stored, pushed to `mine` if it is mine,
     and dropped (`Stored`/`MineDone`, 203-223).
  4. Finally `result.map(|_| messages)` (228) sends nothing if any
     generator failed (`Sent`).

  The order in which the `HashMap` visits the finished generators is
  unspecified, so any order of the `mine` pushes is allowed
  (`SetToSeqs`).
- **`TakeMineTwice(p)`** is `take_mine_twice()` (109-126). It pops two
  ids, then takes both or warns; the ids stay popped either way.
- **`JoinPresignature(q, r)`** is a peer's presignature manager taking
  `r.t0` and `r.t1` with `take` (102-104, the operator `Taken`) once
  both are completed (spec 4.4, spec-modelled).
- **`AnnounceForged(r)`** is a faulty peer's announcement.

The cait-sith protocol is abstracted to `R` rounds, as in spec 4.2. In
each round a node broadcasts and then needs every peer's message of that
round. What `generator.protocol.poke()` (168) answers is cait-sith code,
not code of this repository: `Ready` is that abstraction and is marked
spec-modelled in the map. `Halt` and `Reach` compute how far the loop of
`poke()` (167-180) gets with it.

## 3. Runs

Every run uses `MC_TripleManager` with 2 nodes and 2 ids, except
`triple_termination` (3 nodes, 1 id).

| Run (cfg) | Bounds | Properties | Expect | Shows |
|---|---|---|---|---|
| `triple_safety` (TripleSafety.cfg) | R=1, MaxFail=1 | TypeOK, AtMostOnce, MineSound, RequestsDisjoint | pass (17,335 states) | With failures, duplicates and reordering: no id is both completed and generating; the mine queue is sound; no two presignatures share a triple. |
| `triple_peers` (TriplePeers.cfg) | R=2, MaxFail=1 | PeerReady | pass (341,403) | With a real second round, out-of-order rounds and a failure included, peers hold the announced pair when the owner spends it, unless one of its protocols failed. |
| `triple_liveness` (TripleLiveness.cfg) | R=1, MaxFail=0, FairSpec | RequestsServed | pass (5,499) | Every announced pair is joined on every peer. |
| `triple_termination` (TripleTermination.cfg) | 3 nodes, 1 id, R=3, MaxFail=0, FairSpec | GeneratorsTerminate | pass (2,743) | Every generator for an unused id finishes, whether a poke completes one round or several, and in whatever order the messages of different rounds arrive. |
| `triple_forged` (TripleRogue.cfg) | R=1, MaxFail=1, one forged request | GeneratorExit | pass (50,870) | With a failure and a forged announcement (which drives `take_mine_twice` into its "my triples are gone" branch), `poke()` drops a generator only when it failed or its triple was stored. |
| `triple_resurrect` | R=1 | NoResurrection | violation | Finding 1 |
| `triple_collision` | R=1, FreshIds=FALSE | AtMostOnce | violation | Finding 3 |
| `triple_poke_error` | R=1, MaxFail=1, FairSpec | HealthyGeneratorsTerminate | violation | Finding 2 |
| `triple_stale_mine` | R=1, one forged request | MineSound | violation | Finding 4 |
| `triple_crash_stop` (TripleCrashStop.cfg) | R=1, MaxFail=0, `MCCrashSpec` | SurvivorGeneratorsTerminate | violation | Finding 5 |

**Why the bounds are enough.**

- Two nodes give an initiator and a peer; every property compares the two.
- Two ids give a pair for `take_mine_twice` and a presignature.
- R=2 is the smallest protocol with a round that can arrive before the
  previous one, and in which one `poke()` can pass several rounds.
- One failure is enough for a failing and a healthy generator to share a
  `poke()`, and for a peer's protocol to fail after its last broadcast.
- `GeneratorsTerminate` is stated for ids the node has not used: a
  generator that `get_or_generate` re-creates for a spent id is finding 1,
  and it would complete in the model only from stale messages the model
  never removes (section 6). Its run takes three rounds and three nodes
  so that rounds complete out of order and several in one `poke()`; with
  one id nothing is spent, so the run does not lean on re-created
  generators either. Two ids at R=2 under fairness take 27 minutes.
- Larger instances (3 ids, or R=2 with two failures) exceed TLC's time
  budget. The proofs cover every number of nodes, ids and rounds for
  `AtMostOnce`, `MineSound`, `RequestsDisjoint` and `PeerReady` (with any
  failures), and `GeneratorExit`.

No run disables deadlock checking.

**Fairness.** `FairSpec` assumes weak fairness of three things:

- `Poke(p)`: the node's protocol loop pokes its manager again while
  there is work.
- `HandleMessage(p, m)` for every message: the transport delivers at
  least once (spec 6).
- `JoinPresignature`: the presignature manager keeps retrying a buffered
  request (spec 4.4).

There is no fairness on `Generate` or `TakeMineTwice`: nothing obliges a
node to start or spend triples.

`FairOn(S)` asks this fairness of the nodes in `S` only, and
`Fairness == FairOn(Node)`. The fault model of `triple_crash_stop`,
`MCCrashSpec == Spec /\ FairOn({n1})`, is a crash-stop failure of `n2`.
`n2` may stop at any point, for good, and its peers are not told. The
node's manager state is in memory only (spec 3), so a stopped node
matters only through the messages it no longer sends.

**Mutants.** Each property of a passing run is broken by a plausible bug
defined next to the code it changes. See `PROJECT.json`, "mutants".

| Mutant | The bug | Breaks |
|---|---|---|
| `EmittedPastEnd` | a broadcast for a round past the last | TypeOK |
| `HandleMessageUnchecked` | no completed-triple check in `get_or_generate` | AtMostOnce |
| `MineDoneAll` | foreign triples pushed to `mine` | MineSound, RequestsDisjoint, RequestsServed |
| `StoredMineOnly` | peers do not store foreign triples | PeerReady, GeneratorExit |
| `OutboxSelfOnly` | broadcasts sent only to self | GeneratorsTerminate |

## 4. Findings

Each of these is a violation run whose counterexample TLC finds in the
code as written.

1. **Spent ids come back** (`triple.rs:137`, the TODO at 132). Once a
   triple is taken, a duplicated or late message for its id (possibly the
   node's own broadcast) makes `get_or_generate` start a new generator for
   the spent id. The spec says such messages are discarded.
2. **One failure silences every generator** (`triple.rs:228`). If any
   protocol fails, `poke()` returns `Err` and drops the messages of the
   generators it has just advanced. Those generators never resend, and
   their peers wait forever. With `Sent` fixed to keep the messages, the
   same run passes (17,095 states).
3. **No collision check** (`triple.rs:82`). A repeated random id starts a
   generator for a completed triple. The spec says a colliding id is
   rejected and redrawn. At 2^-64 per draw this is unlikely, which is why
   `FreshIds` is TRUE in the passing runs.
4. **`take` leaves the id in `mine`** (`triple.rs:103`). A later
   `take_mine_twice` pops the stale id with a good one and loses the good
   triple. The spec says `take` removes the id from `mine_ready` too.

5. **No generator timeout** (`triple.rs:179`, and `TripleGenerator` at
   23-28). `poke()` keeps every generator whose protocol answers
   `Action::Wait`. There is no `started_at` and nothing sweeps the
   generators. When a peer crashes after a generator has started, that
   generator stays forever and keeps counting in `potential_len`. The
   spec (5, "Timeouts", and 9(b)) says each generator carries
   `started_at` and is dropped as Failed after `generator_timeout`.

## 5. Proofs (TLAPS)

`TripleManagerProofs.tla` proves, for every set of nodes and ids and
every `R >= 1`:

- **`TypeCorrect`**: `Spec => []TypeOK`, from the lemma
  `TypeStep == TypeOK /\ [Next]_vars => TypeOK'`. That lemma rests on:
  - `ReachRange`: the round reached lies between the current round and R;
  - `AdvanceType`: a retained generator is still in a protocol round;
  - `EmittedType`: broadcast rounds are protocol rounds;
  - `OrderType`: a push order is a sequence of ids;
  - `RetainedType`: the generator table after `poke()` keeps exactly the
    unfinished live generators.
- **`FreshIdsAtMostOnce`**: under `FreshIds`, `Spec => []AtMostOnce`.

`AtMostOnce` is not inductive. A fresh id could in principle already be a
completed triple of the node. The inductive invariant
`IInv == TypeOK /\ AtMostOnce /\ KnownIds` adds that every id held,
generating or on the network was once issued by `generate()`. TLC checks
`IInv` as an invariant of the `triple_safety` instance before the
proof. The proof shows `Init => IInv` and that every action
preserves it:

- `Generate` draws an id outside `Issued`, hence outside `triples`.
- `HandleMessage` is guarded by `m.id \notin triples[p]`.
- `Poke` stores exactly the generators it drops.
- The takes only shrink `triples`.

- **`FreshIdsMineSound`** (`TripleMineProofs.tla`): under `FreshIds` and
  `Forged = {}`, `Spec => []MineSound`. The inductive invariant is
  `MInv == IInv /\ MineSound /\ DisjointIssued /\ MineIssued /\ OwnRequests`:
  - ids drawn by two nodes are distinct;
  - a generator with `mine = true` runs an id its node drew;
  - every announced pair names ids its owner drew.

  `MineSound` alone is not inductive. A peer's `take` must be known never
  to hit an id in the owner's queue, and that needs the last three facts.
  Lemmas about the queue carry `poke()`'s `push_back`s and
  `take_mine_twice`'s two `pop_front`s:
  - `ConcatNoDup`: appending new ids keeps the queue free of duplicates;
  - `TailNoDup`: popping two ids leaves neither of them behind;
  - `OrderNoDup`: a push order lists each finished id once.

  `AtMostOnce` (in `IInv`) gives that a freshly finished id is not already
  queued. Before the proof, TLC checked `MInv` as an invariant of the
  `triple_safety` and `triple_peers` instances. With a forged request,
  `MineSound` fails (finding 4), so `Forged = {}` is needed.

`TripleOnceProofs.tla` proves:

- **`FreshIdsRequestsDisjoint`**: under `FreshIds` and `Forged = {}`,
  `Spec => []RequestsDisjoint`. No assumption on failures: any set of
  generators may fail in any `poke()`. The inductive invariant is
  `OnceInv` (lemma `FreshIdsOnceInv`, `Spec => []OnceInv`; TLC checked it
  with MaxFail=2 and at R=2 with MaxFail=1 before the proof). It adds to
  `MInv`:
  - `SpentWhy` and `ServedReqs`: a node uses only ids it drew or ids of
    a presignature it joined;
  - `OwnSpent`: the owner of an announced pair has used both ids;
  - `MineFresh`: nothing queued on `mine`, or generating as mine, has
    been used.

  The argument is in `OnceTake`. `take_mine_twice` announces two ids
  popped off the owner's queue. The owner drew them (`MineSound`), so no
  other node's pair names them (`DisjointIssued`, `OwnRequests`). They are
  unused (`MineFresh`), while the owner has used every id of its earlier
  pairs (`OwnSpent`). `MineFresh` survives `generate()` because a fresh id
  was drawn by nobody, so no joined pair names it (`IssuedNotServed`).
  One lemma per handler carries the step (`OnceGenerate`, `OnceHandle`,
  `OncePoke`, `OnceTake`, `OnceJoin`). `FreshIds` is needed: with
  `FreshIds = FALSE` TLC finds two nodes that drew the same id and
  announce pairs sharing it.

`TriplePeerProofs.tla` proves:

- **`GeneratorExitsStored`**: `Spec => GeneratorExit`, with no assumption
  on ids, failures or forged requests, from `TypeOK` alone
  (`ExitStepHolds`). Only `poke()` changes which ids have generators. A
  dropped one either failed or is in `done`, whose ids
  `Stored` inserts into `self.triples`. The mine ones are pushed onto
  `mine`. That needs the operator lemma `SetToSeqsCovers`: a push order
  in `SetToSeqs(S)` lists every element of `S`. It is an injection from
  `1..Cardinality(S)` into the finite `S`, hence onto
  (`FS_Injection`).
- **`FreshIdsPeerReady`**: under `FreshIds` and `Forged = {}`, with any
  number of failing protocols, `Spec => []PeerReady`. `PeerReady` is far
  from inductive. The inductive invariant (lemma `FreshIdsPInv`) is
  `PInv == OnceInv /\ RecvSent /\ CompletedHeard /\ AnnouncedHeard /\
  SenderHolds`:
  - `RecvSent`: every pair a generator has ingested stands for a message
    sent to its node (`RecvSentStep`);
  - `CompletedHeard`: every peer has sent a message for each id in a
    node's `triples`;
  - `AnnouncedHeard`: every peer has sent for both ids of each announced
    pair;
  - `SenderHolds`: a node that sent for an id still runs it, holds it,
    has used it, or its protocol failed: `poke()` drops a generator only
    into `self.triples` or on an `Err`.

  `CompletedHeard` rests on `ReachReady`: a protocol that the poke loop
  runs to `Action::Return` holds every peer's message of round R-1. The
  loop stops at the first round that is not ready, and such a least round
  always exists; the proof takes it from the well-foundedness of `<` on
  `Nat` (`LeastNat`, from `WFMin` of `WellFoundedInduction`), so `Halt` is
  never empty and `Reach` never falls back to R. From `PInv`, a peer that
  has not joined `r` sent for both ids. It did not draw them, and the only
  pair naming them is `r` (`RequestsDisjoint`), so it has not used them:
  it still holds them or their protocol failed (`PInvPeerReady`).
  `OnceStep` carries `OnceInv`; one lemma per handler (`PeerGenerate`,
  `PeerHandle`, `PeerPoke`, `PeerTake`, `PeerJoin`) carries the three
  "heard" facts. The escape "or its protocol failed" is needed: TLC finds
  the stricter statement violated at R=2 with one failure, when a peer's
  generator fails after sending its last round, the owner completes and
  announces, and the peer no longer holds the id. The presignature then
  waits on that peer for ever; this model does not time presignatures out.
Assumptions: `IsFiniteSet(Id)`, `R \in Nat \ {0}`, `Absent \notin Gen`,
`Forged \subseteq Request`.

**Only model-checked.** TLAPS cannot check these, so TLC checks them on
the bounded instances above:

- the liveness properties `RequestsServed` and `GeneratorsTerminate`,
  and the violated ones of the findings (fairness and ENABLED are out of
  the prover's reach).

The theorems' hypotheses are not for convenience. `MineSound` and
`RequestsDisjoint` fail when a peer forges an announcement (finding 4,
run `triple_stale_mine`), and `AtMostOnce` fails when ids repeat
(finding 3), so no theorem claims them there.

## 6. Not modelled, and the plan

Not modelled:

- **Epoch change / reshare.** `triple.rs` fixes the epoch at `new` and
  never drops generators on a reshare.
- **The supply controller and `potential_len`.** `generate()` may fire at
  any time in the model, which over-approximates any policy.
- **Freshness of protocol state.** A generator re-created for a spent id
  (finding 1) ingests the old messages still on the network and may
  complete in the model. The real cait-sith instance starts from new
  randomness, so what it would produce from stale messages is not
  modelled. The finding is the re-creation itself.
- **`SendPrivate` and payload contents.** The triple protocol uses
  broadcasts only in this abstraction.
- **Storage durability, transient storage errors and `purge_epoch`.**
  The Redis-backed store is not in this repository.
- **The persistence tests and the docker end-to-end tests.** The two
  persistence tests call a storage-backed manager API (`insert`,
  `insert_mine`, `contains`, `take_two`, `len_generated`...) that the
  `triple.rs` of this repository does not have, and each builds its own
  store, so there is no interaction between them to check. A store
  written from the spec would only check the spec against itself.

Planned next, in order:

1. A PresignatureManager module composed with `TripleManager`:
   presignature generators and their own pool.
2. An epoch/reshare module from spec 3 and 5: drop generators and purge
   old-epoch items.
3. Proofs for the PresignatureManager module, on top of `OnceInv` and
   `PInv`.
4. A generator timeout and a presignature timeout, once the code has
   them (findings 5 and the failure case of `PeerReady`).
