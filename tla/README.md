# TLA+ verification of vouch

This directory holds TLA+ models of the parts of vouch that are under `src/`. It also has TLC configurations that model-check them on small instances, and TLAPS proofs of the attester's main safety properties for every value of the constants.

## 1. The system and what is under `src/`

vouch is a multi-node Ethereum validator client (spec.md §1-2). A controller feeds duties from a scheduler to duty handlers (attester, proposer, sync-committee messenger). Each handler fetches data from a pool of beacon nodes through a strategy runner (first, best or majority). It then signs through a remote signer that has slashing protection, and submits the result. A block-relay service registers the validators with MEV relays. The proposal scorer and selector choose the best block among the candidates.

Only four files of the repository are under `src/`:

| file | component | status |
|---|---|---|
| `services/attester/standard/service.go` | attester duty handler | modelled: `Attester`, `AttesterProofs` |
| `services/blockrelay/standard/submitvalidatorregistrations.go` | validator registration submission | modelled: `Registrations` |
| `util/time_delay_hack.go` | `TIME_DELAY_HACK` lag knob | modelled: `TimeDelayHack` |
| `strategies/blindedbeaconblockproposal/best/score_internal_test.go` | scorer test | not modelled yet (plan, §6) |
| `unnamed/part_000` | controller parameter test | not modelled (configuration checking) |

Chain time, the block-root and prior-vote caches, the strategy runner, the selector, the scheduler and the other handlers exist only in spec.md. They are listed in `PROJECT.json` as not modelled.

### Inventory of state and operations

**Attester.** It has one piece of shared state: `s.attested`, a map from epoch to a set of validator indices, guarded by `s.attestedMu`. Calls of `Attest` run concurrently, one goroutine per duty from the scheduler. Each call does the following, in order:

1. It ensures the inner map of its epoch exists. This is one critical section.
2. For each validator of the duty it runs a separate critical section. If the validator is already marked, the call skips it; otherwise it marks it and keeps it.
3. It fetches the attestation data and checks the slot, that source ≤ target, and that target ≤ the duty's epoch.
4. It fetches the accounts of the kept validators.
5. It signs. A zero signature means the signer refused that account.
6. If anything is left, it submits.
7. On success it deletes the inner map of epoch-2.

Each of steps 3-6 can fail and return early.

**Registrations.** One call loops over the accounts in random order. It skips an account that has no fee recipient or whose signature the signer refuses. It then starts one goroutine per relay, waits for all of them, and returns nil.

**TimeDelayHack.** It keeps the package variables `lastRead` and `lag`. When a minute has passed since `lastRead`, it stamps `lastRead` and reads the file named by `$TIME_DELAY_HACK`. A read or parse error returns 0; a number becomes `lag` in milliseconds. Nothing under `src/` calls it.

## 2. Modules

### `Attester.tla`: `service.go` lines 86-303

- **Constants:**
  - `Calls`: the concurrent Attest invocations (model values).
  - `Validators`.
  - `SlotsPerEpoch`, `MaxSlot`.
  - `Duties`: the duties a call may be given, each a slot and a sequence of validator indices.
  - `NoData`.
- **State:**
  - `mapped`: the epochs that have an inner map.
  - `attested[e]`: that map's content.
  - `crashed`: the process panicked on a nil-map write.
  - Per call: `pc`, the loop index `pos`, `filtered` (`validatorIndices`), `data`, and `accounts` (the keys of `validatingAccounts`).
- **History variables:** `signs`, every signature produced (call, validator, slot, epoch, data), and `evicted`, the epochs housekeeping deleted.
- **Actions and the code they stand for:**
  - `EnsureEpochMap`: lines 116-122.
  - `FilterValidator`: one loop iteration, lines 127-137. It is one critical section. Its three cases are skip, mark, and panic when the inner map is gone.
  - `FetchAttestationData`: lines 140-163. Its checks are in `ValidAttestationData`.
  - `FetchValidatingAccounts`: lines 165-193. The provider returns accounts for any subset of the kept validators, or an error.
  - `SignBeaconAttestations`: lines 195-206 and 237-293. The signer returns an error or signs a subset. An empty result succeeds and housekeeps at once.
  - `SubmitAttestations`: lines 295-302 together with 204-222. `Housekeep` (lines 215-220) is part of the successful end of a call, not an action of its own.
- **`Step(c)`**: all steps of call `c`, the goroutine running `Attest`; `Next` is a step of some call, or the stutter once every call has returned.
- **Abstracted away:** the committee bookkeeping of lines 173-193 and 238-243, metrics, tracing and logging. The data is a triple of slot, source and target.

### `AttestedSet.tla`: what the attested map promises

An abstract specification with no calls, goroutines or data:
- **State:** `marks[e]`, the validators marked in epoch `e`; `votes`, the (call, validator, epoch) triples voted; `forgotten`, the epochs dropped.
- **Actions:** `Mark(e, v)` marks a validator not yet marked (the filter loop, lines 128-136); `CastVotes(c, e, S)` votes for marked validators no other call voted for in `e`, unless `e` was forgotten (signing, lines 245-282); `Forget(e)` drops an epoch's marks (housekeeping, lines 215-220).
- **`OneVoter`**: in an epoch never forgotten, all votes for a validator come from one call. It is proved here (`OneVoterHolds`).

`Attester` ends with the refinement mapping `AS == INSTANCE AttestedSet WITH marks <- attested, votes <- Votes, forgotten <- evicted`, where `Votes` projects each signature onto call, validator and epoch. `AttestedSetRefined == AS!Spec` is checked by TLC as a `PROPERTY` and proved by TLAPS. The filter step that skips maps to a stutter, the mark step to `Mark`, the signing step to `CastVotes`, and housekeeping to `Forget`.

### `Registrations.tla`: `submitvalidatorregistrations.go` lines 33-108

- **State:**
  - the arguments `accounts` and `feeRecipients`, chosen in `Init` over all maps;
  - `todo`, the accounts the loop has not visited;
  - the shared loop variable `feeRecipient`;
  - `regs` (`signedRegistrations`);
  - `relay[r]` and `received[r]` per relay;
  - `waiting`: the goroutines are started and `wg.Wait` is reached;
  - `returned`;
  - the history variable `refused`.
- **Actions:**
  - `BuildRegistration`: one iteration, lines 42-85.
  - `StartSubmissions`: `wg.Add` and the goroutines, lines 94-97.
  - `SubmitToRelay`: one goroutine, lines 98-104.
  - `Return`: `wg.Wait`, then return nil, lines 105-108.

### `BatchBroadcast.tla`: what the registration call promises

An abstract specification: a batch of registrations, each naming its validator's configured fee recipient, grows until it is sealed (`Add`, `Seal`); then each relay answers once, taking exactly the sealed batch or failing (`Answer`), and the call returns after the last answer (`Finish`). `SealedDelivery` (a relay that accepted took the batch as sealed, with only configured fee recipients) is proved here (`SealedDeliveryHolds`).

`Registrations` ends with `BB == INSTANCE BatchBroadcast WITH feeMap <- feeRecipients, batch <- regs, sealed <- waiting, outcome <- Outcome, got <- received, done <- returned`, where `Outcome[r]` is `relay[r]` once the goroutine returned and `"none"` before. `BatchBroadcastRefined == BB!Spec` is a `PROPERTY` of the registrations run. A loop iteration that registers maps to `Add`, one that skips (no fee recipient, signer refusal) to a stutter, `StartSubmissions` to `Seal`, `SubmitToRelay` to `Answer` and `Return` to `Finish`.

### `TimeDelayHack.tla`: `time_delay_hack.go`

- **State:**
  - the clock `now`, in seconds;
  - the package variables `lastRead` (with `ZeroTime` for `time.Time{}`) and `lag`;
  - whether the environment variable is set;
  - the file's content, a sequence of characters, or `Missing`;
  - the last `result`;
  - the history variables `readFile`, `lastFileRead` and `windowResults`.
- `strconv.Atoi` is modelled by what it accepts (an optional sign and at least one digit) and what it computes (the recursive function `magnitude` over the digits, `10 * magnitude[i-1] + digit`). It is not the identity. It is written as a recursive function, not with `FoldLeft` of the community modules, because those rest on a `RECURSIVE` operator that would keep the proofs out of the module.
- **Actions:**
  - `TimeDelayHack`: one call, the whole function.
  - `Tick`: the clock advances.
  - `WriteFile`: the operator rewrites or removes the file.

### MC modules

`MC_Attester`, `MC_Registrations` and `MC_TimeDelayHack` give the constants and the symmetry sets.

## 3. Runs

| run | cfg | expect | what it shows |
|---|---|---|---|
| attester_interlock | `MC_Attester.cfg` | pass | `TypeOK`, `InterlockHolds`, `MarkedBeforeSigned`, `SignedDataValid`, and the refinement `AttestedSetRefined`, over about 2.2 M states |
| attester_nil_map_write | `MC_Attester_NoNilMapWrite.cfg` | violation | the panic below |
| attester_invalid_data_marks | `MC_Attester_InvalidDataNotMarked.cfg` | violation | marks are kept after invalid data |
| attester_double_sign_after_housekeeping | `MC_Attester_NoDoubleSign.cfg` | violation | a double sign after housekeeping |
| registrations | `MC_Registrations.cfg` | pass | `TypeOK`, `CompleteBatch`, and the refinement `BatchBroadcastRefined` |
| attester_stale_epoch_map | `MC_Attester_Evicted.cfg` | violation | epoch 0's map outlives the failed epoch-2 call |
| time_delay_refresh | `MC_TimeDelayHack.cfg` | pass | `TypeOK`, `RereadAtMostOncePerMinute` (action property) |
| time_delay_cache_consistency | `MC_TimeDelayHack_Consistent.cfg` | violation | 0, then the stale lag, within one minute |

**The properties.**

- `InterlockHolds`: two signatures for the same validator, in an epoch the map still holds, come from the same call. This is spec §8 property 5, restricted to what the code guarantees.
- `MarkedBeforeSigned`: every such signature's validator is in the attested set.
- `SignedDataValid`: only data that passed all three checks is signed.
- `AttestedSetRefined`: every behaviour of concurrent `Attest` calls, under the mapping above, is a behaviour of `AttestedSet`.
- `CompleteBatch`: when the call returns, each relay that accepted got a registration for exactly the eligible, unrefused accounts.
- `BatchBroadcastRefined`: the call is a best-effort broadcast of a sealed batch: nothing joins the batch once a relay may see it, and each relay answers once.
- `RereadAtMostOncePerMinute`: two file reads are at least 60 s apart, failed reads included.

Each property has a mutant in `PROJECT.json` that the run catches. The mutants are: the check of the mark dropped (caught by both `InterlockHolds` and `AttestedSetRefined`); the mark not recorded; the source check dropped; the data-fetch error unchecked; `return` in place of `continue`; the missing-recipient skip dropped; `lastRead` stamped only on success; the millisecond unit dropped; and the goroutines started before the loop has visited every account (caught by `BatchBroadcastRefined`).

**Bounds.**

- **Attester:**
  - three calls and two validators;
  - one slot per epoch over slots 0-2, so three epochs. Epoch 2 is the first that housekeeps, and it deletes epoch 0 while epoch-0 calls may still be in flight;
  - duties for epoch 0 with one and with two validators, and one for epoch 2.

  This gives two calls that contend on the same validator and epoch, a third call that housekeeps their epoch, and every interleaving of the three. Symmetry over `Calls` is sound because no property names a call.
- **Registrations:** three validators, two addresses and two relays, with every account set and every partial fee-recipient map.
- **TimeDelayHack:**
  - contents: two well-formed numbers, a negative one, one with a trailing newline, and an empty file; the file may also be missing;
  - clock steps of 1, 59 and 60 s up to 130 s, which reach the boundary at exactly 60 s and a third refresh.

**Fairness.** None is assumed, and no liveness property is stated. For the attester, every step of a call stays enabled until the call returns and each step advances it, and `attestedMu` is not a variable of the model (each critical section is one atomic step), so termination under weak fairness would follow from the shape of the model, not from the code. For `Registrations`, `wg.Wait` returns only when every relay has answered, and whether a relay answers depends on the caller's context deadline, which is not under `src/`.

**Properties left out.** Two properties of earlier sittings were dropped as saying nothing about the code:
- a per-validator fee-recipient check. `BuildRegistration` builds each registration from `feeRecipients[index]` right after the lookup at line 52, so the check restated that assignment;
- a termination property under fairness, for the reason above.

## 4. Findings

1. **Nil-map panic (code bug).** `service.go:134` writes `s.attested[epoch][index]` after the lock taken at line 118 was released. Here is the order:
   1. Call A, for epoch 0, ensures its map.
   2. Call B, for epoch 2, succeeds and deletes epoch 0 (line 218).
   3. A's filter loop writes into the nil map, and Go panics.

   It needs three actors in this order, which a unit test would hardly set up.
2. **Marks survive failures (divergence from spec §7).** Validators are marked at line 134, before the data checks at lines 152-163, and never unmarked. Spec §7 says a validator is not added to the attested set on an invariant violation, nor on a signer refusal other than "already signed".
3. **Interlock lost after housekeeping (spec gap).** Spec §8 property 5 says at most one attestation is signed per validator and epoch. A duty for an epoch already housekept recreates the map and signs again, leaving only the signer's slashing protection to stop the second vote.
4. **Inconsistent cache (divergence from spec §9).** A failed refresh of `TimeDelayHack` returns 0, while the rest of that minute returns the old lag.
5. **Epoch maps that are never evicted (divergence from spec §3).** Spec §3 says an attested-set entry is evicted two epochs after the epoch it tracks. The code deletes epoch e-2 only at the end of a successful epoch-e call (lines 215-220), after every early error return. Here is the order:
   1. An epoch-0 call ensures its map.
   2. The epoch-2 call fails its data fetch and returns early, skipping housekeeping.

   Every epoch-2 call has now returned, and epoch 0 still has a map. Later calls delete only their own epoch minus two, so nothing ever deletes it. A late duty that recreates a map after its housekeeping leaves it the same way.

## 5. Proofs

All obligations are checked by `tlapm`.

### `AttesterProofs.tla`

- **`TypeCorrect`** (`Spec => []TypeOK`) rests on the invariant `TypeInv == TypeOK /\ DataObtained`. `DataObtained` says a call past the data fetch holds attestation data. Without it the signatures' type cannot be shown.
- **`Interlock`** (`Spec => []InterlockHolds`) and **`MarkedBeforeSigning`** (`Spec => []MarkedBeforeSigned`) rest on the inductive invariant `IInv`, which adds five conjuncts:
  - `UnmappedEmpty`: an epoch without an inner map holds no marks. Housekeeping resets the content and the ensure step re-creates an empty map.
  - `AccountsKept`: a call's accounts are among the validators it kept.
  - `KeptRecorded`: a validator a running call kept is marked in its epoch, unless that epoch was evicted.
  - `KeptDisjoint`: two calls of the same held epoch never kept the same validator. This is the heart of the interlock: the check and the mark are in one critical section.
  - `SignedKept`: every signature in a held epoch is for a validator its call kept.

  `IInv` was first checked with TLC as an invariant of the attester run, then proved with `IInvInit`, `IInvStep` (one step per action, one sub-step per conjunct the action can disturb, with `HousekeepPreserves` as a lemma) and `IInvImpliesInterlock`.
- **`Refinement`** (`Spec => AttestedSetRefined`): the initial state maps to `AS!Init`, and `RefinementStep` shows that under `IInv` every step maps to an abstract step or a stutter. `HousekeepForgets` shows a successful end of a call is a `Forget` (or a stutter when the epoch is below 2), and `SignIsCastVotes` shows a signing step is `CastVotes`: the guard of `CastVotes` is exactly `KeptRecorded` and `KeptDisjoint` with `SignedKept`, which is why `IInv` is needed and `TypeOK` alone is not.
- **Assumptions used:** `SlotsPerEpochAssumption`, `MaxSlotAssumption`, `DutiesAssumption` and `NoDataAssumption`, which are the weakest ones that make the slot arithmetic well defined.

### `AttestedSet.tla`

- **`OneVoterHolds`** (`Spec => []OneVoter`): `OneVoter` is inductive by itself, since `CastVotes` checks it for the new votes and `Forget` only widens the exempt epochs.

### `RegistrationsProofs.tla`

**`RegistrationsTypeCorrect`** and **`BatchComplete`** prove `TypeOK` and `CompleteBatch` for every set of validators, addresses and relays, from the inductive invariant `RInv`:
- `Phases`: the goroutines start only after the loop, and the call returns only after they start; before that every relay is idle.
- `ReceivedBatch`: a relay holds exactly `regs` if it accepted, and nothing otherwise.
- `LoopProgress`: the validators registered are exactly the visited accounts with a fee recipient, less the refused ones, and only those can be refused.

`CompleteBatch` alone is not inductive: it speaks only of the state after return, and it needs `LoopProgress` to know what the loop built. `RInv` was checked with TLC (two relays, and no relay) before it was proved. `BuildPreserves` covers the three branches of a loop iteration.

Further results in this module:
- **`BatchBroadcastRefinement`** (`Spec => BatchBroadcastRefined`): `Init` maps to `BB!Init`, and `BBStep` shows that under `RInv` every step is an abstract step or a stutter (`BBBuild` covers the loop). `Phases` is what the mapping needs: `BuildRegistration` has no guard on `waiting`, and only `Phases` (the goroutines start after the loop) shows that an added registration meets `Add`'s `~sealed`; it also shows a relay's outcome is `"none"` before `Seal`.
- **`SealedDeliveryRefined`** (`Spec => []BB!SealedDelivery`) follows from the refinement and the abstract theorem.

### More of `AttesterProofs.tla`

- **`SignedDataChecked`** (`Spec => []SignedDataValid`) rests on `DInv == TypeInv /\ DataChecked /\ SignedDataValid`. `DataChecked` says a call past the data checks holds data that passed them. It is needed because a signature copies `data[c]` at the signing step, long after the check; only `FetchAttestationData`, before the checks, writes `data[c]`, and `NewSignaturesValid` shows the copied fields inherit the checks.
- **`OneVoterRefined`** (`Spec => []AS!OneVoter`) carries `OneVoterHolds` through `Refinement`.

### `TimeDelayHackProofs.tla`

- **`TimeDelayHackTypeCorrect`** and **`RereadAtMostOncePerMinuteHolds`** (the action property `Spec => [][readFile' => ...]_vars`) rest on `RInv == TypeOK /\ ReadOrder`. `ReadOrder`: `lastRead <= now`, the last read is not later than `lastRead`, and no read happened while `lastRead` is zero. This captures the order of lines 19-22 (stamp, then open the file); the action property is not inductive without it, since it speaks of `lastFileRead` while the guard speaks of `lastRead`. `RereadStep` shows every step satisfies the action under `RInv`; `RefreshedType` shows every value a refresh returns or stores is a lag of the type, without computing `AtoiValue`.
- **Assumptions used:** `MaxTimeAssumption` and `TickStepsAssumption` (the clock moves forward by positive steps).

**Left to TLC.**
- What `AtoiValue` computes for every input (its agreement with the decimal value of a digit string) would need induction over the sequence, and the library's induction theorems take an operator parameter the installed provers cannot instantiate; the proofs use only that a parsed value lies in `Lags`.
- The violations (findings 1-4) are counterexamples, not theorems.

## 6. Plan for later sittings

1. **Scorer.** Model the proposal scorer from spec §4.1 (spec-modelled) as a pure operator, and check it against the scenarios of `score_internal_test.go`. Also check spec §8 properties 1-3 (deterministic, monotone, no double credit) over bounded bit sets.
2. **Attester restart.** A restart action that empties the map, to show the double sign of finding 3 also follows a restart.
3. **Strategy runner and best-proposal selector.** Spec-modelled, covering the fan-out, the deadline and cancellation (spec §8 properties 4 and 6).
4. **Registrations liveness.** Return under fairness of the relays, once the caller's deadline is modelled. A meaningful attester liveness property would first need `attestedMu` as a variable of the model.
