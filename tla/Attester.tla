------------------------------ MODULE Attester ------------------------------
(***************************************************************************)
(* The standard attester service (src/services/attester/standard/          *)
(* service.go).  Each call of Attest is a goroutine started by the         *)
(* scheduler for one attester duty.  Calls run concurrently and share one  *)
(* piece of state: the "attested" map, epoch -> set of validator indices,  *)
(* guarded by attestedMu.  Every Lock ... Unlock region of the code is one *)
(* atomic action here; every outbound call (beacon node, accounts          *)
(* provider, signer, submitter) is the boundary between two actions.       *)
(*                                                                         *)
(* The Go map of maps is modelled by two variables: "mapped" is the set of *)
(* epochs that have an inner map, and attested[e] is the content of the   *)
(* inner map for e ({} when e is not mapped).  A write to attested[e][v]   *)
(* while e is not mapped is a write to a nil map: a panic that ends the    *)
(* process ("crashed").                                                    *)
(***************************************************************************)
EXTENDS Naturals, Sequences, FiniteSets

CONSTANTS
    Calls,          \* the concurrent invocations of Attest
    Validators,     \* validator indices
    SlotsPerEpoch,  \* SLOTS_PER_EPOCH read from the spec provider in New
    MaxSlot,        \* highest slot a duty or a returned AttestationData has
    Duties,         \* the duties the scheduler may pass to Attest
    NoData          \* a call that has not obtained attestation data yet

ASSUME SlotsPerEpochAssumption == SlotsPerEpoch \in Nat \ {0}
ASSUME MaxSlotAssumption == MaxSlot \in Nat

Slots == 0..MaxSlot

\* The duty's epoch; chainTimeService.SlotToEpoch and uint64(slot)/slotsPerEpoch.
SlotToEpoch(s) == s \div SlotsPerEpoch

Epochs == 0..SlotToEpoch(MaxSlot)

\* An attester duty: its slot and its validator indices, in order.
Duty == [slot : Slots, validators : Seq(Validators)]

ASSUME DutiesAssumption == Duties \subseteq Duty

\* phase0.AttestationData with the roots abstracted away: the properties
\* only tell slots and checkpoint epochs apart.
AttestationData == [slot : Slots, source : Epochs, target : Epochs]

ASSUME NoDataAssumption == NoData \notin AttestationData

\* A signature: who was signed for, for which duty, over which data.
Signature == [call : Calls, validator : Validators, slot : Slots,
              epoch : Epochs, data : AttestationData]

\* Where a call is: the next region of Attest it will run, or how it returned.
\*   "succeeded": returned attestations (possibly none), nil error;
\*   "failed":    a provider, the signer or the submitter returned an error;
\*   "invalid":   the attestation data failed the checks of lines 152-163.
Running == {"ensure", "filter", "fetchAccounts", "sign", "submit"}
Returned == {"succeeded", "failed", "invalid"}

VARIABLES
    mapped,    \* epochs that have an inner map in s.attested
    attested,  \* attested[e]: the validator indices in s.attested[e]
    crashed,   \* a goroutine panicked on a nil-map write
    duty,      \* duty[c]: the duty passed to call c
    pc,        \* pc[c]: where call c is
    pos,       \* pos[c]: the loop index over duty[c].validators (from 1)
    filtered,  \* filtered[c]: validatorIndices, the indices c kept
    data,      \* data[c]: the attestation data c obtained
    accounts,  \* accounts[c]: indices for which c obtained an account
    signs,     \* history: every signature the signer produced
    evicted    \* history: epochs whose inner map housekeeping deleted

vars == <<mapped, attested, crashed, duty, pc, pos, filtered, data,
          accounts, signs, evicted>>

TypeOK ==
    /\ mapped \subseteq Epochs
    /\ attested \in [Epochs -> SUBSET Validators]
    /\ crashed \in BOOLEAN
    /\ duty \in [Calls -> Duties]
    /\ pc \in [Calls -> Running \cup Returned]
    /\ pos \in [Calls -> Nat \ {0}]
    /\ filtered \in [Calls -> SUBSET Validators]
    /\ data \in [Calls -> AttestationData \cup {NoData}]
    /\ accounts \in [Calls -> SUBSET Validators]
    /\ signs \subseteq Signature
    /\ evicted \subseteq Epochs

\* The epoch of call c's duty (line 117).
EpochOf(c) == SlotToEpoch(duty[c].slot)

Init ==
    /\ mapped = {}
    /\ attested = [e \in Epochs |-> {}]
    /\ crashed = FALSE
    /\ duty \in [Calls -> Duties]
    /\ pc = [c \in Calls |-> "ensure"]
    /\ pos = [c \in Calls |-> 1]
    /\ filtered = [c \in Calls |-> {}]
    /\ data = [c \in Calls |-> NoData]
    /\ accounts = [c \in Calls |-> {}]
    /\ signs = {}
    /\ evicted = {}

-----------------------------------------------------------------------------
(***************************************************************************)
(* Lines 116-122: under the lock, create the inner map for the epoch if it *)
(* does not exist.                                                         *)
(***************************************************************************)
EnsureEpochMap(c) ==
    /\ ~crashed
    /\ pc[c] = "ensure"
    /\ mapped' = mapped \cup {EpochOf(c)}
    /\ pc' = [pc EXCEPT ![c] = "filter"]
    /\ UNCHANGED <<attested, crashed, duty, pos, filtered, data, accounts,
                   signs, evicted>>

\* Mutant of FilterValidator: the "already attested" check is dropped.
FilterValidatorNoCheck(c) ==
    /\ ~crashed
    /\ pc[c] = "filter"
    /\ pos[c] <= Len(duty[c].validators)
    /\ LET e == EpochOf(c)
           v == duty[c].validators[pos[c]]
       IN \/ /\ e \in mapped
             /\ attested' = [attested EXCEPT ![e] = @ \cup {v}]
             /\ filtered' = [filtered EXCEPT ![c] = @ \cup {v}]
             /\ pos' = [pos EXCEPT ![c] = @ + 1]
             /\ UNCHANGED crashed
          \/ /\ e \notin mapped
             /\ crashed' = TRUE
             /\ UNCHANGED <<attested, filtered, pos>>
    /\ UNCHANGED <<mapped, duty, pc, data, accounts, signs, evicted>>

\* Mutant of FilterValidator: a kept validator is not written to the map.
FilterValidatorNoRecord(c) ==
    /\ ~crashed
    /\ pc[c] = "filter"
    /\ pos[c] <= Len(duty[c].validators)
    /\ LET v == duty[c].validators[pos[c]] IN
          /\ v \notin attested[EpochOf(c)]
          /\ filtered' = [filtered EXCEPT ![c] = @ \cup {v}]
          /\ pos' = [pos EXCEPT ![c] = @ + 1]
    /\ UNCHANGED <<mapped, attested, crashed, duty, pc, data, accounts,
                   signs, evicted>>

(***************************************************************************)
(* Lines 127-137: one iteration of the filter loop, one critical section.  *)
(* A validator already in attested[epoch] is skipped; any other is kept    *)
(* and written into attested[epoch].  Reading a nil inner map yields "not  *)
(* present", and writing into it panics.                                   *)
(***************************************************************************)
FilterValidator(c) ==
    /\ ~crashed
    /\ pc[c] = "filter"
    /\ pos[c] <= Len(duty[c].validators)
    /\ LET e == EpochOf(c)
           v == duty[c].validators[pos[c]]
       IN \/ /\ v \in attested[e]
             /\ pos' = [pos EXCEPT ![c] = @ + 1]
             /\ UNCHANGED <<mapped, attested, crashed, filtered>>
          \/ /\ v \notin attested[e]
             /\ e \in mapped
             /\ attested' = [attested EXCEPT ![e] = @ \cup {v}]
             /\ filtered' = [filtered EXCEPT ![c] = @ \cup {v}]
             /\ pos' = [pos EXCEPT ![c] = @ + 1]
             /\ UNCHANGED <<mapped, crashed>>
          \/ /\ v \notin attested[e]
             /\ e \notin mapped
             /\ crashed' = TRUE
             /\ UNCHANGED <<mapped, attested, filtered, pos>>
    /\ UNCHANGED <<duty, pc, data, accounts, signs, evicted>>

\* Mutant of ValidAttestationData: the source <= target check is dropped.
ValidAttestationDataNoSourceCheck(c, d) ==
    /\ d.slot = duty[c].slot
    /\ d.target <= duty[c].slot \div SlotsPerEpoch

\* Lines 152-163: the checks of the returned data against the duty.
ValidAttestationData(c, d) ==
    /\ d.slot = duty[c].slot
    /\ d.source <= d.target
    /\ d.target <= duty[c].slot \div SlotsPerEpoch

\* Mutant of FetchAttestationData: the provider's error is not checked
\* (line 145), and the call goes on without data.
FetchAttestationDataNoErrCheck(c) ==
    /\ ~crashed
    /\ pc[c] = "filter"
    /\ pos[c] > Len(duty[c].validators)
    /\ \/ /\ pc' = [pc EXCEPT ![c] = "fetchAccounts"]
          /\ UNCHANGED data
       \/ \E d \in AttestationData :
             /\ data' = [data EXCEPT ![c] = d]
             /\ pc' = [pc EXCEPT ![c] = IF ValidAttestationData(c, d)
                                          THEN "fetchAccounts"
                                          ELSE "invalid"]
    /\ UNCHANGED <<mapped, attested, crashed, duty, pos, filtered, accounts,
                   signs, evicted>>

(***************************************************************************)
(* Lines 140-163, after the loop: fetch the attestation data and check it. *)
(* An error from the provider and a failed check both return early.        *)
(***************************************************************************)
FetchAttestationData(c) ==
    /\ ~crashed
    /\ pc[c] = "filter"
    /\ pos[c] > Len(duty[c].validators)
    /\ \/ /\ pc' = [pc EXCEPT ![c] = "failed"]
          /\ UNCHANGED data
       \/ \E d \in AttestationData :
             /\ data' = [data EXCEPT ![c] = d]
             /\ pc' = [pc EXCEPT ![c] = IF ValidAttestationData(c, d)
                                          THEN "fetchAccounts"
                                          ELSE "invalid"]
    /\ UNCHANGED <<mapped, attested, crashed, duty, pos, filtered, accounts,
                   signs, evicted>>

(***************************************************************************)
(* Lines 165-193: fetch the accounts of the kept validators.  The provider *)
(* returns an account for some of them (those it knows), or an error.      *)
(***************************************************************************)
FetchValidatingAccounts(c) ==
    /\ ~crashed
    /\ pc[c] = "fetchAccounts"
    /\ \/ /\ pc' = [pc EXCEPT ![c] = "failed"]
          /\ UNCHANGED accounts
       \/ \E A \in SUBSET filtered[c] :
             /\ accounts' = [accounts EXCEPT ![c] = A]
             /\ pc' = [pc EXCEPT ![c] = "sign"]
    /\ UNCHANGED <<mapped, attested, crashed, duty, pos, filtered, data,
                   signs, evicted>>

(***************************************************************************)
(* Lines 215-220: delete the inner map two epochs back, under the lock.    *)
(* Run only on the success path of Attest.                                 *)
(***************************************************************************)
Housekeep(c) ==
    LET old == EpochOf(c) - 2 IN
    IF EpochOf(c) > 1
    THEN /\ mapped' = mapped \ {old}
         /\ attested' = [attested EXCEPT ![old] = {}]
         /\ evicted' = IF old \in mapped THEN evicted \cup {old} ELSE evicted
    ELSE UNCHANGED <<mapped, attested, evicted>>

\* The signatures produced for the validators S of call c.
SignaturesFor(c, S) ==
    {[call |-> c, validator |-> v, slot |-> duty[c].slot,
      epoch |-> EpochOf(c), data |-> data[c]] : v \in S}

(***************************************************************************)
(* Lines 195-206 and 237-293: sign for every account.  The signer returns  *)
(* an error, or a signature per account where a zero signature (a refusal *)
(* by slashing protection) creates no attestation.  With no attestation    *)
(* attest returns an empty list and nil, and Attest goes on to succeed and *)
(* housekeep (lines 209-222).                                              *)
(***************************************************************************)
SignBeaconAttestations(c) ==
    /\ ~crashed
    /\ pc[c] = "sign"
    /\ \/ /\ pc' = [pc EXCEPT ![c] = "failed"]
          /\ UNCHANGED <<mapped, attested, signs, evicted>>
       \/ \E S \in SUBSET accounts[c] :
             /\ signs' = signs \cup SignaturesFor(c, S)
             /\ \/ /\ S = {}
                   /\ pc' = [pc EXCEPT ![c] = "succeeded"]
                   /\ Housekeep(c)
                \/ /\ S # {}
                   /\ pc' = [pc EXCEPT ![c] = "submit"]
                   /\ UNCHANGED <<mapped, attested, evicted>>
    /\ UNCHANGED <<crashed, duty, pos, filtered, data, accounts>>

(***************************************************************************)
(* Lines 295-302 and 204-222: submit the attestations; an error returns    *)
(* early, success reports the attestations and housekeeps.                 *)
(***************************************************************************)
SubmitAttestations(c) ==
    /\ ~crashed
    /\ pc[c] = "submit"
    /\ \/ /\ pc' = [pc EXCEPT ![c] = "failed"]
          /\ UNCHANGED <<mapped, attested, evicted>>
       \/ /\ pc' = [pc EXCEPT ![c] = "succeeded"]
          /\ Housekeep(c)
    /\ UNCHANGED <<crashed, duty, pos, filtered, data, accounts, signs>>

\* Every call has returned, or the process has died: nothing more happens.
Terminated ==
    /\ crashed \/ \A c \in Calls : pc[c] \in Returned
    /\ UNCHANGED vars

\* One step of the goroutine running call c.
Step(c) ==
    \/ EnsureEpochMap(c)
    \/ FilterValidator(c)
    \/ FetchAttestationData(c)
    \/ FetchValidatingAccounts(c)
    \/ SignBeaconAttestations(c)
    \/ SubmitAttestations(c)

Next ==
    \/ \E c \in Calls : Step(c)
    \/ Terminated

Spec == Init /\ [][Next]_vars

-----------------------------------------------------------------------------
(***************************************************************************)
(* Properties.                                                             *)
(***************************************************************************)

\* The single-action interlock: as long as the inner map of epoch e has
\* never been deleted by housekeeping, no two calls of Attest get a
\* signature for the same validator in epoch e, however their filter
\* loops, fetches and housekeeping interleave.
InterlockHolds ==
    \A s1, s2 \in signs :
        /\ s1.epoch = s2.epoch
        /\ s1.validator = s2.validator
        /\ s1.epoch \notin evicted
        => s1.call = s2.call

\* The attested-set write happens before the signing call: every validator
\* signed for in an epoch whose inner map was never deleted is recorded in
\* that epoch's attested set, so a later duty for it is filtered out.
MarkedBeforeSigned ==
    \A s \in signs : s.epoch \notin evicted => s.validator \in attested[s.epoch]

\* Only checked data is signed: the data's slot is the duty's slot and its
\* checkpoints satisfy source.epoch <= target.epoch <= the duty's epoch,
\* whichever data the beacon node returned to any of the calls.
SignedDataValid ==
    \A s \in signs :
        /\ s.data.slot = s.slot
        /\ s.data.source <= s.data.target
        /\ s.data.target <= s.epoch

\* No goroutine panics: the filter loop never writes into the inner map of
\* an epoch that housekeeping deleted after EnsureEpochMap created it.
NoNilMapWrite == ~crashed

\* Spec section 7: when the attestation data fails its checks the duty is
\* aborted and its validators are not added to the attested set.
InvalidDataNotMarked ==
    \A c \in Calls :
        pc[c] = "invalid" /\ EpochOf(c) \in mapped
        => filtered[c] \cap attested[EpochOf(c)] = {}

\* Spec section 8, property 5: at most one attestation is signed per
\* validator and epoch, even under concurrent duty invocations.
NoDoubleSign ==
    \A s1, s2 \in signs :
        s1.epoch = s2.epoch /\ s1.validator = s2.validator => s1.call = s2.call

\* Spec section 3: an attested-set entry is evicted two epochs after the
\* epoch it tracks.  Once every call of an epoch E has returned, no epoch
\* at or before E-2 still has an inner map.  The code deletes epoch E-2
\* only on the success path of an epoch-E call (lines 215-220): when the
\* epoch-E calls fail, or a late duty recreates the map afterwards, the
\* entry stays, and no later call deletes it.
EvictedTwoEpochsAfter ==
    \A e \in mapped, c \in Calls :
        /\ EpochOf(c) >= e + 2
        /\ \A d \in Calls : EpochOf(d) = EpochOf(c) => pc[d] \in Returned
        => FALSE

-----------------------------------------------------------------------------
(***************************************************************************)
(* Refinement: the attested map implements AttestedSet.  Its marks are    *)
(* the content of s.attested, the epochs it forgot are those housekeeping *)
(* deleted, and a vote is a signature with its data left out.            *)
(***************************************************************************)
Votes == {[call |-> s.call, validator |-> s.validator, epoch |-> s.epoch] : s \in signs}

AS == INSTANCE AttestedSet WITH marks <- attested, votes <- Votes, forgotten <- evicted

\* Every behaviour of concurrent Attest calls is one of AttestedSet: marks
\* placed once under the lock, votes only for marked validators without a
\* rival voter, until the epoch's map is deleted.
AttestedSetRefined == AS!Spec

=============================================================================
