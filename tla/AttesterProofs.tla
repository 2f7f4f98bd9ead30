--------------------------- MODULE AttesterProofs ---------------------------
(***************************************************************************)
(* Proofs about the attester service model: type correctness, and the      *)
(* single-action interlock InterlockHolds for every value of the           *)
(* constants, from an inductive strengthening IInv.                        *)
(***************************************************************************)
EXTENDS Attester, TLAPS

\* A call past the data checks holds the attestation data it obtained.
DataObtained ==
    \A c \in Calls :
        pc[c] \in {"fetchAccounts", "sign", "submit"} => data[c] \in AttestationData

TypeInv == TypeOK /\ DataObtained

\* An epoch without an inner map has an empty attested set.
UnmappedEmpty == \A e \in Epochs \ mapped : attested[e] = {}

\* Accounts are only fetched for the validators the call kept.
AccountsKept == \A c \in Calls : accounts[c] \subseteq filtered[c]

\* What a call kept is recorded in its epoch's set while that epoch's map
\* has never been deleted.
KeptRecorded ==
    \A c \in Calls :
        EpochOf(c) \notin evicted => filtered[c] \subseteq attested[EpochOf(c)]

\* Two calls of the same epoch never keep the same validator while that
\* epoch's map has never been deleted.
KeptDisjoint ==
    \A c1, c2 \in Calls :
        /\ c1 # c2
        /\ EpochOf(c1) = EpochOf(c2)
        /\ EpochOf(c1) \notin evicted
        => filtered[c1] \cap filtered[c2] = {}

\* Every signature of a call is for a validator it kept, in its epoch.
SignedKept ==
    \A s \in signs : s.validator \in filtered[s.call] /\ s.epoch = EpochOf(s.call)

IInv ==
    /\ TypeInv
    /\ UnmappedEmpty
    /\ AccountsKept
    /\ KeptRecorded
    /\ KeptDisjoint
    /\ SignedKept
-----------------------------------------------------------------------------
\* The epoch of a slot is an epoch of the model.
LEMMA SlotEpoch ==
    ASSUME NEW s \in Slots
    PROVE  SlotToEpoch(s) \in Epochs
  BY SlotsPerEpochAssumption, MaxSlotAssumption DEF SlotToEpoch, Epochs, Slots

\* The epoch two before an epoch above 1 is an epoch of the model.
LEMMA OldEpoch ==
    ASSUME NEW e \in Epochs, e > 1
    PROVE  e - 2 \in Epochs
  <1>1. SlotToEpoch(MaxSlot) \in Nat
    BY SlotsPerEpochAssumption, MaxSlotAssumption DEF SlotToEpoch
  <1>2. QED
    BY <1>1 DEF Epochs

\* Facts about one call under the type invariant.
LEMMA CallFacts ==
    ASSUME TypeOK, NEW c \in Calls
    PROVE  /\ EpochOf(c) \in Epochs
           /\ duty[c].slot \in Slots
           /\ duty[c].validators \in Seq(Validators)
  <1>1. duty[c] \in Duty
    BY DutiesAssumption DEF TypeOK
  <1>2. duty[c].slot \in Slots /\ duty[c].validators \in Seq(Validators)
    BY <1>1 DEF Duty
  <1>3. QED
    BY <1>2, SlotEpoch DEF EpochOf

-----------------------------------------------------------------------------
(***************************************************************************)
(* Type correctness.                                                       *)
(***************************************************************************)
LEMMA TypeInvInit == Init => TypeInv
  <1> SUFFICES ASSUME Init PROVE TypeInv
    OBVIOUS
  <1>1. TypeOK
    <2>1. pc \in [Calls -> Running \cup Returned]
      BY DEF Init, Running
    <2>2. data \in [Calls -> AttestationData \cup {NoData}]
      BY DEF Init
    <2>3. attested \in [Epochs -> SUBSET Validators]
      BY DEF Init
    <2>4. pos \in [Calls -> Nat \ {0}]
      BY DEF Init
    <2>5. /\ filtered \in [Calls -> SUBSET Validators]
          /\ accounts \in [Calls -> SUBSET Validators]
      BY DEF Init
    <2>6. QED
      BY <2>1, <2>2, <2>3, <2>4, <2>5 DEF Init, TypeOK
  <1>2. DataObtained
    BY DEF Init, DataObtained
  <1>3. QED
    BY <1>1, <1>2 DEF TypeInv

LEMMA TypeInvStep == TypeInv /\ [Next]_vars => TypeInv'
  <1> SUFFICES ASSUME TypeInv, [Next]_vars PROVE TypeInv'
    OBVIOUS
  <1> USE DEF TypeInv
  <1>1. ASSUME NEW c \in Calls, EnsureEpochMap(c) PROVE TypeInv'
    BY <1>1, CallFacts DEF EnsureEpochMap, TypeOK, DataObtained, Running
  <1>2. ASSUME NEW c \in Calls, FilterValidator(c) PROVE TypeInv'
    <2> DEFINE e == EpochOf(c)
               v == duty[c].validators[pos[c]]
    <2>1. e \in Epochs /\ v \in Validators
      BY <1>2, CallFacts DEF FilterValidator, TypeOK
    <2>2. CASE /\ v \in attested[e]
               /\ pos' = [pos EXCEPT ![c] = @ + 1]
               /\ UNCHANGED <<mapped, attested, crashed, filtered>>
      BY <1>2, <2>2 DEF FilterValidator, TypeOK, DataObtained
    <2>3. CASE /\ v \notin attested[e]
               /\ e \in mapped
               /\ attested' = [attested EXCEPT ![e] = @ \cup {v}]
               /\ filtered' = [filtered EXCEPT ![c] = @ \cup {v}]
               /\ pos' = [pos EXCEPT ![c] = @ + 1]
               /\ UNCHANGED <<mapped, crashed>>
      BY <1>2, <2>1, <2>3 DEF FilterValidator, TypeOK, DataObtained
    <2>4. CASE /\ v \notin attested[e]
               /\ e \notin mapped
               /\ crashed' = TRUE
               /\ UNCHANGED <<mapped, attested, filtered, pos>>
      BY <1>2, <2>4 DEF FilterValidator, TypeOK, DataObtained
    <2>5. QED
      BY <1>2, <2>2, <2>3, <2>4 DEF FilterValidator
  <1>3. ASSUME NEW c \in Calls, FetchAttestationData(c) PROVE TypeInv'
    BY <1>3 DEF FetchAttestationData, TypeOK, DataObtained, Running, Returned
  <1>4. ASSUME NEW c \in Calls, FetchValidatingAccounts(c) PROVE TypeInv'
    BY <1>4 DEF FetchValidatingAccounts, TypeOK, DataObtained, Running,
                Returned
  <1>5. ASSUME NEW c \in Calls, SignBeaconAttestations(c) PROVE TypeInv'
    <2>1. EpochOf(c) \in Epochs /\ duty[c].slot \in Slots
      BY CallFacts
    <2>2. data[c] \in AttestationData
      BY <1>5 DEF SignBeaconAttestations, DataObtained
    <2>3. ASSUME NEW S \in SUBSET accounts[c]
          PROVE  SignaturesFor(c, S) \subseteq Signature
      BY <2>1, <2>2 DEF SignaturesFor, Signature, TypeOK
    <2>4. Housekeep(c) => /\ mapped' \subseteq Epochs
                          /\ attested' \in [Epochs -> SUBSET Validators]
                          /\ evicted' \subseteq Epochs
      BY <2>1, OldEpoch DEF Housekeep, TypeOK
    <2>5. ASSUME pc' = [pc EXCEPT ![c] = "failed"],
                 UNCHANGED <<mapped, attested, signs, evicted>>,
                 UNCHANGED <<crashed, duty, pos, filtered, data, accounts>>
          PROVE  TypeOK'
      BY <2>5 DEF TypeOK, Returned
    <2>6. ASSUME NEW S \in SUBSET accounts[c],
                 signs' = signs \cup SignaturesFor(c, S),
                 \/ /\ S = {}
                    /\ pc' = [pc EXCEPT ![c] = "succeeded"]
                    /\ Housekeep(c)
                 \/ /\ S # {}
                    /\ pc' = [pc EXCEPT ![c] = "submit"]
                    /\ UNCHANGED <<mapped, attested, evicted>>,
                 UNCHANGED <<crashed, duty, pos, filtered, data, accounts>>
          PROVE  TypeOK'
      <3>1. signs' \subseteq Signature
        BY <2>6, <2>3 DEF TypeOK
      <3>2. pc' \in [Calls -> Running \cup Returned]
        BY <2>6 DEF TypeOK, Running, Returned
      <3>3. /\ mapped' \subseteq Epochs
            /\ attested' \in [Epochs -> SUBSET Validators]
            /\ evicted' \subseteq Epochs
        BY <2>6, <2>4 DEF TypeOK
      <3>4. QED
        BY <2>6, <3>1, <3>2, <3>3 DEF TypeOK
    <2>9. TypeOK'
      BY <1>5, <2>5, <2>6 DEF SignBeaconAttestations
    <2>10. DataObtained'
      <3>1. pc'[c] \in {"failed", "succeeded", "submit"} /\ data' = data
        BY <1>5 DEF SignBeaconAttestations, TypeOK
      <3>2. \A d \in Calls \ {c} : pc'[d] = pc[d]
        BY <1>5 DEF SignBeaconAttestations, TypeOK
      <3>3. QED
        BY <2>2, <3>1, <3>2 DEF DataObtained
    <2>11. QED
      BY <2>9, <2>10
  <1>6. ASSUME NEW c \in Calls, SubmitAttestations(c) PROVE TypeInv'
    <2>1. EpochOf(c) \in Epochs
      BY CallFacts
    <2>2. Housekeep(c) => /\ mapped' \subseteq Epochs
                          /\ attested' \in [Epochs -> SUBSET Validators]
                          /\ evicted' \subseteq Epochs
      BY <2>1, OldEpoch DEF Housekeep, TypeOK
    <2>3. QED
      BY <1>6, <2>2 DEF SubmitAttestations, TypeOK, DataObtained, Running,
                        Returned
  <1>7. CASE Terminated
    BY <1>7 DEF Terminated, vars, TypeOK, DataObtained
  <1>8. CASE UNCHANGED vars
    BY <1>8 DEF vars, TypeOK, DataObtained
  <1>9. QED
    BY <1>1, <1>2, <1>3, <1>4, <1>5, <1>6, <1>7, <1>8 DEF Next, Step

\* Every reachable state is well typed.
THEOREM TypeCorrect == Spec => []TypeOK
  <1>1. Spec => []TypeInv
    BY TypeInvInit, TypeInvStep, PTL DEF Spec
  <1>2. QED
    BY <1>1, PTL DEF TypeInv

-----------------------------------------------------------------------------
(***************************************************************************)
(* The interlock.  IInv strengthens InterlockHolds: a call's signatures    *)
(* are for validators it kept (SignedKept), what it kept it wrote into its *)
(* epoch's set (KeptRecorded), and a validator is kept only when absent    *)
(* from that set, so two calls of one epoch keep disjoint sets             *)
(* (KeptDisjoint).  Housekeeping breaks the last two only for the epoch it *)
(* evicts; UnmappedEmpty says that deleting an epoch that has no map, or   *)
(* re-creating one, changes no set.                                        *)
(***************************************************************************)
LEMMA IInvInit == Init => IInv
  <1> SUFFICES ASSUME Init PROVE IInv
    OBVIOUS
  <1>1. TypeInv
    BY TypeInvInit
  <1>2. UnmappedEmpty /\ AccountsKept /\ KeptRecorded /\ KeptDisjoint
    BY DEF Init, UnmappedEmpty, AccountsKept, KeptRecorded, KeptDisjoint
  <1>3. SignedKept
    BY DEF Init, SignedKept
  <1>4. QED
    BY <1>1, <1>2, <1>3 DEF IInv

\* Housekeeping preserves the parts of IInv about the attested map.
LEMMA HousekeepPreserves ==
    ASSUME IInv, NEW c \in Calls, Housekeep(c),
           UNCHANGED <<duty, filtered>>
    PROVE  UnmappedEmpty' /\ KeptRecorded' /\ KeptDisjoint'
  <1> USE DEF IInv, TypeInv
  <1>1. CASE EpochOf(c) <= 1
    <2>1. UNCHANGED <<mapped, attested, evicted>>
      BY <1>1, CallFacts DEF Housekeep, Epochs
    <2>2. \A d \in Calls : EpochOf(d)' = EpochOf(d)
      BY DEF EpochOf
    <2>3. QED
      BY <2>1, <2>2 DEF UnmappedEmpty, KeptRecorded, KeptDisjoint
  <1>2. CASE EpochOf(c) > 1
    <2> DEFINE old == EpochOf(c) - 2
    <2>1. old \in Epochs
      BY <1>2, CallFacts, OldEpoch
    <2>2. /\ mapped' = mapped \ {old}
          /\ attested' = [attested EXCEPT ![old] = {}]
          /\ evicted' = IF old \in mapped THEN evicted \cup {old} ELSE evicted
      BY <1>2 DEF Housekeep
    <2>3. UnmappedEmpty'
      BY <2>1, <2>2 DEF UnmappedEmpty, TypeOK
    <2>4. KeptRecorded'
      <3> SUFFICES ASSUME NEW d \in Calls, EpochOf(d)' \notin evicted'
                   PROVE  filtered'[d] \subseteq attested'[EpochOf(d)']
        BY DEF KeptRecorded
      <3>1. EpochOf(d)' = EpochOf(d) /\ EpochOf(d) \in Epochs
        BY CallFacts DEF EpochOf
      <3>2. EpochOf(d) \notin evicted /\ evicted \subseteq evicted'
        BY <2>2, <3>1
      <3>3. filtered[d] \subseteq attested[EpochOf(d)]
        BY <3>2 DEF KeptRecorded
      <3>4. CASE EpochOf(d) = old
        <4>1. old \notin mapped
          BY <2>2, <3>1, <3>4
        <4>2. attested[old] = {}
          BY <2>1, <4>1 DEF UnmappedEmpty
        <4>3. QED
          BY <3>3, <3>4, <4>2
      <3>5. CASE EpochOf(d) # old
        BY <2>2, <3>1, <3>3, <3>5 DEF TypeOK
      <3>6. QED
        BY <3>4, <3>5
    <2>5. KeptDisjoint'
      <3>1. evicted \subseteq evicted'
        BY <2>2
      <3>2. \A d \in Calls : EpochOf(d)' = EpochOf(d)
        BY DEF EpochOf
      <3>3. QED
        BY <3>1, <3>2 DEF KeptDisjoint
    <2>6. QED
      BY <2>3, <2>4, <2>5
  <1>3. QED
    BY <1>1, <1>2, CallFacts DEF EpochOf, Epochs

LEMMA IInvStep == IInv /\ [Next]_vars => IInv'
  <1> SUFFICES ASSUME IInv, [Next]_vars PROVE IInv'
    OBVIOUS
  <1> USE DEF IInv, TypeInv
  <1>0. TypeInv'
    BY TypeInvStep
  <1>00. \A x \in signs : x.call \in Calls
    BY DEF TypeOK, Signature
  <1>1. ASSUME NEW c \in Calls, EnsureEpochMap(c) PROVE IInv'
    BY <1>0, <1>1 DEF EnsureEpochMap, UnmappedEmpty, AccountsKept,
                      KeptRecorded, KeptDisjoint, SignedKept, EpochOf
  <1>2. ASSUME NEW c \in Calls, FilterValidator(c) PROVE IInv'
    <2> DEFINE e == EpochOf(c)
               v == duty[c].validators[pos[c]]
    <2>0. e \in Epochs /\ \A d \in Calls : EpochOf(d)' = EpochOf(d)
      BY <1>2, CallFacts DEF FilterValidator, EpochOf
    <2>1. CASE /\ v \in attested[e]
               /\ pos' = [pos EXCEPT ![c] = @ + 1]
               /\ UNCHANGED <<mapped, attested, crashed, filtered>>
      <3>1. UNCHANGED <<mapped, attested, filtered, signs, accounts, evicted>>
        BY <1>2, <2>1 DEF FilterValidator
      <3>2. QED
        BY <1>0, <1>00, <2>0, <3>1 DEF UnmappedEmpty, AccountsKept,
                                KeptRecorded, KeptDisjoint, SignedKept
    <2>2. CASE /\ v \notin attested[e]
               /\ e \in mapped
               /\ attested' = [attested EXCEPT ![e] = @ \cup {v}]
               /\ filtered' = [filtered EXCEPT ![c] = @ \cup {v}]
               /\ pos' = [pos EXCEPT ![c] = @ + 1]
               /\ UNCHANGED <<mapped, crashed>>
      <3> USE DEF TypeInv
      <3>1. UnmappedEmpty'
        BY <2>0, <2>2 DEF UnmappedEmpty, TypeOK
      <3>2. AccountsKept'
        BY <1>2, <2>2 DEF FilterValidator, AccountsKept, TypeOK
      <3>3. KeptRecorded'
        BY <1>2, <2>0, <2>2 DEF FilterValidator, KeptRecorded, TypeOK
      <3>4. KeptDisjoint'
        <4> SUFFICES ASSUME NEW c1 \in Calls, NEW c2 \in Calls, c1 # c2,
                            EpochOf(c1) = EpochOf(c2),
                            EpochOf(c1) \notin evicted
                     PROVE  filtered'[c1] \cap filtered'[c2] = {}
          BY <1>2, <2>0 DEF FilterValidator, KeptDisjoint
        <4>1. filtered[c1] \cap filtered[c2] = {}
          BY DEF KeptDisjoint
        <4>2. EpochOf(c1) = e => v \notin filtered[c1] /\ v \notin filtered[c2]
          BY <2>2 DEF KeptRecorded
        <4>3. QED
          BY <2>2, <4>1, <4>2 DEF TypeOK
      <3>5. SignedKept'
        <4>1. signs' = signs
          BY <1>2 DEF FilterValidator
        <4>2. \A d \in Calls : filtered[d] \subseteq filtered'[d]
          BY <2>2 DEF TypeOK
        <4>3. \A x \in signs : x.call \in Calls
          BY DEF TypeOK, Signature
        <4>4. QED
          BY <2>0, <4>1, <4>2, <4>3 DEF SignedKept
      <3>6. QED
        BY <1>0, <3>1, <3>2, <3>3, <3>4, <3>5
    <2>3. CASE /\ v \notin attested[e]
               /\ e \notin mapped
               /\ crashed' = TRUE
               /\ UNCHANGED <<mapped, attested, filtered, pos>>
      <3>1. UNCHANGED <<mapped, attested, filtered, signs, accounts, evicted>>
        BY <1>2, <2>3 DEF FilterValidator
      <3>2. QED
        BY <1>0, <1>00, <2>0, <3>1 DEF UnmappedEmpty, AccountsKept,
                                KeptRecorded, KeptDisjoint, SignedKept
    <2>4. QED
      BY <1>2, <2>1, <2>2, <2>3 DEF FilterValidator
  <1>3. ASSUME NEW c \in Calls, FetchAttestationData(c) PROVE IInv'
    BY <1>0, <1>3 DEF FetchAttestationData, UnmappedEmpty, AccountsKept,
                      KeptRecorded, KeptDisjoint, SignedKept, EpochOf
  <1>4. ASSUME NEW c \in Calls, FetchValidatingAccounts(c) PROVE IInv'
    <2>1. AccountsKept'
      BY <1>4 DEF FetchValidatingAccounts, AccountsKept, TypeInv, TypeOK
    <2>2. QED
      BY <1>0, <1>4, <2>1 DEF FetchValidatingAccounts, UnmappedEmpty,
          KeptRecorded, KeptDisjoint, SignedKept, EpochOf
  <1>5. ASSUME NEW c \in Calls, SignBeaconAttestations(c) PROVE IInv'
    <2>1. UNCHANGED <<duty, filtered, accounts>>
      BY <1>5 DEF SignBeaconAttestations
    <2>2. UnmappedEmpty' /\ KeptRecorded' /\ KeptDisjoint'
      BY <1>5, <2>1, HousekeepPreserves DEF SignBeaconAttestations,
          UnmappedEmpty, KeptRecorded, KeptDisjoint, EpochOf
    <2>3. AccountsKept'
      BY <2>1 DEF AccountsKept
    <2>4. SignedKept'
      <3>1. ASSUME NEW S \in SUBSET accounts[c]
            PROVE  \A s \in SignaturesFor(c, S) :
                      /\ s.call = c
                      /\ s.validator \in filtered[s.call]
                      /\ s.epoch = EpochOf(s.call)
        BY DEF SignaturesFor, AccountsKept
      <3>2. \A d \in Calls : EpochOf(d)' = EpochOf(d)
        BY <2>1 DEF EpochOf
      <3>3. \/ signs' = signs
            \/ \E S \in SUBSET accounts[c] : signs' = signs \cup SignaturesFor(c, S)
        BY <1>5 DEF SignBeaconAttestations
      <3>4. \A x \in signs : x.call \in Calls
        BY DEF TypeOK, Signature
      <3>5. CASE signs' = signs
        BY <2>1, <3>2, <3>4, <3>5 DEF SignedKept
      <3>6. ASSUME NEW S \in SUBSET accounts[c],
                   signs' = signs \cup SignaturesFor(c, S)
            PROVE  SignedKept'
        <4>1. \A x \in signs' : x \in signs \/ x \in SignaturesFor(c, S)
          BY <3>6
        <4>2. QED
          BY <2>1, <3>1, <3>2, <3>4, <4>1 DEF SignedKept
      <3>7. QED
        BY <3>3, <3>5, <3>6
    <2>5. QED
      BY <1>0, <2>2, <2>3, <2>4
  <1>6. ASSUME NEW c \in Calls, SubmitAttestations(c) PROVE IInv'
    <2>1. UNCHANGED <<duty, filtered, accounts, signs>>
      BY <1>6 DEF SubmitAttestations
    <2>2. UnmappedEmpty' /\ KeptRecorded' /\ KeptDisjoint'
      BY <1>6, <2>1, HousekeepPreserves DEF SubmitAttestations,
          UnmappedEmpty, KeptRecorded, KeptDisjoint, EpochOf
    <2>3. QED
      BY <1>0, <2>1, <2>2 DEF AccountsKept, SignedKept, EpochOf
  <1>7. CASE Terminated \/ UNCHANGED vars
    BY <1>0, <1>7 DEF Terminated, vars, UnmappedEmpty, AccountsKept,
                      KeptRecorded, KeptDisjoint, SignedKept, EpochOf
  <1>8. QED
    BY <1>1, <1>2, <1>3, <1>4, <1>5, <1>6, <1>7 DEF Next, Step

\* IInv implies the interlock and the marking order.
LEMMA IInvImpliesInterlock == IInv => InterlockHolds /\ MarkedBeforeSigned
  <1> SUFFICES ASSUME IInv PROVE InterlockHolds /\ MarkedBeforeSigned
    OBVIOUS
  <1> USE DEF IInv, TypeInv
  <1>1. InterlockHolds
    <2> SUFFICES ASSUME NEW s1 \in signs, NEW s2 \in signs,
                        s1.epoch = s2.epoch, s1.validator = s2.validator,
                        s1.epoch \notin evicted, s1.call # s2.call
                 PROVE  FALSE
      BY DEF InterlockHolds
    <2>1. s1.call \in Calls /\ s2.call \in Calls
      BY DEF TypeOK, Signature
    <2>2. /\ s1.validator \in filtered[s1.call] \cap filtered[s2.call]
          /\ EpochOf(s1.call) = EpochOf(s2.call)
          /\ EpochOf(s1.call) \notin evicted
      BY DEF SignedKept
    <2>3. QED
      BY <2>1, <2>2 DEF KeptDisjoint
  <1>2. MarkedBeforeSigned
    <2> SUFFICES ASSUME NEW s \in signs, s.epoch \notin evicted
                 PROVE  s.validator \in attested[s.epoch]
      BY DEF MarkedBeforeSigned
    <2>1. s.call \in Calls
      BY DEF TypeOK, Signature
    <2>2. QED
      BY <2>1 DEF SignedKept, KeptRecorded
  <1>3. QED
    BY <1>1, <1>2

\* The attested-set interlock of Attest (lines 116-137) holds in every
\* reachable state, for any number of concurrent calls, validators and
\* slots: no two calls sign for one validator in an epoch whose map was
\* never deleted.
THEOREM Interlock == Spec => []InterlockHolds
  <1>1. Spec => []IInv
    BY IInvInit, IInvStep, PTL DEF Spec
  <1>2. QED
    BY <1>1, IInvImpliesInterlock, PTL

\* The attested-set write of the filter loop precedes every signature and
\* stays in the set until housekeeping evicts the epoch.
THEOREM MarkedBeforeSigning == Spec => []MarkedBeforeSigned
  <1>1. Spec => []IInv
    BY IInvInit, IInvStep, PTL DEF Spec
  <1>2. QED
    BY <1>1, IInvImpliesInterlock, PTL
-----------------------------------------------------------------------------
(***************************************************************************)
(* Refinement of AttestedSet.                                              *)
(***************************************************************************)
\* Housekeeping is a Forget of the epoch two back, or changes nothing the
\* abstract set sees (no map to delete, or an epoch below 2).
LEMMA HousekeepForgets ==
    ASSUME IInv, NEW c \in Calls, Housekeep(c), UNCHANGED signs
    PROVE  \/ \E e \in Epochs : AS!Forget(e)
           \/ UNCHANGED AS!vars
  <1> USE DEF IInv, TypeInv
  <1>1. CASE EpochOf(c) <= 1
    BY <1>1, CallFacts DEF Housekeep, Epochs, AS!vars, Votes
  <1>2. CASE EpochOf(c) > 1
    <2> DEFINE old == EpochOf(c) - 2
    <2>1. old \in Epochs
      BY <1>2, CallFacts, OldEpoch
    <2>2. /\ attested' = [attested EXCEPT ![old] = {}]
          /\ evicted' = IF old \in mapped THEN evicted \cup {old} ELSE evicted
      BY <1>2 DEF Housekeep
    <2>3. Votes' = Votes
      BY DEF Votes
    <2>4. CASE old \in mapped
      <3>1. AS!Forget(old)
        BY <2>2, <2>3, <2>4 DEF AS!Forget
      <3>2. QED
        BY <2>1, <3>1
    <2>5. CASE old \notin mapped
      <3>1. attested[old] = {}
        BY <2>1, <2>5 DEF UnmappedEmpty
      <3>2. attested' = attested
        BY <2>1, <2>2, <3>1 DEF TypeOK
      <3>3. QED
        BY <2>2, <2>3, <2>5, <3>2 DEF AS!vars
    <2>6. QED
      BY <2>4, <2>5
  <1>3. QED
    BY <1>1, <1>2, CallFacts DEF EpochOf, Epochs

\* A signing step that produces signatures is a CastVotes of its call: the
\* validators are marked in its epoch and no other call voted for them there.
LEMMA SignIsCastVotes ==
    ASSUME IInv, NEW c \in Calls, pc[c] = "sign",
           NEW S \in SUBSET accounts[c],
           signs' = signs \cup SignaturesFor(c, S),
           UNCHANGED <<attested, evicted>>
    PROVE  AS!CastVotes(c, EpochOf(c), S)
  <1> USE DEF IInv, TypeInv
  <1> DEFINE e == EpochOf(c)
  <1>1. S \subseteq filtered[c]
    BY DEF AccountsKept
  <1>2. ASSUME e \notin evicted, NEW v \in S PROVE v \in attested[e]
    BY <1>1, <1>2 DEF KeptRecorded
  <1>3. ASSUME e \notin evicted, NEW v \in S, NEW x \in Votes,
               x.validator = v, x.epoch = e
        PROVE  x.call = c
    <2>1. PICK s \in signs : x = [call |-> s.call, validator |-> s.validator,
                                  epoch |-> s.epoch]
      BY DEF Votes
    <2>2. s.call \in Calls
      BY DEF TypeOK, Signature
    <2>3. v \in filtered[s.call] /\ EpochOf(s.call) = e
      BY <1>3, <2>1 DEF SignedKept
    <2>4. QED
      BY <1>1, <1>3, <2>1, <2>2, <2>3 DEF KeptDisjoint
  <1>4. Votes' = Votes \cup {[call |-> c, validator |-> v, epoch |-> e] : v \in S}
    <2> DEFINE Proj(x) == [call |-> x.call, validator |-> x.validator, epoch |-> x.epoch]
    <2>1. Votes' = {Proj(x) : x \in signs} \cup {Proj(x) : x \in SignaturesFor(c, S)}
      BY DEF Votes
    <2>2. {Proj(x) : x \in SignaturesFor(c, S)}
            = {[call |-> c, validator |-> v, epoch |-> e] : v \in S}
      <3>1. ASSUME NEW v \in S
            PROVE  Proj([call |-> c, validator |-> v, slot |-> duty[c].slot,
                         epoch |-> EpochOf(c), data |-> data[c]])
                     = [call |-> c, validator |-> v, epoch |-> e]
        OBVIOUS
      <3> DEFINE Sig(v) == [call |-> c, validator |-> v, slot |-> duty[c].slot,
                            epoch |-> EpochOf(c), data |-> data[c]]
      <3>2. SignaturesFor(c, S) = {Sig(v) : v \in S}
        BY DEF SignaturesFor
      <3>3. {Proj(x) : x \in {Sig(v) : v \in S}} = {Proj(Sig(v)) : v \in S}
        OBVIOUS
      <3>4. {Proj(Sig(v)) : v \in S} = {[call |-> c, validator |-> v, epoch |-> e] : v \in S}
        BY <3>1
      <3>5. QED
        BY <3>2, <3>3, <3>4
    <2>3. QED
      BY <2>1, <2>2 DEF Votes
  <1>5. QED
    BY <1>2, <1>3, <1>4 DEF AS!CastVotes

\* Every step of the attester is a step of AttestedSet or leaves the
\* mapped variables unchanged.
LEMMA RefinementStep == IInv /\ [Next]_vars => [AS!Next]_AS!vars
  <1> SUFFICES ASSUME IInv, [Next]_vars PROVE [AS!Next]_AS!vars
    OBVIOUS
  <1> USE DEF IInv, TypeInv
  <1>1. ASSUME NEW c \in Calls, EnsureEpochMap(c) PROVE [AS!Next]_AS!vars
    BY <1>1 DEF EnsureEpochMap, AS!vars, Votes
  <1>2. ASSUME NEW c \in Calls, FilterValidator(c) PROVE [AS!Next]_AS!vars
    <2> DEFINE e == EpochOf(c)
               v == duty[c].validators[pos[c]]
    <2>1. e \in Epochs /\ v \in Validators
      <3>1. pos[c] \in 1..Len(duty[c].validators)
        BY <1>2 DEF FilterValidator, TypeOK
      <3>2. QED
        BY <3>1, CallFacts
    <2>2. CASE v \notin attested[e] /\ e \in mapped
      <3>1. AS!Mark(e, v)
        BY <1>2, <2>2 DEF FilterValidator, AS!Mark, Votes
      <3>2. QED
        BY <2>1, <3>1 DEF AS!Next
    <2>3. CASE ~(v \notin attested[e] /\ e \in mapped)
      BY <1>2, <2>3 DEF FilterValidator, AS!vars, Votes
    <2>4. QED
      BY <2>2, <2>3
  <1>3. ASSUME NEW c \in Calls, FetchAttestationData(c) PROVE [AS!Next]_AS!vars
    BY <1>3 DEF FetchAttestationData, AS!vars, Votes
  <1>4. ASSUME NEW c \in Calls, FetchValidatingAccounts(c) PROVE [AS!Next]_AS!vars
    BY <1>4 DEF FetchValidatingAccounts, AS!vars, Votes
  <1>5. ASSUME NEW c \in Calls, SignBeaconAttestations(c) PROVE [AS!Next]_AS!vars
    <2>1. CASE pc' = [pc EXCEPT ![c] = "failed"] /\ UNCHANGED <<mapped, attested, signs, evicted>>
      BY <2>1 DEF AS!vars, Votes
    <2>2. ASSUME NEW S \in SUBSET accounts[c],
                 signs' = signs \cup SignaturesFor(c, S),
                 S = {}, Housekeep(c)
          PROVE  [AS!Next]_AS!vars
      <3>1. signs' = signs
        BY <2>2 DEF SignaturesFor
      <3>2. QED
        BY <2>2, <3>1, HousekeepForgets DEF AS!Next
    <2>3. ASSUME NEW S \in SUBSET accounts[c],
                 signs' = signs \cup SignaturesFor(c, S),
                 UNCHANGED <<mapped, attested, evicted>>
          PROVE  [AS!Next]_AS!vars
      <3>1. AS!CastVotes(c, EpochOf(c), S)
        BY <1>5, <2>3, SignIsCastVotes DEF SignBeaconAttestations
      <3>2. EpochOf(c) \in Epochs /\ S \in SUBSET Validators
        BY CallFacts DEF TypeOK
      <3>3. QED
        BY <3>1, <3>2 DEF AS!Next
    <2>4. QED
      BY <1>5, <2>1, <2>2, <2>3 DEF SignBeaconAttestations
  <1>6. ASSUME NEW c \in Calls, SubmitAttestations(c) PROVE [AS!Next]_AS!vars
    <2>1. CASE UNCHANGED <<mapped, attested, evicted>>
      BY <1>6, <2>1 DEF SubmitAttestations, AS!vars, Votes
    <2>2. CASE Housekeep(c)
      BY <1>6, <2>2, HousekeepForgets DEF SubmitAttestations, AS!Next
    <2>3. QED
      BY <1>6, <2>1, <2>2 DEF SubmitAttestations
  <1>7. CASE Terminated \/ UNCHANGED vars
    BY <1>7 DEF Terminated, vars, AS!vars, Votes
  <1>8. QED
    BY <1>1, <1>2, <1>3, <1>4, <1>5, <1>6, <1>7 DEF Next, Step

\* The attester service implements AttestedSet (AttestedSetRefined): every
\* behaviour of concurrent Attest calls (lines 104-303) marks validators
\* once, and votes only for marked validators without a rival voter in any
\* epoch whose map housekeeping has not deleted.
THEOREM Refinement == Spec => AttestedSetRefined
  <1>1. Init => AS!Init
    BY DEF Init, AS!Init, Votes
  <1>2. Spec => []IInv
    BY IInvInit, IInvStep, PTL DEF Spec
  <1>3. QED
    BY <1>1, <1>2, RefinementStep, PTL DEF Spec, AttestedSetRefined, AS!Spec

\* The abstract OneVoter, read through the refinement mapping: in every
\* epoch housekeeping never deleted, all signatures the attester produced
\* for one validator come from one Attest call.  It follows from
\* Refinement and the abstract theorem alone, without IInv.
THEOREM OneVoterRefined == Spec => []AS!OneVoter
  <1>1. AS!Spec => []AS!OneVoter
    BY AS!OneVoterHolds
  <1>2. QED
    BY <1>1, Refinement DEF AttestedSetRefined
-----------------------------------------------------------------------------
(***************************************************************************)
(* Signed data is valid.  A call past the checks of lines 152-163 holds   *)
(* data that passed them (DataChecked), and only FetchAttestationData,   *)
(* run before the checks, writes a call's data; a signature copies the    *)
(* data, slot and epoch of its call, so the checks carry over to it.      *)
(***************************************************************************)
DataChecked ==
    \A c \in Calls :
        pc[c] \in {"fetchAccounts", "sign", "submit"} => ValidAttestationData(c, data[c])

DInv == TypeInv /\ DataChecked /\ SignedDataValid

LEMMA DInvInit == Init => DInv
  BY TypeInvInit DEF Init, DInv, DataChecked, SignedDataValid

\* The signatures a signing step adds satisfy the checks of their call.
LEMMA NewSignaturesValid ==
    ASSUME TypeOK, NEW c \in Calls, ValidAttestationData(c, data[c]),
           NEW S \in SUBSET Validators
    PROVE  \A s \in SignaturesFor(c, S) :
              /\ s.data.slot = s.slot
              /\ s.data.source <= s.data.target
              /\ s.data.target <= s.epoch
  BY DEF SignaturesFor, ValidAttestationData, EpochOf, SlotToEpoch

LEMMA DInvStep == DInv /\ [Next]_vars => DInv'
  <1> SUFFICES ASSUME DInv, [Next]_vars PROVE DInv'
    OBVIOUS
  <1> USE DEF DInv
  <1>0. TypeInv'
    BY TypeInvStep
  <1>1. ASSUME NEW c \in Calls, EnsureEpochMap(c) PROVE DInv'
    BY <1>0, <1>1 DEF EnsureEpochMap, DataChecked, SignedDataValid, TypeInv,
                      TypeOK, ValidAttestationData
  <1>2. ASSUME NEW c \in Calls, FilterValidator(c) PROVE DInv'
    BY <1>0, <1>2 DEF FilterValidator, DataChecked, SignedDataValid,
                      ValidAttestationData
  <1>3. ASSUME NEW c \in Calls, FetchAttestationData(c) PROVE DInv'
    <2>1. \A x \in Calls \ {c} : pc'[x] = pc[x] /\ data'[x] = data[x]
      BY <1>3 DEF FetchAttestationData, TypeInv, TypeOK
    <2>2. pc'[c] \in {"fetchAccounts", "sign", "submit"}
            => ValidAttestationData(c, data'[c])
      BY <1>3 DEF FetchAttestationData, TypeInv, TypeOK
    <2>3. DataChecked'
      BY <1>3, <2>1, <2>2 DEF FetchAttestationData, DataChecked, ValidAttestationData
    <2>4. QED
      BY <1>0, <1>3, <2>3 DEF FetchAttestationData, SignedDataValid
  <1>4. ASSUME NEW c \in Calls, FetchValidatingAccounts(c) PROVE DInv'
    BY <1>0, <1>4 DEF FetchValidatingAccounts, DataChecked, SignedDataValid,
                      TypeInv, TypeOK, ValidAttestationData
  <1>5. ASSUME NEW c \in Calls, SignBeaconAttestations(c) PROVE DInv'
    <2>1. pc'[c] \in {"failed", "succeeded", "submit"}
          /\ \A x \in Calls \ {c} : pc'[x] = pc[x]
      BY <1>5 DEF SignBeaconAttestations, TypeInv, TypeOK
    <2>2. ValidAttestationData(c, data[c])
      BY <1>5 DEF SignBeaconAttestations, DataChecked
    <2>3. DataChecked'
      BY <1>5, <2>1, <2>2 DEF SignBeaconAttestations, DataChecked, ValidAttestationData
    <2>4. signs' = signs
          \/ \E S \in SUBSET accounts[c] : signs' = signs \cup SignaturesFor(c, S)
      BY <1>5 DEF SignBeaconAttestations
    <2>5. SignedDataValid'
      <3>1. accounts[c] \subseteq Validators
        BY DEF TypeInv, TypeOK
      <3>2. QED
        BY <2>2, <2>4, <3>1, NewSignaturesValid DEF SignedDataValid, TypeInv
    <2>6. QED
      BY <1>0, <2>3, <2>5
  <1>6. ASSUME NEW c \in Calls, SubmitAttestations(c) PROVE DInv'
    <2>1. pc'[c] \in {"failed", "succeeded"}
          /\ \A x \in Calls \ {c} : pc'[x] = pc[x]
      BY <1>6 DEF SubmitAttestations, TypeInv, TypeOK
    <2>2. QED
      BY <1>0, <1>6, <2>1 DEF SubmitAttestations, DataChecked, SignedDataValid,
                            ValidAttestationData
  <1>7. CASE Terminated \/ UNCHANGED vars
    <2>1. UNCHANGED vars
      BY <1>7 DEF Terminated
    <2>2. QED
      BY <1>0, <2>1 DEF vars, DataChecked, SignedDataValid, ValidAttestationData
  <1>8. QED
    BY <1>1, <1>2, <1>3, <1>4, <1>5, <1>6, <1>7 DEF Next, Step

\* Only attestation data that passed the checks of lines 152-163 is ever
\* signed: its slot is the duty's, its source is not after its target, and
\* its target is not after the duty's epoch, whatever the interleaving.
THEOREM SignedDataChecked == Spec => []SignedDataValid
  <1>1. Spec => []DInv
    BY DInvInit, DInvStep, PTL DEF Spec
  <1>2. QED
    BY <1>1, PTL DEF DInv
=============================================================================
