------------------------- MODULE RegistrationsProofs -------------------------
(***************************************************************************)
(* Proofs about SubmitValidatorRegistrations for every set of validators, *)
(* addresses and relays: type correctness, that relays only receive each  *)
(* validator's own fee recipient, and that the batch is complete.         *)
(***************************************************************************)
EXTENDS Registrations, TLAPS

\* The loop ends before the goroutines start, and the call returns only
\* after wg.Wait; before the goroutines start every relay is idle.
Phases ==
    /\ waiting => todo = {}
    /\ returned => waiting
    /\ ~waiting => \A r \in Relays : relay[r] = "idle"

\* A relay holds the whole batch once it accepted, and nothing before.
ReceivedBatch ==
    \A r \in Relays : received[r] = IF relay[r] = "ok" THEN regs ELSE {}

\* The validators registered so far are the visited accounts with a fee
\* recipient that the signer did not refuse, and only such accounts were
\* refused.
Visited == accounts \ todo

LoopProgress ==
    /\ {reg.validator : reg \in regs} = (Visited \cap DOMAIN feeRecipients) \ refused
    /\ refused \subseteq Visited \cap DOMAIN feeRecipients

RInv == TypeOK /\ Phases /\ ReceivedBatch /\ LoopProgress
-----------------------------------------------------------------------------
\* A fee-recipient map is a function from some validators to addresses.
LEMMA FeeMapFacts ==
    ASSUME NEW f \in FeeRecipientMaps
    PROVE  /\ DOMAIN f \subseteq Validators
           /\ \A v \in DOMAIN f : f[v] \in Addresses
  BY DEF FeeRecipientMaps

LEMMA RInvInit == Init => RInv
  BY DEF Init, RInv, TypeOK, Phases, ReceivedBatch, LoopProgress,
         Visited, Registration

\* One iteration of the loop keeps every conjunct.
LEMMA BuildPreserves ==
    ASSUME RInv, NEW index \in Validators, BuildRegistration(index)
    PROVE  RInv'
  <1> USE DEF RInv
  <1>1. index \in todo /\ ~waiting /\ index \notin refused
    BY DEF BuildRegistration, Phases, LoopProgress, Visited
  <1>2. Visited' = Visited \cup {index}
    BY <1>1 DEF BuildRegistration, Visited, TypeOK
  <1>3. CASE index \in DOMAIN feeRecipients
                /\ regs' = regs \cup {[validator |-> index,
                                      feeRecipient |-> feeRecipients[index]]}
                /\ UNCHANGED refused
    <2>1. feeRecipients[index] \in Addresses
      BY <1>3, FeeMapFacts DEF TypeOK
    <2>2. TypeOK'
      BY <1>3, <2>1 DEF BuildRegistration, TypeOK, Registration
    <2> DEFINE R == [validator |-> index, feeRecipient |-> feeRecipients[index]]
    <2>3. {reg.validator : reg \in regs'} = {reg.validator : reg \in regs} \cup {index}
      <3>1. regs' = regs \cup {R}
        BY <1>3
      <3>2. R.validator = index
        OBVIOUS
      <3>3. QED
        BY <3>1, <3>2, Zenon
    <2>4. LoopProgress'
      BY <1>1, <1>2, <1>3, <2>3 DEF LoopProgress, BuildRegistration
    <2>5. QED
      BY <1>1, <1>3, <2>2, <2>4 DEF BuildRegistration, Phases, ReceivedBatch
  <1>4. CASE index \in DOMAIN feeRecipients
                /\ refused' = refused \cup {index}
                /\ UNCHANGED regs
    <2>1. TypeOK'
      BY <1>4, FeeMapFacts DEF BuildRegistration, TypeOK
    <2>2. index \in accounts /\ index \notin Visited
      BY <1>1 DEF TypeOK, Visited
    <2>3. {reg.validator : reg \in regs'} = {reg.validator : reg \in regs}
      BY <1>4
    <2>4. UNCHANGED <<accounts, feeRecipients>>
      BY DEF BuildRegistration
    <2>5. LoopProgress'
      BY <1>2, <1>4, <2>2, <2>3, <2>4 DEF LoopProgress
    <2>6. QED
      BY <1>1, <1>4, <2>1, <2>5 DEF BuildRegistration, Phases, ReceivedBatch
  <1>5. CASE index \notin DOMAIN feeRecipients
    <2>1. UNCHANGED <<regs, refused>> /\ feeRecipient' = ZeroAddress
      BY <1>5 DEF BuildRegistration
    <2>2. TypeOK'
      BY <2>1 DEF BuildRegistration, TypeOK
    <2>3. LoopProgress'
      BY <1>1, <1>2, <1>5, <2>1 DEF LoopProgress, BuildRegistration
    <2>4. QED
      BY <1>1, <2>1, <2>2, <2>3 DEF BuildRegistration, Phases, ReceivedBatch
  <1>6. QED
    BY <1>3, <1>4, <1>5 DEF BuildRegistration

LEMMA RInvStep == RInv /\ [Next]_vars => RInv'
  <1> SUFFICES ASSUME RInv, [Next]_vars PROVE RInv'
    OBVIOUS
  <1> USE DEF RInv
  <1>1. ASSUME NEW index \in Validators, BuildRegistration(index) PROVE RInv'
    BY <1>1, BuildPreserves
  <1>2. CASE StartSubmissions
    BY <1>2 DEF StartSubmissions, TypeOK, Phases, ReceivedBatch,
                LoopProgress, Visited
  <1>3. ASSUME NEW r \in Relays, SubmitToRelay(r) PROVE RInv'
    <2>1. waiting
      BY <1>3 DEF SubmitToRelay, Phases
    <2>2. TypeOK'
      BY <1>3 DEF SubmitToRelay, TypeOK
    <2>3. ReceivedBatch'
      BY <1>3 DEF SubmitToRelay, ReceivedBatch, TypeOK
    <2>4. QED
      BY <1>3, <2>1, <2>2, <2>3 DEF SubmitToRelay, Phases,
                                   LoopProgress, Visited
  <1>4. CASE Return
    BY <1>4 DEF Return, TypeOK, Phases, ReceivedBatch, LoopProgress,
                Visited
  <1>5. CASE Terminated \/ UNCHANGED vars
    <2>1. UNCHANGED vars
      BY <1>5 DEF Terminated
    <2>2. QED
      BY <2>1 DEF vars, TypeOK, Phases, ReceivedBatch, LoopProgress,
                  Visited
  <1>6. QED
    BY <1>1, <1>2, <1>3, <1>4, <1>5 DEF Next

LEMMA RInvImplies == RInv => TypeOK /\ CompleteBatch
  <1> SUFFICES ASSUME RInv PROVE TypeOK /\ CompleteBatch
    OBVIOUS
  <1> USE DEF RInv
  <1>1. CompleteBatch
    <2> SUFFICES ASSUME returned, NEW r \in Relays, relay[r] = "ok"
                 PROVE  {reg.validator : reg \in received[r]}
                          = (accounts \cap DOMAIN feeRecipients) \ refused
      BY DEF CompleteBatch
    <2>1. todo = {} /\ received[r] = regs
      BY DEF Phases, ReceivedBatch
    <2>2. Visited = accounts
      BY <2>1 DEF Visited
    <2>3. QED
      BY <2>1, <2>2 DEF LoopProgress
  <1>2. QED
    BY <1>1

\* Type correctness of the registration call for every set of validators,
\* addresses and relays.
THEOREM RegistrationsTypeCorrect == Spec => []TypeOK
  <1>1. Spec => []RInv
    BY RInvInit, RInvStep, PTL DEF Spec
  <1>2. QED
    BY <1>1, RInvImplies, PTL

\* When SubmitValidatorRegistrations returns, every relay that accepted
\* holds a registration for each account with a fee recipient the signer
\* did not refuse (lines 42-108).
THEOREM BatchComplete == Spec => []CompleteBatch
  <1>1. Spec => []RInv
    BY RInvInit, RInvStep, PTL DEF Spec
  <1>2. QED
    BY <1>1, RInvImplies, PTL
-----------------------------------------------------------------------------
(***************************************************************************)
(* Refinement of BatchBroadcast.  Phases is what the mapping needs: the   *)
(* loop adds to regs only before the goroutines start, and a relay is     *)
(* idle (outcome "none") until then.                                       *)
(***************************************************************************)
LEMMA BBBuild ==
    ASSUME RInv, NEW index \in Validators, BuildRegistration(index)
    PROVE  BB!Add(index) \/ UNCHANGED BB!vars
  <1> USE DEF RInv
  <1>1. ~waiting /\ UNCHANGED <<feeRecipients, waiting, relay, received, returned>>
    BY DEF BuildRegistration, Phases
  <1>2. Outcome' = Outcome
    BY <1>1 DEF Outcome
  <1>3. CASE index \in DOMAIN feeRecipients
                /\ regs' = regs \cup {[validator |-> index,
                                      feeRecipient |-> feeRecipients[index]]}
    BY <1>1, <1>2, <1>3 DEF BB!Add
  <1>4. CASE ~(index \in DOMAIN feeRecipients
                /\ regs' = regs \cup {[validator |-> index,
                                      feeRecipient |-> feeRecipients[index]]})
    <2>1. UNCHANGED regs
      BY <1>4 DEF BuildRegistration
    <2>2. QED
      BY <1>1, <1>2, <2>1 DEF BB!vars
  <1>5. QED
    BY <1>3, <1>4

LEMMA BBStep == RInv /\ [Next]_vars => [BB!Next]_BB!vars
  <1> SUFFICES ASSUME RInv, [Next]_vars PROVE [BB!Next]_BB!vars
    OBVIOUS
  <1> USE DEF RInv
  <1>0. /\ \A r \in Relays : Outcome[r] = "none" <=> relay[r] \in {"idle", "inflight"}
        /\ \A r \in Relays : Outcome'[r] = "none" <=> relay'[r] \in {"idle", "inflight"}
    <2>1. TypeOK'
      BY RInvStep
    <2>2. QED
      BY <2>1 DEF TypeOK, Outcome
  <1>1. ASSUME NEW index \in Validators, BuildRegistration(index)
        PROVE  [BB!Next]_BB!vars
    BY <1>1, BBBuild DEF BB!Next
  <1>2. CASE StartSubmissions
    <2>1. Outcome' = Outcome
      <3>1. \A r \in Relays : Outcome[r] = "none" /\ Outcome'[r] = "none"
        BY <1>0, <1>2 DEF StartSubmissions, Phases
      <3>2. QED
        BY <3>1 DEF Outcome
    <2>2. BB!Seal
      BY <1>2, <2>1 DEF StartSubmissions, BB!Seal
    <2>3. QED
      BY <2>2 DEF BB!Next
  <1>3. ASSUME NEW r \in Relays, SubmitToRelay(r) PROVE [BB!Next]_BB!vars
    <2>1. waiting /\ Outcome[r] = "none"
      BY <1>0, <1>3 DEF SubmitToRelay, Phases
    <2>2. Outcome' = [Outcome EXCEPT ![r] = relay'[r]] /\ relay'[r] \in {"ok", "failed"}
      BY <1>3 DEF SubmitToRelay, Outcome, TypeOK
    <2>3. CASE relay' = [relay EXCEPT ![r] = "ok"] /\ received' = [received EXCEPT ![r] = regs]
      <3>1. relay'[r] = "ok"
        BY <2>3 DEF TypeOK
      <3>2. BB!Answer(r)
        BY <1>3, <2>1, <2>2, <2>3, <3>1 DEF SubmitToRelay, BB!Answer
      <3>3. QED
        BY <3>2 DEF BB!Next
    <2>4. CASE relay' = [relay EXCEPT ![r] = "failed"] /\ UNCHANGED received
      <3>1. relay'[r] = "failed"
        BY <2>4 DEF TypeOK
      <3>2. BB!Answer(r)
        BY <1>3, <2>1, <2>2, <2>4, <3>1 DEF SubmitToRelay, BB!Answer
      <3>3. QED
        BY <3>2 DEF BB!Next
    <2>5. QED
      BY <1>3, <2>3, <2>4 DEF SubmitToRelay
  <1>4. CASE Return
    <2>1. \A r \in Relays : Outcome[r] # "none"
      BY <1>0, <1>4 DEF Return
    <2>2. Outcome' = Outcome
      BY <1>4 DEF Return, Outcome
    <2>3. BB!Finish
      BY <1>4, <2>1, <2>2 DEF Return, BB!Finish
    <2>4. QED
      BY <2>3 DEF BB!Next
  <1>5. CASE Terminated \/ UNCHANGED vars
    <2>1. UNCHANGED vars
      BY <1>5 DEF Terminated
    <2>2. QED
      BY <2>1 DEF vars, BB!vars, Outcome
  <1>6. QED
    BY <1>1, <1>2, <1>3, <1>4, <1>5 DEF Next

\* SubmitValidatorRegistrations implements BatchBroadcast for every set of
\* validators, addresses and relays: no relay is handed a batch the loop
\* of lines 42-85 is still building, and each relay answers once.
THEOREM BatchBroadcastRefinement == Spec => BatchBroadcastRefined
  <1>1. Init => BB!Init
    <2> SUFFICES ASSUME Init PROVE BB!Init
      OBVIOUS
    <2>1. Outcome = [r \in Relays |-> "none"]
      BY DEF Init, Outcome
    <2>2. QED
      BY <2>1 DEF Init, BB!Init, FeeRecipientMaps
  <1>2. Spec => []RInv
    BY RInvInit, RInvStep, PTL DEF Spec
  <1>3. QED
    BY <1>1, <1>2, BBStep, PTL DEF Spec, BatchBroadcastRefined, BB!Spec

\* Read through the mapping, the abstract SealedDelivery says that a relay
\* whose goroutine succeeded received regs as it stood when the loop ended,
\* with every fee recipient the configured one.
THEOREM SealedDeliveryRefined == Spec => []BB!SealedDelivery
  <1>1. BB!Spec => []BB!SealedDelivery
    BY BB!SealedDeliveryHolds
  <1>2. QED
    BY <1>1, BatchBroadcastRefinement DEF BatchBroadcastRefined
=============================================================================
