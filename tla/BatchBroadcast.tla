---------------------------- MODULE BatchBroadcast ----------------------------
(***************************************************************************)
(* What SubmitValidatorRegistrations promises its caller, with the loop    *)
(* order, the signer and the goroutines left out.  A batch of             *)
(* registrations, each naming its validator's own fee recipient, grows    *)
(* until it is sealed; then every relay answers once, taking exactly the  *)
(* sealed batch or failing, and the call returns after the last answer.   *)
(* The registration model (module Registrations) is shown to implement it.*)
(***************************************************************************)
EXTENDS TLAPS

CONSTANTS Validators, Addresses, Relays

VARIABLES
    feeMap,     \* the fee recipients configured, by validator
    batch,      \* the registrations in the batch
    sealed,     \* the batch is sealed and handed to the relays
    outcome,    \* outcome[r]: "none", "ok" or "failed"
    got,        \* got[r]: what relay r took
    done        \* the call has returned

vars == <<feeMap, batch, sealed, outcome, got, done>>

Init ==
    /\ feeMap \in UNION {[D -> Addresses] : D \in SUBSET Validators}
    /\ batch = {}
    /\ sealed = FALSE
    /\ outcome = [r \in Relays |-> "none"]
    /\ got = [r \in Relays |-> {}]
    /\ done = FALSE

\* A registration of v with its own fee recipient joins the open batch.
Add(v) ==
    /\ ~sealed
    /\ v \in DOMAIN feeMap
    /\ batch' = batch \cup {[validator |-> v, feeRecipient |-> feeMap[v]]}
    /\ UNCHANGED <<feeMap, sealed, outcome, got, done>>

Seal ==
    /\ ~sealed
    /\ sealed' = TRUE
    /\ UNCHANGED <<feeMap, batch, outcome, got, done>>

\* Relay r answers once: it takes the sealed batch, or fails.
Answer(r) ==
    /\ sealed
    /\ outcome[r] = "none"
    /\ \/ /\ outcome' = [outcome EXCEPT ![r] = "ok"]
          /\ got' = [got EXCEPT ![r] = batch]
       \/ /\ outcome' = [outcome EXCEPT ![r] = "failed"]
          /\ UNCHANGED got
    /\ UNCHANGED <<feeMap, batch, sealed, done>>

Finish ==
    /\ sealed
    /\ ~done
    /\ \A r \in Relays : outcome[r] # "none"
    /\ done' = TRUE
    /\ UNCHANGED <<feeMap, batch, sealed, outcome, got>>

Next ==
    \/ \E v \in Validators : Add(v)
    \/ Seal
    \/ \E r \in Relays : Answer(r)
    \/ Finish

Spec == Init /\ [][Next]_vars

-----------------------------------------------------------------------------
\* What a relay took is the batch as sealed, and names only configured fee
\* recipients.
SealedDelivery ==
    \A r \in Relays :
        /\ outcome[r] = "ok" => sealed /\ got[r] = batch
        /\ \A reg \in got[r] : reg.validator \in DOMAIN feeMap
                                /\ reg.feeRecipient = feeMap[reg.validator]

\* SealedDelivery holds in every state of the abstract specification: the
\* batch never changes once sealed, and only own-fee registrations join it.
THEOREM SealedDeliveryHolds == Spec => []SealedDelivery
  <1> DEFINE Own == \A reg \in batch : reg.validator \in DOMAIN feeMap
                                      /\ reg.feeRecipient = feeMap[reg.validator]
             Inv == SealedDelivery /\ Own
                    /\ outcome \in [Relays -> {"none", "ok", "failed"}]
                    /\ got \in [Relays -> SUBSET batch]
                    /\ (~sealed => \A r \in Relays : outcome[r] = "none" /\ got[r] = {})
  <1>1. Init => Inv
    BY DEF Init, SealedDelivery
  <1>2. Inv /\ [Next]_vars => Inv'
    <2> SUFFICES ASSUME Inv, [Next]_vars PROVE Inv'
      OBVIOUS
    <2>1. ASSUME NEW v \in Validators, Add(v) PROVE Inv'
      BY <2>1 DEF Add, SealedDelivery
    <2>2. CASE Seal
      BY <2>2 DEF Seal, SealedDelivery
    <2>3. ASSUME NEW r \in Relays, Answer(r) PROVE Inv'
      BY <2>3 DEF Answer, SealedDelivery
    <2>4. CASE Finish
      BY <2>4 DEF Finish, SealedDelivery
    <2>5. CASE UNCHANGED vars
      BY <2>5 DEF vars, SealedDelivery
    <2>6. QED
      BY <2>1, <2>2, <2>3, <2>4, <2>5 DEF Next
  <1>3. QED
    BY <1>1, <1>2, PTL DEF Spec

=============================================================================
