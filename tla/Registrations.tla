---------------------------- MODULE Registrations ----------------------------
(***************************************************************************)
(* SubmitValidatorRegistrations of the block relay service (src/services/ *)
(* blockrelay/standard/submitvalidatorregistrations.go).  One call builds  *)
(* a signed registration per validating account, in Go's random map order,*)
(* skipping accounts without a fee recipient and those the signer refuses,*)
(* then starts one goroutine per registrations submitter and waits for all*)
(* of them on a WaitGroup.  The relays answer in any order, or fail.       *)
(***************************************************************************)
EXTENDS FiniteSets

CONSTANTS
    Validators,     \* validator indices
    Addresses,      \* execution addresses a fee recipient may be
    ZeroAddress,    \* the zero value of bellatrix.ExecutionAddress
    Relays          \* s.validatorRegistrationsSubmitters

ASSUME ZeroAddressAssumption == ZeroAddress \notin Addresses

\* A registration, abstracted to whom it registers and the fee recipient it
\* names; the gas limit, the timestamp and the signature are left out.  A
\* registration never names the zero address.
Registration == [validator : Validators, feeRecipient : Addresses]

\* The maps passed in: accounts by index, and fee recipients by index (a
\* partial map: an index may have none).
FeeRecipientMaps == UNION {[D -> Addresses] : D \in SUBSET Validators}

VARIABLES
    accounts,       \* the accounts argument (its key set)
    feeRecipients,  \* the feeRecipients argument
    todo,           \* accounts the range loop has not visited yet
    feeRecipient,   \* the loop variable declared before the loop (line 41)
    regs,           \* signedRegistrations
    relay,          \* relay[r]: "idle", "inflight", "ok" or "failed"
    received,       \* received[r]: the registrations relay r accepted
    waiting,        \* the goroutines are started and wg.Wait is reached
    returned,       \* the call has returned (nil)
    refused         \* history: accounts the signer refused

vars == <<accounts, feeRecipients, todo, feeRecipient, regs, relay, received,
          waiting, returned, refused>>

TypeOK ==
    /\ accounts \subseteq Validators
    /\ feeRecipients \in FeeRecipientMaps
    /\ todo \subseteq accounts
    /\ feeRecipient \in Addresses \cup {ZeroAddress}
    /\ regs \subseteq Registration
    /\ relay \in [Relays -> {"idle", "inflight", "ok", "failed"}]
    /\ received \in [Relays -> SUBSET Registration]
    /\ waiting \in BOOLEAN
    /\ returned \in BOOLEAN
    /\ refused \subseteq Validators

Init ==
    /\ accounts \in SUBSET Validators
    /\ feeRecipients \in FeeRecipientMaps
    /\ todo = accounts
    /\ feeRecipient = ZeroAddress
    /\ regs = {}
    /\ relay = [r \in Relays |-> "idle"]
    /\ received = [r \in Relays |-> {}]
    /\ waiting = FALSE
    /\ returned = FALSE
    /\ refused = {}

\* Mutant of BuildRegistration: a refused signature ends the loop ("return"
\* in place of "continue").
BuildRegistrationBreak(index) ==
    /\ index \in todo
    /\ IF index \in DOMAIN feeRecipients
         THEN /\ feeRecipient' = feeRecipients[index]
              /\ \/ /\ regs' = regs \cup {[validator |-> index,
                                          feeRecipient |-> feeRecipients[index]]}
                    /\ todo' = todo \ {index}
                    /\ UNCHANGED refused
                 \/ /\ refused' = refused \cup {index}
                    /\ todo' = {}
                    /\ UNCHANGED regs
         ELSE /\ feeRecipient' = ZeroAddress
              /\ todo' = todo \ {index}
              /\ UNCHANGED <<regs, refused>>
    /\ UNCHANGED <<accounts, feeRecipients, relay, received, waiting, returned>>

\* Mutant of BuildRegistration: a missing fee recipient is logged but the
\* loop goes on with the zero address the map lookup left in feeRecipient.
BuildRegistrationNoSkip(index) ==
    /\ index \in todo
    /\ todo' = todo \ {index}
    /\ feeRecipient' = IF index \in DOMAIN feeRecipients
                         THEN feeRecipients[index] ELSE ZeroAddress
    /\ \/ /\ regs' = regs \cup {[validator |-> index, feeRecipient |-> feeRecipient']}
          /\ UNCHANGED refused
       \/ /\ refused' = refused \cup {index}
          /\ UNCHANGED regs
    /\ UNCHANGED <<accounts, feeRecipients, relay, received, waiting, returned>>

(***************************************************************************)
(* Lines 42-85: one iteration of the loop over accounts.  The map lookup   *)
(* writes feeRecipient (the zero address when absent) and a missing entry  *)
(* skips the account; otherwise the registration is signed, and a signing *)
(* error skips it too.                                                     *)
(***************************************************************************)
BuildRegistration(index) ==
    /\ index \in todo
    /\ todo' = todo \ {index}
    /\ IF index \in DOMAIN feeRecipients
         THEN /\ feeRecipient' = feeRecipients[index]
              /\ \/ /\ regs' = regs \cup {[validator |-> index,
                                          feeRecipient |-> feeRecipients[index]]}
                    /\ UNCHANGED refused
                 \/ /\ refused' = refused \cup {index}
                    /\ UNCHANGED regs
         ELSE /\ feeRecipient' = ZeroAddress
              /\ UNCHANGED <<regs, refused>>
    /\ UNCHANGED <<accounts, feeRecipients, relay, received, waiting, returned>>

\* Mutant of StartSubmissions: the goroutines are started inside the loop
\* rather than after it, before every account has been visited.
StartSubmissionsEarly ==
    /\ ~waiting
    /\ relay' = [r \in Relays |-> "inflight"]
    /\ waiting' = TRUE
    /\ UNCHANGED <<accounts, feeRecipients, todo, feeRecipient, regs, received,
                   returned, refused>>

(***************************************************************************)
(* Lines 94-104: after the loop, wg.Add(1) and a goroutine per submitter.  *)
(***************************************************************************)
StartSubmissions ==
    /\ todo = {}
    /\ ~waiting
    /\ relay' = [r \in Relays |-> "inflight"]
    /\ waiting' = TRUE
    /\ UNCHANGED <<accounts, feeRecipients, todo, feeRecipient, regs, received,
                   returned, refused>>

(***************************************************************************)
(* Lines 98-103: one goroutine's SubmitValidatorRegistrations returns; an *)
(* error is logged.  Either way the deferred wg.Done runs.                 *)
(***************************************************************************)
SubmitToRelay(r) ==
    /\ relay[r] = "inflight"
    /\ \/ /\ relay' = [relay EXCEPT ![r] = "ok"]
          /\ received' = [received EXCEPT ![r] = regs]
       \/ /\ relay' = [relay EXCEPT ![r] = "failed"]
          /\ UNCHANGED received
    /\ UNCHANGED <<accounts, feeRecipients, todo, feeRecipient, regs, waiting,
                   returned, refused>>

(***************************************************************************)
(* Lines 105-108: wg.Wait, then return nil whatever the relays answered.   *)
(***************************************************************************)
Return ==
    /\ waiting
    /\ ~returned
    /\ \A r \in Relays : relay[r] \in {"ok", "failed"}
    /\ returned' = TRUE
    /\ UNCHANGED <<accounts, feeRecipients, todo, feeRecipient, regs, relay,
                   received, waiting, refused>>

\* The call has returned: nothing more happens.
Terminated ==
    /\ returned
    /\ UNCHANGED vars

Next ==
    \/ \E index \in Validators : BuildRegistration(index)
    \/ StartSubmissions
    \/ \E r \in Relays : SubmitToRelay(r)
    \/ Return
    \/ Terminated

Spec == Init /\ [][Next]_vars

-----------------------------------------------------------------------------
\* When the call returns, every relay that accepted the batch got a
\* registration for each account that has a fee recipient and that the
\* signer did not refuse: one refusal does not cost the other accounts
\* their registration.
CompleteBatch ==
    returned =>
        \A r \in Relays : relay[r] = "ok" =>
            {reg.validator : reg \in received[r]}
                = (accounts \cap DOMAIN feeRecipients) \ refused

-----------------------------------------------------------------------------
(***************************************************************************)
(* Refinement: the call implements BatchBroadcast.  The batch is regs, it *)
(* is sealed once the goroutines are started, a relay has an outcome once *)
(* its goroutine returned, and what it took is what it received.  Loop    *)
(* iterations that skip an account are stutters.                           *)
(***************************************************************************)
Outcome == [r \in Relays |-> IF relay[r] \in {"ok", "failed"} THEN relay[r] ELSE "none"]

BB == INSTANCE BatchBroadcast WITH feeMap <- feeRecipients, batch <- regs,
                                   sealed <- waiting, outcome <- Outcome,
                                   got <- received, done <- returned

\* SubmitValidatorRegistrations implements BatchBroadcast: relays are only
\* handed the batch after the loop over accounts has finished, each relay
\* takes it or fails once, and the call returns after the last of them.
BatchBroadcastRefined == BB!Spec

=============================================================================
