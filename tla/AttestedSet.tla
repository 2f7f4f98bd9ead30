----------------------------- MODULE AttestedSet -----------------------------
(***************************************************************************)
(* What the attested map of the attester service promises, with the calls *)
(* and the goroutines left out.  Validators are marked in an epoch, each  *)
(* at most once; a call votes only for validators marked in its epoch,    *)
(* and never for one another call already voted for there.  An epoch can *)
(* be forgotten; from then on the set vouches for nothing in it.  The     *)
(* attester service (module Attester) is shown to implement this.         *)
(***************************************************************************)
EXTENDS TLAPS

CONSTANTS Calls, Validators, Epochs

VARIABLES
    marks,      \* marks[e]: the validators marked in epoch e
    votes,      \* the votes cast: call, validator and epoch
    forgotten   \* the epochs whose marks were dropped

vars == <<marks, votes, forgotten>>

Init ==
    /\ marks = [e \in Epochs |-> {}]
    /\ votes = {}
    /\ forgotten = {}

\* Validator v is marked in epoch e, where it was not yet.
Mark(e, v) ==
    /\ v \notin marks[e]
    /\ marks' = [marks EXCEPT ![e] = @ \cup {v}]
    /\ UNCHANGED <<votes, forgotten>>

\* Call c votes in epoch e for the validators S.  Unless e was forgotten,
\* each of them is marked and has no vote of another call in e.
CastVotes(c, e, S) ==
    /\ e \notin forgotten =>
          \A v \in S :
             /\ v \in marks[e]
             /\ \A x \in votes : x.validator = v /\ x.epoch = e => x.call = c
    /\ votes' = votes \cup {[call |-> c, validator |-> v, epoch |-> e] : v \in S}
    /\ UNCHANGED <<marks, forgotten>>

\* The marks of epoch e are dropped.
Forget(e) ==
    /\ marks' = [marks EXCEPT ![e] = {}]
    /\ forgotten' = forgotten \cup {e}
    /\ UNCHANGED votes

Next ==
    \/ \E e \in Epochs, v \in Validators : Mark(e, v)
    \/ \E c \in Calls, e \in Epochs, S \in SUBSET Validators : CastVotes(c, e, S)
    \/ \E e \in Epochs : Forget(e)

Spec == Init /\ [][Next]_vars

-----------------------------------------------------------------------------
\* In an epoch never forgotten, all votes for a validator come from one call.
OneVoter ==
    \A x, y \in votes :
        x.validator = y.validator /\ x.epoch = y.epoch /\ x.epoch \notin forgotten
            => x.call = y.call

\* OneVoter holds in every state of the abstract specification: the guard
\* of CastVotes keeps it, and Forget only adds to the exempt epochs.
THEOREM OneVoterHolds == Spec => []OneVoter
  <1>1. Init => OneVoter
    BY DEF Init, OneVoter
  <1>2. OneVoter /\ [Next]_vars => OneVoter'
    <2> SUFFICES ASSUME OneVoter, [Next]_vars PROVE OneVoter'
      OBVIOUS
    <2>1. ASSUME NEW e \in Epochs, NEW v \in Validators, Mark(e, v) PROVE OneVoter'
      BY <2>1 DEF Mark, OneVoter
    <2>2. ASSUME NEW c \in Calls, NEW e \in Epochs, NEW S \in SUBSET Validators,
                 CastVotes(c, e, S)
          PROVE  OneVoter'
      BY <2>2 DEF CastVotes, OneVoter
    <2>3. ASSUME NEW e \in Epochs, Forget(e) PROVE OneVoter'
      BY <2>3 DEF Forget, OneVoter
    <2>4. CASE UNCHANGED vars
      BY <2>4 DEF vars, OneVoter
    <2>5. QED
      BY <2>1, <2>2, <2>3, <2>4 DEF Next
  <1>3. QED
    BY <1>1, <1>2, PTL DEF Spec

=============================================================================
