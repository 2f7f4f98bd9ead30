---------------------------- MODULE MC_Attester ----------------------------
(***************************************************************************)
(* Small instances of Attester for TLC.  One slot per epoch, so that three *)
(* slots give the three epochs that housekeeping (epoch - 2) needs.        *)
(***************************************************************************)
EXTENDS Attester, TLC

\* Duties for slot 0 (epoch 0) and slot 2 (epoch 2).  The two epoch-0
\* duties share validator 1: the same duty scheduled twice, as when the
\* controller re-schedules the handlers of a slot after a reorg.
MCDuties ==
    {[slot |-> 0, validators |-> <<1, 2>>],
     [slot |-> 0, validators |-> <<1>>],
     [slot |-> 2, validators |-> <<2>>]}

MCSymmetry == Permutations(Calls)
=============================================================================
