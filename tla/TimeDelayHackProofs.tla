------------------------- MODULE TimeDelayHackProofs -------------------------
(***************************************************************************)
(* Proofs about TimeDelayHack for every clock bound, set of tick steps,    *)
(* set of file contents and duration unit: the package variables stay     *)
(* well typed, and the file is read at most once a minute.  The second    *)
(* rests on the order of lines 19-22: lastRead is stamped before the file *)
(* is opened, so the last read never lies after the last stamp.           *)
(***************************************************************************)
EXTENDS TimeDelayHack, TLAPS

\* The clock never runs backwards past the stamp, a read is never later
\* than the stamp, and no read happened while lastRead is still zero.
ReadOrder ==
    /\ lastRead <= now
    /\ lastFileRead <= lastRead
    /\ lastRead = ZeroTime => lastFileRead = ZeroTime

RInv == TypeOK /\ ReadOrder

\* Every value the refresh of lines 22-32 returns or leaves in lag is one
\* of the lags the type allows.
LEMMA RefreshedType ==
    ASSUME lag \in Lags, NEW content \in Contents \cup {Missing}
    PROVE  /\ Refreshed(content).ret \in Lags
           /\ Refreshed(content).lag \in Lags
  <1>1. CASE content = Missing \/ ~AtoiOK(content)
    BY <1>1 DEF Refreshed, Lags
  <1>2. CASE content # Missing /\ AtoiOK(content)
    <2>1. content \in {c \in Contents : AtoiOK(c)}
      BY <1>2
    <2>2. AtoiValue(content) * Millisecond \in Lags
      BY <2>1 DEF Lags
    <2>3. QED
      BY <1>2, <2>2 DEF Refreshed
  <1>3. QED
    BY <1>1, <1>2

LEMMA RInvInit == Init => RInv
  <1> SUFFICES ASSUME Init PROVE RInv
    OBVIOUS
  <1>1. lag \in Lags /\ result \in Lags
    BY DEF Init, Lags
  <1>2. now \in 0..MaxTime /\ lastRead \in {ZeroTime} \cup 0..MaxTime
        /\ lastFileRead \in {ZeroTime} \cup 0..MaxTime /\ ReadOrder
    BY MaxTimeAssumption DEF Init, ReadOrder, ZeroTime
  <1>3. QED
    BY <1>1, <1>2 DEF Init, RInv, TypeOK

LEMMA RInvStep == RInv /\ [Next]_vars => RInv'
  <1> SUFFICES ASSUME RInv, [Next]_vars PROVE RInv'
    OBVIOUS
  <1> USE DEF RInv
  <1>1. CASE TimeDelayHack
    <2>1. CASE lastRead = ZeroTime \/ now - lastRead >= RefreshPeriod
      <3>1. result' \in Lags /\ lag' \in Lags
        BY <1>1, <2>1, RefreshedType DEF TimeDelayHack, TypeOK
      <3>2. QED
        BY <1>1, <2>1, <3>1 DEF TimeDelayHack, TypeOK, ReadOrder, ZeroTime
    <2>2. CASE ~(lastRead = ZeroTime \/ now - lastRead >= RefreshPeriod)
      BY <1>1, <2>2 DEF TimeDelayHack, TypeOK, ReadOrder
    <2>3. QED
      BY <2>1, <2>2
  <1>2. CASE Tick
    <2>1. now' \in 0..MaxTime /\ now <= now'
      BY <1>2, TickStepsAssumption DEF Tick, TypeOK
    <2>2. UNCHANGED <<lastRead, lag, envSet, file, result, lastFileRead,
                      windowResults>> /\ readFile' = FALSE
      BY <1>2 DEF Tick
    <2>3. ReadOrder'
      BY <2>1, <2>2 DEF ReadOrder, TypeOK, ZeroTime
    <2>4. QED
      BY <2>1, <2>2, <2>3 DEF TypeOK
  <1>3. CASE WriteFile
    BY <1>3 DEF WriteFile, TypeOK, ReadOrder
  <1>4. CASE UNCHANGED vars
    BY <1>4 DEF vars, TypeOK, ReadOrder
  <1>5. QED
    BY <1>1, <1>2, <1>3, <1>4 DEF Next

\* The package variables of time_delay_hack.go stay well typed in every
\* reachable state.
THEOREM TimeDelayHackTypeCorrect == Spec => []TypeOK
  <1>1. Spec => []RInv
    BY RInvInit, RInvStep, PTL DEF Spec
  <1>2. QED
    BY <1>1, PTL DEF RInv

\* A step that reads the file comes at least RefreshPeriod seconds after
\* the previous read, failed reads and parse errors included: line 19
\* stamps lastRead before line 22 opens the file.
LEMMA RereadStep ==
    RInv /\ [Next]_vars
      => [readFile' => lastFileRead = ZeroTime \/ now - lastFileRead >= RefreshPeriod]_vars
  <1> SUFFICES ASSUME RInv, [Next]_vars
               PROVE  [readFile' => lastFileRead = ZeroTime
                                    \/ now - lastFileRead >= RefreshPeriod]_vars
    OBVIOUS
  <1> USE DEF RInv
  <1>1. CASE TimeDelayHack
    <2>1. CASE lastRead = ZeroTime \/ now - lastRead >= RefreshPeriod
      <3>1. CASE lastRead = ZeroTime
        BY <3>1 DEF ReadOrder
      <3>2. CASE lastRead # ZeroTime
        <4>1. now - lastRead >= RefreshPeriod
          BY <2>1, <3>2
        <4>2. lastFileRead <= lastRead /\ now \in Int /\ lastRead \in Int
              /\ lastFileRead \in Int
          BY DEF ReadOrder, TypeOK, ZeroTime
        <4>3. QED
          BY <4>1, <4>2 DEF RefreshPeriod
      <3>3. QED
        BY <3>1, <3>2
    <2>2. CASE ~(lastRead = ZeroTime \/ now - lastRead >= RefreshPeriod)
      BY <1>1, <2>2 DEF TimeDelayHack
    <2>3. QED
      BY <2>1, <2>2
  <1>2. CASE Tick
    BY <1>2 DEF Tick
  <1>3. CASE WriteFile
    BY <1>3 DEF WriteFile
  <1>4. CASE UNCHANGED vars
    BY <1>4
  <1>5. QED
    BY <1>1, <1>2, <1>3, <1>4 DEF Next

\* The file named by $TIME_DELAY_HACK is read at most once a minute, for
\* every clock bound and every sequence of contents the operator writes.
THEOREM RereadAtMostOncePerMinuteHolds == Spec => RereadAtMostOncePerMinute
  <1>1. Spec => []RInv
    BY RInvInit, RInvStep, PTL DEF Spec
  <1>2. QED
    BY <1>1, RereadStep, PTL DEF Spec, RereadAtMostOncePerMinute

=============================================================================
