---------------------------- MODULE TimeDelayHack ----------------------------
(***************************************************************************)
(* TimeDelayHack (src/util/time_delay_hack.go): a process-wide lag read   *)
(* from the file named by $TIME_DELAY_HACK, kept in the package variables *)
(* lastRead and lag and refreshed when a minute has passed since the last *)
(* attempt.  Time is in whole seconds; the file's content is a sequence of *)
(* characters, and strconv.Atoi is modelled by what it accepts and what   *)
(* it computes.  No code under src/ calls the function, so one caller is  *)
(* modelled; the operator may rewrite or remove the file at any moment.   *)
(***************************************************************************)
EXTENDS Integers, Sequences

CONSTANTS
    Contents,       \* the contents the file may be given (character sequences)
    MaxTime,        \* the last second modelled
    TickSteps,      \* the clock advances by one of these between calls
    Millisecond,    \* time.Millisecond in the unit of the lag (nanoseconds)
    Missing         \* the file does not exist (ReadFile fails)

ASSUME MaxTimeAssumption == MaxTime \in Nat
ASSUME TickStepsAssumption == TickSteps \subseteq Nat \ {0}

\* The refresh period of line 18, time.Second*60.
RefreshPeriod == 60

\* time.Time's zero value, which IsZero reports; no clock reading is negative.
ZeroTime == -1

\* The decimal digits, and the value of each.
DigitChars == <<"0", "1", "2", "3", "4", "5", "6", "7", "8", "9">>

Digit == [c \in {DigitChars[i] : i \in 1..10} |-> CHOOSE n \in 0..9 : DigitChars[n + 1] = c]

\* strconv.Atoi: an optional sign, then at least one decimal digit and
\* nothing else (no space, no newline).
Unsigned(s) == IF Len(s) > 0 /\ s[1] \in {"+", "-"} THEN Tail(s) ELSE s

AtoiOK(s) ==
    /\ Len(Unsigned(s)) > 0
    /\ \A i \in 1..Len(Unsigned(s)) : Unsigned(s)[i] \in DOMAIN Digit

AtoiValue(s) ==
    LET u == Unsigned(s)
        magnitude[i \in 0..Len(u)] ==
            IF i = 0 THEN 0 ELSE 10 * magnitude[i - 1] + Digit[u[i]]
    IN  IF Len(s) > 0 /\ s[1] = "-" THEN -magnitude[Len(u)] ELSE magnitude[Len(u)]

VARIABLES
    now,            \* the clock, in seconds
    lastRead,       \* the package variable lastRead
    lag,            \* the package variable lag
    envSet,         \* $TIME_DELAY_HACK names a file
    file,           \* the file's content, or Missing
    result,         \* what the last call returned
    readFile,       \* history: the last step read the file
    lastFileRead,   \* history: when the file was last read
    windowResults   \* history: the values returned since the last refresh

vars == <<now, lastRead, lag, envSet, file, result, readFile, lastFileRead,
          windowResults>>

Lags == {AtoiValue(s) * Millisecond : s \in {c \in Contents : AtoiOK(c)}} \cup {0}

TypeOK ==
    /\ now \in 0..MaxTime
    /\ lastRead \in {ZeroTime} \cup 0..MaxTime
    /\ lag \in Lags
    /\ envSet \in BOOLEAN
    /\ file \in Contents \cup {Missing}
    /\ result \in Lags
    /\ readFile \in BOOLEAN
    /\ lastFileRead \in {ZeroTime} \cup 0..MaxTime
    /\ windowResults \subseteq Lags

Init ==
    /\ now = 0
    /\ lastRead = ZeroTime
    /\ lag = 0
    /\ envSet \in BOOLEAN
    /\ file \in Contents \cup {Missing}
    /\ result = 0
    /\ readFile = FALSE
    /\ lastFileRead = ZeroTime
    /\ windowResults = {}

\* Mutant of Refreshed: the number is taken as the duration itself, without
\* the time.Millisecond unit of line 32.
RefreshedNoUnit(content) ==
    IF content = Missing \/ ~AtoiOK(content)
      THEN [ret |-> 0, lag |-> lag]
      ELSE [ret |-> AtoiValue(content), lag |-> AtoiValue(content)]

\* Lines 22-32 once the file is read: the value the call returns and the
\* lag it leaves behind.
Refreshed(content) ==
    IF content = Missing \/ ~AtoiOK(content)
      THEN [ret |-> 0, lag |-> lag]
      ELSE [ret |-> AtoiValue(content) * Millisecond,
            lag |-> AtoiValue(content) * Millisecond]

\* Mutant of TimeDelayHack: lastRead is stamped only once the lag is
\* parsed, so a failed read is retried on the next call.
TimeDelayHackLateStamp ==
    /\ IF lastRead = ZeroTime \/ now - lastRead >= RefreshPeriod
         THEN /\ readFile' = envSet
              /\ lastFileRead' = IF envSet THEN now ELSE lastFileRead
              /\ IF envSet
                   THEN /\ result' = Refreshed(file).ret
                        /\ lag' = Refreshed(file).lag
                        /\ lastRead' = IF file # Missing /\ AtoiOK(file)
                                         THEN now ELSE lastRead
                   ELSE /\ result' = lag
                        /\ lastRead' = now
                        /\ UNCHANGED lag
              /\ windowResults' = {result'}
         ELSE /\ result' = lag
              /\ windowResults' = windowResults \cup {lag}
              /\ readFile' = FALSE
              /\ UNCHANGED <<lastRead, lag, lastFileRead>>
    /\ UNCHANGED <<now, envSet, file>>

(***************************************************************************)
(* Lines 17-36: one call.  When lastRead is zero or a minute old it is    *)
(* stamped first (line 19); then, if the variable names a file, a read or *)
(* parse error returns 0 and leaves lag as it was, and a parsed number   *)
(* becomes the lag.  Otherwise the cached lag is returned.               *)
(***************************************************************************)
TimeDelayHack ==
    /\ IF lastRead = ZeroTime \/ now - lastRead >= RefreshPeriod
         THEN /\ lastRead' = now
              /\ readFile' = envSet
              /\ lastFileRead' = IF envSet THEN now ELSE lastFileRead
              /\ IF envSet
                   THEN /\ result' = Refreshed(file).ret
                        /\ lag' = Refreshed(file).lag
                   ELSE /\ result' = lag
                        /\ UNCHANGED lag
              /\ windowResults' = {result'}
         ELSE /\ result' = lag
              /\ windowResults' = windowResults \cup {lag}
              /\ readFile' = FALSE
              /\ UNCHANGED <<lastRead, lag, lastFileRead>>
    /\ UNCHANGED <<now, envSet, file>>

\* The clock advances between calls.
Tick ==
    /\ \E d \in TickSteps : now + d <= MaxTime /\ now' = now + d
    /\ readFile' = FALSE
    /\ UNCHANGED <<lastRead, lag, envSet, file, result, lastFileRead,
                   windowResults>>

\* The operator rewrites the file, or removes it.
WriteFile ==
    /\ \E c \in (Contents \cup {Missing}) \ {file} : file' = c
    /\ readFile' = FALSE
    /\ UNCHANGED <<now, lastRead, lag, envSet, result, lastFileRead,
                   windowResults>>

Next == TimeDelayHack \/ Tick \/ WriteFile

Spec == Init /\ [][Next]_vars

-----------------------------------------------------------------------------
\* The file is read at most once a minute, failed reads included: a call
\* that reads it comes a full refresh period after the previous read.  The
\* code guarantees this by stamping lastRead before it opens the file.
RereadAtMostOncePerMinute ==
    [][readFile' => lastFileRead = ZeroTime \/ now - lastFileRead >= RefreshPeriod]_vars

\* A cached value: every call between two refreshes returns the same
\* duration (spec: a process-wide cached value refreshed at most once per
\* minute).  A failed refresh returns 0 and the calls after it the old lag.
ConsistentWithinWindow ==
    \A x, y \in windowResults : x = y

=============================================================================
