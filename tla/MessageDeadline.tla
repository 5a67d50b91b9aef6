-------------------------- MODULE MessageDeadline --------------------------
(***************************************************************************)
(* loadDeadline() of PosixMessageQueue: the absolute time, on the clock    *)
(* of CLOCK_REALTIME, at which mq_timedsend() and mq_timedreceive() give   *)
(* up.  The kernel refuses a time whose nanoseconds make a second or more. *)
(* That clock can be set while a call waits.  The nanoseconds are added in *)
(* a long; the seconds, a time_t, have no bound here.                      *)
(***************************************************************************)
EXTENDS Integers

CONSTANTS
  MsPerSecond,     \* 1000
  NsPerMs,         \* 1000 * 1000
  MaxTimeout,      \* bound: the longest timeout, in milliseconds
  MaxSecond,       \* bound: the last second of the clock
  LongMax          \* the largest long of a 32-bit target

ASSUME UnitsAssumption == MsPerSecond \in Nat \ {0} /\ NsPerMs \in Nat \ {0}
ASSUME LongAssumption == LongMax \in Nat /\ 2 * MsPerSecond * NsPerMs <= LongMax
ASSUME BoundsAssumption == MaxTimeout \in Nat /\ MaxSecond \in Nat

NsPerSecond == MsPerSecond * NsPerMs
Time == [sec : Nat, nsec : 0 .. NsPerSecond - 1]
Ns(time) == time.sec * NsPerSecond + time.nsec
\* What the whole seconds of the timeout leave.
Milliseconds(timeout) == timeout % MsPerSecond
\* tv_nsec before it is normalised: a long.
RawNsec(now, timeout) == now.nsec + Milliseconds(timeout) * NsPerMs

\* Mutant of Deadline: a full second of nanoseconds is left as it is.
DeadlineOffByOne(now, timeout) ==
  LET nsec == RawNsec(now, timeout)
      sec == now.sec + timeout \div MsPerSecond
  IN  IF nsec > NsPerSecond
      THEN [sec |-> sec + nsec \div NsPerSecond, nsec |-> nsec % NsPerSecond]
      ELSE [sec |-> sec, nsec |-> nsec]

Deadline(now, timeout) ==
  LET nsec == RawNsec(now, timeout)
      sec == now.sec + timeout \div MsPerSecond
  IN  IF nsec >= NsPerSecond
      THEN [sec |-> sec + nsec \div NsPerSecond, nsec |-> nsec % NsPerSecond]
      ELSE [sec |-> sec, nsec |-> nsec]
-----------------------------------------------------------------------------
VARIABLES
  clock,       \* CLOCK_REALTIME
  deadline,    \* of the call that waits
  waiting,     \* the timeout of that call; -1 when none waits
  waited,      \* nanoseconds since it began; 0 once the clock was set
  stepped      \* history: the clock was set while it waited

deadlineVars == <<clock, deadline, waiting, waited, stepped>>

TimeOf(ns) == [sec |-> ns \div NsPerSecond, nsec |-> ns % NsPerSecond]
Clocks == {TimeOf(ns) : ns \in 0 .. (MaxSecond + 1) * NsPerSecond - 1}

DeadlineTypeOK ==
  /\ clock \in Time
  /\ deadline \in Time
  /\ waiting \in -1 .. MaxTimeout
  /\ waited \in Nat
  /\ stepped \in BOOLEAN

DeadlineInit ==
  /\ clock \in Clocks
  /\ deadline = clock
  /\ waiting = -1
  /\ waited = 0
  /\ stepped = FALSE

\* A negative timeout is refused.
Wait(timeout) ==
  /\ waiting = -1
  /\ timeout >= 0
  /\ deadline' = Deadline(clock, timeout)
  /\ waiting' = timeout
  /\ waited' = 0
  /\ stepped' = FALSE
  /\ UNCHANGED clock

Passed == Ns(clock) >= Ns(deadline)

\* The kernel's timer fires on time.
Tick ==
  /\ waiting # -1 => ~Passed
  /\ Ns(clock) < (MaxSecond + 1) * NsPerSecond - 1
  /\ clock' = TimeOf(Ns(clock) + 1)
  /\ waited' = IF waiting = -1 \/ stepped THEN 0 ELSE waited + 1
  /\ UNCHANGED <<deadline, waiting, stepped>>

TimesOut ==
  /\ waiting # -1
  /\ Passed
  /\ waiting' = -1
  /\ UNCHANGED <<clock, deadline, waited, stepped>>

SetClock ==
  /\ clock' \in Clocks
  /\ stepped' = (stepped \/ waiting # -1)
  /\ waited' = 0
  /\ UNCHANGED <<deadline, waiting>>

DeadlineNext ==
  \/ \E timeout \in -1 .. MaxTimeout : Wait(timeout)
  \/ Tick \/ TimesOut \/ SetClock

DeadlineSpec == DeadlineInit /\ [][DeadlineNext]_deadlineVars
-----------------------------------------------------------------------------
\* A call waits its timeout to the nanosecond, neither less nor more, however
\* the fraction of a second carries; unless the clock is set meanwhile.
WaitsItsTimeout ==
  waiting # -1 /\ ~stepped =>
    /\ Ns(deadline) - Ns(clock) = waiting * NsPerMs - waited
    /\ waited <= waiting * NsPerMs

\* The sum of nanoseconds fits a 32-bit long, whatever the clock shows.
NoOverflow == \A timeout \in 0 .. MaxTimeout : RawNsec(clock, timeout) <= LongMax

\* Both, and every deadline is a time the kernel accepts.
WaitsExactly == DeadlineTypeOK /\ WaitsItsTimeout /\ NoOverflow
=============================================================================
