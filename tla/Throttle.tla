------------------------------ MODULE Throttle ------------------------------
(***************************************************************************)
(* The bandwidth limit of a sender (src/throttle.rs).  Every chunk of a    *)
(* body passes pace, which sleeps before it lets the chunk go; a retry or  *)
(* the next file has a throttle of its own.                                *)
(*                                                                         *)
(* The unit of time is what one byte takes at the configured rate, so that *)
(* bytes / rate is a number of units; the clock is exact.  A sleep may     *)
(* last longer than asked, and any time may pass between two chunks.       *)
(***************************************************************************)
EXTENDS Integers

CONSTANTS
  IDLE_RESET,   \* two seconds
  MaxChunk,     \* the largest chunk a stream hands out
  MaxTime       \* bound on the clock

ASSUME ThrottleAssumption ==
  /\ IDLE_RESET \in Nat
  /\ MaxChunk \in Nat
  /\ MaxTime \in Nat

VARIABLES
  now,
  window_start,
  bytes_in_window,
  asleep,       \* the chunk that pace holds back, 0 if none
  since,        \* when it was handed to pace
  sent,         \* bytes let go so far
  mark,         \* a moment, chosen once,
  after         \* and the bytes let go after it

vars == <<now, window_start, bytes_in_window, asleep, since, sent, mark, after>>

TypeOK ==
  /\ now \in 0 .. MaxTime
  /\ window_start \in 0 .. now /\ since \in 0 .. now /\ mark \in 0 .. now
  /\ bytes_in_window \in 0 .. (IDLE_RESET + MaxChunk)
  /\ asleep \in 0 .. MaxChunk
  /\ sent \in Nat /\ after \in 0 .. sent

Init ==
  /\ now = 0 /\ window_start = 0 /\ bytes_in_window = 0
  /\ asleep = 0 /\ since = 0 /\ sent = 0
  /\ mark = 0 /\ after = 0

-----------------------------------------------------------------------------
Elapsed == now - window_start

Release(len) == sent' = sent + len /\ after' = after + len

\* Mutant: the window is never renewed.
Expired_Never == FALSE

Expired == Elapsed > IDLE_RESET

\* Mutant: only the bytes are forgotten.
Renewed_KeepsStart(len) == window_start' = window_start /\ bytes_in_window' = len

Renewed(len) == window_start' = now /\ bytes_in_window' = len

\* The chunk is accounted for and goes at once if that is not too early.
pace(len) ==
  /\ asleep = 0
  /\ IF Expired
     THEN Renewed(len)
     ELSE bytes_in_window' = bytes_in_window + len /\ UNCHANGED window_start
  /\ IF bytes_in_window' > now - window_start'
     THEN asleep' = len /\ UNCHANGED <<sent, after>>
     ELSE asleep' = 0 /\ Release(len)
  /\ since' = now
  /\ UNCHANGED <<now, mark>>

\* The sleep is over.
Wake ==
  /\ asleep > 0
  /\ Elapsed >= bytes_in_window
  /\ Release(asleep)
  /\ asleep' = 0
  /\ UNCHANGED <<now, window_start, bytes_in_window, since, mark>>

\* The next file or attempt; a chunk that was held back is dropped with its body.
new ==
  /\ window_start' = now /\ bytes_in_window' = 0
  /\ asleep' = 0
  /\ UNCHANGED <<now, since, sent, mark, after>>

Tick ==
  /\ now < MaxTime
  /\ now' = now + 1
  /\ UNCHANGED <<window_start, bytes_in_window, asleep, since, sent, mark, after>>

Mark ==
  /\ mark = 0
  /\ mark' = now /\ after' = 0
  /\ UNCHANGED <<now, window_start, bytes_in_window, asleep, since, sent>>

Next == (\E len \in 1 .. MaxChunk : pace(len)) \/ Wake \/ new \/ Tick \/ Mark

Spec == Init /\ [][Next]_vars

-----------------------------------------------------------------------------
(***************************************************************************)
(* Properties                                                              *)
(***************************************************************************)
\* "cumulative throughput never exceeds the configured rate": over all windows, files
\* and retries of a transfer, not only within a window.
RateIsKept == sent <= now

\* "Without this, a long stall would be followed by an unthrottled burst": from any
\* moment on, what is sent exceeds the rate by no more than two seconds' worth and a
\* chunk, however long the stall before it was.
BurstIsBounded == after <= (now - mark) + IDLE_RESET + MaxChunk

\* The throttle does not hold back more than it must: when it is handed to pace, no
\* chunk has to wait longer than its own bytes take at the rate.
SleepIsShort == asleep > 0 => window_start + bytes_in_window <= since + asleep

=============================================================================
