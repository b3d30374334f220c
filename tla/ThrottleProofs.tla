--------------------------- MODULE ThrottleProofs ---------------------------
(***************************************************************************)
(* The throttle keeps the rate for every rate, chunk size and idle time.   *)
(***************************************************************************)
EXTENDS Throttle, TLAPS

\* The bytes of this window that were let go.
Gone == bytes_in_window - asleep

\* Earlier windows are paid for by the time before this one, the bytes of this window
\* by the time in it, and a window that holds the mark cannot grow beyond the idle time
\* and a chunk.
Paced ==
  /\ TypeOK
  /\ asleep <= bytes_in_window
  /\ Gone <= Elapsed
  /\ asleep > 0 => Gone <= since - window_start /\ window_start <= since
  /\ sent - Gone <= window_start
  /\ \/ window_start < mark /\ after <= Gone
     \/ window_start >= mark /\ after - Gone <= (window_start - mark) + IDLE_RESET + MaxChunk

\* The first window is empty.
LEMMA PacedInit == Init => Paced
BY ThrottleAssumption DEF Init, Paced, TypeOK, Gone, Elapsed

\* Every step keeps the account: pace adds a chunk to it, Wake and pace let go only
\* what the time in the window has paid for, and a new window begins with nothing.
LEMMA PacedNext == Paced /\ [Next]_vars => Paced'
<1> SUFFICES ASSUME Paced, [Next]_vars PROVE Paced'
  OBVIOUS
<1> USE ThrottleAssumption DEF Paced, TypeOK, Gone, Elapsed
<1>1. ASSUME NEW len \in 1 .. MaxChunk, pace(len) PROVE Paced'
  <2>1. CASE Expired
    <3>1. window_start' = now /\ bytes_in_window' = len
      BY <1>1, <2>1 DEF pace, Renewed
    <3>2. asleep' = len /\ sent' = sent /\ after' = after
      BY <1>1, <3>1 DEF pace, Release
    <3> QED
      BY <1>1, <3>1, <3>2 DEF pace
  <2>2. CASE ~Expired
    <3>1. window_start' = window_start /\ bytes_in_window' = bytes_in_window + len
      BY <1>1, <2>2 DEF pace
    <3>2. Elapsed <= IDLE_RESET
      BY <2>2 DEF Expired
    <3>3. CASE bytes_in_window' > now - window_start'
      BY <1>1, <3>1, <3>2, <3>3 DEF pace
    <3>4. CASE ~(bytes_in_window' > now - window_start')
      BY <1>1, <3>1, <3>2, <3>4 DEF pace, Release
    <3> QED
      BY <3>3, <3>4
  <2> QED
    BY <2>1, <2>2
<1>2. CASE Wake
  BY <1>2 DEF Wake, Release
<1>3. CASE new
  BY <1>3 DEF new
<1>4. CASE Tick
  BY <1>4 DEF Tick
<1>5. CASE Mark
  BY <1>5 DEF Mark
<1>6. CASE UNCHANGED vars
  BY <1>6 DEF vars
<1> QED
  BY <1>1, <1>2, <1>3, <1>4, <1>5, <1>6 DEF Next

\* The account is kept from the start.
THEOREM AlwaysPaced == Spec => []Paced
BY PacedInit, PacedNext, PTL DEF Spec

\* bytes_in_window stays within two seconds' worth and a chunk, so that it cannot
\* overflow, and every variable keeps its type.
THEOREM TypeCorrect == Spec => []TypeOK
<1>1. Paced => TypeOK
  BY DEF Paced
<1> QED
  BY <1>1, AlwaysPaced, PTL

\* The configured rate is kept over all windows, files and retries.
THEOREM RateKept == Spec => []RateIsKept
<1>1. Paced => RateIsKept
  BY ThrottleAssumption DEF Paced, TypeOK, Gone, Elapsed, RateIsKept
<1> QED
  BY <1>1, AlwaysPaced, PTL

\* From any moment on, the excess over the rate is at most two seconds' worth and a
\* chunk.
THEOREM BurstBounded == Spec => []BurstIsBounded
<1>1. Paced => BurstIsBounded
  BY ThrottleAssumption DEF Paced, TypeOK, Gone, Elapsed, BurstIsBounded
<1> QED
  BY <1>1, AlwaysPaced, PTL

\* A chunk waits no longer than its bytes take at the rate.
THEOREM SleepBounded == Spec => []SleepIsShort
<1>1. Paced => SleepIsShort
  BY ThrottleAssumption DEF Paced, TypeOK, Gone, Elapsed, SleepIsShort
<1> QED
  BY <1>1, AlwaysPaced, PTL

=============================================================================
