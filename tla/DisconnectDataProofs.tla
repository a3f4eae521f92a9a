------------------------- MODULE DisconnectDataProofs -------------------------
(***************************************************************************)
(* The timeout of a closing connection is right for every width of the     *)
(* clock, every limit and every bound on the time between polls.           *)
(***************************************************************************)
EXTENDS DisconnectData, TLAPS

\* While a connection closes, the recorded time is that many ticks behind the
\* clock, and the poll before the last tick found it within its limit.
Recorded ==
  /\ phase = "open" => ~disconnected
  /\ phase = "closing" =>
       /\ disconnected
       /\ age <= kDisconnectMaxMillis + sincePoll
       /\ ElapsedDisconnectTime = age
  /\ phase # "closing" => age = 0

IInv == TypeOK /\ Recorded

USE ClockAssumption

\* At first no connection is closing.
LEMMA InitIInv == Init => IInv
BY DEF Init, IInv, TypeOK, Recorded

\* One tick more on the clock is one more of elapsed time, also when the clock
\* wraps around, as long as the elapsed time is below the modulus.
LEMMA ElapsedAdvances ==
  ASSUME TypeOK, ClockAdvances, UNCHANGED disconnectTime,
         ElapsedDisconnectTime < ClockModulus - 1
  PROVE  ElapsedDisconnectTime' = ElapsedDisconnectTime + 1
BY DEF TypeOK, ClockAdvances, ElapsedDisconnectTime

\* Every step keeps the invariant.
LEMMA NextIInv == IInv /\ [Next]_vars => IInv'
<1> SUFFICES ASSUME IInv, [Next]_vars
             PROVE  IInv'
  OBVIOUS
<1> USE DEF IInv
<1>1. CASE Tick
  <2>1. TypeOK'
    BY <1>1 DEF Tick, ClockAdvances, TypeOK
  <2>2. CASE phase = "closing"
    <3>1. age < ClockModulus - 1
      BY <1>1, <2>2 DEF Tick, TypeOK, Recorded
    <3>2. ElapsedDisconnectTime' = age + 1
      BY <1>1, <2>2, <3>1, ElapsedAdvances DEF Tick, Recorded
    <3> QED
      BY <1>1, <2>1, <2>2, <3>2 DEF Tick, TypeOK, Recorded
  <2>3. CASE phase # "closing"
    BY <1>1, <2>1, <2>3 DEF Tick, Recorded
  <2> QED
    BY <2>2, <2>3
<1>2. CASE PollOpen
  <2>1. TypeOK'
    <3>1. disconnected' \in BOOLEAN
      BY <1>2 DEF PollOpen, Reset
    <3>2. disconnectTime' \in 0 .. ClockModulus - 1 /\ sincePoll' \in 0 .. MaxGap
      BY <1>2 DEF PollOpen, Reset
    <3> QED
      BY <1>2, <3>1, <3>2 DEF PollOpen, TypeOK
  <2>2. phase' = "open" /\ age' = 0 /\ disconnected' = FALSE
    BY <1>2 DEF PollOpen, Reset, Recorded
  <2> QED
    BY <2>1, <2>2 DEF Recorded
<1>3. CASE Close
  <2>1. TypeOK'
    BY <1>3 DEF Close, RecordDisconnect, TypeOK
  <2>2. CASE phase = "open"
    <3>1. ElapsedDisconnectTime' = 0
      BY <1>3, <2>2 DEF Close, RecordDisconnect, Recorded, ElapsedDisconnectTime, TypeOK
    <3> QED
      BY <1>3, <2>1, <2>2, <3>1 DEF Close, RecordDisconnect, Recorded, TypeOK
  <2>3. CASE phase = "closing"
    <3>1. ElapsedDisconnectTime' = ElapsedDisconnectTime
      BY <1>3, <2>3 DEF Close, RecordDisconnect, Recorded, ElapsedDisconnectTime
    <3> QED
      BY <1>3, <2>1, <2>3, <3>1 DEF Close, RecordDisconnect, Recorded
  <2> QED
    BY <1>3, <2>2, <2>3 DEF Close
<1>4. CASE ConnectionEnded
  BY <1>4 DEF ConnectionEnded, RecordDisconnect, TypeOK, Recorded
<1>5. CASE PollListening
  BY <1>5 DEF PollListening, TypeOK, Recorded
<1>6. CASE DetectCloseTimeout
  <2>1. TypeOK'
    BY <1>6 DEF DetectCloseTimeout, TypeOK
  <2>2. CASE TimedOut
    BY <1>6, <2>1, <2>2 DEF DetectCloseTimeout, Recorded
  <2>3. CASE ~TimedOut
    <3>1. age <= kDisconnectMaxMillis
      BY <1>6, <2>3 DEF DetectCloseTimeout, TimedOut, Recorded, TypeOK
    <3>2. ElapsedDisconnectTime' = ElapsedDisconnectTime
      BY <1>6 DEF DetectCloseTimeout, ElapsedDisconnectTime
    <3> QED
      BY <1>6, <2>1, <2>3, <3>1, <3>2 DEF DetectCloseTimeout, Recorded
  <2> QED
    BY <2>2, <2>3
<1>7. CASE ChipCloses
  BY <1>7 DEF ChipCloses, TypeOK, Recorded
<1>8. CASE SocketLost
  BY <1>8 DEF SocketLost, RecordDisconnect, TypeOK, Recorded
<1>9. CASE UNCHANGED vars
  BY <1>9 DEF vars, TypeOK, Recorded, ElapsedDisconnectTime
<1> QED
  BY <1>1, <1>2, <1>3, <1>4, <1>5, <1>6, <1>7, <1>8, <1>9 DEF Next

\* The inductive invariant holds in every behaviour.
LEMMA Invariance == Spec => []IInv
BY InitIInv, NextIInv, PTL DEF Spec

-----------------------------------------------------------------------------

\* What DetectCloseTimeout computes from the wrapping clock is the truth.
THEOREM TimeoutRight == Spec => []TimeoutIsTrue
<1>1. IInv => TimeoutIsTrue
  BY DEF IInv, Recorded, TimeoutIsTrue, TimedOut
<1> QED
  BY <1>1, Invariance, PTL

\* A closing connection is given up within one round of the loop after its limit.
THEOREM CloseBounded == Spec => []ClosesInTime
<1>1. IInv => ClosesInTime
  BY DEF IInv, TypeOK, Recorded, ClosesInTime
<1> QED
  BY <1>1, Invariance, PTL
=============================================================================
