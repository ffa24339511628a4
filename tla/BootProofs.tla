----------------------------- MODULE BootProofs ------------------------------
(***************************************************************************)
(* A boot, and what is booted.  The boot driver never leaves QEMU running  *)
(* unreported, never exceeds its time, and passes only what the log        *)
(* proves, for any markers, any logs and any positive timeouts; and the    *)
(* digest that firmware checks before it starts a binary covers its        *)
(* content once, for binaries of any size with any number of sections.     *)
(***************************************************************************)
EXTENDS BootTest, PeImage, WellFoundedInduction, TLAPS

-----------------------------------------------------------------------------
\* The boot driver.


\* The timeouts are positive numbers (validate_lifecycle, _validate_deadlines).
LEMMA Timeouts ==
  /\ QmpTimeout \in Nat \ {0} /\ BootTimeout \in Nat \ {0}
  /\ ShutdownTimeout \in Nat \ {0} /\ StopTimeout \in Nat \ {0}
  /\ Lifecycle \in Nat
  BY BootAssumption DEF BootAssumption, Lifecycle

\* The invariant holds before the first step of _boot.
LEMMA InitIInv == Init => IInv
  BY Timeouts DEF Init, IInv, TimeTypes, QemuInv, TimeInv, ExportInv, Locations, Waits, Preparing,
     QmpLoop, BootLoop, Stopping

\* Every step of the driver preserves it.
LEMMA DriverIInv ==
  ASSUME IInv, Driver
  PROVE  IInv'
<1> USE Timeouts DEF IInv, TimeTypes, QemuInv, TimeInv, ExportInv, Locations, Waits, Preparing,
        QmpLoop, BootLoop, Stopping, driverVars, guestVars, logVars,
        Goto, Raise, NoWait, Wait, StopWith, Lifecycle
<1>1. CASE RunKernelPreflight \/ CopyVariables \/ PrepareShares
  BY <1>1, Zenon DEF RunKernelPreflight, CopyVariables, PrepareShares, Prepare
<1>2. CASE StartQemu
  BY <1>2, Zenon DEF StartQemu
<1>3. CASE TryQmp
  BY <1>3 DEF TryQmp, AtLeastOne
<1>4. CASE Connect
  BY <1>4, Zenon DEF Connect, AtLeastOne
<1>5. CASE ConnectFails
  BY <1>5, Zenon DEF ConnectFails, Retry
<1>6. CASE Receive
  BY <1>6 DEF Receive
<1>7. CASE ReceiveEvent
  BY <1>7, Zenon DEF ReceiveEvent
<1>8. CASE ReceiveFails
  BY <1>8, Zenon DEF ReceiveFails, Retry
<1>9. CASE RetryQmp \/ ObserveAgain
  BY <1>9, Zenon DEF RetryQmp, ObserveAgain, Slept
<1>10. CASE Observe
  BY <1>10, Zenon DEF Observe
<1>11. CASE Decide
  BY <1>11 DEF Decide
<1>12. CASE Poll
  BY <1>12 DEF Poll
<1>13. CASE CheckDeadline
  BY <1>13 DEF CheckDeadline
<1>14. CASE AwaitExit
  BY <1>14 DEF AwaitExit
<1>15. CASE CheckStatus \/ CheckShutdownMarkers
  BY <1>15 DEF CheckStatus, CheckShutdownMarkers
<1>16. CASE Stop
  BY <1>16 DEF Stop
<1>17. CASE Terminate
  BY <1>17 DEF Terminate
<1>18. CASE Kill
  BY <1>18 DEF Kill
<1>19. CASE EnsureStopped
  BY <1>19 DEF EnsureStopped
<1>20. CASE Export
  <2>1. ExportInv'
    <3>1. \/ exported' = [as |-> "log", log |-> Bounded(serial)]
          \/ exported' \in NotALog
      BY <1>20, Zenon DEF Export, Ended
    <3>2. \A x \in NotALog : x.as # "log"
      BY DEF NotALog, NoExport
    <3>3. [as |-> "log", log |-> Bounded(serial)].log = Bounded(serial)
      OBVIOUS
    <3>4. serial' = serial
      BY <1>20, Zenon DEF Export, Ended
    <3> QED
      BY <3>1, <3>2, <3>3, <3>4, Zenon
  <2>2. TimeTypes' /\ QemuInv' /\ TimeInv'
    BY <1>20, Zenon DEF Export, Ended
  <2> HIDE DEF TimeTypes, QemuInv, TimeInv, ExportInv
  <2> QED
    BY <2>1, <2>2, Zenon
<1> HIDE DEF IInv
<1> QED
  BY <1>1, <1>2, <1>3, <1>4, <1>5, <1>6, <1>7, <1>8, <1>9, <1>10, <1>11, <1>12, <1>13, <1>14, <1>15, <1>16, <1>17, <1>18, <1>19, <1>20, Zenon DEF Driver

\* So does what happens around it: an interrupt, the guest, QEMU, the clock.
LEMMA SurroundingsIInv ==
  ASSUME IInv, Interrupt \/ GuestWrites \/ QemuExits \/ Tick \/ UNCHANGED vars
  PROVE  IInv'
<1> USE Timeouts DEF IInv, TimeTypes, QemuInv, TimeInv, ExportInv, Locations, Waits, Preparing,
        QmpLoop, BootLoop, Stopping, driverVars, guestVars, logVars,
        Goto, NoWait, Lifecycle
<1>1. CASE Interrupt
  BY <1>1 DEF Interrupt
<1>2. CASE GuestWrites
  BY <1>2 DEF GuestWrites
<1>3. CASE QemuExits
  BY <1>3 DEF QemuExits
<1>4. CASE Tick
  BY <1>4 DEF Tick
<1>5. CASE UNCHANGED vars
  BY <1>5 DEF vars
<1> HIDE DEF IInv
<1> QED
  BY Zenon, <1>1, <1>2, <1>3, <1>4, <1>5

\* IInv is an invariant of the driver and its surroundings.
THEOREM InductiveInvariant == Spec => []IInv
<1>1. IInv /\ [Next]_vars => IInv'
  BY DriverIInv, SurroundingsIInv DEF Next
<1> QED
  BY <1>1, InitIInv, PTL DEF Spec

\* _ensure_stopped: a QEMU that is left running is always reported.
THEOREM NoQemuLeftHolds == Spec => []NoQemuLeft
<1>1. IInv => NoQemuLeft
  BY DEF IInv, QemuInv, NoQemuLeft
<1> QED
  BY <1>1, InductiveInvariant, PTL

\* _bounded_content: what is kept of a log is within the limit, is all of it if
\* it fits, and else ends as the log does.
LEMMA BoundedIs ==
  ASSUME NEW S, NEW s \in Seq(S)
  PROVE  /\ Len(Bounded(s)) <= Limit
         /\ Len(s) <= Limit => Bounded(s) = s
         /\ Len(s) > Limit /\ Limit > 1 => Bounded(s)[Len(Bounded(s))] = s[Len(s)]
<1>1. Limit \in Nat /\ Len(s) \in Nat
  BY BootAssumption DEF BootAssumption
<1>2. CASE Len(s) <= Limit
  BY <1>1, <1>2 DEF Bounded
<1>3. CASE Len(s) > Limit /\ Limit <= 1
  <2>1. Bounded(s) = SubSeq(s, 1, Limit)
    BY <1>1, <1>3 DEF Bounded
  <2>2. Len(SubSeq(s, 1, Limit)) = Limit
    BY <1>1, <1>3
  <2> QED
    BY <1>1, <1>3, <2>1, <2>2
<1>4. CASE Len(s) > Limit /\ Limit > 1
  <2> DEFINE kept == Limit - 1
             head == kept \div 2
             first == SubSeq(s, 1, head)
             from == Len(s) - (kept - head) + 1
             last == SubSeq(s, from, Len(s))
  <2>1. /\ kept \in Nat /\ head \in Nat /\ head < kept /\ kept < Len(s)
        /\ from \in Nat /\ from >= 1 /\ from <= Len(s) /\ Len(s) - from + 1 = kept - head
    BY <1>1, <1>4
  <2>2. Bounded(s) = first \o <<Omitted>> \o last
    BY <1>1, <1>4 DEF Bounded
  <2> HIDE DEF kept, head, from
  <2>3. first \in Seq(S) /\ Len(first) = head /\ last \in Seq(S) /\ Len(last) = kept - head
    BY <1>1, <2>1
  <2>4. last[kept - head] = s[Len(s)]
    BY <1>1, <2>1
  <2> HIDE DEF first, last
  <2>5. Len(first \o <<Omitted>> \o last) = Limit
    BY <1>1, <2>1, <2>3 DEF kept
  <2>6. (first \o <<Omitted>> \o last)[Limit] = last[kept - head]
    BY <1>1, <2>1, <2>3 DEF kept
  <2> QED
    BY <1>1, <1>4, <2>2, <2>4, <2>5, <2>6
<1> QED
  BY <1>1, <1>2, <1>3, <1>4

\* validate_deadlines: the deadlines and the cleanup margin are enough for
\* everything after QMP initialization, for any positive timeouts.
THEOREM FitsTestTimeoutHolds == Spec => []FitsTestTimeout
<1>1. IInv => FitsTestTimeout
  BY Timeouts, BootAssumption
  DEF IInv, TimeTypes, TimeInv, FitsTestTimeout, BootAssumption, Lifecycle, Locations,
      Waits, Preparing, QmpLoop, BootLoop, Stopping
<1> QED
  BY <1>1, InductiveInvariant, PTL

-----------------------------------------------------------------------------
\* The verdict.  Each recursive definition is unfolded once, and what it computes
\* is shown by the least argument for which it would not hold.

\* A set of numbers that is not empty has a least one.
LEMMA Least ==
  ASSUME NEW S \in SUBSET Nat, S # {}
  PROVE  \E x \in S : \A y \in S : x <= y
<1>1. \E x \in S : \A y \in S : ~(<<y, x>> \in OpToRel(<, Nat))
  BY NatLessThanWellFounded, WFMin, Zenon
<1>2. PICK x \in S : \A y \in S : ~(<<y, x>> \in OpToRel(<, Nat))
  BY <1>1, Zenon
<1>3. ASSUME NEW y \in S, y < x PROVE FALSE
  <2>1. <<y, x>> \in OpToRel(<, Nat)
    BY <1>3 DEF OpToRel
  <2> QED
    BY <1>2, <2>1, Zenon
<1> QED
  BY <1>3

\* bytes.find: the least position at or after i, or none.
LEMMA FindIs ==
  ASSUME NEW s, Len(s) \in Nat, NEW m, NEW i \in Nat \ {0}
  PROVE  /\ Find(s, m, i) \in Nat
         /\ Find(s, m, i) # 0 => /\ i <= Find(s, m, i) /\ Find(s, m, i) <= Len(s)
                                 /\ s[Find(s, m, i)] = m
         /\ \A j \in i..Len(s) : s[j] = m => Find(s, m, i) # 0 /\ Find(s, m, i) <= j
<1> DEFINE found == {j \in i..Len(s) : s[j] = m}
           least == CHOOSE j \in found : \A k \in found : j <= k
<1>1. Find(s, m, i) = IF found = {} THEN 0 ELSE least
  BY Zenon DEF Find
<1>2. CASE found = {}
  BY <1>1, <1>2
<1>3. CASE found # {}
  <2>1. found \in SUBSET Nat
    OBVIOUS
  <2>2. \E x \in found : \A y \in found : x <= y
    BY <1>3, <2>1, Least, Zenon
  <2>3. least \in found /\ \A k \in found : least <= k
    BY <2>2, Zenon
  <2> HIDE DEF least
  <2> QED
    BY <1>1, <1>3, <2>3
<1> QED
  BY Zenon, <1>2, <1>3

\* The position behind each progress marker, from the one before.
Behind(s, f, k) ==
    IF k = 0 THEN 1
    ELSE IF f[k - 1] = 0 THEN 0
    ELSE LET found == Find(s, Progress[k], f[k - 1])
         IN  IF found = 0 THEN 0 ELSE found + 1
\* f has the positions up to the n-th marker.
Positions(s, f, n) == f \in [0..n -> Nat] /\ \A k \in 0..n : f[k] = Behind(s, f, k)

\* _ordered_progress computes such positions, and returns the last of them.
LEMMA AfterIsLast ==
  ASSUME NEW s, Len(s) \in Nat
  PROVE  \E f : Positions(s, f, Len(Progress)) /\ After(s) = f[Len(Progress)]
<1> DEFINE N == Len(Progress)
<1>0. N \in Nat
  BY ProgressAssumption
<1>1. \A n \in 0..N : \E f : Positions(s, f, n)
  <2> DEFINE T == {n \in 0..N : ~\E f : Positions(s, f, n)}
  <2>1. T = {}
    <3> SUFFICES ASSUME T # {} PROVE FALSE
      OBVIOUS
    <3>1. T \in SUBSET Nat
      BY <1>0
    <3>2. PICK n \in T : \A y \in T : n <= y
      BY <3>1, Least, Zenon
    <3>3. n # 0
      <4> DEFINE f == [k \in 0..0 |-> 1]
      <4>1. Positions(s, f, 0)
        BY DEF Positions, Behind
      <4> QED
        BY <4>1, <3>2, Zenon
    <3>4. n - 1 \in 0..N /\ n \in Nat /\ ~(n <= n - 1)
      BY <3>2, <3>3, <1>0
    <3>5. n - 1 \notin T
      BY <3>2, <3>4, Zenon
    <3>6. PICK f : Positions(s, f, n - 1)
      BY <3>4, <3>5, Zenon
    <3> DEFINE g == [k \in 0..n |-> IF k = n THEN Behind(s, f, n) ELSE f[k]]
    <3>7. f[n - 1] \in Nat /\ \A k \in 0..(n - 1) : f[k] \in Nat /\ f[k] = Behind(s, f, k)
      BY <3>3, <3>4, <3>6 DEF Positions
    <3>8. Behind(s, f, n) \in Nat
      <4>1. f[n - 1] # 0 => Find(s, Progress[n], f[n - 1]) \in Nat
        BY Zenon, <3>7, FindIs
      <4> QED
        BY <3>3, <3>7, <4>1 DEF Behind
    <3>9. g \in [0..n -> Nat]
      BY <3>4, <3>7, <3>8
    <3>10. \A k \in 0..n : g[k] = Behind(s, g, k)
      <4> SUFFICES ASSUME NEW k \in 0..n PROVE g[k] = Behind(s, g, k)
        OBVIOUS
      <4>1. k # 0 => g[k - 1] = f[k - 1]
        BY <3>4
      <4>2. g[k] = Behind(s, f, k)
        BY <3>4, <3>7
      <4> HIDE DEF g
      <4>3. Behind(s, g, k) = Behind(s, f, k)
        BY <4>1, Zenon DEF Behind
      <4> QED
        BY <4>2, <4>3, Zenon
    <3>11. Positions(s, g, n)
      BY <3>9, <3>10, Zenon DEF Positions
    <3> QED
      BY <3>2, <3>11, Zenon
  <2> QED
    BY <2>1, Zenon
<1>2. PICK f : Positions(s, f, N)
  BY <1>0, <1>1
<1> DEFINE F(g) == [k \in 0..N |-> Behind(s, g, k)]
           after == CHOOSE g : g = F(g)
<1>3. f = F(f)
  BY <1>2 DEF Positions
<1>4. after = F(after)
  BY <1>3, Zenon
<1>5. After(s) = after[N]
  BY Zenon DEF After, Behind
<1> HIDE DEF after
<1>6. \A k \in 0..N : after[k] = Behind(s, after, k)
  BY <1>4
<1>7. \A k \in 0..N : after[k] = f[k]
  <2> DEFINE T == {k \in 0..N : after[k] # f[k]}
  <2>1. T = {}
    <3> SUFFICES ASSUME T # {} PROVE FALSE
      OBVIOUS
    <3>1. T \in SUBSET Nat
      BY <1>0
    <3>2. PICK n \in T : \A y \in T : n <= y
      BY <3>1, Least, Zenon
    <3>3. n # 0 => n - 1 \in 0..N /\ ~(n <= n - 1)
      BY <3>2, <1>0
    <3>4. n # 0 => after[n - 1] = f[n - 1]
      BY <3>2, <3>3, Zenon
    <3>5. Behind(s, after, n) = Behind(s, f, n)
      BY <3>4, Zenon DEF Behind
    <3> QED
      BY <3>2, <3>5, <1>6, <1>2, Zenon DEF Positions
  <2> QED
    BY <2>1, Zenon
<1> QED
  BY <1>0, <1>2, <1>5, <1>7

\* An order that holds from each position to the next holds of all.
LEMMA Ascending ==
  ASSUME NEW n \in Nat, NEW h, \A k \in 1..n : h[k] \in Nat,
         \A k \in 1..n : k # n => h[k] < h[k + 1]
  PROVE  \A i, j \in 1..n : i < j => h[i] < h[j]
<1> SUFFICES ASSUME NEW i \in 1..n PROVE \A j \in 1..n : i < j => h[i] < h[j]
  OBVIOUS
<1> DEFINE T == {j \in 1..n : i < j /\ ~(h[i] < h[j])}
<1>1. T = {}
  <2> SUFFICES ASSUME T # {} PROVE FALSE
    OBVIOUS
  <2>1. T \in SUBSET Nat
    OBVIOUS
  <2>2. PICK j \in T : \A y \in T : j <= y
    BY <2>1, Least, Zenon
  <2>3. j - 1 \in 1..n /\ j - 1 # n /\ (j - 1) + 1 = j /\ ~(j <= j - 1) /\ i <= j - 1 /\ j \in 1..n
    BY <2>2
  <2>4. h[j - 1] < h[(j - 1) + 1]
    BY <2>3, Zenon
  <2>5. i < j - 1 => h[i] < h[j - 1]
    BY <2>2, <2>3, Zenon
  <2>6. h[i] \in Nat /\ h[j] \in Nat /\ h[j - 1] \in Nat /\ ~(h[i] < h[j])
    BY <2>2, <2>3, Zenon
  <2> QED
    BY <2>3, <2>4, <2>5, <2>6
<1> QED
  BY <1>1, Zenon

\* The list of markers that a boot is to show.
Shown == Append(Progress, Ready)
\* Its length and its members.
LEMMA ShownIs ==
  /\ Len(Progress) \in Nat /\ DOMAIN Shown = 1..(Len(Progress) + 1)
  /\ \A k \in 1..Len(Progress) : Shown[k] = Progress[k]
  /\ Shown[Len(Progress) + 1] = Ready
  BY ProgressAssumption DEF Shown

\* If _observe finds readiness behind the progress markers, they are in order.
LEMMA FoundInOrder ==
  ASSUME NEW s, Len(s) \in Nat, DOMAIN s = 1..Len(s), ReadinessOffset(s) # 0
  PROVE  ReadyInOrder(s)
<1> DEFINE N == Len(Progress)
           r == ReadinessOffset(s)
<1>0. N \in Nat
  BY ShownIs
<1>1. PICK f : Positions(s, f, N) /\ After(s) = f[N]
  BY AfterIsLast
<1>2. f[N] # 0 /\ r = Find(s, Ready, f[N])
  BY <1>1 DEF ReadinessOffset
<1>3. \A k \in 0..N : f[k] \in Nat /\ f[k] = Behind(s, f, k)
  BY <1>1, Zenon DEF Positions
<1>4. \A k \in 0..N : f[k] # 0
  <2> DEFINE T == {k \in 0..N : f[N - k] = 0}
  <2>1. T = {}
    <3> SUFFICES ASSUME T # {} PROVE FALSE
      OBVIOUS
    <3>1. T \in SUBSET Nat
      BY <1>0
    <3>2. PICK k \in T : \A y \in T : k <= y
      BY <3>1, Least, Zenon
    <3>3. k # 0
      BY <1>0, <1>2, <3>2
    <3>4. /\ k - 1 \in 0..N /\ ~(k <= k - 1) /\ N - (k - 1) \in 0..N /\ N - (k - 1) # 0
          /\ (N - (k - 1)) - 1 = N - k
      BY <1>0, <3>2, <3>3
    <3>5. f[N - (k - 1)] # 0
      BY <3>2, <3>4, Zenon
    <3>6. f[N - k] = 0
      BY <3>2, Zenon
    <3> QED
      BY <1>3, <3>4, <3>5, <3>6, Zenon DEF Behind
  <2> SUFFICES ASSUME NEW k \in 0..N PROVE f[k] # 0
    OBVIOUS
  <2>2. N - k \in 0..N /\ N - (N - k) = k
    BY <1>0
  <2> QED
    BY <2>1, <2>2, Zenon
<1> DEFINE at == [k \in 1..(N + 1) |-> IF k = N + 1 THEN r ELSE f[k] - 1]
<1>5. \A k \in 1..N : /\ k - 1 \in 0..N /\ f[k - 1] \in Nat \ {0} /\ f[k] \in Nat \ {0}
                      /\ Find(s, Progress[k], f[k - 1]) = f[k] - 1 /\ f[k] - 1 # 0
  <2> SUFFICES ASSUME NEW k \in 1..N
               PROVE  /\ k - 1 \in 0..N /\ f[k - 1] \in Nat \ {0} /\ f[k] \in Nat \ {0}
                      /\ Find(s, Progress[k], f[k - 1]) = f[k] - 1 /\ f[k] - 1 # 0
    BY Zenon
  <2>1. k - 1 \in 0..N /\ k \in 0..N /\ k # 0
    BY <1>0
  <2>2. f[k - 1] \in Nat /\ f[k - 1] # 0 /\ f[k] \in Nat /\ f[k] # 0 /\ f[k] = Behind(s, f, k)
    BY <2>1, <1>3, <1>4, Zenon
  <2>3. Find(s, Progress[k], f[k - 1]) \in Nat
    BY Zenon, <2>2, FindIs
  <2>4. f[k] = IF Find(s, Progress[k], f[k - 1]) = 0 THEN 0 ELSE Find(s, Progress[k], f[k - 1]) + 1
    BY <2>1, <2>2, Zenon DEF Behind
  <2> QED
    BY <2>1, <2>2, <2>3, <2>4
<1>6. \A k \in 1..N : /\ f[k] - 1 \in Nat /\ f[k - 1] <= f[k] - 1 /\ f[k] - 1 <= Len(s)
                      /\ s[f[k] - 1] = Progress[k]
  <2> SUFFICES ASSUME NEW k \in 1..N
               PROVE  /\ f[k] - 1 \in Nat /\ f[k - 1] <= f[k] - 1 /\ f[k] - 1 <= Len(s)
                      /\ s[f[k] - 1] = Progress[k]
    OBVIOUS
  <2>1. f[k - 1] \in Nat \ {0} /\ Find(s, Progress[k], f[k - 1]) = f[k] - 1 /\ f[k] - 1 # 0
    BY <1>5, Zenon
  <2>2. /\ Find(s, Progress[k], f[k - 1]) \in Nat
        /\ Find(s, Progress[k], f[k - 1]) # 0 =>
             /\ f[k - 1] <= Find(s, Progress[k], f[k - 1]) /\ Find(s, Progress[k], f[k - 1]) <= Len(s)
             /\ s[Find(s, Progress[k], f[k - 1])] = Progress[k]
    BY <2>1, FindIs, Zenon
  <2> QED
    BY <2>1, <2>2, Zenon
<1>7. r \in Nat /\ f[N] \in Nat \ {0} /\ f[N] <= r /\ r <= Len(s) /\ s[r] = Ready
  <2>1. f[N] \in Nat \ {0}
    BY <1>0, <1>3, <1>4
  <2> HIDE DEF r
  <2>2. r # 0
    BY DEF r
  <2> QED
    BY Zenon, <1>2, <2>1, <2>2, FindIs
<1> HIDE DEF r
<1>8. at \in [1..(N + 1) -> 1..Len(s)]
  <2> SUFFICES ASSUME NEW k \in 1..(N + 1) PROVE at[k] \in 1..Len(s)
    OBVIOUS
  <2>1. CASE k = N + 1
    BY <2>1, <1>7
  <2>2. CASE k # N + 1
    <3>1. k \in 1..N
      BY <2>2, <1>0
    <3> QED
      BY <3>1, <2>2, <1>5, <1>6
  <2> QED
    BY Zenon, <2>1, <2>2
<1>9. \A k \in 1..(N + 1) : s[at[k]] = Shown[k]
  <2> SUFFICES ASSUME NEW k \in 1..(N + 1) PROVE s[at[k]] = Shown[k]
    OBVIOUS
  <2>1. CASE k = N + 1
    BY Zenon, <2>1, <1>7, ShownIs
  <2>2. CASE k # N + 1
    <3>1. k \in 1..N
      BY <2>2, <1>0
    <3> QED
      BY Zenon, <3>1, <2>2, <1>6, ShownIs
  <2> QED
    BY Zenon, <2>1, <2>2
<1>10. \A k \in 1..(N + 1) : k # N + 1 => at[k] < at[k + 1]
  <2> SUFFICES ASSUME NEW k \in 1..(N + 1), k # N + 1 PROVE at[k] < at[k + 1]
    BY Zenon
  <2>1. k \in 1..N /\ at[k] = f[k] - 1 /\ k + 1 \in 1..(N + 1)
    BY <1>0
  <2>2. f[k] \in Nat \ {0}
    BY <2>1, <1>5, Zenon
  <2>3. CASE k = N
    BY <2>1, <2>2, <2>3, <1>7
  <2>4. CASE k # N
    <3>1. k + 1 \in 1..N /\ (k + 1) - 1 = k /\ at[k + 1] = f[k + 1] - 1
      BY <1>0, <2>1, <2>4
    <3>2. f[(k + 1) - 1] <= f[k + 1] - 1 /\ f[k + 1] - 1 \in Nat
      BY <3>1, <1>6, Zenon
    <3> QED
      BY <2>1, <2>2, <3>1, <3>2
  <2> QED
    BY Zenon, <2>3, <2>4
<1>11. \A i, j \in 1..(N + 1) : i < j => at[i] < at[j]
  <2>1. N + 1 \in Nat /\ \A k \in 1..(N + 1) : at[k] \in Nat
    BY <1>0, <1>8
  <2> HIDE DEF at, N
  <2> QED
    BY Zenon, <1>10, <2>1, Ascending
<1> QED
  <2> HIDE DEF at
  <2>1. DOMAIN Shown = 1..(N + 1)
    BY ShownIs
  <2> QED
    BY <1>8, <1>9, <1>11, <2>1, Zenon DEF ReadyInOrder, InOrder, Shown

\* If they are in order, _observe finds readiness, and at no later place.
LEMMA InOrderFound ==
  ASSUME NEW s, Len(s) \in Nat, DOMAIN s = 1..Len(s),
         NEW at \in [DOMAIN Shown -> DOMAIN s],
         \A i \in DOMAIN Shown : s[at[i]] = Shown[i],
         \A i, j \in DOMAIN Shown : i < j => at[i] < at[j]
  PROVE  /\ ReadinessOffset(s) \in Nat /\ ReadinessOffset(s) # 0
         /\ ReadinessOffset(s) <= at[Len(Progress) + 1]
<1> DEFINE N == Len(Progress)
<1>0. N \in Nat /\ DOMAIN Shown = 1..(N + 1)
  BY ShownIs
<1>1. PICK f : Positions(s, f, N) /\ After(s) = f[N]
  BY AfterIsLast
<1>2. \A k \in 0..N : f[k] \in Nat /\ f[k] = Behind(s, f, k)
  BY <1>1, Zenon DEF Positions
<1>3. \A k \in 1..(N + 1) : at[k] \in Nat /\ at[k] >= 1 /\ at[k] <= Len(s)
  BY <1>0
<1> DEFINE Good(k) == f[k] # 0 /\ \A j \in 1..(N + 1) : k < j => f[k] <= at[j]
<1>4. \A k \in 0..N : Good(k)
  <2> DEFINE T == {k \in 0..N : ~Good(k)}
  <2>1. T = {}
    <3> SUFFICES ASSUME T # {} PROVE FALSE
      OBVIOUS
    <3>1. T \in SUBSET Nat
      BY <1>0
    <3> HIDE DEF Good
    <3>2. PICK k \in T : \A y \in T : k <= y
      BY <3>1, Least, Zenon
    <3>3. k # 0
      <4>1. 0 \in 0..N /\ f[0] = 1
        BY <1>0, <1>2 DEF Behind
      <4>2. Good(0)
        BY <1>3, <4>1 DEF Good
      <4> QED
        BY <3>2, <4>2, Zenon
    <3>4. k - 1 \in 0..N /\ ~(k <= k - 1) /\ k - 1 < k /\ k \in 1..N /\ k \in 1..(N + 1) /\ k \in 0..N
      BY <1>0, <3>2, <3>3
    <3>5. Good(k - 1)
      BY <3>2, <3>4, Zenon
    <3>6. f[k - 1] # 0 /\ f[k - 1] <= at[k] /\ f[k - 1] \in Nat
      BY <3>4, <3>5, <1>2, Zenon DEF Good
    <3>7. s[at[k]] = Progress[k] /\ at[k] \in f[k - 1]..Len(s)
      <4>1. s[at[k]] = Shown[k] /\ Shown[k] = Progress[k]
        BY <1>0, <3>4, ShownIs, Zenon
      <4>2. at[k] \in Nat /\ at[k] <= Len(s)
        BY <1>3, <3>4, Zenon
      <4> QED
        BY <3>6, <4>1, <4>2
    <3> DEFINE found == Find(s, Progress[k], f[k - 1])
    <3>8. found \in Nat /\ found # 0 /\ found <= at[k]
      <4>1. f[k - 1] \in Nat \ {0}
        BY <3>6
      <4>2. found \in Nat /\ \A j \in f[k - 1]..Len(s) : s[j] = Progress[k] => found # 0 /\ found <= j
        BY <4>1, FindIs, Zenon
      <4> QED
        BY <3>7, <4>2, Zenon
    <3>9. f[k] = found + 1
      <4>1. f[k] = Behind(s, f, k)
        BY <1>2, <3>4, Zenon
      <4>2. f[k] = IF found = 0 THEN 0 ELSE found + 1
        BY <3>3, <3>6, <4>1, Zenon DEF Behind
      <4> QED
        BY <3>8, <4>2, Zenon
    <3>10. ASSUME NEW j \in 1..(N + 1), k < j PROVE f[k] <= at[j]
      <4>1. at[k] < at[j] /\ at[k] \in Nat /\ at[j] \in Nat
        BY <1>0, <1>3, <3>4, <3>10, Zenon
      <4> HIDE DEF found
      <4> QED
        BY <3>8, <3>9, <4>1
    <3>11. Good(k)
      <4> HIDE DEF found
      <4> QED
        BY <3>8, <3>9, <3>10 DEF Good
    <3> QED
      BY <3>2, <3>11, Zenon
  <2> QED
    BY <2>1, Zenon
<1>5. f[N] # 0 /\ f[N] \in Nat /\ f[N] <= at[N + 1]
  BY <1>0, <1>2, <1>4
<1>6. s[at[N + 1]] = Ready /\ at[N + 1] \in f[N]..Len(s)
  BY <1>0, <1>3, <1>5, ShownIs
<1>7. Find(s, Ready, f[N]) \in Nat /\ Find(s, Ready, f[N]) # 0 /\ Find(s, Ready, f[N]) <= at[N + 1]
  BY <1>5, <1>6, FindIs
<1> QED
  BY <1>1, <1>5, <1>7, Zenon DEF ReadinessOffset

-----------------------------------------------------------------------------
\* What a boot that goes on to succeed has been proven to be.
Proven ==
    /\ mode # "failure" => IsReady
    /\ mode = "shutdown" => qemu = "exited" /\ code = 0 /\ HasCleanShutdown(serial)
    /\ mode = "failure" => ExpectedFailureFirst
Ending == Stopping \cup {"ensure", "export", "done"}
\* What each place of the driver knows of its last observation.
VerdictInv ==
    /\ mode \in {"shutdown", "stop", "failure"}
    /\ serial \in Seq(Markers) /\ seen \in 0..Len(serial)
    /\ pc \notin Ending => failure = "none"
    /\ pc \in BootLoop => qmp = "ready" /\ spent + left >= BootTimeout
    /\ pc \in {"poll", "expired"} => ~IsReady
    /\ pc \in {"await", "status", "markers"} => mode = "shutdown" /\ IsReady
    /\ pc \in {"status", "markers"} => qemu = "exited"
    /\ pc = "markers" => code = 0
    /\ pc \in Ending /\ failure = "none" => Proven
    /\ failure \in {"READINESS_TIMEOUT", "EXITED_BEFORE_READINESS"} => ~IsReady
    /\ failure = "READINESS_TIMEOUT" => spent >= BootTimeout
    /\ failure = "EXITED_BEFORE_READINESS" => qemu = "exited"

\* What has been observed of the log stays what it is: the guest only adds to it.
LEMMA ObservedStays ==
  ASSUME VerdictInv, seen' = seen, serial' = serial \/ GuestWrites
  PROVE  /\ serial' \in Seq(Markers) /\ seen' \in 0..Len(serial')
         /\ IsReady' = IsReady /\ ExpectedFailureFirst' = ExpectedFailureFirst
<1>1. serial \in Seq(Markers) /\ seen \in 0..Len(serial)
  BY Zenon DEF VerdictInv
<1>2. CASE serial' = serial
  BY <1>1, <1>2, Zenon DEF IsReady, ExpectedFailureFirst, Observed
<1>3. CASE GuestWrites
  <2>1. PICK m \in Markers : serial' = Append(serial, m)
    BY <1>3, Zenon DEF GuestWrites, Lines, Markers
  <2>2. serial' \in Seq(Markers) /\ seen' \in 0..Len(serial')
    BY <1>1, <2>1
  <2>3. SubSeq(serial', 1, seen) = SubSeq(serial, 1, seen)
    BY <1>1, <2>1
  <2> QED
    BY <2>2, <2>3, Zenon DEF IsReady, ExpectedFailureFirst, Observed
<1> QED
  BY <1>2, <1>3, Zenon

\* It holds before the first step of _boot.
LEMMA InitVerdict == Init => VerdictInv
<1> SUFFICES ASSUME Init PROVE VerdictInv
  OBVIOUS
<1>1. serial \in Seq(Markers) /\ seen \in 0..Len(serial)
  BY DEF Init
<1>2. mode \in {"shutdown", "stop", "failure"}
  BY BootAssumption, Zenon DEF BootAssumption, Init
<1> QED
  BY <1>1, <1>2, Zenon DEF Init, VerdictInv, Ending, Stopping, BootLoop

\* Every step of the driver keeps it.
LEMMA DriverVerdict ==
  ASSUME IInv, VerdictInv, Driver
  PROVE  VerdictInv'
<1>0. spent \in Nat /\ left \in Nat /\ pc \in Locations /\ mode \in {"shutdown", "stop", "failure"}
  BY Zenon DEF IInv, TimeTypes, VerdictInv
<1>1. CASE Observe
  <2>1. /\ pc = "observe" /\ pc' = "decide" /\ UNCHANGED <<failure, spent, left, mode, qmp, serial>>
        /\ seen' = Len(serial)
    BY <1>1, Zenon DEF Observe, Goto, NoWait, driverVars, guestVars
  <2>2. serial' \in Seq(Markers) /\ seen' \in 0..Len(serial')
    BY <2>1 DEF VerdictInv
  <2> QED
    BY <2>1, <2>2, Zenon DEF VerdictInv, Ending, Stopping, BootLoop
<1>2. CASE ~Observe
  <2>1. seen' = seen /\ serial' = serial
    BY <1>2, Zenon DEF Driver, RunKernelPreflight, CopyVariables, PrepareShares, Prepare, StartQemu, TryQmp, Connect,
       ConnectFails, Receive, ReceiveEvent, ReceiveFails, RetryQmp, Slept, Decide, Poll, CheckDeadline,
       ObserveAgain, AwaitExit, CheckStatus, CheckShutdownMarkers, Stop, Terminate, Kill, EnsureStopped,
       Export, Ended, logVars, guestVars
  <2>2. /\ serial' \in Seq(Markers) /\ seen' \in 0..Len(serial')
        /\ IsReady' = IsReady /\ ExpectedFailureFirst' = ExpectedFailureFirst
        /\ HasCleanShutdown(serial') = HasCleanShutdown(serial)
    BY <2>1, ObservedStays, Zenon
  <2> USE <2>1, <2>2 DEF VerdictInv, Proven, Ending, Stopping, BootLoop, driverVars, guestVars, logVars,
        Goto, Raise, NoWait, Wait, StopWith
  <2>3. CASE RunKernelPreflight \/ CopyVariables \/ PrepareShares
    BY <2>3, Zenon DEF RunKernelPreflight, CopyVariables, PrepareShares, Prepare
  <2>4. CASE StartQemu
    BY <2>4, Zenon DEF StartQemu
  <2>5. CASE TryQmp
    BY <2>5, Zenon DEF TryQmp
  <2>6. CASE Connect \/ ReceiveEvent
    BY <2>6, Zenon DEF Connect, ReceiveEvent
  <2>7. CASE ConnectFails \/ ReceiveFails
    BY <2>7, Zenon DEF ConnectFails, ReceiveFails, Retry
  <2>8. CASE Receive
    BY <2>8, Timeouts DEF Receive
  <2>9. CASE RetryQmp \/ ObserveAgain
    BY <2>9, Zenon DEF RetryQmp, ObserveAgain, Slept
  <2>10. CASE Decide
    BY <2>10, Zenon DEF Decide
  <2>11. CASE Poll
    BY <2>11, Zenon DEF Poll
  <2>12. CASE CheckDeadline
    BY <1>0, <2>12, Timeouts DEF CheckDeadline
  <2>13. CASE AwaitExit
    BY <2>13, Zenon DEF AwaitExit
  <2>14. CASE CheckStatus \/ CheckShutdownMarkers
    BY <2>14, Zenon DEF CheckStatus, CheckShutdownMarkers
  <2>15. CASE Stop
    BY <2>15, Zenon DEF Stop, IInv, TimeTypes
  <2>16. CASE Terminate
    BY <2>16, Zenon DEF Terminate, IInv, TimeTypes
  <2>17. CASE Kill
    BY <2>17, Zenon DEF Kill, IInv, TimeTypes
  <2>18. CASE EnsureStopped
    BY <2>18, Zenon DEF EnsureStopped
  <2>19. CASE Export
    BY <2>19, Zenon DEF Export, Ended
  <2> HIDE DEF VerdictInv
  <2> QED
    BY Zenon, <1>2, <2>3, <2>4, <2>5, <2>6, <2>7, <2>8, <2>9, <2>10, <2>11, <2>12, <2>13, <2>14, <2>15, <2>16, <2>17,
       <2>18, <2>19, Zenon DEF Driver
<1> QED
  BY <1>1, <1>2, Zenon

\* So does what happens around it.
LEMMA SurroundingsVerdict ==
  ASSUME IInv, VerdictInv, Interrupt \/ GuestWrites \/ QemuExits \/ Tick \/ UNCHANGED vars
  PROVE  VerdictInv'
<1>0. seen' = seen /\ (serial' = serial \/ GuestWrites)
  BY Zenon DEF Interrupt, GuestWrites, QemuExits, Tick, vars, logVars, guestVars
<1>1. /\ serial' \in Seq(Markers) /\ seen' \in 0..Len(serial')
      /\ IsReady' = IsReady /\ ExpectedFailureFirst' = ExpectedFailureFirst
  BY <1>0, ObservedStays, Zenon
<1> USE <1>0, <1>1 DEF VerdictInv, Proven, Ending, Stopping, BootLoop, driverVars, guestVars, logVars, Goto, NoWait
<1>2. CASE Interrupt
  BY <1>2, Zenon DEF Interrupt
<1>3. CASE GuestWrites
  BY <1>3, Zenon DEF GuestWrites
<1>4. CASE QemuExits
  BY <1>4, Zenon DEF QemuExits
<1>5. CASE Tick
  <2>1. spent \in Nat /\ left \in Nat
    BY Zenon DEF IInv, TimeTypes
  <2>2. /\ UNCHANGED <<pc, failure, mode, qmp, qemu, code, serial, seen>>
        /\ spent' = IF qmp = "ready" THEN spent + 1 ELSE spent
        /\ left' = IF left > 0 THEN left - 1 ELSE 0
    BY <1>5, Zenon DEF Tick, driverVars, guestVars, logVars
  <2>3. spent' >= spent /\ (qmp = "ready" => spent' + left' >= spent + left)
    BY <2>1, <2>2
  <2>4. pc \in BootLoop => qmp' = "ready" /\ spent' + left' >= BootTimeout
    BY <2>1, <2>2, <2>3, Timeouts
  <2>5. failure = "READINESS_TIMEOUT" => spent' >= BootTimeout
    BY <2>1, <2>2, <2>3, Timeouts
  <2> QED
    BY <2>2, <2>4, <2>5, Zenon
<1>6. CASE UNCHANGED vars
  BY <1>6, Zenon DEF vars
<1> HIDE DEF VerdictInv
<1> QED
  BY <1>2, <1>3, <1>4, <1>5, <1>6, Zenon

\* VerdictInv is an invariant of the driver and its surroundings.
LEMMA VerdictInductive == Spec => []VerdictInv
<1>1. IInv /\ VerdictInv /\ [Next]_vars => VerdictInv'
  BY DriverVerdict, SurroundingsVerdict, Zenon DEF Next
<1> QED
  BY <1>1, InitVerdict, InductiveInvariant, PTL DEF Spec

\* The finally clauses of _boot: QEMU is stopped, or reported, and a log that is
\* exported then is within the limit and ends as the guest's log does.
THEOREM QemuIsGoneHolds == Spec => []QemuIsGone
<1>1. IInv /\ VerdictInv => ExportIsFinal
  <2> SUFFICES ASSUME IInv, VerdictInv, pc = "done", failure \notin {"KILL_DEADLINE", "INTERRUPTED"},
                      exported.as = "log"
               PROVE  /\ Len(exported.log) <= Limit
                      /\ Len(serial) <= Limit => exported.log = serial
                      /\ Len(serial) > Limit /\ Limit > 1 =>
                           exported.log[Len(exported.log)] = serial[Len(serial)]
    BY Zenon DEF ExportIsFinal
  <2>1. exported.log = Bounded(serial)
    BY Zenon DEF IInv, ExportInv
  <2>2. serial \in Seq(Markers)
    BY Zenon DEF VerdictInv
  <2> QED
    BY <2>1, <2>2, BoundedIs, Zenon
<1> QED
  BY <1>1, NoQemuLeftHolds, InductiveInvariant, VerdictInductive, PTL DEF QemuIsGone

\* The observation is the beginning of the log.
LEMMA ObservedIs ==
  ASSUME VerdictInv
  PROVE  /\ Len(serial) \in Nat /\ DOMAIN serial = 1..Len(serial)
         /\ seen \in Nat /\ seen <= Len(serial)
         /\ Len(Observed) = seen /\ DOMAIN Observed = 1..seen
         /\ \A i \in 1..seen : Observed[i] = serial[i]
<1>1. serial \in Seq(Markers) /\ seen \in 0..Len(serial)
  BY Zenon DEF VerdictInv
<1> QED
  BY <1>1 DEF Observed

\* Readiness in a beginning of a log is readiness in the log.
LEMMA LongerInOrder ==
  ASSUME NEW markers, NEW s, NEW t, DOMAIN s \subseteq DOMAIN t, \A i \in DOMAIN s : s[i] = t[i], InOrder(markers, s)
  PROVE  InOrder(markers, t)
<1>1. PICK at \in [DOMAIN markers -> DOMAIN s] :
        /\ \A i \in DOMAIN markers : s[at[i]] = markers[i]
        /\ \A i, j \in DOMAIN markers : i < j => at[i] < at[j]
  BY Zenon DEF InOrder
<1>2. at \in [DOMAIN markers -> DOMAIN t] /\ \A i \in DOMAIN markers : t[at[i]] = markers[i]
  BY <1>1
<1> QED
  BY <1>1, <1>2, Zenon DEF InOrder

\* A marker that is found is in the log.
LEMMA MarkerInLog ==
  ASSUME NEW s, Len(s) \in Nat, DOMAIN s = 1..Len(s), NEW m, Find(s, m, 1) # 0
  PROVE  InOrder(<<m>>, s)
<1> DEFINE at == [i \in 1..1 |-> Find(s, m, 1)]
<1>1. Find(s, m, 1) \in 1..Len(s) /\ s[Find(s, m, 1)] = m
  BY FindIs
<1>2. DOMAIN <<m>> = 1..1 /\ <<m>>[1] = m
  OBVIOUS
<1>3. at \in [1..1 -> DOMAIN s] /\ at[1] = Find(s, m, 1)
  BY <1>1
<1> HIDE DEF at
<1>4. \A i \in 1..1 : s[at[i]] = <<m>>[i]
  BY <1>1, <1>2, <1>3
<1>5. \A i, j \in 1..1 : i < j => at[i] < at[j]
  OBVIOUS
<1> QED
  BY <1>2, <1>3, <1>4, <1>5, Zenon DEF InOrder

\* _await_readiness and _await_clean_shutdown: a test passes only with what
\* its mode demands in the log, for any markers and any log.
THEOREM PassIsProvenHolds == Spec => []PassIsProven
<1>1. VerdictInv => PassIsProven
  <2> SUFFICES ASSUME VerdictInv, Passed PROVE
        /\ mode # "failure" => ReadyInOrder(serial)
        /\ mode = "shutdown" => /\ qemu = "exited" /\ code = 0
                                /\ \A m \in ShutdownMarkers : InOrder(<<m>>, serial)
        /\ mode = "failure" =>
             \E i \in DOMAIN serial : serial[i] = Failed /\ ~ReadyInOrder(SubSeq(serial, 1, i))
    BY Zenon DEF PassIsProven
  <2>1. Proven
    BY Zenon DEF VerdictInv, Passed, Ending
  <2>2. /\ Len(serial) \in Nat /\ DOMAIN serial = 1..Len(serial) /\ seen \in Nat /\ seen <= Len(serial)
        /\ Len(Observed) = seen /\ DOMAIN Observed = 1..seen /\ \A i \in 1..seen : Observed[i] = serial[i]
    BY ObservedIs, Zenon
  <2>3. DOMAIN Observed \subseteq DOMAIN serial /\ \A i \in DOMAIN Observed : Observed[i] = serial[i]
    BY <2>2
  <2>4. ASSUME mode # "failure" PROVE ReadyInOrder(serial)
    <3>1. ReadyInOrder(Observed)
      BY <2>1, <2>2, <2>4, FoundInOrder, Zenon DEF Proven, IsReady
    <3> QED
      BY <2>3, <3>1, LongerInOrder, Zenon DEF ReadyInOrder
  <2>5. ASSUME mode = "shutdown", NEW m \in ShutdownMarkers PROVE InOrder(<<m>>, serial)
    BY <2>1, <2>2, <2>5, MarkerInLog, Zenon DEF Proven, HasCleanShutdown
  <2>6. ASSUME mode = "failure"
        PROVE  \E i \in DOMAIN serial : serial[i] = Failed /\ ~ReadyInOrder(SubSeq(serial, 1, i))
    <3> DEFINE f == Find(Observed, Failed, 1)
               r == ReadinessOffset(Observed)
    <3>1. f # 0 /\ (r = 0 \/ f < r)
      BY <2>1, <2>6, Zenon DEF Proven, ExpectedFailureFirst, FailureOffset
    <3>2. f \in Nat /\ 1 <= f /\ f <= seen /\ Observed[f] = Failed
      <4>1. Len(Observed) \in Nat /\ 1 \in Nat \ {0}
        BY <2>2
      <4> QED
        BY <2>2, <3>1, <4>1, FindIs
    <3> HIDE DEF f, r
    <3>3. f \in 1..seen /\ f \in DOMAIN serial /\ serial[f] = Failed
      BY <2>2, <3>2
    <3>4. ASSUME ReadyInOrder(SubSeq(serial, 1, f)) PROVE FALSE
      <4> DEFINE t == SubSeq(serial, 1, f)
      <4>1. DOMAIN t = 1..f /\ \A i \in 1..f : t[i] = serial[i]
        <5>1. serial \in Seq(Markers)
          BY Zenon DEF VerdictInv
        <5> QED
          BY <2>2, <3>2, <5>1
      <4> HIDE DEF t
      <4>2. PICK at \in [DOMAIN Shown -> DOMAIN t] :
              /\ \A i \in DOMAIN Shown : t[at[i]] = Shown[i]
              /\ \A i, j \in DOMAIN Shown : i < j => at[i] < at[j]
        BY <3>4, Zenon DEF ReadyInOrder, InOrder, Shown, t
      <4>3. /\ at \in [DOMAIN Shown -> DOMAIN Observed] /\ \A i \in DOMAIN Shown : Observed[at[i]] = Shown[i]
        BY <2>2, <3>2, <4>1, <4>2
      <4>4. r \in Nat /\ r # 0 /\ r <= at[Len(Progress) + 1]
        BY <2>2, <4>2, <4>3, InOrderFound, Zenon DEF r
      <4>5. at[Len(Progress) + 1] \in 1..f
        BY <4>1, <4>2, ShownIs
      <4> QED
        BY <3>1, <3>2, <4>4, <4>5
    <3> QED
      BY <3>3, <3>4, Zenon
  <2> QED
    BY <2>1, <2>4, <2>5, <2>6, Zenon DEF Proven
<1> QED
  BY <1>1, VerdictInductive, PTL

\* _await_readiness, _fail_readiness_timeout: the guest is said not to be ready
\* only if the last observation has no readiness in order, and after the whole
\* deadline or the exit of QEMU.
THEOREM TimeoutIsRealHolds == Spec => []TimeoutIsReal
<1>1. VerdictInv => TimeoutIsReal
  <2> SUFFICES ASSUME VerdictInv PROVE TimeoutIsReal
    OBVIOUS
  <2>1. ReadyInOrder(Observed) => IsReady
    <3>1. Len(Observed) \in Nat /\ DOMAIN Observed = 1..Len(Observed)
      BY ObservedIs
    <3> QED
      BY <3>1, InOrderFound, Zenon DEF ReadyInOrder, InOrder, Shown, IsReady
  <2> QED
    BY <2>1, Zenon DEF VerdictInv, TimeoutIsReal
<1> QED
  BY <1>1, VerdictInductive, PTL

\* The verdict of a boot test is true, whatever the guest writes and when.
THEOREM VerdictIsProvenHolds == Spec => []VerdictIsProven
  BY PassIsProvenHolds, TimeoutIsRealHolds, PTL DEF VerdictIsProven

-----------------------------------------------------------------------------
\* The ranges of the Authenticode digest.


\* The numbers of a binary.
LEMMA BinaryType ==
    ASSUME NEW f \in PeBinary
    PROVE  /\ f.length \in Nat /\ f.pe \in Nat /\ f.sectionCount \in Nat /\ f.optionalSize \in Nat
           /\ f.directories \in Nat /\ f.sizeHeaders \in Nat /\ f.certificateOffset \in Nat /\ f.certificateSize \in Nat
           /\ f.sections \in Seq([offset : Nat, size : Nat]) /\ f.table \in Seq([length : Nat, der : Nat])
PROOF BY DEF PeBinary

\* An element of a sequence is in its set.
LEMMA ElementType ==
    ASSUME NEW S, NEW q \in Seq(S), NEW i \in DOMAIN q
    PROVE  q[i] \in S
PROOF OBVIOUS

\* The sections of a binary and where they end are numbers.
LEMMA SectionType ==
    ASSUME NEW f \in PeBinary, NEW i \in DOMAIN f.sections
    PROVE  /\ f.sections[i].offset \in Nat /\ f.sections[i].size \in Nat /\ End(f.sections[i]) \in Nat
PROOF
  <1>1. f.sections \in Seq([offset : Nat, size : Nat])
    BY BinaryType
  <1>2. f.sections[i] \in [offset : Nat, size : Nat]
    BY ONLY <1>1, ElementType, i \in DOMAIN f.sections
  <1>. QED BY <1>2 DEF End

\* So are the two numbers of the one record of a signature.
LEMMA RecordType ==
    ASSUME NEW f \in PeBinary, Len(f.table) = 1
    PROVE  f.table[1].length \in Nat /\ f.table[1].der \in Nat
PROOF
  <1>1. f.table \in Seq([length : Nat, der : Nat])
    BY BinaryType
  <1>2. 1 \in DOMAIN f.table
    BY <1>1
  <1>3. f.table[1] \in [length : Nat, der : Nat]
    BY ONLY <1>1, <1>2, ElementType
  <1>. QED BY <1>3

\* Sections that _section_ranges accepts are hashed in the order they are in,
\* and end within the file.
LEMMA SectionsFit ==
    ASSUME NEW f \in PeBinary, _section_ranges(f), f.sizeHeaders <= f.length
    PROVE  SectionsInOrder(f) /\ LastEnd(f) \in Nat /\ LastEnd(f) <= f.length
PROOF
  <1>1. /\ f.sections \in Seq([offset : Nat, size : Nat]) /\ Len(f.sections) \in Nat
        /\ DOMAIN f.sections = 1..Len(f.sections) /\ f.sizeHeaders \in Nat /\ f.length \in Nat
    BY BinaryType
  <1>2. SectionsInOrder(f)
    <2> SUFFICES ASSUME NEW i \in DOMAIN f.sections
                 PROVE  f.sections[i].offset >= IF i = 1 THEN f.sizeHeaders ELSE End(f.sections[i - 1])
      BY DEF SectionsInOrder
    <2>1. CASE i = 1
      BY <1>1, <2>1, SectionType, Zenon DEF _section_ranges
    <2>2. CASE i # 1
      <3>1. i - 1 \in 1..(Len(f.sections) - 1) /\ i - 1 \in DOMAIN f.sections /\ (i - 1) + 1 = i
        <4>1. i \in 1..Len(f.sections) /\ Len(f.sections) \in Nat
          BY ONLY <1>1, i \in DOMAIN f.sections
        <4>2. i - 1 \in 1..(Len(f.sections) - 1) /\ i - 1 \in 1..Len(f.sections) /\ (i - 1) + 1 = i
          BY ONLY <2>2, <4>1
        <4>. QED BY ONLY <1>1, <4>2
      <3>2. End(f.sections[i - 1]) <= f.sections[(i - 1) + 1].offset
        BY <3>1, Zenon DEF _section_ranges
      <3>3. End(f.sections[i - 1]) \in Nat /\ f.sections[i].offset \in Nat
        BY Zenon, <3>1, SectionType
      <3>. QED BY <2>2, <3>1, <3>2, <3>3
    <2>. QED BY <2>1, <2>2
  <1>3. LastEnd(f) \in Nat /\ LastEnd(f) <= f.length
    <2>1. CASE f.sections = <<>>
      BY <1>1, <2>1, Zenon DEF LastEnd
    <2>2. CASE f.sections # <<>>
      <3>1. Len(f.sections) \in DOMAIN f.sections
        BY <1>1, <2>2
      <3>. QED BY <2>2, <3>1, SectionType DEF LastEnd, _section_ranges
    <2>. QED BY <2>1, <2>2
  <1>. QED BY <1>2, <1>3

\* The checksum and the security directory are inside the headers, in this order.
LEMMA FieldsFit ==
    ASSUME NEW f \in PeBinary, _pe_optional_header(f), _security_directory(f), _header_layout(f)
    PROVE  /\ Checksum(f) \in Nat /\ SecurityDirectory(f) \in Nat
           /\ Checksum(f) + 4 <= SecurityDirectory(f) /\ SecurityDirectory(f) + 8 <= f.sizeHeaders
           /\ f.sizeHeaders <= f.length
PROOF
  <1>1. /\ f.pe \in Nat /\ f.optionalSize \in Nat /\ f.directories \in Nat /\ f.sectionCount \in Nat
        /\ f.sizeHeaders \in Nat /\ f.length \in Nat
    BY Zenon, BinaryType
  <1>2. FixedSize(f) \in {96, 112}
    BY DEF FixedSize, _pe_optional_header
  <1>3. /\ f.directories >= 5 /\ Optional(f) + FixedSize(f) + f.directories * 8 <= Optional(f) + f.optionalSize
    BY DEF _security_directory
  <1>4. /\ SectionTableEnd(f) <= f.sizeHeaders /\ f.sizeHeaders <= f.length
    BY DEF _header_layout
  <1>. QED BY <1>1, <1>2, <1>3, <1>4 DEF Checksum, SecurityDirectory, SectionTableEnd, Optional

\* No section ends behind the last one.
LEMMA LastEndIsLast ==
    ASSUME NEW f \in PeBinary, SectionsInOrder(f)
    PROVE  \A i \in DOMAIN f.sections : End(f.sections[i]) <= LastEnd(f)
PROOF
  <1> DEFINE n == Len(f.sections)
             E(k) == End(f.sections[n - k])
             T == {k \in 0..(n - 1) : ~(E(k) <= LastEnd(f))}
  <1>1. n \in Nat /\ DOMAIN f.sections = 1..n
    BY BinaryType
  <1>2. \A k \in 0..(n - 1) : n - k \in DOMAIN f.sections
    BY <1>1
  <1>3. n # 0 => LastEnd(f) = End(f.sections[n]) /\ LastEnd(f) \in Nat
    <2>1. n # 0 => f.sections # <<>> /\ n \in DOMAIN f.sections
      BY <1>1
    <2>. QED BY <2>1, SectionType, Zenon DEF LastEnd
  <1>4. T = {}
    <2> SUFFICES ASSUME T # {} PROVE FALSE
      OBVIOUS
    <2>1. T \in SUBSET Nat
      BY <1>1
    <2>2. PICK k \in T : \A y \in T : k <= y
      BY <2>1, Least, Zenon
    <2>3. k \in 0..(n - 1) /\ n # 0 /\ ~(E(k) <= LastEnd(f))
      BY <1>1, <2>2
    <2>4. k # 0
      <3>1. k = 0 => n - k = n
        BY <1>1
      <3>2. LastEnd(f) <= LastEnd(f)
        BY <1>3, <2>3
      <3>. QED BY <1>3, <2>3, <3>1, <3>2, Zenon
    <2>5. /\ k - 1 \in 0..(n - 1) /\ ~(k <= k - 1) /\ n - (k - 1) \in DOMAIN f.sections /\ n - (k - 1) # 1
          /\ (n - (k - 1)) - 1 = n - k /\ n - k \in DOMAIN f.sections
      BY <1>1, <2>3, <2>4
    <2>6. E(k - 1) <= LastEnd(f)
      BY <2>2, <2>5, Zenon
    <2>7. f.sections[n - (k - 1)].offset >= E(k)
      BY <2>5, Zenon DEF SectionsInOrder
    <2>8. /\ f.sections[n - (k - 1)].offset \in Nat /\ f.sections[n - (k - 1)].size \in Nat
          /\ E(k - 1) = f.sections[n - (k - 1)].offset + f.sections[n - (k - 1)].size
      BY <2>5, SectionType, Zenon DEF End
    <2>9. E(k) \in Nat
      BY <2>5, SectionType, Zenon
    <2>10. E(k - 1) \in Nat /\ LastEnd(f) \in Nat
      BY <1>3, <2>3, <2>5, SectionType, Zenon
    <2> DEFINE this == E(k)
               next == E(k - 1)
               offset == f.sections[n - (k - 1)].offset
               size == f.sections[n - (k - 1)].size
               last == LastEnd(f)
    <2>11. /\ this \in Nat /\ next \in Nat /\ offset \in Nat /\ size \in Nat /\ last \in Nat
           /\ next = offset + size /\ next <= last /\ offset >= this /\ ~(this <= last)
      BY <2>3, <2>6, <2>7, <2>8, <2>9, <2>10, Zenon
    <2> HIDE DEF this, next, offset, size, last
    <2>. QED BY ONLY <2>11
  <1>5. \A i \in DOMAIN f.sections : n - i \in 0..(n - 1) /\ n - (n - i) = i
    BY <1>1
  <1>. QED BY <1>4, <1>5, Zenon

\* No section begins before the headers end.
LEMMA SectionsBehindHeaders ==
    ASSUME NEW f \in PeBinary, _section_ranges(f), NEW i \in DOMAIN f.sections
    PROVE  f.sizeHeaders <= f.sections[i].offset
PROOF BY DEF _section_ranges

\* For every binary that parse_pe accepts, signed or not, authenticode_hash
\* reads forwards, covers no byte twice, and leaves out the checksum, the
\* security directory, the signature and the gaps around sections, and no other
\* byte of the file.
THEOREM DigestCoversOnce == \A f \in PeBinary, signed \in BOOLEAN : HashCoversOnce(f, signed)
PROOF
  <1> SUFFICES ASSUME NEW f \in PeBinary, NEW signed \in BOOLEAN, parse_pe(f, signed)
               PROVE  /\ \A i \in 1..3 : HeaderRanges(f)[i][1] <= HeaderRanges(f)[i][2]
                      /\ HeaderRanges(f)[1][2] <= HeaderRanges(f)[2][1]
                      /\ HeaderRanges(f)[2][2] <= HeaderRanges(f)[3][1]
                      /\ SectionsInOrder(f) /\ ContentEnd(f) <= f.length
                      /\ IF HashRefuses(f) THEN signed /\ f.certificateOffset < LastEnd(f)
                         ELSE \A x \in 0..(f.length - 1) : Hashed(f, x) <=> ~LeftOut(f, x)
    BY Zenon DEF HashCoversOnce
  <1> DEFINE C == Checksum(f)
             S == SecurityDirectory(f)
             H == f.sizeHeaders
             L == LastEnd(f)
             E == ContentEnd(f)
  <1>1. /\ f.length \in Nat /\ H \in Nat /\ f.certificateOffset \in Nat /\ f.certificateSize \in Nat
    BY BinaryType
  <1>2. /\ C \in Nat /\ S \in Nat /\ C + 4 <= S /\ S + 8 <= H /\ H <= f.length
    BY FieldsFit, Zenon DEF parse_pe
  <1>3. SectionsInOrder(f) /\ L \in Nat /\ L <= f.length
    BY <1>2, SectionsFit, Zenon DEF parse_pe
  <1>4. /\ HeaderRanges(f)[1] = <<0, C>> /\ HeaderRanges(f)[2] = <<C + 4, S>>
        /\ HeaderRanges(f)[3] = <<S + 8, H>>
    BY DEF HeaderRanges
  <1>5. \A i \in 1..3 : i = 1 \/ i = 2 \/ i = 3
    OBVIOUS
  <1>6. /\ HeaderRanges(f)[1][1] = 0 /\ HeaderRanges(f)[1][2] = C
        /\ HeaderRanges(f)[2][1] = C + 4 /\ HeaderRanges(f)[2][2] = S
        /\ HeaderRanges(f)[3][1] = S + 8 /\ HeaderRanges(f)[3][2] = H
    BY <1>4
  <1>7. /\ E \in Nat /\ E <= f.length
        /\ ~signed => E = f.length
        /\ signed => E = f.certificateOffset
    BY <1>1 DEF parse_pe, _certificate_table, ContentEnd
  <1>8. HashRefuses(f) => signed /\ f.certificateOffset < L
    BY <1>1, <1>3, <1>7 DEF HashRefuses
  <1>9. ASSUME ~HashRefuses(f), NEW x \in 0..(f.length - 1)
        PROVE  Hashed(f, x) <=> ~LeftOut(f, x)
    <2>1. x \in Nat /\ L <= E
      BY <1>1, <1>3, <1>7, <1>9 DEF HashRefuses
    <2>2. InSection(f, x) => H <= x /\ x < L
      <3> SUFFICES ASSUME NEW i \in DOMAIN f.sections, Within(x, f.sections[i].offset, End(f.sections[i]))
                   PROVE  H <= x /\ x < L
        BY Zenon DEF InSection
      <3>1. f.sections[i].offset \in Nat /\ End(f.sections[i]) \in Nat
        BY SectionType, Zenon
      <3>2. H <= f.sections[i].offset /\ End(f.sections[i]) <= L
        BY <1>3, LastEndIsLast, SectionsBehindHeaders, Zenon DEF parse_pe
      <3>. QED BY <1>1, <1>3, <2>1, <3>1, <3>2 DEF Within
    <2>3. (\E i \in 1..3 : Within(x, HeaderRanges(f)[i][1], HeaderRanges(f)[i][2]))
            <=> (Within(x, 0, C) \/ Within(x, C + 4, S) \/ Within(x, S + 8, H))
      <3>1. 1 \in 1..3 /\ 2 \in 1..3 /\ 3 \in 1..3
        OBVIOUS
      <3>. QED BY <1>5, <1>6, <3>1, Zenon
    <2>4. Hashed(f, x) <=> \/ Within(x, 0, C) \/ Within(x, C + 4, S) \/ Within(x, S + 8, H)
                           \/ InSection(f, x) \/ Within(x, L, E)
      BY <2>3, Zenon DEF Hashed
    <2>5. LeftOut(f, x) <=> \/ Within(x, C, C + 4) \/ Within(x, S, S + 8)
                            \/ (Within(x, H, L) /\ ~InSection(f, x)) \/ E <= x
      BY Zenon DEF LeftOut, Gap
    <2>6. H <= L
      <3>1. CASE f.sections = <<>>
        BY <1>1, <3>1 DEF LastEnd
      <3>2. CASE f.sections # <<>>
        <4>1. 1 \in DOMAIN f.sections
          BY <3>2, BinaryType
        <4>2. f.sections[1].offset \in Nat /\ f.sections[1].size \in Nat /\ H <= f.sections[1].offset
              /\ End(f.sections[1]) <= L
          BY <1>3, <4>1, SectionType, LastEndIsLast, SectionsBehindHeaders, Zenon DEF parse_pe
        <4>. QED BY <1>1, <1>3, <4>2 DEF End
      <3>. QED BY <3>1, <3>2
    <2> HIDE DEF C, S, H, L, E
    <2> DEFINE inside == InSection(f, x)
    <2> HIDE DEF inside
    <2>7. inside => H <= x /\ x < L
      BY <2>2, Zenon DEF inside
    <2>8. (\/ Within(x, 0, C) \/ Within(x, C + 4, S) \/ Within(x, S + 8, H) \/ inside \/ Within(x, L, E))
          <=> ~(\/ Within(x, C, C + 4) \/ Within(x, S, S + 8) \/ (Within(x, H, L) /\ ~inside) \/ E <= x)
      BY <1>1, <1>2, <1>3, <1>7, <2>1, <2>6, <2>7 DEF Within
    <2>. QED BY <2>4, <2>5, <2>8, Zenon DEF inside
  <1>10. \A i \in 1..3 : HeaderRanges(f)[i][1] <= HeaderRanges(f)[i][2]
    BY <1>1, <1>2, <1>5, <1>6
  <1>11. HeaderRanges(f)[1][2] <= HeaderRanges(f)[2][1] /\ HeaderRanges(f)[2][2] <= HeaderRanges(f)[3][1]
    BY <1>2, <1>6
  <1>. QED BY <1>3, <1>7, <1>8, <1>9, <1>10, <1>11, Zenon

\* For every pair that prove_equivalence accepts, the digests of both binaries
\* are computed, and the signature is read from behind the unsigned binary.
THEOREM EquivalentPairsAreHashed == \A u, s \in PeBinary : EquivalentIsHashed(u, s)
PROOF
  <1> SUFFICES ASSUME NEW u \in PeBinary, NEW s \in PeBinary, prove_equivalence(u, s)
               PROVE  /\ ~HashRefuses(s) /\ ~HashRefuses(u)
                      /\ LastEnd(u) <= u.length /\ u.length <= ContentEnd(s)
                      /\ SecurityDirectory(s) + 8 <= u.length
                      /\ ContentEnd(s) + 8 + s.table[1].der <= s.length
    BY Zenon DEF EquivalentIsHashed
  <1>1. /\ u.length \in Nat /\ s.length \in Nat /\ s.certificateOffset \in Nat /\ s.certificateSize \in Nat
        /\ u.sizeHeaders \in Nat /\ s.sizeHeaders \in Nat
    BY Zenon, BinaryType
  <1>2. /\ SectionsInOrder(u) /\ LastEnd(u) \in Nat /\ LastEnd(u) <= u.length
        /\ SectionsInOrder(s) /\ LastEnd(s) \in Nat
        /\ SecurityDirectory(u) \in Nat /\ SecurityDirectory(u) + 8 <= u.sizeHeaders /\ u.sizeHeaders <= u.length
    <2>1. /\ SecurityDirectory(u) \in Nat /\ SecurityDirectory(u) + 8 <= u.sizeHeaders
          /\ u.sizeHeaders <= u.length /\ s.sizeHeaders <= s.length
      BY FieldsFit, Zenon DEF prove_equivalence, parse_pe
    <2>. QED BY <2>1, SectionsFit DEF prove_equivalence, parse_pe
  <1>3. LastEnd(s) = LastEnd(u)
    BY DEF prove_equivalence, LastEnd
  <1>4. /\ ContentEnd(u) = u.length /\ ContentEnd(s) = s.certificateOffset
        /\ u.length <= s.certificateOffset /\ s.certificateOffset + s.certificateSize = s.length
    BY Zenon DEF prove_equivalence, parse_pe, _certificate_table, ContentEnd
  <1>5. SecurityDirectory(s) + 8 <= u.length
    BY <1>1, <1>2 DEF prove_equivalence
  <1>6. 8 + s.table[1].der <= s.certificateSize
    <2>1. /\ Len(s.table) = 1 /\ s.table[1].der + 8 <= s.table[1].length
          /\ Aligned(s.table[1].length) = s.certificateSize
      BY Zenon DEF prove_equivalence, authenticode_payload
    <2>2. s.table[1].length \in Nat /\ s.table[1].der \in Nat
      BY Zenon, <2>1, RecordType
    <2>3. \A n \in Nat : n <= ((n + 7) \div 8) * 8
      OBVIOUS
    <2>. QED BY <1>1, <2>1, <2>2, <2>3 DEF Aligned
  <1>7. s.table[1].der \in Nat
    BY RecordType, Zenon DEF prove_equivalence, authenticode_payload
  <1>8. ~HashRefuses(u) /\ ~HashRefuses(s)
    BY <1>1, <1>2, <1>3, <1>4 DEF HashRefuses
  <1>. QED BY <1>1, <1>2, <1>4, <1>5, <1>6, <1>7, <1>8
=============================================================================
