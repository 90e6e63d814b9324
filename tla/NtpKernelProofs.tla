---------------------------- MODULE NtpKernelProofs ----------------------------
(***************************************************************************)
(* What the proofs about leap-a-day and leapcrash have in common: midnights, *)
(* times, and what a system call or a second overflow makes of the kernel's  *)
(* leap second state machine.                                              *)
(***************************************************************************)
EXTENDS NtpKernel, TLAPS

-------------------------------------------------------------------------------
(* Seconds and days.                                                       *)

\* What \div and % are.
LEMMA Division ==
  ASSUME NEW x \in Int, NEW d \in Nat \ {0}
  PROVE  /\ x = d * (x \div d) + (x % d)
         /\ x % d \in 0 .. d - 1 /\ x \div d \in Int
OBVIOUS

\* Zero is the only multiple of d closer to zero than d.
LEMMA Multiples ==
  ASSUME NEW q \in Int, NEW d \in Nat \ {0}, d * q < d, -d < d * q
  PROVE  q = 0
<1>1. q <= 0
  <2> SUFFICES ASSUME q >= 1 PROVE FALSE
    OBVIOUS
  <2>1. d * q = d * (q - 1) + d /\ d * (q - 1) >= 0
    OBVIOUS
  <2> QED BY <2>1
<1>2. q >= 0
  <2> SUFFICES ASSUME q <= -1 PROVE FALSE
    OBVIOUS
  <2>1. d * q = d * (q + 1) - d /\ d * (q + 1) <= 0
    OBVIOUS
  <2> QED BY <2>1
<1> QED BY <1>1, <1>2

\* Within a day of a midnight m there is no other.
LEMMA OneMidnight ==
  ASSUME NEW d \in Nat \ {0}, NEW m \in Int, NEW x \in Int,
         m % d = 0, m - d < x, x < m + d
  PROVE  x % d = 0 <=> x = m
<1> DEFINE a == x \div d
           b == m \div d
<1>1. SUFFICES ASSUME x % d = 0 PROVE x = m
  OBVIOUS
<1>2. x = d * a /\ a \in Int
  BY <1>1, Division
<1>3. m = d * b /\ b \in Int
  BY Division
<1> HIDE DEF a, b
<1>4. d * (a - b) = d * a - d * b
  BY <1>2, <1>3
<1>5. a - b = 0
  BY <1>2, <1>3, <1>4, Multiples
<1> QED BY <1>2, <1>3, <1>5

\* What gettime computes is the next midnight.
LEMMA NextMidnight ==
  ASSUME NEW d \in Nat \ {0}, NEW x \in Nat
  PROVE  /\ (x + (d - (x % d))) % d = 0
         /\ x < x + (d - (x % d)) /\ x + (d - (x % d)) <= x + d
         /\ x + (d - (x % d)) \in Nat /\ x + (d - (x % d)) >= d
<1> DEFINE a == x \div d
<1>0. a \in Nat
  OBVIOUS
<1>1. x = d * a + (x % d) /\ x % d \in 0 .. d - 1
  BY Division
<1> HIDE DEF a
<1>2. x + (d - (x % d)) = d * (a + 1) /\ d * (a + 1) = d * a + d
  BY <1>0, <1>1
<1>3. (d * (a + 1)) % d = 0 /\ d * a \in Nat
  BY <1>0
<1> QED BY <1>1, <1>2, <1>3

\* One more nanosecond, and any number of them.
LEMMA Addition ==
  ASSUME NEW ts \in Timespec
  PROVE  /\ ts.tv_sec \in Nat /\ ts.tv_nsec \in 0 .. NSEC_PER_SEC - 1
         /\ \A ns \in Nat : timespec_add(ts, ns) \in Timespec
         /\ timespec_add(ts, 1) =
              IF ts.tv_nsec + 1 < NSEC_PER_SEC
              THEN [tv_sec |-> ts.tv_sec, tv_nsec |-> ts.tv_nsec + 1]
              ELSE [tv_sec |-> ts.tv_sec + 1, tv_nsec |-> 0]
<1>1. NSEC_PER_SEC \in Nat \ {0} /\ ts.tv_sec \in Nat /\ ts.tv_nsec \in 0 .. NSEC_PER_SEC - 1
  BY NsecAssumption DEF Timespec
<1>2. ASSUME NEW ns \in Nat PROVE timespec_add(ts, ns) \in Timespec
  <2> DEFINE n == ts.tv_nsec + ns
  <2>1. n \in Nat
    BY <1>1
  <2> HIDE DEF n
  <2>2. n \div NSEC_PER_SEC \in Nat /\ n % NSEC_PER_SEC \in 0 .. NSEC_PER_SEC - 1
    BY <1>1, <2>1
  <2> QED BY <1>1, <2>2 DEF timespec_add, Timespec, n
<1>3. CASE ts.tv_nsec + 1 < NSEC_PER_SEC
  <2>1. (ts.tv_nsec + 1) \div NSEC_PER_SEC = 0
        /\ (ts.tv_nsec + 1) % NSEC_PER_SEC = ts.tv_nsec + 1
    BY <1>1, <1>3
  <2>2. ts.tv_sec + 0 = ts.tv_sec
    BY <1>1
  <2>3. timespec_add(ts, 1) = [tv_sec |-> ts.tv_sec, tv_nsec |-> ts.tv_nsec + 1]
    BY <2>1, <2>2 DEF timespec_add
  <2> QED BY <1>1, <1>2, <1>3, <2>3
<1>4. CASE ~(ts.tv_nsec + 1 < NSEC_PER_SEC)
  <2>1. ts.tv_nsec + 1 = NSEC_PER_SEC
    BY <1>1, <1>4
  <2>2. NSEC_PER_SEC \div NSEC_PER_SEC = 1 /\ NSEC_PER_SEC % NSEC_PER_SEC = 0
    BY <1>1
  <2>3. timespec_add(ts, 1) = [tv_sec |-> ts.tv_sec + 1, tv_nsec |-> 0]
    BY <2>1, <2>2 DEF timespec_add
  <2> QED BY <1>1, <1>2, <1>4, <2>3
<1> QED BY <1>1, <1>2, <1>3, <1>4

-------------------------------------------------------------------------------
(* The kernel.                                                             *)

\* What the system calls make of the state machine.
LEMMA Calls ==
  ASSUME NtpAssumption, NEW n \in Ntp
  PROVE  /\ \A s \in SUBSET Flags :
              /\ adj_status(n, s) \in Ntp
              /\ adj_status(n, s).status = s
              /\ adj_status(n, s).maxerror = n.maxerror
              /\ adj_status(n, s).state =
                   IF "PLL" \in n.status /\ "PLL" \notin s THEN "OK" ELSE n.state
         /\ adj_maxerror(n, 0) \in Ntp /\ adj_maxerror(n, 0).maxerror = 0
         /\ adj_maxerror(n, 0).state = n.state /\ adj_maxerror(n, 0).status = n.status
         /\ set_ntp(n) \in Ntp /\ set_ntp(n).state = n.state
         /\ set_ntp(n).status = n.status \cup {"UNSYNC"}
         /\ set_ntp(n).maxerror = NTP_PHASE_LIMIT
<1>1. n.state \in States /\ n.status \in SUBSET Flags /\ n.maxerror \in 0 .. NTP_PHASE_LIMIT
  BY DEF Ntp
<1>2. NTP_PHASE_LIMIT \in 0 .. NTP_PHASE_LIMIT /\ 0 \in 0 .. NTP_PHASE_LIMIT
  BY DEF NtpAssumption
<1>3. ASSUME NEW s \in SUBSET Flags PROVE adj_status(n, s) \in Ntp
  BY <1>1 DEF adj_status, Ntp, States
<1>4. adj_maxerror(n, 0) \in Ntp /\ set_ntp(n) \in Ntp
  BY <1>1, <1>2 DEF adj_maxerror, set_ntp, Ntp, Flags
<1> QED BY <1>1, <1>3, <1>4 DEF adj_status, adj_maxerror, set_ntp

\* What a second overflow makes of it.
LEMMA Overflow ==
  ASSUME NtpAssumption, NEW n \in Ntp, NEW secs \in Nat
  PROVE  /\ second_overflow(n, secs) \in Ntp
         /\ second_overflow(n, secs).state = next_state(n, secs)
         /\ n.status \subseteq second_overflow(n, secs).status
         /\ second_overflow(n, secs).status \subseteq n.status \cup {"UNSYNC"}
         /\ leap(n, secs) \in {-1, 0, 1}
         /\ leap(n, secs) = -1 <=> n.state = "INS" /\ next_state(n, secs) = "OOP"
         /\ leap(n, secs) = 1 <=> n.state = "DEL" /\ next_state(n, secs) = "WAIT"
<1>1. n.state \in States /\ n.status \in SUBSET Flags /\ n.maxerror \in 0 .. NTP_PHASE_LIMIT
  BY DEF Ntp
<1>2. next_state(n, secs) \in States
  BY <1>1 DEF next_state, States
<1>3. leap(n, secs) \in {-1, 0, 1}
  BY DEF leap
<1>4. /\ leap(n, secs) = -1 <=> n.state = "INS" /\ next_state(n, secs) = "OOP"
      /\ leap(n, secs) = 1 <=> n.state = "DEL" /\ next_state(n, secs) = "WAIT"
  BY DEF leap
<1>5. second_overflow(n, secs) \in Ntp
  BY <1>1, <1>2 DEF second_overflow, Ntp, NtpAssumption, Flags
<1> QED BY <1>2, <1>3, <1>4, <1>5 DEF second_overflow
===============================================================================
