------------------------- MODULE PowerPolicyProofs -------------------------
(***************************************************************************)
(* What holds of powerd's policy for every number of confirmations, gap,   *)
(* poll times and temperature levels.  A shutdown is confirmed and prompt  *)
(* because each counted sample of an unbroken condition accounts for       *)
(* between Gap and 2 * Gap - 1 of the time it has been held: a sample      *)
(* before the gap is over does not count, and it sets the poll back by     *)
(* less than a gap.  The throttle's level accounts for time since the plug *)
(* the same way.                                                           *)
(***************************************************************************)
EXTENDS PowerPolicy, TLAPS

Counts == [n : 0 .. N, age : 0 .. Gap]
P == [running : BOOLEAN, warned : BOOLEAN, crit : BOOLEAN, empty : Counts, hot : Counts,
      fired : BOOLEAN, level : 0 .. Levels - 1, broken : BOOLEAN, evaluated : BOOLEAN,
      age : 0 .. Gap, next : 0 .. Poll]
Ages == Nat \cup {Never}

\* What a count says of the time the condition has been held, with the poll due in `next`.
Accounts(c, h, next) ==
    /\ c.n = 0 <=> h = Never
    /\ c.n > 0 =>
        /\ (c.n - 1) * Gap + c.age <= h
        /\ h + next <= c.n * (2 * Gap - 1)
        /\ c.age < Gap => h <= (c.n - 1) * (2 * Gap - 1) + c.age

\* Before a shutdown is asked for, neither count has reached N, and both are accounts.
CountsAreHeld ==
    ~p.fired =>
        /\ p.empty.n < N /\ Accounts(p.empty, held.empty, p.next)
        /\ p.hot.n < N /\ Accounts(p.hot, held.hot, p.next)

\* Each level above the first has taken a step's time since the plug.
Earned(q, plugged) ==
    q.level > 0 => q.evaluated /\ plugged # Never /\ (q.level - 1) * Gap + q.age <= plugged

\* As long as no write has failed, powerd knows the level; it is 0 without a supply
\* and earned with one.
LevelIsEarned ==
    p.running /\ faults = 0 =>
        /\ ~p.broken /\ stl = p.level
        /\ ~p.fired =>
            /\ seen # NoSample /\ seen.src # "online" => p.level = 0
            /\ Earned(p, held.plugged)

IInv ==
    /\ TypeOK
    /\ held \in [empty : Ages, hot : Ages, plugged : Ages] /\ faults \in Nat
    /\ CountsAreHeld /\ LevelIsEarned

-----------------------------------------------------------------------------
(* Arithmetic of products.                                                  *)

\* A factor grows with the product.
LEMMA TimesMono == ASSUME NEW a \in Int, NEW b \in Int, NEW k \in Nat, a <= b
                   PROVE  a * k <= b * k
<1>1. b * k - a * k = (b - a) * k
  OBVIOUS
<1>2. (b - a) * k >= 0
  OBVIOUS
<1>3. a * k \in Int /\ b * k \in Int
  OBVIOUS
<1> QED
  BY <1>1, <1>2, <1>3

\* One more time.
LEMMA TimesNext == ASSUME NEW a \in Int, NEW k \in Int
                   PROVE  a * k \in Int /\ (a + 1) * k = a * k + k
OBVIOUS

\* A product that is reached gives a bound on the quotient.
LEMMA DivBound == ASSUME NEW a \in Nat, NEW t \in Nat, NEW k \in Nat \ {0}, a * k <= t
                  PROVE  t \div k \in Nat /\ a <= t \div k
OBVIOUS

-----------------------------------------------------------------------------
(* What the operators of a sample do.                                       *)

\* confirm_step stays within N.
LEMMA ConfirmIsTyped ==
    ASSUME NEW c \in Counts, c.n < N, NEW cond \in BOOLEAN
    PROVE  Confirm(c, cond) \in Counts
BY ParametersAssumption DEF Confirm, Counts, NoCount

\* An account stays one through a sample, if the poll is then due in a gap.
LEMMA ConfirmAccounts ==
    ASSUME NEW c \in Counts, c.n < N, NEW h \in Ages, NEW due \in Nat, Accounts(c, h, due),
           NEW cond \in BOOLEAN, NEW next \in Nat, Confirm(c, cond).n > 0 => next = Gap
    PROVE  Accounts(Confirm(c, cond), Holds(h, cond), next)
<1> DEFINE d == Confirm(c, cond)
           K == 2 * Gap - 1
<1>1. Gap \in Nat \ {0} /\ K \in Nat /\ Gap <= K /\ c.n \in Nat /\ c.age \in Nat /\ c.age <= Gap
  BY ParametersAssumption DEF Counts
<1>2. CASE ~cond
  BY <1>2 DEF Confirm, Holds, Accounts, NoCount, Never
<1>3. CASE cond /\ c.n = 0
  <2>1. d = [n |-> 1, age |-> 0] /\ Holds(h, cond) = 0 /\ next = Gap
    BY <1>1, <1>3 DEF Confirm, Holds, Accounts, Never
  <2> QED
    BY <1>1, <2>1 DEF Accounts, Never
<1>4. CASE cond /\ c.n > 0
  <2>1. Holds(h, cond) = h /\ h \in Nat
    BY <1>1, <1>4 DEF Holds, Accounts, Ages, Never
  <2>2. CASE c.age < Gap
    <3>1. d = c /\ next = Gap
      BY <1>4, <2>2 DEF Confirm
    <3>2. (c.n - 1) * K \in Int /\ c.n * K = (c.n - 1) * K + K
      BY <1>1, TimesNext, c.n = (c.n - 1) + 1
    <3>3. h <= (c.n - 1) * K + c.age
      BY <1>4, <2>2 DEF Accounts
    <3>4. h + Gap <= c.n * K
      <4> HIDE DEF K
      <4>1. c.age + Gap <= K
        BY <1>1, <2>2 DEF K
      <4> QED
        BY <1>1, <2>1, <3>2, <3>3, <4>1
    <3> QED
      BY <1>4, <2>1, <3>1, <3>4 DEF Accounts
  <2>3. CASE c.age >= Gap
    <3>1. d = [n |-> c.n + 1, age |-> 0] /\ next = Gap
      BY <1>1, <1>4, <2>3 DEF Confirm
    <3>2. (c.n - 1) * Gap \in Int /\ c.n * Gap = (c.n - 1) * Gap + Gap
      BY <1>1, TimesNext, c.n = (c.n - 1) + 1
    <3>3. c.n * K \in Int /\ (c.n + 1) * K = c.n * K + K
      BY <1>1, TimesNext
    <3>4. c.n * Gap <= h
      BY <1>1, <1>4, <2>1, <2>3, <3>2 DEF Accounts
    <3>5. h <= c.n * K
      <4>1. h + due <= c.n * K
        BY <1>4 DEF Accounts
      <4> HIDE DEF K
      <4> QED
        BY <2>1, <3>3, <4>1
    <3>6. (d.n - 1) * Gap + d.age <= h /\ d.n > 0
      BY <1>1, <3>1, <3>2, <3>4
    <3>7. h + next <= d.n * K
      <4> HIDE DEF K
      <4> QED
        BY <1>1, <2>1, <3>1, <3>3, <3>5
    <3>8. h <= (d.n - 1) * K + d.age
      <4> HIDE DEF K
      <4> QED
        BY <1>1, <2>1, <3>1, <3>3, <3>5
    <3> QED
      BY <2>1, <3>6, <3>7, <3>8 DEF Accounts, Never
  <2> QED
    BY <1>1, <2>2, <2>3
<1> QED
  BY <1>1, <1>2, <1>3, <1>4

\* An account stays one while the time to the poll passes.
LEMMA TimeAccounts ==
    ASSUME NEW c \in Counts, c.n < N, NEW h \in Ages, NEW due \in Nat \ {0},
           Accounts(c, h, due)
    PROVE  /\ Accounts([c EXCEPT !.age = Aged(@)], Passed(h, Prompt), due - 1)
           /\ [c EXCEPT !.age = Aged(@)] \in Counts
<1> DEFINE d == [c EXCEPT !.age = Aged(@)]
           K == 2 * Gap - 1
<1>1. Gap \in Nat \ {0} /\ K \in Nat /\ c.n \in Nat /\ c.age \in Nat /\ c.age <= Gap /\ N \in Nat
  BY ParametersAssumption DEF Counts
<1>2. d \in Counts /\ d.n = c.n /\ d.age = IF c.age < Gap THEN c.age + 1 ELSE c.age
  BY <1>1 DEF Counts, Aged
<1>3. CASE c.n = 0
  BY <1>1, <1>2, <1>3 DEF Accounts, Passed, Never
<1>4. CASE c.n > 0
  <2>1. h \in Nat /\ h + due <= c.n * K
    BY <1>1, <1>4 DEF Accounts, Ages, Never
  <2>2. c.n * K <= (N - 1) * K
    <3> HIDE DEF K
    <3> QED
      BY <1>1, TimesMono
  <2>3. Prompt = (N - 1) * K
    BY DEF Prompt
  <2>4. c.n * K \in Int /\ (N - 1) * K \in Int /\ (c.n - 1) * K \in Int /\ (c.n - 1) * Gap \in Int
    BY <1>1, TimesNext
  <2>5. Passed(h, Prompt) = h + 1 /\ (h + 1) + (due - 1) <= c.n * K
    <3> HIDE DEF K
    <3> QED
      BY <2>1, <2>2, <2>3, <2>4 DEF Passed, Never
  <2>6. (d.n - 1) * Gap + d.age <= h + 1
    BY <1>1, <1>2, <1>4, <2>1, <2>4 DEF Accounts
  <2>7. d.age < Gap => h + 1 <= (d.n - 1) * K + d.age
    <3>1. c.age < Gap => h <= (c.n - 1) * K + c.age
      BY <1>4 DEF Accounts
    <3> HIDE DEF K
    <3> QED
      BY <1>1, <1>2, <2>1, <2>4, <3>1
  <2> QED
    BY <1>1, <1>2, <1>4, <2>1, <2>5, <2>6, <2>7 DEF Accounts, Never
<1> QED
  BY <1>1, <1>2, <1>3, <1>4

\* next_poll_ms hurries for a confirmation.
LEMMA NextPollIsTyped ==
    ASSUME NEW q, NEW s, q.empty.n \in Nat, q.hot.n \in Nat
    PROVE  /\ NextPoll(q, s) \in 0 .. Poll
           /\ q.empty.n > 0 \/ q.hot.n > 0 => NextPoll(q, s) = Gap
BY ParametersAssumption DEF NextPoll

\* The warnings change nothing else.
LEMMA WarnIsTyped ==
    ASSUME NEW q \in P, NEW s \in AllSamples
    PROVE  /\ Warn(q, s) \in P
           /\ \E warned, crit \in BOOLEAN : Warn(q, s) = [q EXCEPT !.warned = warned, !.crit = crit]
<1>1. \E warned, crit \in BOOLEAN : Warn(q, s) = [q EXCEPT !.warned = warned, !.crit = crit]
  BY DEF Warn
<1>2. ASSUME NEW warned \in BOOLEAN, NEW crit \in BOOLEAN
      PROVE  [q EXCEPT !.warned = warned, !.crit = crit] \in P
  BY DEF P
<1> QED
  BY <1>1, <1>2

\* The throttle changes nothing but its own time, and wants level 0 without a supply.
LEMMA ThrottleIsTyped ==
    ASSUME NEW q \in P, NEW s \in AllSamples
    PROVE  /\ \E e \in BOOLEAN, a \in 0 .. Gap :
                Throttle(q, s)[1] = [q EXCEPT !.evaluated = e, !.age = a]
           /\ Throttle(q, s)[2] \in 0 .. Levels - 1
           /\ s.src # "online" => Throttle(q, s)[2] = 0
<1>1. /\ Gap \in Nat \ {0} /\ Levels \in Nat \ {0} /\ q.level \in 0 .. Levels - 1
      /\ q.age \in 0 .. Gap /\ q.evaluated \in BOOLEAN
  BY ParametersAssumption DEF P
<1>2. 0 \in 0 .. Gap /\ 0 \in 0 .. Levels - 1
  BY <1>1
<1>3. \E e \in BOOLEAN, a \in 0 .. Gap : q = [q EXCEPT !.evaluated = e, !.age = a]
  <2>1. q = [q EXCEPT !.evaluated = q.evaluated, !.age = q.age]
    BY DEF P
  <2> QED
    BY <1>1, <2>1
<1>4. CASE s.src # "online"
  <2>1. Throttle(q, s)[1] = q /\ Throttle(q, s)[2] = 0
    BY <1>4 DEF Throttle
  <2> QED
    BY <1>2, <1>3, <2>1
<1>5. CASE s.src = "online" /\ s.levels /\ Levels > 1 /\ s.temp # Unread
           /\ (~q.evaluated \/ q.age >= Gap)
  <2> DEFINE t == [q EXCEPT !.evaluated = TRUE, !.age = 0]
  <2>1. Throttle(q, s)[1] = t /\ Throttle(q, s)[2] = Wanted(q, s)
    BY <1>5 DEF Throttle
  <2>2. \E e \in BOOLEAN, a \in 0 .. Gap : t = [q EXCEPT !.evaluated = e, !.age = a]
    <3>1. 0 \in 0 .. Gap
      BY <1>1
    <3> WITNESS TRUE \in BOOLEAN, 0 \in 0 .. Gap
    <3> QED
      OBVIOUS
  <2>3. Wanted(q, s) \in 0 .. Levels - 1
    BY <1>1 DEF Wanted
  <2> HIDE DEF t
  <2> QED
    BY <1>5, <2>1, <2>2, <2>3
<1>6. CASE s.src = "online" /\ ~(s.levels /\ Levels > 1 /\ s.temp # Unread
                                 /\ (~q.evaluated \/ q.age >= Gap))
  <2>1. Throttle(q, s)[1] = q /\ Throttle(q, s)[2] = q.level
    BY <1>6 DEF Throttle
  <2> QED
    BY <1>1, <1>3, <1>6, <2>1
<1> QED
  BY <1>4, <1>5, <1>6

\* The level it wants is earned as the level before was.
LEMMA ThrottleEarns ==
    ASSUME NEW q \in P, NEW s \in AllSamples, NEW h \in Nat, Earned(q, h)
    PROVE  Earned([Throttle(q, s)[1] EXCEPT !.level = Throttle(q, s)[2]], h)
<1> DEFINE t == [q EXCEPT !.evaluated = TRUE, !.age = 0]
           w == Wanted(q, s)
<1>1. /\ Gap \in Nat \ {0} /\ Levels \in Nat \ {0} /\ q.level \in 0 .. Levels - 1
      /\ q.age \in 0 .. Gap
  BY ParametersAssumption DEF P
<1>2. t \in P /\ t.evaluated /\ t.age = 0
  <2>1. ASSUME NEW e \in BOOLEAN, NEW a \in 0 .. Gap
        PROVE  [q EXCEPT !.evaluated = e, !.age = a] \in P
    BY DEF P
  <2>2. 0 \in 0 .. Gap
    BY <1>1
  <2>3. t \in P
    BY <2>1, <2>2, TRUE \in BOOLEAN
  <2> QED
    BY <2>3 DEF P
<1>3. ASSUME NEW r \in P, NEW v \in Nat
      PROVE  /\ [r EXCEPT !.level = v].level = v
             /\ [r EXCEPT !.level = v].age = r.age
             /\ [r EXCEPT !.level = v].evaluated = r.evaluated
  BY DEF P
<1>4. CASE s.src # "online"
  <2>1. Throttle(q, s)[1] = q /\ Throttle(q, s)[2] = 0
    BY <1>4 DEF Throttle
  <2>2. [q EXCEPT !.level = 0].level = 0
    BY <1>3
  <2>3. Earned([q EXCEPT !.level = 0], h)
    BY <2>2 DEF Earned
  <2> QED
    BY <2>1, <2>3
<1>5. CASE s.src = "online" /\ s.levels /\ Levels > 1 /\ s.temp # Unread
           /\ (~q.evaluated \/ q.age >= Gap)
  <2>1. Throttle(q, s)[1] = t /\ Throttle(q, s)[2] = w
    BY <1>5 DEF Throttle
  <2>2. w \in 0 .. Levels - 1 /\ w <= q.level + 1
    BY <1>1 DEF Wanted
  <2>3. w > 0 => (w - 1) * Gap + 0 <= h
    <3> HIDE DEF w
    <3>1. CASE q.level = 0
      BY <1>1, <2>2, <3>1
    <3>2. CASE q.level > 0
      <4>1. (q.level - 1) * Gap + Gap <= h
        BY <1>1, <1>5, <3>2 DEF Earned
      <4>2. (q.level - 1) * Gap \in Int /\ q.level * Gap = (q.level - 1) * Gap + Gap
        BY <1>1, TimesNext, q.level = (q.level - 1) + 1
      <4>3. (w - 1) * Gap <= q.level * Gap /\ (w - 1) * Gap \in Int
        BY <1>1, <2>2, TimesMono, TimesNext
      <4> QED
        BY <1>1, <4>1, <4>2, <4>3
    <3> QED
      BY <1>1, <3>1, <3>2
  <2> HIDE DEF t, w
  <2>4. Earned([t EXCEPT !.level = w], h)
    BY <1>2, <1>3, <2>2, <2>3 DEF Earned, Never
  <2> QED
    BY <2>1, <2>4
<1>6. CASE s.src = "online" /\ ~(s.levels /\ Levels > 1 /\ s.temp # Unread
                                 /\ (~q.evaluated \/ q.age >= Gap))
  <2>1. Throttle(q, s)[1] = q /\ Throttle(q, s)[2] = q.level
    BY <1>6 DEF Throttle
  <2>2. [q EXCEPT !.level = q.level] = q
    BY DEF P
  <2> QED
    BY <2>1, <2>2
<1> QED
  BY <1>4, <1>5, <1>6

-----------------------------------------------------------------------------
(* Every action keeps the inductive invariant.                              *)

\* powerd as it starts, and while it does not run.
LEMMA FreshIsTyped ==
    \A q \in {Fresh, Gone} :
        q \in P /\ q.empty = NoCount /\ q.hot = NoCount /\ q.level = 0 /\ ~q.broken
<1>1. NoCount \in Counts /\ 0 \in 0 .. Levels - 1 /\ 0 \in 0 .. Gap /\ 0 \in 0 .. Poll
  BY ParametersAssumption DEF Counts, NoCount
<1>2. Fresh \in P
  BY <1>1 DEF P, Fresh
<1>3. Gone \in P
  BY <1>2 DEF P, Gone
<1>4. /\ Fresh.empty = NoCount /\ Fresh.hot = NoCount /\ Fresh.level = 0 /\ ~Fresh.broken
      /\ Gone.empty = NoCount /\ Gone.hot = NoCount /\ Gone.level = 0 /\ ~Gone.broken
  BY DEF Fresh, Gone
<1> QED
  BY <1>2, <1>3, <1>4

\* Before the first start powerd has counted nothing.
LEMMA InitSound == Init => IInv
<1> SUFFICES ASSUME Init PROVE IInv
  OBVIOUS
<1> USE DEF Init
<1>1. p \in P
  BY FreshIsTyped
<1>2. TypeOK
  BY <1>1 DEF TypeOK, P, Counts
<1>3. held \in [empty : Ages, hot : Ages, plugged : Ages] /\ faults \in Nat
  BY DEF NotHeld, Ages, Never
<1>4. CountsAreHeld
  BY ParametersAssumption DEF CountsAreHeld, Accounts, Gone, Fresh, NoCount, NotHeld
<1>5. LevelIsEarned
  BY DEF LevelIsEarned, Gone, Fresh
<1> QED
  BY <1>2, <1>3, <1>4, <1>5 DEF IInv

\* The end of powerd, orderly or not, and its start count from nothing; with no write failed
\* the level is 0 at the start.
LEMMA RestartSound == IInv /\ (Start \/ Exit \/ Crash) => IInv'
<1> SUFFICES ASSUME IInv, Start \/ Exit \/ Crash PROVE IInv'
  OBVIOUS
<1>1. /\ \/ p' = Gone
         \/ p' = Fresh /\ (stl' = 0 \/ faults' # 0)
      /\ seen' = NoSample /\ held' = NotHeld /\ going' = going
      /\ stl' \in {stl, 0} /\ faults' \in {faults, faults + 1}
  BY DEF Start, Exit, Crash, IInv, TypeOK
<1>2. p' \in P /\ p'.empty = NoCount /\ p'.hot = NoCount /\ p'.level = 0 /\ ~p'.broken
  BY <1>1, FreshIsTyped
<1>3. TypeOK'
  BY <1>1, <1>2, ParametersAssumption DEF IInv, TypeOK, P, Counts
<1>4. held' \in [empty : Ages, hot : Ages, plugged : Ages] /\ faults' \in Nat
  BY <1>1 DEF IInv, NotHeld, Ages, Never
<1>5. CountsAreHeld'
  BY <1>1, <1>2, ParametersAssumption DEF CountsAreHeld, Accounts, NoCount, NotHeld
<1>6. LevelIsEarned'
  <2>1. ~Gone.running
    BY DEF Gone, Fresh
  <2> QED
    BY <1>1, <1>2, <2>1 DEF LevelIsEarned, Earned
<1> QED
  BY <1>3, <1>4, <1>5, <1>6 DEF IInv

\* The step that fires has an account of N - 1 gaps at least.
Confirmed(h) == h.empty >= (N - 1) * Gap \/ h.hot >= (N - 1) * Gap

\* A sample: what it counts, and how powerd is left.
LEMMA SampleCounts ==
    ASSUME IInv, NEW s \in Samples, SampleTaken(s), ~p.fired
    PROVE  LET hot == Confirm(p.hot, Hot(s))
               empty == Confirm(p.empty, Empty(s))
               q == [Warn(p, s) EXCEPT !.hot = hot,
                                       !.empty = IF hot.n >= N THEN Warn(p, s).empty ELSE empty]
           IN  /\ hot \in Counts /\ empty \in Counts
               /\ q \in P /\ q.hot = hot /\ (hot.n < N => q.empty = empty)
               /\ q.level = p.level /\ q.age = p.age /\ q.evaluated = p.evaluated
               /\ q.broken = p.broken /\ ~q.fired /\ q.running = p.running
               /\ \A next \in Nat : (hot.n > 0 => next = Gap) =>
                    Accounts(hot, held'.hot, next)
               /\ \A next \in Nat : (empty.n > 0 => next = Gap) =>
                    Accounts(empty, held'.empty, next)
<1> DEFINE hot == Confirm(p.hot, Hot(s))
           empty == Confirm(p.empty, Empty(s))
           q == [Warn(p, s) EXCEPT !.hot = hot,
                                   !.empty = IF hot.n >= N THEN Warn(p, s).empty ELSE empty]
<1>1. /\ p \in P /\ s \in AllSamples /\ p.hot \in Counts /\ p.empty \in Counts
      /\ p.next \in Nat /\ N \in Nat
      /\ held.hot \in Ages /\ held.empty \in Ages
  BY SamplesAssumption, ParametersAssumption DEF IInv, TypeOK, P, Counts
<1>2. /\ p.hot.n < N /\ Accounts(p.hot, held.hot, p.next)
      /\ p.empty.n < N /\ Accounts(p.empty, held.empty, p.next)
  BY DEF IInv, CountsAreHeld
<1>3. Hot(s) \in BOOLEAN /\ Empty(s) \in BOOLEAN
  BY DEF Hot, Empty, Discharging, Trusted
<1>4. hot \in Counts /\ empty \in Counts
  BY <1>1, <1>2, <1>3, ConfirmIsTyped
<1>5. held'.hot = Holds(held.hot, Hot(s)) /\ held'.empty = Holds(held.empty, Empty(s))
  BY DEF SampleTaken
<1>6. \A next \in Nat : (hot.n > 0 => next = Gap) => Accounts(hot, held'.hot, next)
  BY <1>1, <1>2, <1>3, <1>5, ConfirmAccounts
<1>7. \A next \in Nat : (empty.n > 0 => next = Gap) => Accounts(empty, held'.empty, next)
  BY <1>1, <1>2, <1>3, <1>5, ConfirmAccounts
<1>8. /\ q \in P /\ q.hot = hot /\ (hot.n < N => q.empty = empty)
      /\ q.level = p.level /\ q.age = p.age /\ q.evaluated = p.evaluated
      /\ q.broken = p.broken /\ ~q.fired /\ q.running = p.running
  <2> DEFINE w == Warn(p, s)
  <2>1. w \in P
    BY <1>1, WarnIsTyped
  <2>2. /\ w.level = p.level /\ w.age = p.age /\ w.evaluated = p.evaluated
        /\ w.broken = p.broken /\ ~w.fired /\ w.running = p.running
    <3>1. PICK warned, crit \in BOOLEAN : w = [p EXCEPT !.warned = warned, !.crit = crit]
      BY <1>1, WarnIsTyped
    <3> HIDE DEF w
    <3> QED
      BY <1>1, <3>1 DEF P
  <2>3. hot.n \in Nat
    BY <1>4 DEF Counts
  <2> HIDE DEF w, hot, empty
  <2>4. ASSUME NEW c \in Counts, NEW d \in Counts
        PROVE  LET r == [w EXCEPT !.hot = c, !.empty = d]
               IN  /\ r \in P /\ r.hot = c /\ r.empty = d
                   /\ r.level = w.level /\ r.age = w.age /\ r.evaluated = w.evaluated
                   /\ r.broken = w.broken /\ r.fired = w.fired /\ r.running = w.running
    BY <2>1 DEF P
  <2>5. w.empty \in Counts
    BY <2>1 DEF P
  <2>6. q = [w EXCEPT !.hot = hot, !.empty = IF hot.n >= N THEN w.empty ELSE empty]
    BY DEF w
  <2> DEFINE d == IF hot.n >= N THEN w.empty ELSE empty
  <2>7. d \in Counts /\ (hot.n < N => d = empty)
    BY <1>1, <1>4, <2>3, <2>5
  <2> HIDE DEF q, d
  <2>8. q = [w EXCEPT !.hot = hot, !.empty = d]
    BY <2>6 DEF d
  <2> QED
    BY <1>4, <2>2, <2>4, <2>7, <2>8
<1> QED
  BY <1>4, <1>6, <1>7, <1>8

\* What a sample leaves of the time the conditions have been held.
LEMMA HeldIsTyped ==
    ASSUME IInv, NEW s \in Samples, SampleTaken(s)
    PROVE  /\ held' \in [empty : Ages, hot : Ages, plugged : Ages]
           /\ seen' = s /\ s \in AllSamples /\ s # NoSample
           /\ s.src = "online" => held'.plugged \in Nat
           /\ s.src = "online" /\ held.plugged # Never => held'.plugged = held.plugged
<1>1. /\ held' = [empty |-> Holds(held.empty, Empty(s)), hot |-> Holds(held.hot, Hot(s)),
                  plugged |-> Holds(held.plugged, s.src = "online")]
      /\ seen' = s
  BY DEF SampleTaken
<1>2. ASSUME NEW h \in Ages, NEW cond \in BOOLEAN
      PROVE  /\ Holds(h, cond) \in Ages
             /\ cond => Holds(h, cond) \in Nat
             /\ cond /\ h # Never => Holds(h, cond) = h
  BY DEF Holds, Ages, Never
<1>3. Hot(s) \in BOOLEAN /\ Empty(s) \in BOOLEAN /\ (s.src = "online") \in BOOLEAN
  BY DEF Hot, Empty, Discharging, Trusted
<1>4. held.empty \in Ages /\ held.hot \in Ages /\ held.plugged \in Ages
  BY DEF IInv
<1>5. s \in AllSamples
  BY SamplesAssumption
<1>6. s.src # "none"
  BY <1>5 DEF AllSamples
<1>7. s # NoSample
  BY <1>6 DEF NoSample
<1>8. held' \in [empty : Ages, hot : Ages, plugged : Ages]
  BY <1>1, <1>2, <1>3, <1>4
<1>9. held'.plugged = Holds(held.plugged, s.src = "online")
  BY <1>1
<1> QED
  BY <1>1, <1>2, <1>3, <1>4, <1>5, <1>7, <1>8, <1>9

\* Setting the next poll changes nothing else.
LEMMA TimedIsTyped ==
    ASSUME NEW q \in P, NEW next \in 0 .. Poll
    PROVE  LET r == [q EXCEPT !.next = next]
           IN  /\ r \in P /\ r.next = next /\ r.running = q.running /\ r.fired = q.fired
               /\ r.empty = q.empty /\ r.hot = q.hot /\ r.level = q.level /\ r.age = q.age
               /\ r.evaluated = q.evaluated /\ r.broken = q.broken
BY DEF P

\* Nor does asking for the shutdown.
LEMMA FiredIsTyped ==
    ASSUME NEW q \in P
    PROVE  LET r == [q EXCEPT !.fired = TRUE]
           IN  /\ r \in P /\ r.fired /\ r.running = q.running /\ r.level = q.level
               /\ r.empty = q.empty /\ r.hot = q.hot /\ r.broken = q.broken
BY DEF P

\* A sample after the shutdown was asked for only sets the next poll.
LEMMA SampleAfterSound ==
    ASSUME IInv, NEW s \in Samples, SampleTaken(s), p.fired
    PROVE  IInv'
<1>1. p \in P /\ p.empty.n \in Nat /\ p.hot.n \in Nat
  BY DEF IInv, TypeOK, P, Counts
<1>2. p' = [p EXCEPT !.next = NextPoll(p, s)] /\ UNCHANGED <<stl, going, faults>>
  BY DEF SampleTaken
<1>3. NextPoll(p, s) \in 0 .. Poll
  BY <1>1, NextPollIsTyped
<1>4. p' \in P /\ p'.fired /\ p'.level = p.level /\ p'.broken = p.broken /\ p'.running = p.running
  BY <1>1, <1>2, <1>3, TimedIsTyped
<1>5. TypeOK'
  <2>1. UNCHANGED <<stl, going, faults>>
    BY <1>2
  <2> QED
    BY <1>4, <2>1, HeldIsTyped DEF IInv, TypeOK, P, Counts
<1> QED
  BY <1>2, <1>4, <1>5, HeldIsTyped DEF IInv, CountsAreHeld, LevelIsEarned

\* A sample that asks for the shutdown has confirmed it.
LEMMA SampleFiresSound ==
    ASSUME IInv, NEW s \in Samples, SampleTaken(s), ~p.fired,
           Confirm(p.hot, Hot(s)).n >= N \/ Confirm(p.empty, Empty(s)).n >= N
    PROVE  IInv' /\ Confirmed(held')
<1> DEFINE hot == Confirm(p.hot, Hot(s))
           empty == Confirm(p.empty, Empty(s))
           q == [Warn(p, s) EXCEPT !.hot = hot,
                                   !.empty = IF hot.n >= N THEN Warn(p, s).empty ELSE empty]
           f == [q EXCEPT !.fired = TRUE]
           t == [f EXCEPT !.next = NextPoll(f, s)]
<1>1. /\ hot \in Counts /\ empty \in Counts /\ q \in P
      /\ q.level = p.level /\ q.broken = p.broken /\ q.running = p.running
      /\ \A next \in Nat : (hot.n > 0 => next = Gap) => Accounts(hot, held'.hot, next)
      /\ \A next \in Nat : (empty.n > 0 => next = Gap) => Accounts(empty, held'.empty, next)
  BY SampleCounts
<1>2. Confirmed(held')
  <2>1. /\ Accounts(hot, held'.hot, Gap) /\ Accounts(empty, held'.empty, Gap)
        /\ held'.hot \in Ages /\ held'.empty \in Ages
        /\ N \in Nat \ {0} /\ Gap \in Nat
    BY <1>1, HeldIsTyped, ParametersAssumption
  <2>2. /\ hot.n \in 0 .. N /\ empty.n \in 0 .. N /\ hot.age \in Nat /\ empty.age \in Nat
        /\ hot.n >= N \/ empty.n >= N
    BY <1>1 DEF Counts
  <2> HIDE DEF hot, empty
  <2>3. (N - 1) * Gap \in Int
    BY <2>1, TimesNext
  <2>4. CASE hot.n >= N
    <3>1. hot.n = N
      BY <2>1, <2>2, <2>4
    <3>2. (N - 1) * Gap + hot.age <= held'.hot
      BY <2>1, <3>1 DEF Accounts
    <3> QED
      BY <2>1, <2>2, <2>3, <3>2 DEF Confirmed, Ages, Never
  <2>5. CASE empty.n >= N
    <3>1. empty.n = N
      BY <2>1, <2>2, <2>5
    <3>2. (N - 1) * Gap + empty.age <= held'.empty
      BY <2>1, <3>1 DEF Accounts
    <3> QED
      BY <2>1, <2>2, <2>3, <3>2 DEF Confirmed, Ages, Never
  <2> QED
    BY <2>2, <2>4, <2>5
<1>3. PowerOff(t)
  BY DEF SampleTaken
<1>4. /\ f \in P /\ f.fired /\ f.level = p.level /\ f.broken = p.broken
      /\ f.running = p.running /\ f.empty.n \in Nat /\ f.hot.n \in Nat
  <2> HIDE DEF q
  <2>1. /\ f \in P /\ f.fired /\ f.level = p.level /\ f.broken = p.broken
        /\ f.running = p.running
    BY <1>1, FiredIsTyped
  <2> HIDE DEF f
  <2> QED
    BY <2>1 DEF P, Counts
<1>5. /\ t \in P /\ t.fired /\ t.level = p.level /\ t.broken = p.broken
      /\ t.running = p.running
  <2>1. NextPoll(f, s) \in 0 .. Poll
    <3> HIDE DEF f
    <3> QED
      BY <1>4, NextPollIsTyped
  <2> HIDE DEF f
  <2> QED
    BY <1>4, <2>1, TimedIsTyped
<1> HIDE DEF t
<1>6. p' = t /\ stl' = stl /\ faults' \in {faults, faults + 1} /\ going' \in {TRUE, going}
  BY <1>3 DEF PowerOff
<1>7. TypeOK'
  BY <1>5, <1>6, HeldIsTyped DEF IInv, TypeOK, P, Counts
<1>8. CountsAreHeld' /\ LevelIsEarned'
  BY <1>5, <1>6 DEF IInv, CountsAreHeld, LevelIsEarned
<1>9. faults' \in Nat
  BY <1>6 DEF IInv
<1> QED
  BY <1>2, <1>7, <1>8, <1>9, HeldIsTyped DEF IInv

\* set_level: the level asked for, or the one before, or none any more.
LEMMA SetLevelIsTyped ==
    ASSUME NEW q \in P, NEW level \in 0 .. Levels - 1, SetLevel(q, level),
           stl \in 0 .. Levels - 1, faults \in Nat
    PROVE  /\ p' \in P /\ stl' \in 0 .. Levels - 1 /\ faults' \in Nat
           /\ p'.empty = q.empty /\ p'.hot = q.hot /\ p'.next = q.next /\ p'.fired = q.fired
           /\ p'.running = q.running
           /\ faults' = 0 => faults = 0
           /\ faults' = 0 /\ ~q.broken /\ stl = q.level =>
                /\ ~p'.broken /\ stl' = level
                /\ p' = [q EXCEPT !.level = level] /\ p'.level = level
<1>1. q = [q EXCEPT !.level = q.level]
  BY DEF P
<1>2. LET r == [q EXCEPT !.level = level]
      IN  /\ r \in P /\ r.level = level /\ r.empty = q.empty /\ r.hot = q.hot /\ r.next = q.next
          /\ r.fired = q.fired /\ r.running = q.running /\ r.broken = q.broken
  BY DEF P
<1>3. LET r == [q EXCEPT !.broken = TRUE]
      IN  /\ r \in P /\ r.empty = q.empty /\ r.hot = q.hot /\ r.next = q.next
          /\ r.fired = q.fired /\ r.running = q.running
  BY DEF P
<1>4. CASE (q.broken \/ level = q.level) /\ p' = q /\ UNCHANGED <<stl, faults>>
  BY <1>1, <1>2, <1>4
<1>5. CASE ~q.broken /\ p' = [q EXCEPT !.level = level] /\ stl' = level /\ UNCHANGED faults
  BY <1>2, <1>5
<1>6. CASE p' = [q EXCEPT !.broken = TRUE] /\ faults' = faults + 1 /\ UNCHANGED stl
  <2>1. faults' # 0 /\ faults' \in Nat
    BY <1>6
  <2> QED
    BY <1>3, <1>6, <2>1
<1> QED
  BY <1>4, <1>5, <1>6 DEF SetLevel

\* A sample that asks for nothing: both counts go on, and the throttle follows the supply.
LEMMA SampleThrottlesSound ==
    ASSUME IInv, NEW s \in Samples, SampleTaken(s), ~p.fired, p.running,
           ~(Confirm(p.hot, Hot(s)).n >= N \/ Confirm(p.empty, Empty(s)).n >= N)
    PROVE  IInv' /\ ~p'.fired
<1> DEFINE hot == Confirm(p.hot, Hot(s))
           empty == Confirm(p.empty, Empty(s))
           q == [Warn(p, s) EXCEPT !.hot = hot,
                                   !.empty = IF hot.n >= N THEN Warn(p, s).empty ELSE empty]
           t == Throttle(q, s)[1]
           level == Throttle(q, s)[2]
           r == [t EXCEPT !.next = NextPoll(t, s)]
<1>1. hot \in Counts /\ empty \in Counts /\ hot.n < N /\ empty.n < N
  <2>1. hot \in Counts /\ empty \in Counts
    BY SampleCounts
  <2>2. ~(hot.n >= N) /\ ~(empty.n >= N)
    OBVIOUS
  <2> HIDE DEF hot, empty
  <2>3. hot.n \in Int /\ empty.n \in Int /\ N \in Int
    BY <2>1, ParametersAssumption DEF Counts
  <2> QED
    BY <2>1, <2>2, <2>3
<1>2. /\ q \in P /\ q.hot = hot /\ q.empty = empty
      /\ q.level = p.level /\ q.age = p.age /\ q.evaluated = p.evaluated
      /\ q.broken = p.broken /\ ~q.fired /\ q.running = p.running
      /\ \A next \in Nat : (hot.n > 0 => next = Gap) => Accounts(hot, held'.hot, next)
      /\ \A next \in Nat : (empty.n > 0 => next = Gap) => Accounts(empty, held'.empty, next)
  BY <1>1, SampleCounts
<1>3. SetLevel(r, level) /\ UNCHANGED going
  BY DEF SampleTaken
<1>4. s \in AllSamples /\ seen' = s /\ s # NoSample
  BY HeldIsTyped
<1> HIDE DEF q
<1>5. /\ t \in P /\ level \in 0 .. Levels - 1 /\ (s.src # "online" => level = 0)
      /\ t.hot = hot /\ t.empty = empty /\ t.level = p.level /\ ~t.fired
      /\ t.broken = p.broken /\ t.running = p.running
  <2>1. PICK e \in BOOLEAN, a \in 0 .. Gap : t = [q EXCEPT !.evaluated = e, !.age = a]
    BY <1>2, <1>4, ThrottleIsTyped
  <2>2. LET u == [q EXCEPT !.evaluated = e, !.age = a]
        IN  /\ u \in P /\ u.hot = q.hot /\ u.empty = q.empty /\ u.level = q.level
            /\ u.fired = q.fired /\ u.broken = q.broken /\ u.running = q.running
    BY <1>2 DEF P
  <2>3. level \in 0 .. Levels - 1 /\ (s.src # "online" => level = 0)
    BY <1>2, <1>4, ThrottleIsTyped
  <2> HIDE DEF t, level
  <2> QED
    BY <1>2, <2>1, <2>2, <2>3
<1>6. NextPoll(t, s) \in 0 .. Poll /\ (hot.n > 0 \/ empty.n > 0 => NextPoll(t, s) = Gap)
  <2> HIDE DEF t, hot, empty
  <2>1. t.empty.n \in Nat /\ t.hot.n \in Nat
    BY <1>5 DEF P, Counts
  <2> QED
    BY <1>5, <2>1, NextPollIsTyped
<1>7. /\ r \in P /\ r.next = NextPoll(t, s) /\ r.hot = hot /\ r.empty = empty
      /\ r.level = p.level /\ ~r.fired /\ r.broken = p.broken /\ r.running = p.running
      /\ r.age = t.age /\ r.evaluated = t.evaluated
  <2> HIDE DEF t, hot, empty
  <2> QED
    BY <1>5, <1>6, TimedIsTyped
<1>8. stl \in 0 .. Levels - 1 /\ faults \in Nat /\ p \in P
  BY DEF IInv, TypeOK, P, Counts
<1> HIDE DEF r, level, hot, empty
<1>9. /\ p' \in P /\ stl' \in 0 .. Levels - 1 /\ faults' \in Nat
      /\ p'.empty = empty /\ p'.hot = hot /\ p'.next = NextPoll(t, s) /\ ~p'.fired
      /\ p'.running
  BY <1>3, <1>5, <1>7, <1>8, SetLevelIsTyped
<1>10. TypeOK'
  BY <1>3, <1>4, <1>9 DEF IInv, TypeOK, P, Counts
<1>11. CountsAreHeld'
  <2>1. NextPoll(t, s) \in Nat
    BY <1>6, ParametersAssumption
  <2>2. Accounts(hot, held'.hot, NextPoll(t, s)) /\ Accounts(empty, held'.empty, NextPoll(t, s))
    BY <1>2, <1>6, <2>1
  <2> HIDE DEF t
  <2> QED
    BY <1>1, <1>9, <2>2 DEF CountsAreHeld
<1>12. LevelIsEarned'
  <2> SUFFICES ASSUME faults' = 0
               PROVE  /\ ~p'.broken /\ stl' = p'.level
                      /\ s.src # "online" => p'.level = 0
                      /\ Earned(p', held'.plugged)
    BY <1>4, <1>9 DEF LevelIsEarned
  <2>1. faults = 0
    BY <1>3, <1>5, <1>7, <1>8, SetLevelIsTyped
  <2>2. ~p.broken /\ stl = p.level
    BY <2>1 DEF IInv, LevelIsEarned
  <2>3. /\ ~p'.broken /\ stl' = level
        /\ p' = [r EXCEPT !.level = level] /\ p'.level = level
    BY <1>3, <1>5, <1>7, <1>8, <2>2, SetLevelIsTyped
  <2>4. CASE s.src # "online"
    BY <1>5, <2>3, <2>4 DEF Earned
  <2>5. CASE s.src = "online"
    <3>1. held'.plugged \in Nat /\ (held.plugged # Never => held'.plugged = held.plugged)
      BY <2>5, HeldIsTyped
    <3>2. Earned(p, held.plugged)
      BY <2>1 DEF IInv, LevelIsEarned
    <3>3. Earned(q, held'.plugged)
      BY <1>2, <3>1, <3>2 DEF Earned, Never
    <3>4. Earned([t EXCEPT !.level = level], held'.plugged)
      BY <1>2, <1>4, <3>1, <3>3, ThrottleEarns DEF level
    <3>5. LET u == [t EXCEPT !.level = level]
              v == [r EXCEPT !.level = level]
          IN  u.level = level /\ v.level = level /\ v.age = u.age /\ v.evaluated = u.evaluated
      <4>1. ASSUME NEW x \in P
            PROVE  LET u == [x EXCEPT !.level = level]
                   IN  u.level = level /\ u.age = x.age /\ u.evaluated = x.evaluated
        BY DEF P
      <4> HIDE DEF t
      <4> QED
        BY <1>5, <1>7, <4>1
    <3>6. Earned(p', held'.plugged)
      <4> HIDE DEF t
      <4> QED
        BY <2>3, <3>4, <3>5 DEF Earned
    <3> QED
      BY <2>3, <2>5, <3>6
  <2> QED
    BY <2>4, <2>5
<1> QED
  BY <1>9, <1>10, <1>11, <1>12, HeldIsTyped DEF IInv

\* Time: what each count and the level account for grows with it.
LEMMA TimeSound == IInv /\ Time => IInv' /\ p'.fired = p.fired
<1> SUFFICES ASSUME IInv, Time PROVE IInv' /\ p'.fired = p.fired
  OBVIOUS
<1> DEFINE empty == [p.empty EXCEPT !.age = Aged(@)]
           hot == [p.hot EXCEPT !.age = Aged(@)]
           plugged == Passed(held.plugged, Gap * Levels)
<1>1. /\ p \in P /\ p.empty \in Counts /\ p.hot \in Counts /\ p.running
      /\ p.next \in Nat \ {0} /\ p.next \in 0 .. Poll /\ p.age \in 0 .. Gap
      /\ p.fired \in BOOLEAN /\ p.level \in Nat /\ p.level < Levels
      /\ held.empty \in Ages /\ held.hot \in Ages /\ held.plugged \in Ages
      /\ Gap \in Nat \ {0} /\ Levels \in Nat \ {0} /\ N \in Nat \ {0}
  BY ParametersAssumption DEF Time, IInv, TypeOK, P, Counts
<1>2. /\ held'.empty = Passed(held.empty, Prompt) /\ held'.hot = Passed(held.hot, Prompt)
      /\ held'.plugged = plugged
      /\ UNCHANGED <<stl, seen, going, faults, runs>>
  BY DEF Time
<1>3. empty \in Counts /\ hot \in Counts /\ Aged(p.age) \in 0 .. Gap /\ p.next - 1 \in 0 .. Poll
  <2>1. \A a \in 0 .. Gap : Aged(a) \in 0 .. Gap
    BY <1>1 DEF Aged
  <2>2. ASSUME NEW c \in Counts PROVE [c EXCEPT !.age = Aged(@)] \in Counts
    <3>1. ASSUME NEW a \in 0 .. Gap PROVE [c EXCEPT !.age = a] \in Counts
      BY DEF Counts
    <3>2. c.age \in 0 .. Gap
      BY DEF Counts
    <3> QED
      BY <2>1, <3>1, <3>2
  <2>3. empty \in Counts /\ hot \in Counts
    BY <1>1, <2>2
  <2>4. p.next - 1 \in 0 .. Poll
    BY <1>1, ParametersAssumption
  <2> QED
    BY <1>1, <2>1, <2>3, <2>4
<1>4. p' = [running |-> p.running, warned |-> p.warned, crit |-> p.crit,
            empty |-> empty, hot |-> hot, fired |-> p.fired, level |-> p.level,
            broken |-> p.broken, evaluated |-> p.evaluated, age |-> Aged(p.age),
            next |-> p.next - 1]
  <2> HIDE DEF empty, hot
  <2> QED
    BY <1>1 DEF Time, P, empty, hot
<1> HIDE DEF empty, hot, plugged
<1>5. /\ p' \in P /\ p'.next = p.next - 1 /\ p'.age = Aged(p.age)
      /\ p'.empty = empty /\ p'.hot = hot /\ p'.fired = p.fired /\ p'.level = p.level
      /\ p'.broken = p.broken /\ p'.evaluated = p.evaluated
  BY <1>1, <1>3, <1>4 DEF P
<1>6. TypeOK'
  BY <1>2, <1>5 DEF IInv, TypeOK, P, Counts
<1>7. held' \in [empty : Ages, hot : Ages, plugged : Ages]
  <2>1. ASSUME NEW h \in Ages, NEW b \in Int PROVE Passed(h, b) \in Ages
    BY DEF Passed, Ages, Never
  <2>2. Prompt \in Int /\ Gap * Levels \in Int
    BY <1>1, TimesNext DEF Prompt
  <2>3. held' = [empty |-> Passed(held.empty, Prompt), hot |-> Passed(held.hot, Prompt),
                 plugged |-> Passed(held.plugged, Gap * Levels)]
    BY DEF Time
  <2> QED
    BY <1>1, <2>1, <2>2, <2>3
<1>8. CountsAreHeld'
  <2> SUFFICES ASSUME ~p.fired
               PROVE  /\ p'.empty.n < N /\ Accounts(p'.empty, held'.empty, p'.next)
                      /\ p'.hot.n < N /\ Accounts(p'.hot, held'.hot, p'.next)
    BY <1>5 DEF CountsAreHeld
  <2>1. /\ p.empty.n < N /\ Accounts(p.empty, held.empty, p.next)
        /\ p.hot.n < N /\ Accounts(p.hot, held.hot, p.next)
    BY DEF IInv, CountsAreHeld
  <2>2. Accounts(empty, held'.empty, p'.next) /\ Accounts(hot, held'.hot, p'.next)
    BY <1>1, <1>2, <1>5, <2>1, TimeAccounts DEF empty, hot
  <2>3. empty.n = p.empty.n /\ hot.n = p.hot.n
    BY <1>1 DEF empty, hot, Counts
  <2> QED
    BY <1>5, <2>1, <2>2, <2>3
<1>9. LevelIsEarned'
  <2> SUFFICES ASSUME faults = 0, ~p.fired, Earned(p, held.plugged), p.level > 0
               PROVE  /\ plugged # Never
                      /\ (p.level - 1) * Gap + Aged(p.age) <= plugged
    BY <1>1, <1>2, <1>5 DEF IInv, LevelIsEarned, Earned
  <2>1. held.plugged \in Nat /\ (p.level - 1) * Gap + p.age <= held.plugged
    BY <1>1 DEF Earned, Ages, Never
  <2>2. (p.level - 1) * Gap \in Int /\ Gap * Levels \in Int /\ p.level * Gap \in Int
    BY <1>1, TimesNext
  <2>3. CASE held.plugged <= Gap * Levels
    BY <1>1, <2>1, <2>2, <2>3 DEF plugged, Passed, Aged, Never
  <2>4. CASE held.plugged > Gap * Levels
    <3>1. p.level * Gap <= Levels * Gap /\ p.level * Gap = (p.level - 1) * Gap + Gap
      BY <1>1, TimesMono, TimesNext, p.level = (p.level - 1) + 1
    <3>2. Levels * Gap = Gap * Levels
      BY <1>1
    <3> QED
      BY <1>1, <2>1, <2>2, <2>4, <3>1, <3>2 DEF plugged, Passed, Aged, Never
  <2> QED
    BY <1>1, <2>1, <2>2, <2>3, <2>4
<1>10. faults' \in Nat
  BY <1>2 DEF IInv
<1> QED
  BY <1>5, <1>6, <1>7, <1>8, <1>9, <1>10 DEF IInv

\* A sample keeps the invariant, and one that asks for the shutdown has confirmed it.
LEMMA SampleSound ==
    ASSUME IInv, p.running, NEW s \in Samples, SampleTaken(s)
    PROVE  IInv' /\ (p'.fired /\ ~p.fired => Confirmed(held'))
BY SampleAfterSound, SampleFiresSound, SampleThrottlesSound

\* Every step keeps the inductive invariant.
LEMMA StepSound == IInv /\ [Next]_vars => IInv' /\ (p'.fired /\ ~p.fired => Confirmed(held'))
<1> SUFFICES ASSUME IInv, [Next]_vars PROVE IInv' /\ (p'.fired /\ ~p.fired => Confirmed(held'))
  OBVIOUS
<1>1. CASE Due \/ Early
  BY <1>1, SampleSound DEF Due, Early
<1>2. CASE Time
  BY <1>2, TimeSound
<1>3. CASE Start \/ Exit \/ Crash
  <2>1. ~p'.fired
    BY <1>3 DEF Start, Exit, Crash, Gone, Fresh
  <2> QED
    BY <1>3, <2>1, RestartSound
<1>4. CASE UNCHANGED vars
  BY <1>4 DEF vars, IInv, TypeOK, CountsAreHeld, LevelIsEarned
<1> QED
  BY <1>1, <1>2, <1>3, <1>4 DEF Next

-----------------------------------------------------------------------------
(* What follows for the specification.                                      *)

\* The inductive invariant holds of every behaviour.
THEOREM SpecIInv == Spec => []IInv
<1>1. Init => IInv
  BY InitSound
<1>2. IInv /\ [Next]_vars => IInv'
  BY StepSound
<1> QED
  BY <1>1, <1>2, PTL DEF Spec

\* powerd asks for a shutdown only when every sample of N - 1 gaps at least has shown the
\* battery empty, or over-temperature, however many uevents fell into that time.
THEOREM SpecShutdownIsConfirmed == Spec => ShutdownIsConfirmed
<1>1. IInv /\ [Next]_vars =>
        [p'.fired /\ ~p.fired => \E h \in {held'.empty, held'.hot} : h >= (N - 1) * Gap]_vars
  <2> SUFFICES ASSUME IInv, [Next]_vars, p'.fired, ~p.fired
               PROVE  \E h \in {held'.empty, held'.hot} : h >= (N - 1) * Gap
    OBVIOUS
  <2>1. Confirmed(held')
    BY StepSound
  <2> QED
    BY <2>1 DEF Confirmed
<1> QED
  BY <1>1, SpecIInv, PTL DEF Spec, ShutdownIsConfirmed

\* While it has not, neither condition has been held longer than N - 1 gaps of nearly twice
\* their length.
THEOREM SpecShutdownIsPrompt == Spec => []ShutdownIsPrompt
<1>1. IInv => ShutdownIsPrompt
  <2> SUFFICES ASSUME IInv, ~p.fired PROVE held.empty <= Prompt /\ held.hot <= Prompt
    BY DEF ShutdownIsPrompt
  <2>1. /\ p.empty \in Counts /\ p.hot \in Counts /\ p.next \in Nat
        /\ held.empty \in Ages /\ held.hot \in Ages
    BY ParametersAssumption DEF IInv, TypeOK, Counts
  <2>2. /\ p.empty.n < N /\ Accounts(p.empty, held.empty, p.next)
        /\ p.hot.n < N /\ Accounts(p.hot, held.hot, p.next)
    BY DEF IInv, CountsAreHeld
  <2>3. ASSUME NEW c \in Counts, c.n < N, NEW h \in Ages, Accounts(c, h, p.next)
        PROVE  h <= Prompt
    <3> DEFINE K == 2 * Gap - 1
    <3>1. K \in Nat /\ c.n \in Nat /\ N \in Nat /\ Prompt = (N - 1) * K
      BY ParametersAssumption DEF Counts, Prompt
    <3>2. c.n > 0 => h + p.next <= c.n * K
      BY <2>3 DEF Accounts
    <3>3. c.n = 0 => h = Never
      BY <2>3 DEF Accounts
    <3> HIDE DEF K
    <3>4. c.n * K <= (N - 1) * K /\ c.n * K \in Int /\ (N - 1) * K \in Int
      BY <2>3, <3>1, TimesMono, TimesNext
    <3>5. (N - 1) * K >= 0
      BY <2>3, <3>1
    <3> QED
      BY <2>1, <2>3, <3>1, <3>2, <3>3, <3>4, <3>5 DEF Ages, Never
  <2> QED
    BY <2>1, <2>2, <2>3
<1> QED
  BY <1>1, SpecIInv, PTL

\* As long as no write of the level has failed: none is left without a supply, and with one
\* it is only as high as the time since the plug allows.
THEOREM SpecThrottleFollowsSupply == Spec => []ThrottleFollowsSupply
<1>1. IInv => UnpluggedIsUnthrottled
  BY DEF IInv, LevelIsEarned, UnpluggedIsUnthrottled
<1>2. IInv => ThrottleClimbsByTheStep
  <2> SUFFICES ASSUME IInv, p.running, ~p.fired, faults = 0
               PROVE  stl <= IF held.plugged = Never THEN 0 ELSE 1 + held.plugged \div Gap
    BY DEF ThrottleClimbsByTheStep
  <2>1. stl = p.level /\ Earned(p, held.plugged)
    BY DEF IInv, LevelIsEarned
  <2>2. /\ p.level \in Nat /\ p.age \in Nat /\ Gap \in Nat \ {0} /\ held.plugged \in Ages
    BY ParametersAssumption DEF IInv, TypeOK
  <2>3. CASE p.level = 0
    <3>1. held.plugged # Never => held.plugged \div Gap \in Nat
      BY <2>2, DivBound, 0 * Gap = 0 DEF Ages
    <3> QED
      BY <2>1, <2>3, <3>1
  <2>4. CASE p.level > 0
    <3>1. held.plugged \in Nat /\ (p.level - 1) * Gap + p.age <= held.plugged
      BY <2>1, <2>2, <2>4 DEF Earned, Ages
    <3>2. (p.level - 1) * Gap \in Int /\ p.level - 1 \in Nat
      BY <2>2, <2>4, TimesNext
    <3>3. (p.level - 1) * Gap <= held.plugged
      BY <2>2, <3>1, <3>2
    <3>4. held.plugged \div Gap \in Nat /\ p.level - 1 <= held.plugged \div Gap
      BY <2>2, <3>1, <3>2, <3>3, DivBound
    <3> QED
      BY <2>1, <2>2, <3>1, <3>4 DEF Never
  <2> QED
    BY <2>2, <2>3, <2>4
<1>3. IInv => ThrottleFollowsSupply
  BY <1>1, <1>2 DEF IInv, ThrottleFollowsSupply
<1> QED
  BY <1>3, SpecIInv, PTL

=============================================================================
