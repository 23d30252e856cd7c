------------------------- MODULE RateLimiterProofs -------------------------
(* The rate limiter keeps its promise for every limit, window and client. *)
EXTENDS RateLimiter, SequenceTheorems, TLAPS

\* What the popleft loop leaves of a deque is its end.
LEMMA SuffixOfDeque ==
  ASSUME NEW s \in Seq(Nat), NEW k \in 0..Len(s)
  PROVE  LET kept == SubSeq(s, k + 1, Len(s))
         IN  /\ kept \in Seq(Nat)
             /\ Len(kept) = Len(s) - k
             /\ \A i \in 1..Len(kept) : kept[i] = s[k + i]
<1> DEFINE kept == SubSeq(s, k + 1, Len(s))
<1>1. \A i \in (k + 1)..Len(s) : s[i] \in Nat
  BY ElementOfSeq
<1>2. /\ kept \in Seq(Nat)
      /\ Len(kept) = IF k + 1 <= Len(s) THEN Len(s) - (k + 1) + 1 ELSE 0
      /\ \A i \in 1..(Len(s) - (k + 1) + 1) : kept[i] = s[(k + 1) + i - 1]
  BY <1>1, SubSeqProperties, k + 1 \in Int, Len(s) \in Int
<1>3. QED BY <1>2

LEMMA RetryAfterIsNat == ASSUME NEW w \in Int PROVE RetryAfter(w) \in Nat
<1>1. w \div Second \in Int
  BY SecondAssumption
<1>2. Round(w) \in Int
  BY <1>1 DEF Round
<1>3. QED BY <1>2 DEF RetryAfter

\* A process that has seen no order.
LEMMA EmptyHistory ==
  ASSUME NEW t \in Nat
  PROVE  EndOfHistory(<<>>, <<>>, t) /\ InOrder(<<>>, t) /\ Spaced(<<>>)
BY LimitAssumption DEF EndOfHistory, InOrder, Spaced

\* Time passes: what has left the window stays out of it.
LEMMA TimePasses ==
  ASSUME NEW deque \in Seq(Nat), NEW history \in Seq(Nat), NEW t \in Nat,
         EndOfHistory(deque, history, t), InOrder(history, t)
  PROVE  EndOfHistory(deque, history, t + 1) /\ InOrder(history, t + 1)
<1>1. \A i \in 1..Len(history) : history[i] \in Nat
  BY ElementOfSeq
<1>2. Len(history) - Len(deque) <= Len(history)
  BY LenProperties
<1>3. QED BY <1>1, <1>2, LimitAssumption DEF EndOfHistory, InOrder

\* A deque and a history with one more order: the deque has lost its first k.
OneMore(deque, history, t, k, left, longer) ==
  /\ deque \in Seq(Nat) /\ history \in Seq(Nat) /\ t \in Nat
  /\ k \in Nat /\ k <= Len(deque)
  /\ left \in Seq(Nat)
  /\ Len(left) = (Len(deque) - k) + 1
  /\ left[(Len(deque) - k) + 1] = t
  /\ \A i \in 1..(Len(deque) - k) : left[i] = deque[k + i]
  /\ longer \in Seq(Nat)
  /\ Len(longer) = Len(history) + 1
  /\ longer[Len(history) + 1] = t
  /\ \A i \in 1..Len(history) : longer[i] = history[i]

\* An order let through: what the loop dropped, like all that was forgotten
\* before it, is a whole window old, and fewer than Count orders are left.
LEMMA LetThrough ==
  ASSUME NEW deque, NEW history, NEW t, NEW k, NEW left, NEW longer,
         OneMore(deque, history, t, k, left, longer),
         EndOfHistory(deque, history, t), InOrder(history, t), Spaced(history),
         \A i \in 1..k : t - deque[i] >= Window,
         Len(deque) - k < Count
  PROVE  EndOfHistory(left, longer, t) /\ InOrder(longer, t) /\ Spaced(longer)
<1>1. PICK m \in Nat : m = Len(deque) - k
  <2>1. Len(deque) \in Nat /\ k \in Nat /\ k <= Len(deque)
    BY LenProperties DEF OneMore
  <2>2. Len(deque) - k \in Nat
    BY <2>1
  <2>3. QED BY <2>2
<1>2. /\ deque \in Seq(Nat) /\ history \in Seq(Nat) /\ t \in Nat
      /\ left \in Seq(Nat) /\ longer \in Seq(Nat) /\ k \in Nat
      /\ m + k = Len(deque) /\ m < Count
      /\ Len(left) = m + 1 /\ left[m + 1] = t
      /\ \A i \in 1..m : left[i] = deque[k + i]
      /\ Len(longer) = Len(history) + 1
      /\ longer[Len(history) + 1] = t
      /\ \A i \in 1..Len(history) : longer[i] = history[i]
  BY <1>1 DEF OneMore
<1> USE <1>2
<1>3. /\ Len(history) \in Nat /\ Len(deque) \in Nat /\ Count \in Nat /\ Window \in Nat
      /\ \A i \in 1..Len(history) : history[i] \in Nat
      /\ \A i \in 1..Len(longer) : longer[i] \in Nat
  <2>1. Len(history) \in Nat /\ Len(deque) \in Nat /\ Count \in Nat /\ Window \in Nat
    BY LimitAssumption
  <2>2. \A i \in 1..Len(history) : history[i] \in Nat
    BY ElementOfSeq
  <2>3. \A i \in 1..Len(longer) : longer[i] \in Nat
    BY ElementOfSeq
  <2>4. QED BY <2>1, <2>2, <2>3
<1>4. PICK forgotten \in Nat :
        /\ forgotten + Len(deque) = Len(history)
        /\ \A i \in 1..Len(deque) : deque[i] = history[forgotten + i]
        /\ \A i \in 1..forgotten : t - history[i] >= Window
  <2>1. Len(history) - Len(deque) \in Nat
    BY <1>3 DEF EndOfHistory
  <2>2. PICK forgotten \in Nat : forgotten = Len(history) - Len(deque)
    BY <2>1
  <2>3. /\ \A i \in 1..Len(deque) : deque[i] = history[forgotten + i]
        /\ \A i \in 1..forgotten : t - history[i] >= Window
    BY <2>2 DEF EndOfHistory
  <2>4. forgotten + Len(deque) = Len(history)
    BY <1>3, <2>2
  <2>5. QED BY <2>3, <2>4
<1>5. PICK dropped \in Nat : dropped = forgotten + k
  OBVIOUS
<1>6. dropped + m = Len(history)
  BY <1>3, <1>4, <1>5
<1>7. ASSUME NEW i \in 1..dropped PROVE t - history[i] >= Window
  <2>1. CASE i <= forgotten
    BY <1>4, <2>1
  <2>2. CASE i > forgotten
    <3>1. PICK j \in 1..k : i = forgotten + j
      <4>1. i - forgotten \in 1..k /\ i = forgotten + (i - forgotten)
        BY <1>5, <2>2
      <4>2. QED BY <4>1
    <3>2. j \in 1..Len(deque)
      BY <1>3, <3>1
    <3>3. QED BY <1>4, <3>1, <3>2
  <2>3. QED BY <2>1, <2>2
<1>8. ASSUME NEW i \in 1..m PROVE left[i] = history[dropped + i]
  <2>1. k + i \in 1..Len(deque) /\ forgotten + (k + i) = dropped + i
    BY <1>3, <1>5
  <2>2. QED BY <1>4, <2>1
<1>9. EndOfHistory(left, longer, t)
  <2>1. Len(longer) - Len(left) = dropped
    BY <1>3, <1>6
  <2>2. ASSUME NEW i \in 1..Len(left) PROVE left[i] = longer[dropped + i]
    <3>1. CASE i = m + 1
      <4>1. dropped + i = Len(history) + 1
        BY <1>3, <1>6, <3>1
      <4>2. QED BY <3>1, <4>1
    <3>2. CASE i # m + 1
      <4>1. i \in 1..m /\ dropped + i \in 1..Len(history)
        BY <1>3, <1>6, <3>2
      <4>2. QED BY <1>8, <4>1
    <3>3. QED BY <3>1, <3>2
  <2>3. ASSUME NEW i \in 1..dropped PROVE t - longer[i] >= Window
    <3>1. i \in 1..Len(history)
      BY <1>3, <1>6
    <3>2. QED BY <1>7, <3>1
  <2>4. Len(left) \in 0..Count
    BY <1>3
  <2>5. dropped >= 0
    OBVIOUS
  <2>6. QED BY <2>1, <2>2, <2>3, <2>4, <2>5 DEF EndOfHistory
<1>10. InOrder(longer, t)
  <2>1. ASSUME NEW i \in 1..Len(longer) PROVE longer[i] <= t
    <3>1. CASE i = Len(history) + 1
      BY <3>1
    <3>2. CASE i # Len(history) + 1
      <4>1. i \in 1..Len(history)
        BY <1>3, <3>2
      <4>2. QED BY <4>1 DEF InOrder
    <3>3. QED BY <3>1, <3>2
  <2>2. ASSUME NEW i \in 1..Len(longer), NEW j \in i..Len(longer)
        PROVE  longer[i] <= longer[j]
    <3>1. CASE j = Len(history) + 1
      BY <2>1, <3>1
    <3>2. CASE j # Len(history) + 1
      <4>1. j <= Len(history)
        BY <1>3, <3>2
      <4>2. i \in 1..Len(history) /\ j \in i..Len(history) /\ j \in 1..Len(history)
        BY <1>3, <4>1
      <4>3. history[i] <= history[j]
        BY <4>2 DEF InOrder
      <4>4. QED BY <4>2, <4>3
    <3>3. QED BY <3>1, <3>2
  <2>3. QED BY <2>1, <2>2 DEF InOrder
<1>11. ASSUME NEW i \in 1..Len(longer), NEW j \in 1..Len(longer), j - i >= Count
      PROVE  longer[j] - longer[i] >= Window
  <2>1. CASE j = Len(history) + 1
    <3>1. i \in 1..dropped /\ i \in 1..Len(history)
      BY <1>3, <1>6, <1>11, <2>1
    <3>2. QED BY <1>7, <2>1, <3>1
  <2>2. CASE j # Len(history) + 1
    <3>1. i \in 1..Len(history) /\ j \in 1..Len(history)
      <4>1. j \in 1..Len(history)
        BY <1>3, <2>2
      <4>2. i <= j
        BY <1>3, <1>11
      <4>3. QED BY <1>3, <4>1, <4>2
    <3>2. history[j] - history[i] >= Window
      BY <1>11, <3>1 DEF Spaced
    <3>3. QED BY <3>1, <3>2
  <2>3. QED BY <2>1, <2>2
<1>12. QED BY <1>9, <1>10, <1>11 DEF Spaced

\* What one call of check leaves of its own client's deque and history.
LEMMA CheckOwn ==
  ASSUME WindowInv, NEW c \in Client, Check(c)
  PROVE  \/ \E k \in 0..Len(times[c]) :
              LET kept == SubSeq(times[c], k + 1, Len(times[c]))
              IN  /\ Kept(c, k)
                  /\ Len(kept) < Count
                  /\ times' = [times EXCEPT ![c] = Append(kept, now)]
                  /\ accepted' = [accepted EXCEPT ![c] = Append(@, now)]
                  /\ UNCHANGED <<now, refusal, restarts>>
         \/ /\ Len(times[c]) = Count
            /\ ~Expired(times[c][1])
            /\ UNCHANGED <<now, times, accepted, restarts>>
            /\ refusal' = [refusal EXCEPT ![c] =
                 [at |-> now, wait |-> Window - (now - times[c][1]),
                  retryAfter |-> RetryAfter(Window - (now - times[c][1]))]]
<1>1. times[c] \in Seq(Nat) /\ Len(times[c]) \in 0..Count
  BY DEF WindowInv, TypeOK, EndOfHistory
<1>2. PICK k \in 0..Len(times[c]) :
        LET kept == SubSeq(times[c], k + 1, Len(times[c]))
            wait == Window - (now - kept[1])
        IN  /\ Kept(c, k)
            /\ \/ /\ Len(kept) < Count
                  /\ times' = [times EXCEPT ![c] = Append(kept, now)]
                  /\ accepted' = [accepted EXCEPT ![c] = Append(@, now)]
                  /\ UNCHANGED refusal
               \/ /\ Len(kept) >= Count
                  /\ times' = [times EXCEPT ![c] = kept]
                  /\ refusal' = [refusal EXCEPT ![c] =
                       [at |-> now, wait |-> wait, retryAfter |-> RetryAfter(wait)]]
                  /\ UNCHANGED accepted
            /\ UNCHANGED <<now, restarts>>
  BY DEF Check
<1> DEFINE kept == SubSeq(times[c], k + 1, Len(times[c]))
<1>3. Len(kept) = Len(times[c]) - k
  BY <1>1, SuffixOfDeque
<1>4. CASE Len(kept) < Count
  <2>1. ~(Len(kept) >= Count)
    BY <1>1, <1>3, <1>4, LimitAssumption
  <2>2. QED BY <1>2, <1>4, <2>1
<1>5. CASE Len(kept) >= Count
  <2>1. k = 0 /\ Len(times[c]) = Count
    BY <1>1, <1>3, <1>5, LimitAssumption
  <2>2. kept = times[c]
    BY <1>1, <2>1, SubSeqFull
  <2>3. ~Expired(times[c][1])
    BY <1>2, <2>1, LimitAssumption DEF Kept
  <2>4. times' = times
    <3>1. times' = [times EXCEPT ![c] = kept]
      BY <1>1, <1>2, <1>3, <1>5, LimitAssumption
    <3>2. times = [times EXCEPT ![c] = times[c]]
      BY DEF WindowInv, TypeOK
    <3>3. QED BY <2>2, <3>1, <3>2
  <2>5. QED BY <1>2, <1>5, <2>1, <2>2, <2>3, <2>4
<1>6. QED
  <2>1. Len(kept) \in Nat /\ Count \in Nat
    BY <1>1, <1>3, LimitAssumption
  <2>2. QED BY <1>4, <1>5, <2>1

LEMMA InitInv == Init => WindowInv
<1> SUFFICES ASSUME Init PROVE WindowInv
  OBVIOUS
<1>1. TypeOK
  BY DEF Init, TypeOK, NotRefused, Refusal
<1>2. QED BY <1>1, EmptyHistory DEF Init, WindowInv, AtMostCountPerWindow

LEMMA CheckInv ==
  ASSUME WindowInv, NEW c \in Client, Check(c)
  PROVE  WindowInv'
<1>1. /\ now \in Nat
      /\ times \in [Client -> Seq(Nat)] /\ accepted \in [Client -> Seq(Nat)]
      /\ refusal \in [Client -> Refusal] /\ restarts \in Nat
      /\ EndOfHistory(times[c], accepted[c], now) /\ InOrder(accepted[c], now)
      /\ Spaced(accepted[c])
  BY DEF WindowInv, TypeOK, AtMostCountPerWindow
<1>2. ASSUME NEW k \in 0..Len(times[c]), Kept(c, k),
             Len(SubSeq(times[c], k + 1, Len(times[c]))) < Count,
             times' = [times EXCEPT ![c] =
                         Append(SubSeq(times[c], k + 1, Len(times[c])), now)],
             accepted' = [accepted EXCEPT ![c] = Append(@, now)],
             UNCHANGED <<now, refusal, restarts>>
      PROVE  WindowInv'
  <2> DEFINE kept == SubSeq(times[c], k + 1, Len(times[c]))
  <2>1. /\ kept \in Seq(Nat)
        /\ Len(kept) = Len(times[c]) - k
        /\ \A i \in 1..Len(kept) : kept[i] = times[c][k + i]
        /\ Len(kept) < Count
    BY <1>1, <1>2, SuffixOfDeque
  <2>2. \A i \in 1..k : now - times[c][i] >= Window
    BY <1>2 DEF Kept, Expired
  <2> HIDE DEF kept
  <2>3. PICK left : left = Append(kept, now)
    OBVIOUS
  <2>4. PICK longer : longer = Append(accepted[c], now)
    OBVIOUS
  <2>5. /\ left \in Seq(Nat)
         /\ Len(left) = Len(kept) + 1
         /\ left[Len(kept) + 1] = now
         /\ \A i \in 1..Len(kept) : left[i] = kept[i]
    BY <1>1, <2>1, <2>3, AppendProperties
  <2>6. /\ longer \in Seq(Nat)
         /\ Len(longer) = Len(accepted[c]) + 1
         /\ longer[Len(accepted[c]) + 1] = now
         /\ \A i \in 1..Len(accepted[c]) : longer[i] = accepted[c][i]
    BY <1>1, <2>4, AppendProperties
  <2>7. EndOfHistory(left, longer, now) /\ InOrder(longer, now) /\ Spaced(longer)
    <3>1. k \in Nat /\ k <= Len(times[c]) /\ Len(times[c]) - k < Count
      BY <1>1, <2>1
    <3>2. \A i \in 1..(Len(times[c]) - k) : left[i] = times[c][k + i]
      BY <2>1, <2>5
    <3>3. OneMore(times[c], accepted[c], now, k, left, longer)
      BY <1>1, <2>1, <2>5, <2>6, <3>1, <3>2 DEF OneMore
    <3>4. QED BY <1>1, <2>2, <3>1, <3>3, LetThrough
  <2>8. times' = [times EXCEPT ![c] = left] /\ accepted' = [accepted EXCEPT ![c] = longer]
    BY <1>2, <2>3, <2>4 DEF kept
  <2>9. TypeOK'
    BY <1>1, <1>2, <2>5, <2>6, <2>8 DEF TypeOK
  <2>10. ASSUME NEW d \in Client
        PROVE  /\ EndOfHistory(times'[d], accepted'[d], now')
               /\ InOrder(accepted'[d], now')
               /\ Spaced(accepted'[d])
    <3>1. CASE d = c
      BY <1>1, <1>2, <2>7, <2>8, <3>1
    <3>2. CASE d # c
      BY <1>1, <1>2, <2>8, <3>2 DEF WindowInv, AtMostCountPerWindow
    <3>3. QED BY <3>1, <3>2
  <2>11. QED BY <2>9, <2>10 DEF WindowInv, AtMostCountPerWindow
<1>3. ASSUME Len(times[c]) = Count,
             UNCHANGED <<now, times, accepted, restarts>>,
             refusal' = [refusal EXCEPT ![c] =
               [at |-> now, wait |-> Window - (now - times[c][1]),
                retryAfter |-> RetryAfter(Window - (now - times[c][1]))]],
             ~Expired(times[c][1])
      PROVE  WindowInv'
  <2>1. times[c][1] \in Nat
    BY <1>1, <1>3, ElementOfSeq, LimitAssumption
  <2>2. Window - (now - times[c][1]) \in Nat
    BY <1>1, <1>3, <2>1, LimitAssumption DEF Expired
  <2>3. RetryAfter(Window - (now - times[c][1])) \in Nat
    BY <2>2, RetryAfterIsNat
  <2>4. refusal' \in [Client -> Refusal]
    BY <1>1, <1>3, <2>2, <2>3 DEF Refusal
  <2>5. QED BY <1>1, <1>3, <2>4 DEF WindowInv, TypeOK, AtMostCountPerWindow
<1>4. QED BY <1>2, <1>3, CheckOwn

LEMMA NextInv == WindowInv /\ [Next]_vars => WindowInv'
<1> SUFFICES ASSUME WindowInv, [Next]_vars PROVE WindowInv'
  OBVIOUS
<1>1. CASE Tick
  <2>1. now' = now + 1 /\ UNCHANGED <<times, accepted, refusal, restarts>> /\ TypeOK
    BY <1>1 DEF Tick, WindowInv
  <2>2. \A c \in Client :
          EndOfHistory(times[c], accepted[c], now + 1) /\ InOrder(accepted[c], now + 1)
    BY <2>1, TimePasses DEF WindowInv, TypeOK
  <2>3. QED BY <2>1, <2>2 DEF WindowInv, TypeOK, AtMostCountPerWindow
<1>2. CASE Restart
  BY <1>2, EmptyHistory DEF Restart, WindowInv, TypeOK, AtMostCountPerWindow
<1>3. CASE \E c \in Client : Check(c)
  BY <1>3, CheckInv
<1>4. CASE UNCHANGED vars
  BY <1>4 DEF vars, WindowInv, TypeOK, AtMostCountPerWindow
<1>5. QED BY <1>1, <1>2, <1>3, <1>4 DEF Next

\* The deque is the end of the history, in order, and what it has dropped is a
\* whole window old, for every limit, window and number of clients.
THEOREM WindowInvHolds == Spec => []WindowInv
<1>1. QED BY InitInv, NextInv, PTL DEF Spec

\* No window holds more than Count of a client's orders.
THEOREM NeverMoreThanCount == Spec => []AtMostCountPerWindow
<1>1. WindowInv => AtMostCountPerWindow
  BY DEF WindowInv
<1>2. QED BY <1>1, WindowInvHolds, PTL

\* check refuses a client only with Count orders in the window that ends now.
THEOREM NeverRefusedNeedlessly == Spec => RefusedOnlyWhenFull
<1> DEFINE Step == \A c \in Client : refusal'[c] # refusal[c] =>
                     /\ Len(accepted[c]) >= Count
                     /\ now - accepted[c][Len(accepted[c]) - Count + 1] < Window
<1>1. ASSUME WindowInv, [Next]_vars PROVE [Step]_vars
  <2>1. ASSUME NEW c \in Client, Check(c), NEW d \in Client, refusal'[d] # refusal[d]
        PROVE  /\ Len(accepted[d]) >= Count
               /\ now - accepted[d][Len(accepted[d]) - Count + 1] < Window
    <3>1. refusal \in [Client -> Refusal] /\ accepted[c] \in Seq(Nat)
      BY <1>1 DEF WindowInv, TypeOK
    <3>2. /\ Len(times[c]) = Count
          /\ ~Expired(times[c][1])
          /\ d = c
      BY <1>1, <2>1, <3>1, CheckOwn
    <3>3. /\ Len(accepted[c]) - Count >= 0
          /\ times[c][1] = accepted[c][Len(accepted[c]) - Count + 1]
      <4>1. EndOfHistory(times[c], accepted[c], now) /\ 1 \in 1..Count
        BY <1>1, LimitAssumption DEF WindowInv
      <4>2. QED BY <3>2, <4>1 DEF EndOfHistory
    <3>4. Len(accepted[c]) >= Count
      BY <3>1, <3>3, LimitAssumption
    <3>5. now - times[c][1] < Window
      <4>1. times[c][1] \in Nat /\ now \in Nat
        BY <1>1, <3>2, ElementOfSeq, LimitAssumption DEF WindowInv, TypeOK
      <4>2. QED BY <3>2, <4>1, LimitAssumption DEF Expired
    <3>6. QED BY <3>2, <3>3, <3>4, <3>5
  <2>2. CASE Tick \/ Restart \/ UNCHANGED vars
    BY <2>2 DEF Tick, Restart, vars
  <2>3. QED BY <1>1, <2>1, <2>2 DEF Next
<1>2. QED BY <1>1, WindowInvHolds, PTL DEF Spec, RefusedOnlyWhenFull

=============================================================================
