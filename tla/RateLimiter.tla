---------------------------- MODULE RateLimiter ----------------------------
(***************************************************************************)
(* OrderRateLimiter: a sliding window of order times per client address,   *)
(* in the memory of the one platform-api process.  check() has no await in *)
(* it, so a call is one step.                                              *)
(*                                                                         *)
(* Time is counted in ticks, Second ticks to a second: the clock is a      *)
(* float, and what it shows between two whole seconds matters to the       *)
(* Retry-After a refused client is given.                                  *)
(***************************************************************************)
EXTENDS Integers, Sequences

CONSTANTS
  Client,     \* client addresses
  Count,      \* orders one client may place per window
  Window,     \* the window, in ticks
  Second,     \* ticks to a second
  MaxNow,     \* bound: the clock
  MaxRestarts \* bound: restarts of the process

\* cfg.yml sets both to positive numbers; with a count of zero check() would
\* look at the head of an empty deque.
ASSUME LimitAssumption == Count \in Nat \ {0} /\ Window \in Nat \ {0}
ASSUME SecondAssumption == Second \in Nat \ {0}
ASSUME BoundsAssumption == MaxNow \in Nat /\ MaxRestarts \in Nat

VARIABLES
  now,        \* the monotonic clock
  times,      \* the deque of each client, oldest order first
  accepted,   \* when each client's orders were let through, since the process started
  refusal,    \* the answer to each client's last refused order
  restarts

vars == <<now, times, accepted, refusal, restarts>>

NotRefused == [at |-> 0, wait |-> 0, retryAfter |-> 0]
Refusal    == [at : Nat, wait : Nat, retryAfter : Nat]

TypeOK ==
  /\ now \in Nat
  /\ times \in [Client -> Seq(Nat)]
  /\ accepted \in [Client -> Seq(Nat)]
  /\ refusal \in [Client -> Refusal]
  /\ restarts \in Nat

Init ==
  /\ now = 0
  /\ times = [c \in Client |-> <<>>]
  /\ accepted = [c \in Client |-> <<>>]
  /\ refusal = [c \in Client |-> NotRefused]
  /\ restarts = 0

-----------------------------------------------------------------------------

Tick ==
  /\ now < MaxNow
  /\ now' = now + 1
  /\ UNCHANGED <<times, accepted, refusal, restarts>>

\* Faulty variant of Expired: an order counts for one tick too few.
ExpiredTooEarly(t) == now - t >= Window - 1

\* Faulty variant of Expired: an order counts for one tick too many.
ExpiredTooLate(t) == now - t > Window

Expired(t) == now - t >= Window

\* What the popleft loop leaves: it stops at the first order still counted.
Kept(c, k) ==
  /\ \A i \in 1..k : Expired(times[c][i])
  /\ k < Len(times[c]) => ~Expired(times[c][k + 1])

\* Python's round: a half goes to the even neighbour.
Round(ticks) ==
  LET whole == ticks \div Second
      rest  == ticks % Second
  IN  IF \/ 2 * rest < Second
         \/ 2 * rest = Second /\ whole % 2 = 0
      THEN whole
      ELSE whole + 1

RetryAfter(wait) == IF Round(wait) < 1 THEN 1 ELSE Round(wait)

Check(c) ==
  \E k \in 0..Len(times[c]) :
    LET kept == SubSeq(times[c], k + 1, Len(times[c]))
        wait == Window - (now - kept[1])
    IN  /\ Kept(c, k)
        /\ \/ /\ Len(kept) < Count
              /\ times' = [times EXCEPT ![c] = Append(kept, now)]
              /\ accepted' = [accepted EXCEPT ![c] = Append(@, now)]
              /\ UNCHANGED refusal
           \/ /\ Len(kept) >= Count
              /\ times' = [times EXCEPT ![c] = kept]
              /\ refusal' = [refusal EXCEPT ![c] =
                               [at |-> now, wait |-> wait, retryAfter |-> RetryAfter(wait)]]
              /\ UNCHANGED accepted
        /\ UNCHANGED <<now, restarts>>

\* The process restarts and remembers no order; clients remember their answers.
Restart ==
  /\ restarts < MaxRestarts
  /\ restarts' = restarts + 1
  /\ times' = [c \in Client |-> <<>>]
  /\ accepted' = [c \in Client |-> <<>>]
  /\ UNCHANGED <<now, refusal>>

Next == Tick \/ Restart \/ \E c \in Client : Check(c)

Spec == Init /\ [][Next]_vars

-----------------------------------------------------------------------------

\* However a client times its orders, no window of Window ticks, wherever it
\* begins, holds more than Count of those one process let through: of any
\* Count + 1 of them the last came a whole window after the first.
Spaced(history) ==
  \A i, j \in 1..Len(history) :
    j - i >= Count => history[j] - history[i] >= Window

AtMostCountPerWindow == \A c \in Client : Spaced(accepted[c])

\* Nobody is refused needlessly: whoever is refused has had Count orders let
\* through in the window that ends now.
RefusedOnlyWhenFull ==
  [][\A c \in Client : refusal'[c] # refusal[c] =>
       /\ Len(accepted[c]) >= Count
       /\ now - accepted[c][Len(accepted[c]) - Count + 1] < Window]_vars

-----------------------------------------------------------------------------
(* The inductive invariant: the deque is the end of the history, in order,  *)
(* and what it no longer holds has left the window.                         *)

EndOfHistory(deque, history, clock) ==
  LET forgotten == Len(history) - Len(deque)
  IN  /\ Len(deque) \in 0..Count
      /\ forgotten >= 0
      /\ \A i \in 1..Len(deque) : deque[i] = history[forgotten + i]
      /\ \A i \in 1..forgotten : clock - history[i] >= Window

InOrder(history, clock) ==
  \A i \in 1..Len(history) :
    history[i] <= clock /\ \A j \in i..Len(history) : history[i] <= history[j]

WindowInv ==
  /\ TypeOK
  /\ \A c \in Client :
       EndOfHistory(times[c], accepted[c], now) /\ InOrder(accepted[c], now)
  /\ AtMostCountPerWindow

=============================================================================
