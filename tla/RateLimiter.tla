---------------------------- MODULE RateLimiter ----------------------------
(***************************************************************************)
(* The rate limiter of one layer: the counter of the store (memory.ts and  *)
(* redis.ts compute the same), delayFrom and maybeWait.  A request that    *)
(* asks at a time is sent after its delay; sent notes both times.  Times   *)
(* are in the unit of Window.                                              *)
(***************************************************************************)
EXTENDS Integers, Sequences, FiniteSets

CONSTANTS
  Window,     \* windowMs: the window times the multiplier
  Limit,      \* requests per window
  Stagger,    \* what the requests that wait for one window are spread by
  MaxAsked,   \* bound: requests of a layer
  MaxTime     \* bound: the time of the last one

ASSUME LimiterAssumption ==
  /\ Window \in Nat \ {0} /\ Limit \in Nat \ {0} /\ Stagger \in Nat
  /\ Stagger * (Limit - 1) < Window
  /\ MaxAsked \in Nat /\ MaxTime \in Nat

VARIABLES counter, sent
limiterVars == <<counter, sent>>

PerRequest == (Window + Limit - 1) \div Limit      \* Math.ceil(window / limit)
NoCounter == [count |-> 0, expires |-> 0]

LimiterInit == counter = NoCounter /\ sent = <<>>

(* incrementCounter: an expired counter is started again.  Broken variant: *)
(* it never is.                                                            *)
OldCounter(c, now) == IF c = NoCounter THEN [count |-> 0, expires |-> now] ELSE c
CurrentCounter(c, now) ==
  IF c.expires > now THEN c ELSE [count |-> 0, expires |-> now]

IncrementCounter(c, now) ==
  LET current == CurrentCounter(c, now)
  IN [count |-> current.count + 1, expires |-> current.expires + PerRequest]

(* delayFrom: how many windows ahead a request is sent. Broken variants:   *)
(* off by one at the border of a window; the windows that have gone by     *)
(* still count.                                                            *)
OneMoreFits(count, elapsed) == (count - (elapsed \div Window) * Limit - 2) \div Limit
NoneCompleted(count, elapsed) == (count - 1) \div Limit
RemainingWindows(count, elapsed) ==
  (count - (elapsed \div Window) * Limit - 1) \div Limit

DelayFrom(count, ttl) ==
  LET elapsed == count * PerRequest - ttl
      windows == RemainingWindows(count, elapsed)
      delay == windows * Window - (elapsed % Window) + (count % Limit) * Stagger
  IN IF windows = 0 \/ delay < 0 THEN 0 ELSE delay

(* A request is noted with the time its counter was started. *)
MaybeWait(now) ==
  LET c == IncrementCounter(counter, now)
  IN /\ Len(sent) < MaxAsked
     /\ counter' = c
     /\ sent' = Append(sent, [asked |-> now, at |-> now + DelayFrom(c.count, c.expires - now),
                              started |-> c.expires - c.count * PerRequest])

(* The activity ends, and the counters in the memory of its layer. *)
LayerEnds == counter # NoCounter /\ counter' = NoCounter /\ sent' = <<>>

Earliest == IF sent = <<>> THEN 0 ELSE sent[Len(sent)].asked
LimiterNext == (\E now \in Earliest .. MaxTime : MaybeWait(now)) \/ LayerEnds
LimiterSpec == LimiterInit /\ [][LimiterNext]_limiterVars
-----------------------------------------------------------------------------
(* Properties *)

SentIn(from) == {i \in DOMAIN sent : from <= sent[i].at /\ sent[i].at < from + Window}

(* What a counter gains on its windows, per window, by rounding up.        *)
Excess == PerRequest * Limit - Window

(* In the n-th window counted from the start of a counter at most Limit of *)
(* its requests are sent, also when some of them waited, and as many more  *)
(* as the rounding has gained by then: none when Window is a multiple of   *)
(* Limit; with 21000 ms and 101 requests one for every 26 windows in which *)
(* the counter never expired.                                              *)
WindowsHoldTheLimit ==
  \A i \in DOMAIN sent :
    LET s == sent[i].started
        n == (sent[i].at - s) \div Window
    IN Cardinality({j \in SentIn(s + n * Window) : sent[j].started = s})
         <= Limit + (n * Excess) \div PerRequest

(* A request waits for those before it only: it is sent when it asks, or   *)
(* in the window that its place in its counter gives it, whichever is      *)
(* later; windows in which nothing asked are not waited for.               *)
NoLaterThanItsPlace ==
  \A i \in DOMAIN sent :
    LET s == sent[i].started
        place == Cardinality({j \in 1 .. i : sent[j].started = s})
        window == s + ((place - 1) \div Limit) * Window
    IN sent[i].at <= sent[i].asked \/ sent[i].at <= window + (Limit - 1) * Stagger
=============================================================================
