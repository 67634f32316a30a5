------------------------- MODULE RateLimiterProofs -------------------------
(***************************************************************************)
(* What the rate limiter guarantees, for every window, limit and times of  *)
(* the requests, also when the limit does not divide the window.           *)
(***************************************************************************)
EXTENDS RateLimiter, FiniteSetTheorems, TLAPS

(* Division *)

LEMMA Multiples ==
  ASSUME NEW a \in Int, NEW b \in Int, NEW c \in Nat, a <= b
  PROVE  a * c \in Int /\ b * c \in Int /\ a * c <= b * c /\ (a + 1) * c = a * c + c
<1>1. b - a \in Nat
  OBVIOUS
<1>2. (b - a) * c \in Nat
  BY <1>1
<1>3. (b - a) * c = b * c - a * c
  OBVIOUS
<1> QED  BY <1>2, <1>3

LEMMA Quotient ==
  ASSUME NEW a \in Int, NEW d \in Nat \ {0}
  PROVE  /\ a \div d \in Int /\ a % d \in Int
         /\ a = (a \div d) * d + (a % d) /\ 0 <= a % d /\ a % d < d
OBVIOUS

(* The quotient is the only multiple that fits. *)
LEMMA QuotientIs ==
  ASSUME NEW a \in Int, NEW d \in Nat \ {0}, NEW q \in Int, q * d <= a, a < q * d + d
  PROVE  a \div d = q
<1>1. /\ a \div d \in Int
      /\ (a \div d) * d <= a /\ a < (a \div d) * d + d
  BY Quotient
<1>2. CASE a \div d < q
  <2>1. ((a \div d) + 1) * d <= q * d /\ ((a \div d) + 1) * d = (a \div d) * d + d
    BY <1>1, <1>2, Multiples
  <2> QED  BY <1>1, <2>1
<1>3. CASE a \div d > q
  <2>1. (q + 1) * d <= (a \div d) * d /\ (q + 1) * d = q * d + d
    BY <1>1, <1>3, Multiples
  <2> QED  BY <1>1, <2>1
<1> QED  BY <1>1, <1>2, <1>3

(* It grows with the dividend, and by whole multiples. *)
LEMMA QuotientGrows ==
  ASSUME NEW a \in Int, NEW b \in Int, a <= b, NEW d \in Nat \ {0}
  PROVE  a \div d <= b \div d
<1>1. /\ a \div d \in Int /\ b \div d \in Int
      /\ (a \div d) * d <= a /\ b < (b \div d) * d + d
  BY Quotient
<1>2. SUFFICES ASSUME a \div d > b \div d PROVE FALSE
  BY <1>1
<1>3. ((b \div d) + 1) * d <= (a \div d) * d /\ ((b \div d) + 1) * d = (b \div d) * d + d
  BY <1>1, <1>2, Multiples
<1> QED  BY <1>1, <1>3

LEMMA QuotientMoves ==
  ASSUME NEW a \in Int, NEW m \in Int, NEW d \in Nat \ {0}, NEW b \in Int, b = a - m * d
  PROVE  b \div d = (a \div d) - m
<1> DEFINE k == a \div d
<1>1. k \in Int /\ k * d <= a /\ a < k * d + d
  BY Quotient
<1> HIDE DEF k
<1>2. (k - m) * d = k * d - m * d /\ k * d \in Int /\ m * d \in Int /\ k - m \in Int
  BY <1>1
<1>3. (k - m) * d <= b /\ b < (k - m) * d + d
  BY <1>1, <1>2
<1>4. b \div d = k - m
  BY <1>2, <1>3, QuotientIs
<1> QED  BY <1>4 DEF k
-----------------------------------------------------------------------------
(* What a request waits: it is sent at once, when its window has come, or  *)
(* in the window its place in the counter gives it.                        *)

LEMMA Rounding ==
  /\ PerRequest \in Nat \ {0} /\ Excess \in Nat
  /\ Window \in Nat \ {0} /\ Limit \in Nat \ {0} /\ Stagger \in Nat
  /\ Stagger * (Limit - 1) \in Nat /\ Stagger * (Limit - 1) < Window
<1>1. /\ Window \in Nat \ {0} /\ Limit \in Nat \ {0} /\ Stagger \in Nat
      /\ Stagger * (Limit - 1) < Window
  BY LimiterAssumption
<1>2. Limit - 1 \in Nat
  BY <1>1
<1>3. Stagger * (Limit - 1) \in Nat
  BY <1>1, <1>2
<1>4. Window + Limit - 1 \in Nat
  BY <1>1
<1>5. /\ PerRequest \in Int
      /\ PerRequest * Limit <= Window + Limit - 1 /\ Window + Limit - 1 < PerRequest * Limit + Limit
  BY <1>1, <1>4, Quotient DEF PerRequest
<1>6. PerRequest * Limit \in Int
  BY <1>1, <1>5
<1>7. PerRequest > 0
  <2>1. SUFFICES ASSUME PerRequest <= 0 PROVE FALSE
    BY <1>5
  <2>2. PerRequest * Limit <= 0 * Limit
    BY <1>1, <1>5, <2>1, Multiples
  <2> QED  BY <1>1, <1>5, <1>6, <2>2
<1>8. Excess \in Nat
  BY <1>1, <1>5, <1>6 DEF Excess
<1> QED  BY <1>1, <1>3, <1>5, <1>7, <1>8

LEMMA Times ==
  ASSUME NEW q \in Nat
  PROVE  /\ q * PerRequest \in Nat /\ (q + 1) * PerRequest \in Nat
         /\ (q + 1) * PerRequest = q * PerRequest + PerRequest
<1>1. PerRequest \in Nat
  BY Rounding
<1>2. q * PerRequest \in Nat /\ (q + 1) * PerRequest = q * PerRequest + PerRequest
  BY <1>1
<1> QED  BY <1>1, <1>2

(* q requests came before, the counter is e old. *)
InPlace(q, e, delay) ==
  \/ delay = 0 /\ q \div Limit <= e \div Window
  \/ \E d \in 0 .. Stagger * (Limit - 1) : e + delay = (q \div Limit) * Window + d

LEMMA WindowsLeft ==
  ASSUME NEW q \in Nat, NEW e \in Nat
  PROVE  RemainingWindows(q + 1, e) = (q \div Limit) - (e \div Window)
<1> DEFINE gone == e \div Window
           left == q - gone * Limit
<1>1. Limit \in Nat \ {0} /\ Window \in Nat \ {0}
  BY Rounding
<1>2. gone \in Int
  BY <1>1, Quotient
<1> HIDE DEF gone
<1>3. left \in Int /\ (q + 1) - gone * Limit - 1 = left
  BY <1>1, <1>2
<1>4. RemainingWindows(q + 1, e) = left \div Limit
  BY <1>3 DEF RemainingWindows, gone
<1>5. left = q - gone * Limit
  OBVIOUS
<1> HIDE DEF left
<1>6. q \in Int
  OBVIOUS
<1>7. left \div Limit = (q \div Limit) - gone
  BY <1>1, <1>2, <1>3, <1>5, <1>6, QuotientMoves, Zenon
<1> QED  BY <1>4, <1>7 DEF gone

LEMMA Delayed ==
  ASSUME NEW q \in Nat, NEW e \in Nat, NEW ttl \in Int, (q + 1) * PerRequest - ttl = e
  PROVE  /\ DelayFrom(q + 1, ttl) \in Nat
         /\ InPlace(q, e, DelayFrom(q + 1, ttl))
<1> USE Rounding
<1> DEFINE gone == e \div Window
           rest == e % Window
           windows == RemainingWindows(q + 1, e)
           d == ((q + 1) % Limit) * Stagger
           delay == windows * Window - rest + d
<1>1. gone \in Int /\ rest \in Nat /\ e = gone * Window + rest /\ rest < Window
  BY Quotient
<1>2. q \div Limit \in Int
  BY Quotient
<1>3. windows = (q \div Limit) - gone
  BY WindowsLeft
<1>4. d \in 0 .. Stagger * (Limit - 1)
  <2>1. (q + 1) % Limit \in Nat /\ (q + 1) % Limit <= Limit - 1
    BY Quotient
  <2>2. 0 * Stagger <= d /\ d <= (Limit - 1) * Stagger /\ d \in Int
    BY <2>1, Multiples
  <2>3. (Limit - 1) * Stagger = Stagger * (Limit - 1)
    OBVIOUS
  <2> QED  BY <2>2, <2>3
<1>5. windows \in Int /\ windows * Window \in Int /\ delay \in Int
  BY <1>1, <1>2, <1>3, <1>4
<1>6. DelayFrom(q + 1, ttl) = IF windows = 0 \/ delay < 0 THEN 0 ELSE delay
  BY DEF DelayFrom
<1>7. (q \div Limit) * Window = gone * Window + windows * Window
  <2> DEFINE k == q \div Limit
  <2>1. k \in Int /\ windows = k - gone
    BY <1>2, <1>3
  <2> HIDE DEF k, windows, gone
  <2>2. (k - gone) * Window = k * Window - gone * Window
    BY <1>1, <2>1
  <2>3. k * Window \in Int /\ gone * Window \in Int
    BY <1>1, <2>1
  <2>4. k * Window = gone * Window + windows * Window
    BY <2>1, <2>2, <2>3
  <2> QED  BY <2>4 DEF k
<1>8. gone * Window \in Int /\ (q \div Limit) * Window \in Int
  BY <1>1, <1>2
<1> HIDE DEF gone, rest, windows, d, delay
<1>9. CASE windows = 0
  BY <1>1, <1>2, <1>3, <1>6, <1>9 DEF InPlace, gone
<1>10. CASE windows < 0
  <2>1. windows * Window <= (-1) * Window
    BY <1>5, <1>10, Multiples
  <2>2. delay < 0
    BY <1>1, <1>4, <1>5, <2>1 DEF delay
  <2> QED  BY <1>1, <1>2, <1>3, <1>6, <1>10, <2>2 DEF InPlace, gone
<1>11. CASE windows > 0
  <2>1. 1 * Window <= windows * Window
    BY <1>5, <1>11, Multiples
  <2>2. delay >= 0
    BY <1>1, <1>4, <1>5, <2>1 DEF delay
  <2>3. e + delay = (q \div Limit) * Window + d
    BY <1>1, <1>4, <1>5, <1>7, <1>8 DEF delay
  <2> QED  BY <1>4, <1>5, <1>6, <1>11, <2>2, <2>3 DEF InPlace
<1> QED  BY <1>5, <1>9, <1>10, <1>11

LEMMA InWindow ==
  ASSUME NEW k \in Int, NEW at \in Int, NEW d \in 0 .. Stagger * (Limit - 1),
         at = k * Window + d
  PROVE  at \div Window = k
<1>1. d \in Nat /\ d < Window /\ k * Window \in Int
  BY Rounding
<1>2. k * Window <= at /\ at < k * Window + Window
  BY <1>1, Rounding
<1> QED  BY <1>2, QuotientIs, Rounding

(* The window in which it is sent tells its place, but for what the        *)
(* rounding has gained.                                                    *)
LEMMA PlaceInWindow ==
  ASSUME NEW q \in Nat, NEW e \in Nat, e <= q * PerRequest, NEW delay \in Nat,
         InPlace(q, e, delay)
  PROVE  LET n == (e + delay) \div Window
         IN  n * Limit - ((n * Excess) \div PerRequest) <= q /\ q <= n * Limit + Limit - 1
<1> USE Rounding
<1> DEFINE n == (e + delay) \div Window
           gained == (n * Excess) \div PerRequest
<1>1. n \in Int /\ n * Window <= e + delay /\ n * Window \in Int
  BY Quotient
<1>2. q \div Limit \in Int /\ (q \div Limit) * Limit <= q /\ q < (q \div Limit) * Limit + Limit
  BY Quotient
<1>3. n >= 0
  BY <1>1, QuotientIs, QuotientGrows, Quotient
<1>4. n * Excess \in Nat /\ gained \in Int /\ n * Limit \in Int
  BY <1>1, <1>3, Quotient
<1>5. q \div Limit <= n
  <2>1. CASE delay = 0 /\ q \div Limit <= e \div Window
    BY <2>1
  <2>2. ASSUME NEW d \in 0 .. Stagger * (Limit - 1), e + delay = (q \div Limit) * Window + d
        PROVE  q \div Limit <= n
    <3>1. n = q \div Limit
      <4> DEFINE k == q \div Limit
                 at == e + delay
      <4>1. k \in Int /\ at \in Int /\ at = k * Window + d
        BY <1>2, <2>2
      <4> HIDE DEF k, at
      <4>2. at \div Window = k
        BY <4>1, InWindow
      <4> QED  BY <4>2 DEF k, at
    <3> QED  BY <1>2, <3>1
  <2> QED  BY <2>1, <2>2 DEF InPlace
<1>6. q <= n * Limit + Limit - 1
  <2>1. (q \div Limit) * Limit <= n * Limit
    BY <1>1, <1>2, <1>5, Multiples
  <2> QED  BY <1>2, <1>4, <2>1
<1>7. n * Limit - gained <= q
  <2>1. CASE delay = 0 /\ q \div Limit <= e \div Window
    <3>1. n * Window <= q * PerRequest
      BY <1>1, <2>1
    <3>2. n * Window = (n * Limit) * PerRequest - n * Excess
      BY <1>1 DEF Excess
    <3>3. (n * Limit - q) * PerRequest = (n * Limit) * PerRequest - q * PerRequest
      BY <1>4
    <3>4. (n * Limit - q) * PerRequest <= n * Excess
      BY <1>1, <1>4, <3>1, <3>2, <3>3
    <3>5. SUFFICES ASSUME gained < n * Limit - q PROVE FALSE
      BY <1>4
    <3>6. n * Excess < gained * PerRequest + PerRequest
      BY <1>4, Quotient
    <3>7. (gained + 1) * PerRequest <= (n * Limit - q) * PerRequest
          /\ (gained + 1) * PerRequest = gained * PerRequest + PerRequest
      BY <1>4, <3>5, Multiples
    <3> QED  BY <1>4, <3>3, <3>4, <3>6, <3>7
  <2>2. ASSUME NEW d \in 0 .. Stagger * (Limit - 1), e + delay = (q \div Limit) * Window + d
        PROVE  n * Limit - gained <= q
    <3>1. n = q \div Limit
      <4> DEFINE k == q \div Limit
                 at == e + delay
      <4>1. k \in Int /\ at \in Int /\ at = k * Window + d
        BY <1>2, <2>2
      <4> HIDE DEF k, at
      <4>2. at \div Window = k
        BY <4>1, InWindow
      <4> QED  BY <4>2 DEF k, at
    <3>2. gained >= 0
      <4>1. 0 \div PerRequest = 0
        BY QuotientIs
      <4> QED  BY <1>4, <4>1, QuotientGrows
    <3> QED  BY <1>2, <1>4, <3>1, <3>2
  <2> QED  BY <2>1, <2>2 DEF InPlace
<1> QED  BY <1>6, <1>7
-----------------------------------------------------------------------------
(* Every request sits in the place that the requests before it of the same *)
(* counter leave it.                                                       *)

Requests == [asked : Nat, at : Nat, started : Int]

(* The requests up to the i-th that its counter counts. *)
Earlier(s, i) == {j \in 1 .. i : s[j].started = s[i].started}

Sits(r, q) ==
  LET e == r.asked - r.started
      delay == r.at - r.asked
  IN q \in Nat /\ e \in Nat /\ delay \in Nat /\ e <= q * PerRequest /\ InPlace(q, e, delay)

(* When the counter was started, and the requests it has counted. *)
Started == counter.expires - counter.count * PerRequest
StartedAt(s, time) == {j \in DOMAIN s : s[j].started = time}

LimiterTypes == counter \in [count : Nat, expires : Nat] /\ sent \in Seq(Requests)
CounterCounts ==
  IF sent = <<>> THEN counter = NoCounter
  ELSE /\ counter.count > 0 /\ counter.count = Cardinality(StartedAt(sent, Started))
       /\ sent[Len(sent)].started = Started
StartedBefore == \A i \in DOMAIN sent : sent[i].started <= Started
PlacesTold == \A i \in DOMAIN sent : Sits(sent[i], Cardinality(Earlier(sent, i)) - 1)

LInv == LimiterTypes /\ CounterCounts /\ StartedBefore /\ PlacesTold

LEMMA OthersStay ==
  ASSUME NEW s \in Seq(Requests), NEW r, NEW t, t = Append(s, r), NEW i \in DOMAIN s
  PROVE  t[i] = s[i] /\ Earlier(t, i) = Earlier(s, i)
<1>1. \A j \in 1 .. i : j \in DOMAIN s /\ t[j] = s[j]
  OBVIOUS
<1>2. t[i] = s[i]
  OBVIOUS
<1> QED  BY <1>1, <1>2 DEF Earlier

LEMMA LastOfAll ==
  ASSUME NEW s \in Seq(Requests), NEW r \in Requests, NEW t, t = Append(s, r)
  PROVE  Earlier(t, Len(t)) = StartedAt(t, r.started)
<1>1. t[Len(t)] = r /\ DOMAIN t = 1 .. Len(t)
  OBVIOUS
<1> QED  BY <1>1 DEF Earlier, StartedAt

LEMMA OneMore ==
  ASSUME NEW s \in Seq(Requests), NEW r \in Requests, NEW t, t = Append(s, r)
  PROVE  Cardinality(StartedAt(t, r.started)) = Cardinality(StartedAt(s, r.started)) + 1
<1> DEFINE before == StartedAt(s, r.started)
<1>1. t[Len(t)] = r /\ Len(t) = Len(s) + 1 /\ Len(s) \in Nat
  OBVIOUS
<1>2. DOMAIN s = 1 .. Len(s) /\ DOMAIN t = 1 .. Len(s) + 1
  OBVIOUS
<1>3. IsFiniteSet(before)
  <2>1. IsFiniteSet(1 .. Len(s))
    BY <1>1, FS_Interval
  <2>2. before \in SUBSET (1 .. Len(s))
    BY <1>2 DEF StartedAt
  <2> QED  BY <2>1, <2>2, FS_Subset
<1>4. Len(t) \notin before
  BY <1>1, <1>2 DEF StartedAt
<1>5. StartedAt(t, r.started) = before \cup {Len(t)}
  <2>1. ASSUME NEW j \in DOMAIN t
        PROVE  t[j].started = r.started <=> j \in before \cup {Len(t)}
    <3>1. CASE j = Len(t)
      BY <1>1, <3>1
    <3>2. CASE j # Len(t)
      <4>1. j \in DOMAIN s /\ t[j] = s[j]
        BY <1>1, <1>2, <2>1, <3>2
      <4> QED  BY <3>2, <4>1 DEF StartedAt
    <3> QED  BY <3>1, <3>2
  <2>2. before \cup {Len(t)} \subseteq DOMAIN t
    BY <1>1, <1>2 DEF StartedAt
  <2> QED  BY <2>1, <2>2 DEF StartedAt
<1> QED  BY <1>3, <1>4, <1>5, FS_AddElement

LEMMA Left ==
  ASSUME NEW now \in Int, NEW start \in Int, NEW span \in Int,
         NEW expires \in Int, expires = start + span
  PROVE  expires - now \in Int /\ span - (expires - now) = now - start
OBVIOUS

LEMMA ItsPlace ==
  ASSUME NEW now \in Nat, NEW start \in Int, NEW q \in Nat,
         NEW e \in Nat, e = now - start, e <= q * PerRequest,
         NEW ttl \in Int, (q + 1) * PerRequest - ttl = e,
         NEW r, r = [asked |-> now, at |-> now + DelayFrom(q + 1, ttl), started |-> start]
  PROVE  r \in Requests /\ r.started = start /\ Sits(r, q)
<1> DEFINE delay == DelayFrom(q + 1, ttl)
<1>1. delay \in Nat /\ InPlace(q, e, delay)
  BY Delayed
<1>2. r = [asked |-> now, at |-> now + delay, started |-> start]
  OBVIOUS
<1> HIDE DEF delay
<1>3. r \in Requests /\ r.started = start /\ r.asked = now /\ r.at - r.asked = delay
  BY <1>1, <1>2 DEF Requests
<1>4. r.asked - r.started = e
  BY <1>3
<1> QED  BY <1>1, <1>3, <1>4 DEF Sits

(* The next request of a counter, new or not, takes the next place.        *)
LEMMA TakesItsPlace ==
  ASSUME LimiterTypes, PlacesTold, NEW start \in Int,
         NEW q \in Nat, q = Cardinality(StartedAt(sent, start)),
         \A i \in DOMAIN sent : sent[i].started <= start,
         counter' \in [count : Nat, expires : Nat], counter'.count = q + 1, Started' = start,
         NEW r \in Requests, r.started = start, Sits(r, q), sent' = Append(sent, r)
  PROVE  LInv'
<1>1. sent \in Seq(Requests)
  BY DEF LimiterTypes
<1>2. /\ sent' \in Seq(Requests) /\ Len(sent') = Len(sent) + 1 /\ sent'[Len(sent')] = r
      /\ sent' # <<>>
      /\ \A i \in DOMAIN sent : sent'[i] = sent[i] /\ Earlier(sent', i) = Earlier(sent, i)
      /\ Cardinality(StartedAt(sent', start)) = q + 1
      /\ Cardinality(Earlier(sent', Len(sent'))) = q + 1
  <2>1. /\ sent' \in Seq(Requests) /\ Len(sent') = Len(sent) + 1 /\ sent'[Len(sent')] = r
        /\ sent' # <<>>
    BY <1>1
  <2>2. ASSUME NEW i \in DOMAIN sent
        PROVE  sent'[i] = sent[i] /\ Earlier(sent', i) = Earlier(sent, i)
    BY <1>1, OthersStay
  <2>3. Cardinality(StartedAt(sent', r.started)) = Cardinality(StartedAt(sent, r.started)) + 1
    BY <1>1, OneMore
  <2>4. Earlier(sent', Len(sent')) = StartedAt(sent', r.started)
    BY <1>1, LastOfAll
  <2> QED  BY <2>1, <2>2, <2>3, <2>4
<1>3. \A i \in DOMAIN sent' : i \in DOMAIN sent \/ i = Len(sent')
  BY <1>1, <1>2
<1>4. LimiterTypes'
  BY <1>2 DEF LimiterTypes
<1>5. CounterCounts'
  <2>1. counter'.count > 0 /\ counter'.count = Cardinality(StartedAt(sent', Started'))
    BY <1>2
  <2>2. sent'[Len(sent')].started = Started'
    BY <1>2
  <2> QED  BY <1>2, <2>1, <2>2 DEF CounterCounts
<1>6. StartedBefore'
  <2>1. ASSUME NEW i \in DOMAIN sent' PROVE sent'[i].started <= start
    BY <1>2, <1>3, <2>1
  <2> QED  BY <2>1 DEF StartedBefore
<1>7. PlacesTold'
  <2>1. ASSUME NEW i \in DOMAIN sent'
        PROVE  Sits(sent'[i], Cardinality(Earlier(sent', i)) - 1)
    <3>1. CASE i \in DOMAIN sent
      BY <1>2, <3>1 DEF PlacesTold
    <3>2. CASE i = Len(sent')
      BY <1>2, <3>2
    <3> QED  BY <1>3, <3>1, <3>2
  <2> QED  BY <2>1 DEF PlacesTold
<1> QED  BY <1>4, <1>5, <1>6, <1>7 DEF LInv

LEMMA LimiterStart == LimiterInit => LInv
<1> SUFFICES ASSUME LimiterInit PROVE LInv
  OBVIOUS
<1>1. counter \in [count : Nat, expires : Nat] /\ sent = <<>> /\ counter = NoCounter
  BY DEF LimiterInit, NoCounter
<1>2. DOMAIN sent = {}
  BY <1>1
<1> QED  BY <1>1, <1>2 DEF LInv, LimiterTypes, CounterCounts, StartedBefore, PlacesTold

LEMMA LayerEndsKeeps == LInv /\ LayerEnds => LInv'
<1> SUFFICES ASSUME LInv, LayerEnds PROVE LInv'
  OBVIOUS
<1>1. counter' \in [count : Nat, expires : Nat] /\ sent' = <<>> /\ counter' = NoCounter
  BY DEF LayerEnds, NoCounter
<1>2. DOMAIN sent' = {}
  BY <1>1
<1> QED  BY <1>1, <1>2 DEF LInv, LimiterTypes, CounterCounts, StartedBefore, PlacesTold

LEMMA MaybeWaitKeeps ==
  ASSUME LInv, NEW now \in Earliest .. MaxTime, MaybeWait(now)
  PROVE  LInv'
<1>1. /\ counter.count \in Nat /\ counter.expires \in Nat
      /\ sent \in Seq(Requests) /\ DOMAIN sent = 1 .. Len(sent) /\ Len(sent) \in Nat
  BY DEF LInv, LimiterTypes
<1>2. now \in Nat /\ (sent # <<>> => sent[Len(sent)].asked <= now)
  <2>1. CASE sent = <<>>
    BY <2>1, LimiterAssumption DEF Earliest
  <2>2. CASE sent # <<>>
    <3>1. Len(sent) \in DOMAIN sent
      BY <1>1, <2>2
    <3>2. sent[Len(sent)] \in Requests
      BY <1>1, <3>1
    <3> QED  BY <2>2, <3>2, LimiterAssumption DEF Earliest, Requests
  <2> QED  BY <2>1, <2>2
<1> DEFINE passed == counter.count * PerRequest
<1>3. /\ PerRequest \in Nat \ {0} /\ passed \in Nat
      /\ (counter.count + 1) * PerRequest = passed + PerRequest
  BY <1>1, Rounding, Times
<1>4. Started = counter.expires - passed
  BY DEF Started
<1>5. counter.count > 0 => PerRequest <= passed
  <2>1. SUFFICES ASSUME counter.count > 0 PROVE PerRequest <= passed
    OBVIOUS
  <2>2. 1 * PerRequest <= counter.count * PerRequest
    BY <1>1, <1>3, <2>1, Multiples
  <2> QED  BY <1>3, <2>2
<1> HIDE DEF passed
<1>6. CASE counter.expires > now
  <2>1. sent # <<>>
    BY <1>1, <1>2, <1>6 DEF LInv, CounterCounts, NoCounter
  <2>2. /\ counter.count > 0 /\ counter.count = Cardinality(StartedAt(sent, Started))
        /\ sent[Len(sent)].started = Started
    BY <2>1 DEF LInv, CounterCounts
  <2>3. Started <= now
    <3>1. Len(sent) \in DOMAIN sent
      BY <1>1, <2>1
    <3>2. sent[Len(sent)] \in Requests
      BY <1>1, <3>1
    <3>3. sent[Len(sent)].asked - sent[Len(sent)].started \in Nat
      BY <3>1 DEF LInv, PlacesTold, Sits
    <3> QED  BY <1>2, <2>1, <2>2, <3>2, <3>3 DEF Requests
  <2> DEFINE q == counter.count
             expires == counter.expires + PerRequest
             start == Started
             delay == DelayFrom(q + 1, expires - now)
             c == [count |-> q + 1, expires |-> expires]
             r == [asked |-> now, at |-> now + delay, started |-> start]
  <2>4. start \in Int /\ now - start \in Nat /\ now - start <= passed
    <3> HIDE DEF q, expires, start, delay, c, r
    <3>1. start = counter.expires - passed /\ start <= now
      BY <1>4, <2>3 DEF start
    <3>2. start \in Int /\ now \in Int
      BY <1>1, <1>2, <1>3, <3>1
    <3>3. now < start + passed
      BY <1>1, <1>2, <1>3, <1>6, <3>1
    <3> QED  BY <1>3, <3>1, <3>2, <3>3
  <2>5. IncrementCounter(counter, now) = c
    BY <1>6 DEF IncrementCounter, CurrentCounter
  <2>6. q \in Nat /\ expires \in Nat /\ expires = start + (passed + PerRequest)
        /\ expires - (passed + PerRequest) = start
    BY <1>1, <1>3, <1>4
  <2>7. expires = start + (q + 1) * PerRequest /\ now - start <= q * PerRequest
        /\ expires - (q + 1) * PerRequest = start
    BY <1>3, <2>4, <2>6 DEF passed
  <2>8. counter' = c /\ sent' = Append(sent, r)
    BY <2>5, <2>7 DEF MaybeWait
  <2>9. LimiterTypes /\ PlacesTold /\ \A i \in DOMAIN sent : sent[i].started <= start
    BY DEF LInv, StartedBefore
  <2>10. q = Cardinality(StartedAt(sent, start))
    BY <2>2
  <2>11. counter'.count = q + 1 /\ counter'.expires = expires
    BY <2>8
  <2>12. counter' \in [count : Nat, expires : Nat]
    BY <2>6, <2>8
  <2>13. Started' = start
    BY <2>7, <2>11 DEF Started
  <2> DEFINE e == now - start
             ttl == expires - now
  <2>14. ttl \in Int /\ (passed + PerRequest) - ttl = e
    <3> HIDE DEF expires, start
    <3>1. passed + PerRequest \in Int /\ now \in Int /\ expires \in Int
      BY <1>2, <1>3, <2>6
    <3> QED  BY <2>4, <2>6, <3>1, Left
  <2>15. e \in Nat /\ e <= q * PerRequest /\ (q + 1) * PerRequest - ttl = e
    BY <1>3, <2>4, <2>7, <2>14
  <2>16. r = [asked |-> now, at |-> now + DelayFrom(q + 1, ttl), started |-> start]
    OBVIOUS
  <2>17. e = now - start
    OBVIOUS
  <2> HIDE DEF q, expires, start, c, r, delay, e, ttl
  <2>18. r \in Requests /\ r.started = start /\ Sits(r, q)
    BY <1>2, <2>4, <2>6, <2>14, <2>15, <2>16, <2>17, ItsPlace
  <2> QED  BY <2>4, <2>6, <2>8, <2>9, <2>10, <2>11, <2>12, <2>13, <2>18, TakesItsPlace
<1>7. CASE ~(counter.expires > now)
  <2>1. \A i \in DOMAIN sent : sent[i].started < now /\ sent[i].started \in Int
    <3>1. SUFFICES ASSUME NEW i \in DOMAIN sent
                   PROVE  sent[i].started < now /\ sent[i].started \in Int
      OBVIOUS
    <3>2. sent[i] \in Requests /\ sent[i].started <= Started /\ sent # <<>>
      BY <1>1 DEF LInv, StartedBefore
    <3>3. counter.count > 0
      BY <3>2 DEF LInv, CounterCounts
    <3>4. Started < counter.expires
      BY <1>1, <1>3, <1>4, <1>5, <3>3
    <3>5. sent[i].started \in Int
      BY <3>2 DEF Requests
    <3>6. Started \in Int /\ counter.expires <= now
      BY <1>1, <1>2, <1>3, <1>4, <1>7
    <3> QED  BY <1>1, <1>2, <3>2, <3>4, <3>5, <3>6
  <2>2. Cardinality(StartedAt(sent, now)) = 0
    <3>1. StartedAt(sent, now) = {}
      BY <1>2, <2>1 DEF StartedAt
    <3> QED  BY <3>1, FS_EmptySet
  <2> DEFINE q == 0
             expires == now + PerRequest
             delay == DelayFrom(q + 1, expires - now)
             c == [count |-> q + 1, expires |-> expires]
             r == [asked |-> now, at |-> now + delay, started |-> now]
  <2>3. IncrementCounter(counter, now) = c
    BY <1>7 DEF IncrementCounter, CurrentCounter
  <2>4. /\ q \in Nat /\ expires \in Nat /\ expires - (q + 1) * PerRequest = now
        /\ expires = now + (q + 1) * PerRequest /\ now - now \in Nat
        /\ now - now <= q * PerRequest
    BY <1>2, <1>3
  <2>5. counter' = c /\ sent' = Append(sent, r)
    BY <2>3, <2>4 DEF MaybeWait
  <2>6. LimiterTypes /\ PlacesTold /\ \A i \in DOMAIN sent : sent[i].started <= now
    BY <1>2, <2>1 DEF LInv
  <2>7. q = Cardinality(StartedAt(sent, now))
    BY <2>2
  <2>8. counter'.count = q + 1 /\ counter'.expires = expires
    BY <2>5
  <2>9. counter' \in [count : Nat, expires : Nat]
    BY <2>4, <2>5
  <2>10. Started' = now
    BY <2>4, <2>8 DEF Started
  <2> DEFINE e == 0
             ttl == expires - now
  <2>11. /\ e \in Nat /\ e = now - now /\ e <= q * PerRequest
         /\ ttl \in Int /\ (q + 1) * PerRequest - ttl = e
    BY <1>2, <1>3
  <2>12. r = [asked |-> now, at |-> now + DelayFrom(q + 1, ttl), started |-> now]
    OBVIOUS
  <2>13. now \in Int
    BY <1>2
  <2> HIDE DEF q, expires, c, r, delay, e, ttl
  <2>14. r \in Requests /\ r.started = now /\ Sits(r, q)
    BY <1>2, <2>4, <2>11, <2>12, <2>13, ItsPlace
  <2> QED  BY <2>4, <2>5, <2>6, <2>7, <2>8, <2>9, <2>10, <2>13, <2>14, TakesItsPlace
<1> QED  BY <1>6, <1>7

LEMMA LimiterStep == LInv /\ [LimiterNext]_limiterVars => LInv'
<1> SUFFICES ASSUME LInv, [LimiterNext]_limiterVars PROVE LInv'
  OBVIOUS
<1>1. ASSUME NEW now \in Earliest .. MaxTime, MaybeWait(now) PROVE LInv'
  BY <1>1, MaybeWaitKeeps
<1>2. CASE LayerEnds
  BY <1>2, LayerEndsKeeps
<1>3. CASE UNCHANGED limiterVars
  BY <1>3 DEF limiterVars, LInv, LimiterTypes, CounterCounts, StartedBefore, PlacesTold,
     Started, StartedAt, Earlier
<1> QED  BY <1>1, <1>2, <1>3 DEF LimiterNext
-----------------------------------------------------------------------------
(* What follows from the places. *)

(* A request and its place, taken apart. *)
LEMMA RequestSits ==
  ASSUME LInv, NEW i \in DOMAIN sent, NEW q, q = Cardinality(Earlier(sent, i)) - 1
  PROVE  \E e, delay \in Nat :
           /\ q \in Nat /\ sent[i].at \in Nat /\ sent[i].asked \in Nat /\ sent[i].started \in Int
           /\ sent[i].at = sent[i].asked + delay /\ sent[i].at - sent[i].started = e + delay
           /\ e <= q * PerRequest /\ InPlace(q, e, delay)
<1>1. sent[i] \in Requests
  BY DEF LInv, LimiterTypes
<1>2. sent[i].at \in Nat /\ sent[i].asked \in Nat /\ sent[i].started \in Int
  BY <1>1 DEF Requests
<1>3. Sits(sent[i], q)
  BY DEF LInv, PlacesTold
<1> DEFINE e == sent[i].asked - sent[i].started
           delay == sent[i].at - sent[i].asked
<1>4. q \in Nat /\ e \in Nat /\ delay \in Nat /\ e <= q * PerRequest /\ InPlace(q, e, delay)
  BY <1>3 DEF Sits
<1>5. sent[i].at = sent[i].asked + delay /\ sent[i].at - sent[i].started = e + delay
  BY <1>2
<1> QED  BY <1>2, <1>4, <1>5

LEMMA PlacesInTime == LInv => NoLaterThanItsPlace
<1> SUFFICES ASSUME LInv, NEW i \in DOMAIN sent
             PROVE  \/ sent[i].at <= sent[i].asked
                    \/ sent[i].at <= sent[i].started
                         + ((Cardinality(Earlier(sent, i)) - 1) \div Limit) * Window
                         + (Limit - 1) * Stagger
  BY DEF NoLaterThanItsPlace, Earlier
<1> DEFINE q == Cardinality(Earlier(sent, i)) - 1
           window == (q \div Limit) * Window
           spread == (Limit - 1) * Stagger
<1>1. PICK e \in Nat, delay \in Nat :
        /\ q \in Nat /\ sent[i].at \in Nat /\ sent[i].asked \in Nat /\ sent[i].started \in Int
        /\ sent[i].at = sent[i].asked + delay /\ sent[i].at - sent[i].started = e + delay
        /\ e <= q * PerRequest /\ InPlace(q, e, delay)
  BY RequestSits
<1> HIDE DEF q
<1>2. spread = Stagger * (Limit - 1) /\ spread \in Nat /\ window \in Int
  <2>1. q \div Limit \in Int /\ Window \in Nat
    BY <1>1, Quotient, Rounding
  <2>2. spread = Stagger * (Limit - 1)
    BY Rounding
  <2> QED  BY <2>1, <2>2, Rounding
<1>3. CASE delay = 0
  BY <1>1, <1>3
<1>4. ASSUME NEW d \in 0 .. Stagger * (Limit - 1), e + delay = window + d
      PROVE  sent[i].at <= sent[i].started + window + spread
  <2>1. d \in Nat /\ d <= spread
    BY <1>2
  <2> HIDE DEF window, spread
  <2> QED  BY <1>1, <1>2, <1>4, <2>1
<1>5. delay = 0 \/ \E d \in 0 .. Stagger * (Limit - 1) : e + delay = window + d
  BY <1>1 DEF InPlace
<1> QED  BY <1>3, <1>4, <1>5 DEF q

LEMMA PlacesFinite ==
  ASSUME LInv, NEW j \in DOMAIN sent
  PROVE  IsFiniteSet(Earlier(sent, j)) /\ Cardinality(Earlier(sent, j)) \in Nat
<1>1. j \in Nat
  BY DEF LInv, LimiterTypes
<1>2. IsFiniteSet(1 .. j)
  BY <1>1, FS_Interval
<1>3. Earlier(sent, j) \in SUBSET (1 .. j)
  BY DEF Earlier
<1> QED  BY <1>2, <1>3, FS_Subset, FS_CardinalityType

(* The places of one counter's requests differ. *)
LEMMA PlacesGrow ==
  ASSUME LInv, NEW i \in DOMAIN sent, NEW j \in DOMAIN sent, i < j,
         sent[i].started = sent[j].started
  PROVE  Cardinality(Earlier(sent, i)) # Cardinality(Earlier(sent, j))
<1>1. i \in Nat /\ j \in Nat /\ DOMAIN sent = 1 .. Len(sent)
  BY DEF LInv, LimiterTypes
<1>2. IsFiniteSet(Earlier(sent, j))
  BY PlacesFinite
<1>3. Earlier(sent, i) \in SUBSET Earlier(sent, j)
  BY <1>1 DEF Earlier
<1>4. j \in Earlier(sent, j) /\ j \notin Earlier(sent, i)
  BY <1>1 DEF Earlier
<1> QED  BY <1>2, <1>3, <1>4, FS_Subset

LEMMA WindowsFit == LInv => WindowsHoldTheLimit
<1> SUFFICES ASSUME LInv PROVE WindowsHoldTheLimit
  OBVIOUS
<1> SUFFICES ASSUME NEW i \in DOMAIN sent,
                    NEW s, s = sent[i].started,
                    NEW n, n = (sent[i].at - s) \div Window
             PROVE  Cardinality({j \in SentIn(s + n * Window) : sent[j].started = s})
                      <= Limit + (n * Excess) \div PerRequest
  BY DEF WindowsHoldTheLimit
<1> DEFINE same == {j \in SentIn(s + n * Window) : sent[j].started = s}
           place(j) == Cardinality(Earlier(sent, j)) - 1
           gained == (n * Excess) \div PerRequest
           top == n * Limit
           places == (top - gained) .. (top + Limit - 1)
<1>1. \A j \in DOMAIN sent : sent[j].at \in Nat /\ sent[j].started \in Int /\ place(j) \in Nat
  <2>1. ASSUME NEW j \in DOMAIN sent
        PROVE  sent[j].at \in Nat /\ sent[j].started \in Int /\ place(j) \in Nat
    BY RequestSits
  <2> QED  BY <2>1
<1>2. s \in Int /\ n \in Int /\ n >= 0
  <2> DEFINE since == sent[i].at - s
  <2>1. s \in Int /\ since \in Nat
    <3>1. PICK e \in Nat, delay \in Nat : sent[i].at - sent[i].started = e + delay
      BY RequestSits
    <3> QED  BY <1>1, <3>1
  <2>2. n = since \div Window
    OBVIOUS
  <2> HIDE DEF since
  <2>3. 0 \div Window = 0 /\ Window \in Nat \ {0}
    BY QuotientIs, Rounding
  <2>4. 0 \div Window <= n
    BY <2>1, <2>2, <2>3, QuotientGrows
  <2> QED  BY <2>1, <2>2, <2>3, <2>4, Quotient
<1>3. gained \in Int /\ gained >= 0 /\ top \in Int /\ n * Window \in Int
      /\ Limit \in Nat \ {0}
  <2> DEFINE all == n * Excess
  <2>1. all \in Nat /\ PerRequest \in Nat \ {0}
    BY <1>2, Rounding
  <2> HIDE DEF all
  <2>2. 0 \div PerRequest = 0
    BY <2>1, QuotientIs
  <2>3. all \div PerRequest \in Int /\ all \div PerRequest >= 0
    BY <2>1, <2>2, QuotientGrows, Quotient
  <2>4. gained = all \div PerRequest
    BY DEF all
  <2>5. top \in Int /\ n * Window \in Int /\ Limit \in Nat \ {0}
    BY <1>2, Rounding
  <2> QED  BY <2>3, <2>4, <2>5
<1>4. ASSUME NEW j \in same PROVE place(j) \in places
  <2>1. j \in DOMAIN sent /\ sent[j].started = s
        /\ s + n * Window <= sent[j].at /\ sent[j].at < s + n * Window + Window
    BY DEF SentIn
  <2> DEFINE q == place(j)
  <2>2. PICK e \in Nat, delay \in Nat :
          /\ q \in Nat /\ sent[j].at - sent[j].started = e + delay
          /\ e <= q * PerRequest /\ InPlace(q, e, delay)
    BY <2>1, RequestSits
  <2> HIDE DEF q
  <2> DEFINE at == e + delay
  <2>3. at \in Int /\ n * Window <= at /\ at < n * Window + Window
    <3> DEFINE start == n * Window
    <3>1. /\ start \in Int /\ s + start <= sent[j].at /\ sent[j].at < s + start + Window
          /\ Window \in Nat
      BY <1>3, <2>1, Rounding
    <3> HIDE DEF start
    <3>2. start <= at /\ at < start + Window
      BY <1>1, <1>2, <2>1, <2>2, <3>1
    <3> QED  BY <3>2 DEF start
  <2>4. at \div Window = n
    <3> HIDE DEF at
    <3> QED  BY <1>2, <2>3, QuotientIs, Rounding
  <2>5. n * Limit - gained <= q /\ q <= n * Limit + Limit - 1
    BY <2>2, <2>4, PlaceInWindow
  <2> HIDE DEF gained, top
  <2>6. top - gained <= q /\ q <= top + Limit - 1
    BY <2>5 DEF top
  <2> QED  BY <1>3, <2>2, <2>6 DEF q
<1> DEFINE f == [j \in same |-> place(j)]
<1>5. f \in Injection(same, places)
  <2>1. f \in [same -> places]
    BY <1>4
  <2>2. ASSUME NEW j \in same, NEW k \in same, f[j] = f[k] PROVE j = k
    <3>1. /\ j \in DOMAIN sent /\ k \in DOMAIN sent /\ sent[j].started = sent[k].started
          /\ j \in Int /\ k \in Int
      BY DEF SentIn, LInv, LimiterTypes
    <3>2. Cardinality(Earlier(sent, j)) = Cardinality(Earlier(sent, k))
      <4>1. /\ Cardinality(Earlier(sent, j)) \in Nat
            /\ Cardinality(Earlier(sent, k)) \in Nat
        BY <3>1, PlacesFinite
      <4>2. place(j) = place(k)
        BY <2>2
      <4> QED  BY <4>1, <4>2
    <3> QED  BY <3>1, <3>2, PlacesGrow
  <2> QED  BY <2>1, <2>2 DEF Injection, IsInjective
<1>6. IsFiniteSet(places) /\ Cardinality(places) = Limit + gained
  <2> HIDE DEF top, gained
  <2>1. top - gained \in Int /\ top + Limit - 1 \in Int
        /\ (top + Limit - 1) - (top - gained) + 1 = Limit + gained
        /\ ~(top - gained > top + Limit - 1)
    BY <1>3
  <2> QED  BY <2>1, FS_Interval
<1> HIDE DEF f, same, places
<1>7. Cardinality(same) <= Cardinality(places)
  BY <1>5, <1>6, FS_Injection
<1> QED  BY <1>6, <1>7 DEF same
-----------------------------------------------------------------------------
(* In each window counted from the start of a counter at most Limit of its *)
(* requests are sent, and as many more as the rounding has gained by then, *)
(* for every window, limit and stagger the limiter accepts and whenever    *)
(* the requests come (maybeWait, delayFrom, incrementCounter).             *)
THEOREM WindowsAreKept == LimiterSpec => []WindowsHoldTheLimit
<1>1. LInv => WindowsHoldTheLimit
  BY WindowsFit
<1> QED  BY <1>1, LimiterStart, LimiterStep, PTL DEF LimiterSpec

(* A request is sent when it asks or, at the latest, in the window that    *)
(* its place in its counter gives it: delayFrom never adds windows in      *)
(* which nothing asked.                                                    *)
THEOREM NobodyWaitsLonger == LimiterSpec => []NoLaterThanItsPlace
<1>1. LInv => NoLaterThanItsPlace
  BY PlacesInTime
<1> QED  BY <1>1, LimiterStart, LimiterStep, PTL DEF LimiterSpec
=============================================================================
