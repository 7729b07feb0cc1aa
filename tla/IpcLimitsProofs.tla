--------------------------- MODULE IpcLimitsProofs ---------------------------
(***************************************************************************)
(* The limits of the IPC server, for any number of peers, any limits and   *)
(* any windows: the connection counter, the request rate, and the bound on *)
(* guesses of the token.                                                   *)
(***************************************************************************)
EXTENDS IpcLimits, FiniteSetTheorems, TLAPS

Status == {"none", "dialled", "open", "returned"}

ClientState ==
  [st : Status, authenticated : BOOLEAN,
   request_count : 0..RateLimit, rate_window_start : Time,
   auth_failure_count : 0..AuthFailures, auth_window_start : Time,
   auth_lockout_until : Nat \cup {NoTime},
   granted : [0..End -> Nat], tried : [0..End -> Nat]]

(* A running total does not fall, and stays as it is after the time at.    *)
Total(f, at) ==
  /\ \A u, v \in 0..End : u <= v => f[u] <= f[v]
  /\ \A u \in 0..End : u > at => f[u] = f[End]

(* The total f of a limiter whose window of length w started at tick s and *)
(* counts n so far.  Nothing was counted after the window's end; a stretch *)
(* of w ticks that the window's start cuts holds at most before in front   *)
(* of it, and a stretch that was over by then holds at most all.           *)
Windowed(f, s, n, w, before, all) ==
  /\ \A u \in 0..End : u >= s + w => f[u] = f[End]
  /\ f[End] = f[s] + n
  /\ \A t \in Time : t <= s /\ s < t + w => f[s] <= f[t] + before
  /\ \A t \in Time : t + w <= s => f[t + w] <= f[t] + all

RateInv(c, at) ==
  /\ c.rate_window_start <= at
  /\ Total(c.granted, at)
  /\ Windowed(c.granted, c.rate_window_start, c.request_count, RateWindow, RateLimit, 2 * RateLimit)

(* The failure counter is at its limit exactly while a lockout is set, and *)
(* the lockout runs from the last failure.                                 *)
LockInv(c, at) ==
  /\ c.auth_failure_count = AuthFailures <=> c.auth_lockout_until # NoTime
  /\ c.auth_lockout_until # NoTime =>
       /\ c.auth_lockout_until <= at + Lockout
       /\ \A u \in 0..End : u + Lockout > c.auth_lockout_until => c.tried[u] = c.tried[End]

AuthInv(c, at) ==
  /\ c.auth_window_start <= at
  /\ Total(c.tried, at)
  /\ Windowed(c.tried, c.auth_window_start, c.auth_failure_count, AuthWindow, AuthFailures - 1,
              2 * AuthFailures - 1)
  /\ LockInv(c, at)

Handled == {p \in Peer : conn[p].st \in {"open", "returned"}}

(* The accept loop has let at most one dialled peer through, below the     *)
(* limit, and the counter counts the handled ones.                         *)
CountInv ==
  /\ IsFiniteSet(Handled) /\ active = Cardinality(Handled) /\ active <= MaxConnections
  /\ accept = {} \/ \E p \in Peer : accept = {p} /\ conn[p].st = "dialled" /\ active < MaxConnections

(* A connection whose limiters are as they should be.                      *)
Good(c) == c \in ClientState /\ RateInv(c, now) /\ AuthInv(c, now)

LimitsInv ==
  /\ now \in Time /\ conn \in [Peer -> ClientState]
  /\ CountInv
  /\ \A p \in Peer : Good(conn[p])

------------------------------------------------------------------------------
(* The constants are numbers.                                              *)
LEMMA Numbers ==
  /\ MaxConnections \in Nat /\ MaxConnections > 0
  /\ RateLimit \in Nat /\ RateLimit > 0 /\ RateWindow \in Nat /\ RateWindow > 0
  /\ AuthFailures \in Nat /\ AuthFailures > 0 /\ AuthWindow \in Nat /\ AuthWindow > 0
  /\ Lockout \in Nat /\ Lockout > 0 /\ AuthWindow <= Lockout
  /\ MaxNow \in Nat /\ End \in Nat /\ End = MaxNow + 1 /\ NoTime \notin Nat
  /\ Time \subseteq 0..End /\ End \in 0..End /\ \A t \in Time : t \in Nat /\ t < End
BY LimitsAssumption, LockoutAssumption DEF End, Time

(* No stretch as long as the window holds more than all.                   *)
LEMMA WindowBound ==
  ASSUME NEW f \in [0..End -> Nat], NEW s \in Time, NEW n \in Nat, NEW w \in Nat, NEW at \in Time,
         NEW before \in Nat, NEW all \in Nat, n + before <= all,
         Total(f, at), Windowed(f, s, n, w, before, all)
  PROVE  \A t \in Time : Within(f, t, w) <= all
<1> SUFFICES ASSUME NEW t \in Time, NEW e \in 0..End, e = IF t + w <= End THEN t + w ELSE End
             PROVE  f[e] <= f[t] + all
  BY Numbers DEF Within
<1>1. /\ t \in 0..End /\ s \in 0..End /\ End \in 0..End
      /\ f[t] \in Nat /\ f[s] \in Nat /\ f[e] \in Nat /\ f[End] \in Nat
      /\ f[e] <= f[End] /\ f[End] = f[s] + n
  BY Numbers DEF Total, Windowed
<1>2. CASE s <= t
  <2>1. f[s] <= f[t]
    BY <1>1, <1>2 DEF Total
  <2> QED
    BY <1>1, <2>1
<1>3. CASE t <= s /\ s < t + w
  <2>1. f[s] <= f[t] + before
    BY <1>3 DEF Windowed
  <2> QED
    BY <1>1, <2>1
<1>4. CASE t + w <= s
  <2>1. f[t + w] <= f[t] + all
    BY <1>4 DEF Windowed
  <2>2. e = t + w
    BY <1>4, Numbers
  <2> QED
    BY <2>1, <2>2
<1> QED
  BY <1>2, <1>3, <1>4, Numbers

(* Counting one more inside the window.                                    *)
LEMMA WindowCounts ==
  ASSUME now \in Time, NEW f \in [0..End -> Nat], NEW s \in Time, NEW n \in Nat, NEW w \in Nat,
         NEW before \in Nat, NEW all \in Nat, s <= now, now < s + w,
         Total(f, now), Windowed(f, s, n, w, before, all)
  PROVE  /\ OneMore(f) \in [0..End -> Nat] /\ Total(OneMore(f), now)
         /\ Windowed(OneMore(f), s, n + 1, w, before, all)
<1> DEFINE g == OneMore(f)
<1>1. g \in [0..End -> Nat] /\ \A u \in 0..End : g[u] = IF u > now THEN f[u] + 1 ELSE f[u]
  BY DEF OneMore
<1>2. now < End /\ s \in 0..End /\ End \in 0..End /\ s \in Nat /\ now \in Nat
  BY Numbers
<1> HIDE DEF g
<1>3. Total(g, now)
  <2>1. \A u, v \in 0..End : u <= v => g[u] <= g[v]
    BY <1>1, <1>2 DEF Total
  <2>2. \A u \in 0..End : u > now => g[u] = g[End]
    BY <1>1, <1>2 DEF Total
  <2> QED
    BY <2>1, <2>2 DEF Total
<1>4. Windowed(g, s, n + 1, w, before, all)
  <2>1. \A u \in 0..End : u >= s + w => g[u] = g[End]
    BY <1>1, <1>2 DEF Windowed
  <2>2. g[End] = g[s] + (n + 1)
    BY <1>1, <1>2 DEF Windowed
  <2>3. \A u \in 0..End : u <= s => g[u] = f[u]
    BY <1>1, <1>2
  <2>4. \A t \in Time : t <= s /\ s < t + w => g[s] <= g[t] + before
    BY <1>2, <2>3, Numbers DEF Windowed
  <2>5. \A t \in Time : t + w <= s => g[t + w] <= g[t] + all
    <3> SUFFICES ASSUME NEW t \in Time, t + w <= s PROVE g[t + w] <= g[t] + all
      OBVIOUS
    <3>1. t \in 0..End /\ t + w \in 0..End /\ t <= s
      BY <1>2, Numbers
    <3>2. f[t + w] <= f[t] + all
      BY DEF Windowed
    <3> QED
      BY <2>3, <3>1, <3>2
  <2> QED
    BY <2>1, <2>2, <2>4, <2>5 DEF Windowed
<1> QED
  BY <1>1, <1>3, <1>4 DEF g

(* Starting a new window now, when nothing counted recently.               *)
LEMMA WindowMoves ==
  ASSUME now \in Time, NEW f \in [0..End -> Nat], NEW s \in Time, NEW n \in Nat,
         NEW w \in Nat, w > 0,
         NEW before \in Nat, NEW all \in Nat, n + before <= all,
         Total(f, now), Windowed(f, s, n, w, before, all),
         f[now] = f[End],
         \A t \in Time : t <= now /\ now < t + w => f[now] <= f[t] + before
  PROVE  Windowed(f, now, 0, w, before, all)
<1>1. \A u \in 0..End : u >= now + w => f[u] = f[End]
  BY Numbers DEF Total
<1>2. f[End] = f[now] + 0
  BY Numbers
<1>3. \A t \in Time : t + w <= now => f[t + w] <= f[t] + all
  <2>1. \A t \in Time : Within(f, t, w) <= all
    BY WindowBound
  <2> SUFFICES ASSUME NEW t \in Time, t + w <= now PROVE f[t + w] <= f[t] + all
    OBVIOUS
  <2>2. Within(f, t, w) = f[t + w] - f[t] /\ f[t + w] \in Nat /\ f[t] \in Nat
    BY Numbers DEF Within
  <2> QED
    BY <2>1, <2>2
<1> QED
  BY <1>1, <1>2, <1>3 DEF Windowed

(* A window that is over leaves nothing recent behind.                     *)
LEMMA WindowOver ==
  ASSUME now \in Time, NEW f \in [0..End -> Nat], NEW s \in Time, NEW n \in Nat,
         NEW w \in Nat, NEW before \in Nat, NEW all \in Nat,
         n <= before, s + w <= now,
         Total(f, now), Windowed(f, s, n, w, before, all)
  PROVE  /\ f[now] = f[End]
         /\ \A t \in Time : t <= now /\ now < t + w => f[now] <= f[t] + before
<1>1. f[now] = f[End] /\ f[End] = f[s] + n /\ f[s] \in Nat
  BY Numbers DEF Windowed
<1>2. ASSUME NEW t \in Time, now < t + w PROVE f[s] <= f[t] /\ f[t] \in Nat
  BY <1>2, Numbers DEF Total
<1> QED
  BY <1>1, <1>2

------------------------------------------------------------------------------
SameRate(c, d) ==
  /\ d.request_count = c.request_count /\ d.rate_window_start = c.rate_window_start
  /\ d.granted = c.granted

SameAuth(c, d) ==
  /\ d.auth_failure_count = c.auth_failure_count /\ d.auth_window_start = c.auth_window_start
  /\ d.auth_lockout_until = c.auth_lockout_until /\ d.tried = c.tried

(* The two limiters work on different fields.                              *)
LEMMA Apart ==
  ASSUME NEW c, NEW d, NEW at
  PROVE  /\ SameRate(c, d) /\ RateInv(c, at) => RateInv(d, at)
         /\ SameAuth(c, d) /\ AuthInv(c, at) => AuthInv(d, at)
BY DEF SameRate, SameAuth, RateInv, AuthInv, LockInv

(* The fields of a connection record.                                      *)
LEMMA Fields ==
  ASSUME NEW c \in ClientState
  PROVE  /\ c.st \in Status /\ c.authenticated \in BOOLEAN
         /\ c.request_count \in 0..RateLimit /\ c.rate_window_start \in Time
         /\ c.auth_failure_count \in 0..AuthFailures /\ c.auth_window_start \in Time
         /\ c.auth_lockout_until \in Nat \cup {NoTime}
         /\ c.granted \in [0..End -> Nat] /\ c.tried \in [0..End -> Nat]
BY DEF ClientState

(* check_rate_limit, window.                                               *)
LEMMA RateWindowGood ==
  ASSUME now \in Time, NEW c, Good(c)
  PROVE  /\ Good(rate_window(c)) /\ rate_window(c).st = c.st
         /\ now < rate_window(c).rate_window_start + RateWindow
         /\ SameAuth(c, rate_window(c))
<1> DEFINE w == rate_window(c)
<1>1. CASE ~(now - c.rate_window_start >= RateWindow)
  <2>1. w = c
    BY <1>1 DEF rate_window
  <2>2. c.rate_window_start \in Time
    BY Fields DEF Good
  <2>3. c.rate_window_start \in Nat /\ now \in Nat /\ RateWindow \in Nat
    BY <2>2, Numbers
  <2>4. now < c.rate_window_start + RateWindow
    BY <1>1, <2>3
  <2> QED
    BY <2>1, <2>4 DEF SameAuth
<1>2. CASE now - c.rate_window_start >= RateWindow
  <2>1. w = [c EXCEPT !.request_count = 0, !.rate_window_start = now]
    BY <1>2 DEF rate_window
  <2>2. c \in ClientState
    BY DEF Good
  <2>3. 0 \in 0..RateLimit
    BY Numbers
  <2>4. w \in ClientState
    BY <2>1, <2>2, <2>3 DEF ClientState
  <2>5. /\ w.request_count = 0 /\ w.rate_window_start = now /\ w.granted = c.granted
        /\ w.st = c.st /\ SameAuth(c, w)
    BY <2>1, <2>2 DEF ClientState, SameAuth
  <2> HIDE DEF w
  <2>6. AuthInv(w, now)
    BY <2>5, Apart DEF Good
  <2>7. /\ c.granted \in [0..End -> Nat] /\ c.rate_window_start \in Time
        /\ c.request_count \in Nat /\ c.request_count <= RateLimit
        /\ c.rate_window_start + RateWindow <= now
    <3>1. /\ c.granted \in [0..End -> Nat] /\ c.rate_window_start \in Time
          /\ c.request_count \in 0..RateLimit
      BY <2>2, Fields
    <3>2. c.rate_window_start \in Nat /\ now \in Nat /\ RateWindow \in Nat
      BY <3>1, Numbers
    <3>3. c.rate_window_start + RateWindow <= now
      BY <1>2, <3>2
    <3> QED
      BY <3>1, <3>3, Numbers
  <2>8. /\ Total(c.granted, now)
        /\ Windowed(c.granted, c.rate_window_start, c.request_count, RateWindow, RateLimit,
                    2 * RateLimit)
    BY DEF Good, RateInv
  <2>9. 2 * RateLimit \in Nat /\ c.request_count + RateLimit <= 2 * RateLimit
    BY <2>7, Numbers
  <2>10. /\ c.granted[now] = c.granted[End]
         /\ \A t \in Time : t <= now /\ now < t + RateWindow => c.granted[now] <= c.granted[t] + RateLimit
    BY <2>7, <2>8, <2>9, WindowOver, Numbers
  <2>11. Windowed(c.granted, now, 0, RateWindow, RateLimit, 2 * RateLimit)
    BY <2>7, <2>8, <2>9, <2>10, WindowMoves, Numbers
  <2>12. RateInv(w, now)
    BY <2>5, <2>8, <2>11, Numbers DEF RateInv
  <2> QED
    BY <2>4, <2>5, <2>6, <2>12, Numbers DEF Good, w
<1> QED
  BY <1>1, <1>2

(* check_rate_limit, count.                                                *)
LEMMA CountedGood ==
  ASSUME now \in Time, NEW c, Good(c), check_rate_limit(c)
  PROVE  Good(counted(c)) /\ counted(c).st = c.st
<1> DEFINE w == rate_window(c)
           d == counted(c)
<1>1. Good(w) /\ w.st = c.st /\ now < w.rate_window_start + RateWindow /\ w.request_count < RateLimit
  BY RateWindowGood DEF check_rate_limit
<1>2. d = [w EXCEPT !.request_count = @ + 1, !.granted = OneMore(@)]
  BY DEF counted
<1> HIDE DEF w, d
<1>3. w \in ClientState
  BY <1>1 DEF Good
<1>4. /\ w.granted \in [0..End -> Nat] /\ w.rate_window_start \in Time /\ w.request_count \in Nat
      /\ w.request_count + 1 \in 0..RateLimit
  BY <1>1, <1>3, Fields, Numbers
<1>5. /\ Total(w.granted, now) /\ w.rate_window_start <= now
      /\ Windowed(w.granted, w.rate_window_start, w.request_count, RateWindow, RateLimit, 2 * RateLimit)
  BY <1>1 DEF Good, RateInv
<1>6. /\ OneMore(w.granted) \in [0..End -> Nat] /\ Total(OneMore(w.granted), now)
      /\ Windowed(OneMore(w.granted), w.rate_window_start, w.request_count + 1, RateWindow, RateLimit,
                  2 * RateLimit)
  <2>1. 2 * RateLimit \in Nat
    BY Numbers
  <2> QED
    BY <1>1, <1>4, <1>5, <2>1, WindowCounts, Numbers
<1>7. d \in ClientState
  BY <1>2, <1>3, <1>4, <1>6 DEF ClientState
<1>8. /\ d.request_count = w.request_count + 1 /\ d.rate_window_start = w.rate_window_start
      /\ d.granted = OneMore(w.granted) /\ d.st = w.st /\ SameAuth(w, d)
  BY <1>2, <1>3 DEF ClientState, SameAuth
<1>9. RateInv(d, now)
  BY <1>5, <1>6, <1>8 DEF RateInv
<1>10. AuthInv(d, now)
  BY <1>1, <1>8, Apart DEF Good
<1> QED
  BY <1>1, <1>7, <1>8, <1>9, <1>10 DEF Good, d

(* The window of the failures, while no lockout is set.                    *)
LEMMA AuthWindowGood ==
  ASSUME now \in Time, NEW c, Good(c), c.auth_lockout_until = NoTime
  PROVE  /\ Good(auth_window(c)) /\ auth_window(c).st = c.st
         /\ auth_window(c).auth_lockout_until = NoTime
         /\ now < auth_window(c).auth_window_start + AuthWindow
<1> DEFINE w == auth_window(c)
<1>1. /\ c \in ClientState /\ c.tried \in [0..End -> Nat] /\ c.auth_window_start \in Time
      /\ c.auth_failure_count \in 0..AuthFailures
  BY Fields DEF Good
<1>2. c.auth_window_start \in Nat /\ now \in Nat /\ AuthWindow \in Nat
  BY <1>1, Numbers
<1>3. CASE ~(now - c.auth_window_start >= AuthWindow)
  <2>1. w = c
    BY <1>3 DEF auth_window
  <2>2. now < c.auth_window_start + AuthWindow
    BY <1>2, <1>3
  <2> QED
    BY <2>1, <2>2
<1>4. CASE now - c.auth_window_start >= AuthWindow
  <2>1. w = [c EXCEPT !.auth_failure_count = 0, !.auth_window_start = now]
    BY <1>4 DEF auth_window
  <2>2. 0 \in 0..AuthFailures
    BY Numbers
  <2>3. w \in ClientState
    BY <1>1, <2>1, <2>2 DEF ClientState
  <2>4. /\ w.auth_failure_count = 0 /\ w.auth_window_start = now /\ w.tried = c.tried
        /\ w.auth_lockout_until = NoTime /\ w.st = c.st /\ SameRate(c, w)
    BY <1>1, <2>1 DEF ClientState, SameRate
  <2> HIDE DEF w
  <2>5. RateInv(w, now)
    BY <2>4, Apart DEF Good
  <2>6. /\ Total(c.tried, now) /\ LockInv(c, now)
        /\ Windowed(c.tried, c.auth_window_start, c.auth_failure_count, AuthWindow, AuthFailures - 1,
                    2 * AuthFailures - 1)
    BY DEF Good, AuthInv
  <2>7. /\ c.auth_failure_count \in Nat /\ c.auth_failure_count <= AuthFailures - 1
        /\ c.auth_window_start + AuthWindow <= now
    <3>1. c.auth_failure_count # AuthFailures
      BY <2>6 DEF LockInv
    <3>2. c.auth_failure_count \in 0..AuthFailures /\ AuthFailures \in Nat
      BY <1>1, Numbers
    <3>3. c.auth_window_start + AuthWindow <= now
      BY <1>2, <1>4
    <3> QED
      BY <3>1, <3>2, <3>3
  <2>8. /\ AuthFailures - 1 \in Nat /\ 2 * AuthFailures - 1 \in Nat
        /\ c.auth_failure_count + (AuthFailures - 1) <= 2 * AuthFailures - 1
    BY <2>7, Numbers
  <2>9. /\ c.tried[now] = c.tried[End]
        /\ \A t \in Time : t <= now /\ now < t + AuthWindow =>
             c.tried[now] <= c.tried[t] + (AuthFailures - 1)
    BY <1>1, <2>6, <2>7, <2>8, WindowOver, Numbers
  <2>10. Windowed(c.tried, now, 0, AuthWindow, AuthFailures - 1, 2 * AuthFailures - 1)
    BY <1>1, <2>6, <2>7, <2>8, <2>9, WindowMoves, Numbers
  <2>11. LockInv(w, now)
    BY <2>4, Numbers DEF LockInv
  <2>12. AuthInv(w, now)
    BY <1>2, <2>4, <2>6, <2>10, <2>11 DEF AuthInv
  <2> QED
    BY <1>2, <2>3, <2>4, <2>5, <2>12, Numbers DEF Good, w
<1> QED
  BY <1>3, <1>4

(* check_auth_rate_limit: a lockout that is over starts a window in which  *)
(* nothing of the old one counts any more, the window being no longer than *)
(* the lockout was.                                                        *)
LEMMA AuthCheckedGood ==
  ASSUME now \in Time, NEW c, Good(c)
  PROVE  /\ Good(auth_checked(c)) /\ auth_checked(c).st = c.st
         /\ ~locked(c) => auth_checked(c).auth_lockout_until = NoTime
<1> DEFINE w == auth_checked(c)
<1>1. CASE locked(c)
  BY <1>1 DEF auth_checked
<1>2. CASE ~locked(c) /\ c.auth_lockout_until = NoTime
  BY <1>2, AuthWindowGood DEF auth_checked
<1>3. CASE ~locked(c) /\ c.auth_lockout_until # NoTime
  <2>1. w = [c EXCEPT !.auth_lockout_until = NoTime, !.auth_failure_count = 0, !.auth_window_start = now]
    BY <1>3 DEF auth_checked
  <2>2. /\ c \in ClientState /\ c.tried \in [0..End -> Nat] /\ c.auth_window_start \in Time
        /\ c.auth_failure_count \in 0..AuthFailures /\ c.auth_lockout_until \in Nat
        /\ 0 \in 0..AuthFailures
    BY <1>3, Fields, Numbers DEF Good
  <2>3. w \in ClientState
    BY <2>1, <2>2 DEF ClientState
  <2>4. /\ w.auth_failure_count = 0 /\ w.auth_window_start = now /\ w.tried = c.tried
        /\ w.auth_lockout_until = NoTime /\ w.st = c.st /\ SameRate(c, w)
    BY <2>1, <2>2 DEF ClientState, SameRate
  <2> HIDE DEF w
  <2>5. RateInv(w, now)
    BY <2>4, Apart DEF Good
  <2>6. /\ Total(c.tried, now) /\ LockInv(c, now)
        /\ Windowed(c.tried, c.auth_window_start, c.auth_failure_count, AuthWindow, AuthFailures - 1,
                    2 * AuthFailures - 1)
    BY DEF Good, AuthInv
  <2>7. c.auth_failure_count = AuthFailures /\ c.auth_lockout_until <= now
    <3>1. ~(now < c.auth_lockout_until)
      BY <1>3 DEF locked
    <3>2. now \in Nat
      BY Numbers
    <3> QED
      BY <1>3, <2>2, <2>6, <3>1, <3>2 DEF LockInv
  <2>8. /\ AuthFailures - 1 \in Nat /\ 2 * AuthFailures - 1 \in Nat
        /\ c.auth_failure_count + (AuthFailures - 1) <= 2 * AuthFailures - 1
        /\ c.auth_failure_count \in Nat
    BY <2>7, Numbers
  <2>9. \A u \in 0..End : u + Lockout > c.auth_lockout_until => c.tried[u] = c.tried[End]
    BY <1>3, <2>6 DEF LockInv
  <2>10. c.tried[now] = c.tried[End]
    BY <2>2, <2>7, <2>9, Numbers
  <2>11. ASSUME NEW t \in Time, t <= now, now < t + AuthWindow
         PROVE  c.tried[now] <= c.tried[t] + (AuthFailures - 1)
    <3>1. t \in 0..End /\ t \in Nat /\ now \in Nat /\ AuthWindow \in Nat /\ Lockout \in Nat
          /\ AuthWindow <= Lockout
      BY Numbers
    <3>2. t + Lockout > c.auth_lockout_until
      BY <2>2, <2>7, <2>11, <3>1
    <3>3. c.tried[t] = c.tried[now] /\ c.tried[t] \in Nat
      BY <2>2, <2>9, <2>10, <3>1, <3>2
    <3> QED
      BY <2>8, <3>3
  <2>12. Windowed(c.tried, now, 0, AuthWindow, AuthFailures - 1, 2 * AuthFailures - 1)
    BY <2>2, <2>6, <2>8, <2>10, <2>11, WindowMoves, Numbers
  <2>13. LockInv(w, now)
    BY <2>4, Numbers DEF LockInv
  <2>14. AuthInv(w, now)
    BY <2>4, <2>6, <2>12, <2>13, Numbers DEF AuthInv
  <2> QED
    BY <2>3, <2>4, <2>5, <2>14 DEF Good, w
<1> QED
  BY <1>1, <1>2, <1>3

(* record_auth_failure: the last allowed failure sets the lockout.         *)
LEMMA RecordGood ==
  ASSUME now \in Time, NEW c, Good(c), c.auth_lockout_until = NoTime
  PROVE  Good(record_auth_failure(c)) /\ record_auth_failure(c).st = c.st
<1> DEFINE w == auth_window(c)
           n == w.auth_failure_count + 1
           d == record_auth_failure(c)
           until == IF n >= AuthFailures THEN now + Lockout ELSE NoTime
<1>1. /\ Good(w) /\ w.st = c.st /\ w.auth_lockout_until = NoTime
      /\ now < w.auth_window_start + AuthWindow
  BY AuthWindowGood
<1>2. d = [w EXCEPT !.auth_failure_count = n, !.tried = OneMore(@),
                    !.auth_lockout_until = IF n >= AuthFailures THEN now + Lockout ELSE @]
  BY DEF record_auth_failure
<1> HIDE DEF w, d
<1>3. /\ w \in ClientState /\ w.tried \in [0..End -> Nat] /\ w.auth_window_start \in Time
      /\ w.auth_failure_count \in 0..AuthFailures
  BY <1>1, Fields DEF Good
<1>4. /\ Total(w.tried, now) /\ LockInv(w, now) /\ w.auth_window_start <= now
      /\ Windowed(w.tried, w.auth_window_start, w.auth_failure_count, AuthWindow, AuthFailures - 1,
                  2 * AuthFailures - 1)
  BY <1>1 DEF Good, AuthInv
<1>5. n \in 0..AuthFailures /\ w.auth_failure_count \in Nat /\ now \in Nat /\ until \in Nat \cup {NoTime}
  BY <1>1, <1>3, <1>4, Numbers DEF LockInv
<1>6. /\ OneMore(w.tried) \in [0..End -> Nat] /\ Total(OneMore(w.tried), now)
      /\ Windowed(OneMore(w.tried), w.auth_window_start, n, AuthWindow, AuthFailures - 1,
                  2 * AuthFailures - 1)
  <2>1. AuthFailures - 1 \in Nat /\ 2 * AuthFailures - 1 \in Nat
    BY Numbers
  <2> QED
    BY <1>1, <1>3, <1>4, <1>5, <2>1, WindowCounts, Numbers
<1>7. d = [w EXCEPT !.auth_failure_count = n, !.tried = OneMore(w.tried), !.auth_lockout_until = until]
  BY <1>1, <1>2, <1>3 DEF ClientState
<1> HIDE DEF n, until
<1>8. d \in ClientState
  BY <1>3, <1>5, <1>6, <1>7 DEF ClientState
<1>9. /\ d.auth_failure_count = n /\ d.auth_window_start = w.auth_window_start
      /\ d.tried = OneMore(w.tried) /\ d.auth_lockout_until = until /\ d.st = w.st /\ SameRate(w, d)
  BY <1>3, <1>7 DEF ClientState, SameRate
<1>10. RateInv(d, now)
  BY <1>1, <1>9, Apart DEF Good
<1>11. LockInv(d, now)
  <2>1. n = AuthFailures <=> until # NoTime
    BY <1>5, Numbers DEF until
  <2>2. until # NoTime => until = now + Lockout
    BY DEF until
  <2>3. \A u \in 0..End : u + Lockout > now + Lockout => OneMore(w.tried)[u] = OneMore(w.tried)[End]
    BY <1>5, <1>6, Numbers DEF Total
  <2> QED
    BY <1>5, <1>9, <2>1, <2>2, <2>3, Numbers DEF LockInv
<1>12. AuthInv(d, now)
  BY <1>4, <1>6, <1>9, <1>11 DEF AuthInv
<1> QED
  BY <1>1, <1>8, <1>9, <1>10, <1>12 DEF Good, d

(* A connection starts with its limiters as they should be.                *)
LEMMA NewGood ==
  ASSUME now \in Time, NEW st \in Status, NEW t \in Time, t <= now
  PROVE  Good(NewState(st, t)) /\ NewState(st, t).st = st
<1> DEFINE c == NewState(st, t)
<1>1. Never \in [0..End -> Nat] /\ \A u \in 0..End : Never[u] = 0
  BY DEF Never
<1>2. 0 \in 0..RateLimit /\ 0 \in 0..AuthFailures
  BY Numbers
<1>3. c \in ClientState
  BY <1>1, <1>2 DEF NewState, ClientState
<1>4. /\ c.request_count = 0 /\ c.rate_window_start = t /\ c.granted = Never
      /\ c.auth_failure_count = 0 /\ c.auth_window_start = t /\ c.tried = Never
      /\ c.auth_lockout_until = NoTime /\ c.st = st
  BY DEF NewState
<1> HIDE DEF c
<1>5. Total(Never, now)
  BY <1>1, Numbers DEF Total
<1>6. ASSUME NEW w \in Nat, NEW before \in Nat, NEW all \in Nat
      PROVE  Windowed(Never, t, 0, w, before, all)
  BY <1>1, Numbers DEF Windowed
<1>7. RateInv(c, now)
  BY <1>4, <1>5, <1>6, Numbers DEF RateInv
<1>8. AuthFailures - 1 \in Nat /\ 2 * AuthFailures - 1 \in Nat
  BY Numbers
<1>9. AuthInv(c, now)
  BY <1>4, <1>5, <1>6, <1>8, Numbers DEF AuthInv, LockInv
<1> QED
  BY <1>3, <1>4, <1>7, <1>9 DEF Good, c

(* Time alone does not change what the limiters have counted.              *)
LEMMA LaterGood ==
  ASSUME now \in Time, now' = now + 1, now' \in Time, NEW c, Good(c)
  PROVE  Good(c)'
<1>1. /\ c \in ClientState /\ RateInv(c, now) /\ AuthInv(c, now)
      /\ c.rate_window_start \in Time /\ c.auth_window_start \in Time
      /\ c.auth_lockout_until \in Nat \cup {NoTime}
  BY Fields DEF Good
<1>2. /\ now \in Nat /\ Lockout \in Nat
      /\ c.rate_window_start \in Nat /\ c.auth_window_start \in Nat
  BY <1>1, Numbers
<1>3. \A f : Total(f, now) => Total(f, now + 1)
  BY <1>2, Numbers DEF Total
<1>4. c.rate_window_start <= now + 1 /\ c.auth_window_start <= now + 1
  BY <1>1, <1>2 DEF RateInv, AuthInv
<1>5. RateInv(c, now + 1)
  BY <1>1, <1>3, <1>4 DEF RateInv
<1>6. LockInv(c, now + 1)
  <2>1. c.auth_lockout_until # NoTime => c.auth_lockout_until <= (now + 1) + Lockout
    BY <1>1, <1>2 DEF AuthInv, LockInv
  <2> QED
    BY <1>1, <2>1 DEF AuthInv, LockInv
<1>7. AuthInv(c, now + 1)
  BY <1>1, <1>3, <1>4, <1>6 DEF AuthInv
<1> QED
  BY <1>1, <1>5, <1>7 DEF Good

------------------------------------------------------------------------------
LEMMA InitLimitsInv == Init => LimitsInv
<1> SUFFICES ASSUME Init PROVE LimitsInv
  OBVIOUS
<1>1. now = 0 /\ now \in Time /\ 0 \in Time /\ "none" \in Status
  BY Numbers DEF Init, Time, Status
<1>2. \A p \in Peer : conn[p] = NewState("none", 0)
  BY DEF Init
<1>3. Good(NewState("none", 0)) /\ NewState("none", 0).st = "none"
  BY <1>1, NewGood
<1>4. conn \in [Peer -> ClientState] /\ \A p \in Peer : Good(conn[p])
  BY <1>2, <1>3 DEF Init, Good
<1>5. Handled = {}
  BY <1>2, <1>3 DEF Handled
<1>6. CountInv
  BY <1>5, FS_EmptySet, Numbers DEF Init, CountInv
<1> QED
  BY <1>1, <1>4, <1>6 DEF LimitsInv

(* A step that replaces the record of one peer by a good one.              *)
LEMMA Replaced ==
  ASSUME LimitsInv, NEW p \in Peer, NEW d, Good(d), conn' = [conn EXCEPT ![p] = d], now' = now
  PROVE  /\ now' \in Time /\ conn' \in [Peer -> ClientState] /\ \A q \in Peer : Good(conn[q])'
         /\ conn'[p] = d /\ \A q \in Peer \ {p} : conn'[q] = conn[q]
<1>1. conn \in [Peer -> ClientState] /\ now \in Time
  BY DEF LimitsInv
<1>2. d \in ClientState
  BY DEF Good
<1>3. \A q \in Peer : conn'[q] = IF q = p THEN d ELSE conn[q]
  BY <1>1
<1>4. \A q \in Peer : Good(conn[q])'
  <2> SUFFICES ASSUME NEW q \in Peer PROVE Good(conn[q])'
    OBVIOUS
  <2>1. Good(IF q = p THEN d ELSE conn[q])
    BY DEF LimitsInv
  <2> QED
    BY <1>3, <2>1 DEF Good
<1> QED
  BY <1>1, <1>2, <1>3, <1>4

(* When that peer is handled as before, or not, the counter is right.      *)
LEMMA SameCount ==
  ASSUME LimitsInv, NEW p \in Peer, NEW d, Good(d), conn' = [conn EXCEPT ![p] = d],
         UNCHANGED <<now, active, accept>>, p \notin accept,
         d.st \in {"open", "returned"} <=> conn[p].st \in {"open", "returned"}
  PROVE  LimitsInv'
<1>1. /\ now' \in Time /\ conn' \in [Peer -> ClientState] /\ \A q \in Peer : Good(conn[q])'
      /\ conn'[p] = d /\ \A q \in Peer \ {p} : conn'[q] = conn[q]
  BY Replaced
<1>2. Handled' = Handled
  BY <1>1 DEF Handled
<1>3. CountInv'
  BY <1>1, <1>2 DEF LimitsInv, CountInv
<1> QED
  BY <1>1, <1>3 DEF LimitsInv

(* The accept loop and the end of a connection.                            *)
LEMMA AcceptLoop ==
  ASSUME LimitsInv, NEW p \in Peer, Dial(p) \/ Accept(p) \/ Spawn(p) \/ Hangup(p) \/ Release(p)
  PROVE  LimitsInv'
<1>1. /\ now \in Time /\ conn \in [Peer -> ClientState] /\ CountInv /\ Good(conn[p])
      /\ conn[p] \in ClientState /\ 0 \in Time /\ 0 <= now /\ now <= now
      /\ MaxConnections \in Nat
  BY Numbers DEF LimitsInv, Time
<1>2. /\ \A st \in Status : Good(NewState(st, 0)) /\ NewState(st, 0).st = st
      /\ Good(NewState("open", now)) /\ NewState("open", now).st = "open"
  BY <1>1, NewGood DEF Status
<1>3. /\ IsFiniteSet(Handled) /\ active = Cardinality(Handled) /\ Cardinality(Handled) \in Nat
      /\ accept = {} \/ \E q \in Peer : accept = {q} /\ conn[q].st = "dialled" /\ active < MaxConnections
  BY <1>1, FS_CardinalityType DEF CountInv
<1>4. CASE Dial(p)
  <2>1. p \notin accept /\ conn[p].st = "none" /\ "dialled" \in Status
    BY <1>3, <1>4 DEF Dial, Status
  <2> QED
    BY <1>2, <1>4, <2>1, SameCount DEF Dial
<1>5. CASE Accept(p) /\ active >= MaxConnections
  <2>1. p \notin accept /\ conn[p].st = "dialled" /\ "none" \in Status
    BY <1>5 DEF Accept, Status
  <2>2. UNCHANGED <<now, active, accept>> /\ conn' = [conn EXCEPT ![p] = NewState("none", 0)]
    BY <1>5 DEF Accept
  <2> QED
    BY <1>2, <2>1, <2>2, SameCount
<1>6. CASE Accept(p) /\ ~(active >= MaxConnections)
  <2>1. accept' = {p} /\ conn[p].st = "dialled" /\ conn' = conn /\ active' = active /\ now' = now
    BY <1>6 DEF Accept
  <2>2. active < MaxConnections
    BY <1>1, <1>3, <1>6
  <2>3. Handled' = Handled
    BY <2>1 DEF Handled
  <2>4. CountInv'
    BY <1>1, <2>1, <2>2, <2>3 DEF CountInv
  <2> QED
    BY <2>1, <2>4 DEF LimitsInv, Good
<1>7. CASE Spawn(p)
  <2>1. /\ conn[p].st = "dialled" /\ active < MaxConnections /\ active' = active + 1
        /\ accept' = {} /\ now' = now /\ conn' = [conn EXCEPT ![p] = NewState("open", now)]
    BY <1>3, <1>7 DEF Spawn
  <2>2. /\ now' \in Time /\ conn' \in [Peer -> ClientState] /\ \A q \in Peer : Good(conn[q])'
        /\ conn'[p] = NewState("open", now) /\ \A q \in Peer \ {p} : conn'[q] = conn[q]
    BY <1>2, <2>1, Replaced
  <2>3. Handled' = Handled \cup {p} /\ p \notin Handled
    BY <1>2, <2>1, <2>2 DEF Handled
  <2>4. IsFiniteSet(Handled') /\ Cardinality(Handled') = Cardinality(Handled) + 1
    BY <1>3, <2>3, FS_AddElement
  <2>5. CountInv'
    BY <1>1, <1>3, <2>1, <2>4 DEF CountInv
  <2> QED
    BY <2>2, <2>5 DEF LimitsInv
<1>8. CASE Hangup(p)
  <2> DEFINE d == [conn[p] EXCEPT !.st = "returned"]
  <2>1. d \in ClientState /\ SameRate(conn[p], d) /\ SameAuth(conn[p], d) /\ d.st = "returned"
    BY <1>1 DEF ClientState, Status, SameRate, SameAuth
  <2>2. Good(d)
    BY <1>1, <2>1, Apart DEF Good
  <2>3. conn' = [conn EXCEPT ![p] = d] /\ UNCHANGED <<now, active, accept>> /\ conn[p].st = "open"
    BY <1>1, <1>8 DEF Hangup
  <2>4. p \notin accept
    BY <1>3, <2>3
  <2> QED
    BY <2>1, <2>2, <2>3, <2>4, SameCount
<1>9. CASE Release(p)
  <2>1. /\ conn[p].st = "returned" /\ active' = active - 1 /\ accept' = accept /\ now' = now
        /\ conn' = [conn EXCEPT ![p] = NewState("none", 0)] /\ "none" \in Status
    BY <1>9 DEF Release, Status
  <2>2. /\ now' \in Time /\ conn' \in [Peer -> ClientState] /\ \A q \in Peer : Good(conn[q])'
        /\ conn'[p] = NewState("none", 0) /\ \A q \in Peer \ {p} : conn'[q] = conn[q]
    BY <1>2, <2>1, Replaced
  <2>3. Handled' = Handled \ {p} /\ p \in Handled
    BY <1>2, <2>1, <2>2 DEF Handled
  <2>4. IsFiniteSet(Handled') /\ Cardinality(Handled') = Cardinality(Handled) - 1
    BY <1>3, <2>3, FS_RemoveElement
  <2>5. accept = {} \/ \E q \in Peer : accept = {q} /\ conn'[q].st = "dialled" /\ active' < MaxConnections
    BY <1>1, <1>3, <2>1, <2>2
  <2>6. CountInv'
    BY <1>1, <1>3, <2>1, <2>4, <2>5 DEF CountInv
  <2> QED
    BY <2>2, <2>6 DEF LimitsInv
<1> QED
  BY <1>4, <1>5, <1>6, <1>7, <1>8, <1>9

(* One line of a peer.                                                     *)
LEMMA LineKeeps == ASSUME LimitsInv, NEW p \in Peer, Line(p) PROVE LimitsInv'
<1> DEFINE c == conn[p]
<1>1. now \in Time /\ Good(c) /\ c.st = "open" /\ UNCHANGED <<now, active, accept>>
  BY DEF LimitsInv, Line, RateLimited, Authenticate, AuthenticateWrong, OtherRequest
<1>2. p \notin accept
  BY <1>1 DEF LimitsInv, CountInv
<1> SUFFICES \E d : Good(d) /\ d.st = "open" /\ conn' = [conn EXCEPT ![p] = d]
  BY <1>1, <1>2, SameCount
<1>3. CASE RateLimited(p)
  BY <1>1, <1>3, RateWindowGood DEF RateLimited
<1>4. CASE OtherRequest(p)
  BY <1>1, <1>4, CountedGood DEF OtherRequest
<1>5. CASE Authenticate(p) \/ AuthenticateWrong(p)
  <2> DEFINE b == counted(c)
             a == auth_checked(b)
             allowed == check_auth_rate_limit(b)
             yes == [a EXCEPT !.authenticated = TRUE]
  <2>1. Good(b) /\ b.st = "open"
    BY <1>1, <1>5, CountedGood DEF Authenticate, AuthenticateWrong
  <2>2. Good(a) /\ a.st = "open" /\ (allowed => a.auth_lockout_until = NoTime)
    BY <1>1, <2>1, AuthCheckedGood DEF check_auth_rate_limit
  <2>3. \/ conn' = [conn EXCEPT ![p] = a]
        \/ conn' = [conn EXCEPT ![p] = yes]
        \/ allowed /\ conn' = [conn EXCEPT ![p] = record_auth_failure(a)]
    BY <1>5 DEF Authenticate, AuthenticateWrong
  <2> HIDE DEF a, allowed
  <2>4. Good(yes) /\ yes.st = "open"
    <3>1. a \in ClientState
      BY <2>2 DEF Good
    <3>2. yes \in ClientState /\ SameRate(a, yes) /\ SameAuth(a, yes) /\ yes.st = a.st
      BY <3>1 DEF ClientState, SameRate, SameAuth
    <3> QED
      BY <2>2, <3>2, Apart DEF Good
  <2>5. allowed => Good(record_auth_failure(a)) /\ record_auth_failure(a).st = "open"
    BY <1>1, <2>2, RecordGood
  <2> QED
    BY <2>2, <2>3, <2>4, <2>5
<1> QED
  BY <1>3, <1>4, <1>5 DEF Line

LEMMA NextLimitsInv == LimitsInv /\ [Next]_vars => LimitsInv'
<1> SUFFICES ASSUME LimitsInv, [Next]_vars PROVE LimitsInv'
  OBVIOUS
<1>1. CASE UNCHANGED vars
  BY <1>1 DEF vars, LimitsInv, CountInv, Handled, Good
<1>2. CASE Tick
  <2>1. now \in Time /\ now' = now + 1 /\ now' \in Time /\ UNCHANGED <<active, accept, conn>>
    BY <1>2, Numbers DEF LimitsInv, Tick, Time
  <2>2. \A p \in Peer : Good(conn[p])'
    <3> SUFFICES ASSUME NEW p \in Peer PROVE Good(conn[p])'
      OBVIOUS
    <3>1. PICK c : c = conn[p]
      OBVIOUS
    <3>2. Good(c)'
      BY <2>1, <3>1, LaterGood DEF LimitsInv
    <3> QED
      BY <2>1, <3>1, <3>2 DEF Good
  <2>3. CountInv'
    BY <2>1 DEF LimitsInv, CountInv, Handled
  <2> QED
    BY <2>1, <2>2, <2>3 DEF LimitsInv
<1> QED
  BY <1>1, <1>2, AcceptLoop, LineKeeps DEF Next

------------------------------------------------------------------------------
(* The inductive invariant holds in every reachable state.                 *)
THEOREM LimitsInvariance == Spec => []LimitsInv
  BY InitLimitsInv, NextLimitsInv, PTL DEF Spec

(* Every variable of the accept loop and of the connections has its type,  *)
(* the counters within their limits.                                       *)
THEOREM LimitsTypeCorrect == Spec => []TypeOK
<1>1. LimitsInv => TypeOK
  <2> SUFFICES ASSUME LimitsInv PROVE TypeOK
    OBVIOUS
  <2>1. now \in Time /\ CountInv /\ conn \in [Peer -> ClientState] /\ MaxConnections \in Nat
    BY Numbers DEF LimitsInv
  <2>2. active \in 0..MaxConnections /\ accept \subseteq Peer
    BY <2>1, FS_CardinalityType DEF CountInv
  <2>3. \A p \in Peer : conn[p] \in ClientState
    BY <2>1
  <2> QED
    BY <2>1, <2>2, <2>3, Fields DEF TypeOK, Status
<1> QED
  BY <1>1, LimitsInvariance, PTL

(* The counter of the accept loop is the number of connections being       *)
(* handled and never above the limit, although its load and its increment  *)
(* are two steps.                                                          *)
THEOREM CounterCorrect == Spec => []CounterIsConnections
<1>1. LimitsInv => CounterIsConnections
  BY DEF LimitsInv, CountInv, Handled, CounterIsConnections
<1> QED
  BY <1>1, LimitsInvariance, PTL

(* No stretch of one window, wherever it starts, lets more than twice the  *)
(* limit of requests through.                                              *)
THEOREM RateBounded == Spec => []RateHolds
<1>1. LimitsInv => RateHolds
  <2> SUFFICES ASSUME LimitsInv, NEW p \in Peer
               PROVE  \A t \in Time : Within(conn[p].granted, t, RateWindow) <= 2 * RateLimit
    BY DEF RateHolds
  <2>1. now \in Time /\ Good(conn[p])
    BY DEF LimitsInv
  <2>2. /\ conn[p].granted \in [0..End -> Nat] /\ conn[p].rate_window_start \in Time
        /\ conn[p].request_count \in 0..RateLimit
    BY <2>1, Fields DEF Good
  <2>3. /\ conn[p].request_count \in Nat /\ RateLimit \in Nat /\ RateWindow \in Nat
        /\ 2 * RateLimit \in Nat /\ conn[p].request_count + RateLimit <= 2 * RateLimit
    BY <2>2, Numbers
  <2> QED
    BY <2>1, <2>2, <2>3, WindowBound DEF Good, RateInv
<1> QED
  BY <1>1, LimitsInvariance, PTL

(* Fewer than twice the allowed number of wrong tokens are tried in any    *)
(* stretch of one window, however it straddles windows and lockouts.       *)
THEOREM GuessesAreBounded == Spec => []GuessesBounded
<1>1. LimitsInv => GuessesBounded
  <2> SUFFICES ASSUME LimitsInv, NEW p \in Peer, NEW t \in Time
               PROVE  Within(conn[p].tried, t, AuthWindow) < 2 * AuthFailures
    BY DEF GuessesBounded
  <2>1. now \in Time /\ Good(conn[p])
    BY DEF LimitsInv
  <2>2. /\ conn[p].tried \in [0..End -> Nat] /\ conn[p].auth_window_start \in Time
        /\ conn[p].auth_failure_count \in 0..AuthFailures
    BY <2>1, Fields DEF Good
  <2>3. /\ conn[p].auth_failure_count \in Nat /\ AuthFailures - 1 \in Nat /\ AuthWindow \in Nat
        /\ 2 * AuthFailures - 1 \in Nat
        /\ conn[p].auth_failure_count + (AuthFailures - 1) <= 2 * AuthFailures - 1
    BY <2>2, Numbers
  <2>4. /\ Total(conn[p].tried, now)
        /\ Windowed(conn[p].tried, conn[p].auth_window_start, conn[p].auth_failure_count, AuthWindow,
                    AuthFailures - 1, 2 * AuthFailures - 1)
    BY <2>1 DEF Good, AuthInv
  <2>5. Within(conn[p].tried, t, AuthWindow) <= 2 * AuthFailures - 1
    BY <2>1, <2>2, <2>3, <2>4, WindowBound
  <2>6. Within(conn[p].tried, t, AuthWindow) \in Int /\ AuthFailures \in Nat
    <3>1. \A u \in 0..End : conn[p].tried[u] \in Nat
      BY <2>2
    <3>2. t \in 0..End /\ t \in Nat /\ End \in Nat /\ AuthFailures \in Nat
      BY Numbers
    <3> QED
      BY <2>3, <3>1, <3>2 DEF Within
  <2> QED
    BY <2>5, <2>6
<1> QED
  BY <1>1, LimitsInvariance, PTL

(* A peer that may not authenticate is locked out, until a time no further *)
(* away than the lockout.                                                  *)
THEOREM LockoutsExpire == Spec => []RefusedOnlyWhileLocked
<1>1. LimitsInv => RefusedOnlyWhileLocked
  <2> SUFFICES ASSUME LimitsInv, NEW p \in Peer, ~check_auth_rate_limit(conn[p])
               PROVE  locked(conn[p]) /\ conn[p].auth_lockout_until <= now + Lockout
    BY DEF RefusedOnlyWhileLocked
  <2>1. now \in Time /\ Good(conn[p])
    BY DEF LimitsInv
  <2>2. ASSUME ~locked(conn[p]) PROVE FALSE
    <3>1. Good(auth_checked(conn[p])) /\ auth_checked(conn[p]).auth_lockout_until = NoTime
      BY <2>1, <2>2, AuthCheckedGood
    <3>2. /\ auth_checked(conn[p]).auth_failure_count \in 0..AuthFailures
          /\ auth_checked(conn[p]).auth_failure_count # AuthFailures
      BY <3>1, Fields DEF Good, AuthInv, LockInv
    <3>3. auth_checked(conn[p]).auth_failure_count < AuthFailures
      BY <3>2, Numbers
    <3> QED
      BY <2>2, <3>3 DEF check_auth_rate_limit
  <2>3. locked(conn[p]) => conn[p].auth_lockout_until <= now + Lockout
    BY <2>1 DEF locked, Good, AuthInv, LockInv
  <2> QED
    BY <2>2, <2>3
<1> QED
  BY <1>1, LimitsInvariance, PTL
==============================================================================
