-------------------------- MODULE HttpClientProofs --------------------------
(***************************************************************************)
(* Proofs about HttpClient, for any rate, number of attempts, pauses,      *)
(* time-out, margin and life of a token.                                   *)
(***************************************************************************)
EXTENDS HttpClient, TLAPS

Calls ==
  [kind : {"chart", "metadata"}, req : Requests, pc : {"check", "wait", "sent", "pause"},
   timer : Nat, tries : 0 .. MaxRetries]

\* Attempts and time of the request in progress: a throttle sleeps no longer than
\* the interval, and only an attempt that may be repeated is paused for.
CallInv ==
  /\ call.pc = "check" => call.timer = 0 /\ call.tries = 0
  /\ call.pc = "wait" => call.tries = 0 /\ call.timer <= Interval
  /\ call.pc = "pause" => 0 < call.tries /\ call.tries < MaxRetries
  /\ call.pc = "sent" => 0 < call.tries /\ call.timer <= Timeout

\* The client believes in a token no longer than one request after the server.
TrustInv == trust <= alive + Timeout

TypeInv == TypeOK /\ CallInv /\ TrustInv

\* The sleep lasts until the interval since the last pass is over, and nothing but
\* robots.txt and retries went to a host without passing.
ThrottleInv ==
  /\ call.pc = "wait" => pass[Host(call.req)] + call.timer >= Interval
  /\ \A h \in Hosts : prev[h] \in {"none", "first"} => pass[h] <= quiet[h]

\* A query that has not been sent has a token for as long as it may still sleep.
TokenInv ==
  call.req = "query" =>
    /\ call.pc = "check" => alive > Interval
    /\ call.pc = "wait" => alive > call.timer

\* The request in progress is on record; only Spotify's client has the endpoint.
AskedInv ==
  call # Idle =>
    /\ call.req \in asked
    /\ call.req = "chart" => client = "spotify"

IInv == TypeInv /\ ThrottleInv /\ TokenInv /\ AskedInv

USE HttpAssumption
----------------------------------------------------------------------------
LEMMA Constants ==
  /\ Interval \in Nat /\ Timeout \in Nat /\ Margin \in Nat /\ Life \in Nat
  /\ MaxRetries \in Nat /\ MaxRetries > 0
BY DEF HttpAssumption

LEMMA PauseType ==
  ASSUME NEW n \in Nat, n > 0
  PROVE  Pause(n) \in Nat
<1>1. Backoff \in Seq(Nat) /\ Len(Backoff) \in Nat /\ Len(Backoff) > 0
  BY DEF HttpAssumption
<1> QED BY <1>1 DEF Pause

LEMMA HostType == \A r : Host(r) \in Hosts
BY DEF Host, Hosts

LEMMA BegunType ==
  ASSUME NEW k \in {"chart", "metadata"}, NEW r \in Requests
  PROVE  /\ Begun(k, r) \in Calls /\ Begun(k, r) # Idle
         /\ Begun(k, r).kind = k /\ Begun(k, r).req = r /\ Begun(k, r).pc = "check"
         /\ Begun(k, r).timer = 0 /\ Begun(k, r).tries = 0
BY Constants DEF Begun, Calls, Idle

\* Where a request may lead.
LEMMA AfterCases ==
  ASSUME NEW k \in {"chart", "metadata"}, NEW r \in Requests,
         NEW o \in Outcomes
  PROVE  /\ After(k, r, o) \in {"query", "html"} \cup Results
         /\ After(k, r, o) = "query" => r = "token" /\ o = "rows"
         /\ After(k, r, o) = "nothing" /\ k = "chart" => r = "html"
         /\ After(k, r, o) = "raised" /\ k = "chart" =>
              o = "broken" /\ (r = "chart" \/ client = "spotify")
BY DEF After, Requests, Outcomes, Results

\* A request that ends begins another of the call or ends the call.
LEMMA EndsCases ==
  ASSUME TypeOK, call # Idle, NEW o \in Outcomes, Ends(o)
  PROVE  \/ \E r \in {"query", "html"} :
              /\ call' = Begun(call.kind, r) /\ asked' = asked \cup {r} /\ result' = result
              /\ r = "query" => call.req = "token" /\ o = "rows"
         \/ /\ call' = Idle /\ asked' = asked
            /\ result' \in Results
            /\ result' = "nothing" /\ call.kind = "chart" => call.req = "html"
            /\ result' = "raised" /\ call.kind = "chart" =>
                 o = "broken" /\ (call.req = "chart" \/ client = "spotify")
<1>1. call.kind \in {"chart", "metadata"} /\ call.req \in Requests
  BY DEF TypeOK
<1> DEFINE next == After(call.kind, call.req, o)
<1>2. /\ next \in {"query", "html"} \cup Results
      /\ next = "query" => call.req = "token" /\ o = "rows"
      /\ next = "nothing" /\ call.kind = "chart" => call.req = "html"
      /\ next = "raised" /\ call.kind = "chart" =>
           o = "broken" /\ (call.req = "chart" \/ client = "spotify")
  BY <1>1, AfterCases
<1>3. IF next \in Requests
      THEN call' = Begun(call.kind, next) /\ asked' = asked \cup {next} /\ UNCHANGED result
      ELSE call' = Idle /\ result' = next /\ UNCHANGED asked
  BY DEF Ends
<1> HIDE DEF next
<1>4. CASE next \in {"query", "html"}
  BY <1>2, <1>3, <1>4 DEF Requests
<1>5. CASE next \in Results
  <2>1. next \notin Requests
    BY <1>5 DEF Requests, Results
  <2> QED BY <2>1, <1>2, <1>3, <1>5
<1> QED BY <1>2, <1>4, <1>5

\* What holds of the request in progress when it ended without an answer to keep.
LEMMA EndsInv ==
  ASSUME TypeInv, AskedInv, call # Idle,
         NEW o \in Outcomes, Ends(o)
  PROVE  /\ call' = Idle \/ call' \in Calls
         /\ result' \in Results /\ asked' \subseteq Requests
         /\ call'.pc \in {"idle", "check"} /\ call'.timer = 0 /\ call'.tries = 0
         /\ call' # Idle => call'.req \in asked' /\ call'.req # "chart"
         /\ call'.req = "query" => call.req = "token" /\ o = "rows"
<1>1. CASE \E r \in {"query", "html"} :
             /\ call' = Begun(call.kind, r) /\ asked' = asked \cup {r} /\ result' = result
             /\ r = "query" => call.req = "token" /\ o = "rows"
  <2>1. PICK r \in {"query", "html"} :
             /\ call' = Begun(call.kind, r) /\ asked' = asked \cup {r} /\ result' = result
             /\ r = "query" => call.req = "token" /\ o = "rows"
    BY <1>1
  <2>2. r \in Requests /\ call.kind \in {"chart", "metadata"}
    BY DEF Requests, TypeInv, TypeOK
  <2>3. /\ call' \in Calls /\ call' # Idle /\ call'.req = r /\ call'.pc = "check"
        /\ call'.timer = 0 /\ call'.tries = 0
    BY <2>1, <2>2, BegunType
  <2> QED BY <2>1, <2>2, <2>3 DEF TypeInv, TypeOK
<1>2. CASE call' = Idle /\ asked' = asked /\ result' \in Results
  BY <1>2 DEF Idle, TypeInv, TypeOK
<1> QED BY <1>1, <1>2, EndsCases DEF TypeInv
----------------------------------------------------------------------------
LEMMA InitInv == Init => IInv
<1> SUFFICES ASSUME Init PROVE IInv
  OBVIOUS
<1>1. TypeInv
  BY Constants DEF Init, TypeInv, TypeOK, CallInv, TrustInv, Idle, Hosts, Requests, Results
<1>2. ThrottleInv /\ TokenInv /\ AskedInv
  BY Constants DEF Init, ThrottleInv, TokenInv, AskedInv, Idle, Hosts
<1> QED BY <1>1, <1>2 DEF IInv

\* A call in progress, unfolded.
LEMMA CallType ==
  ASSUME TypeOK, call # Idle
  PROVE  /\ call \in Calls /\ call.kind \in {"chart", "metadata"} /\ call.req \in Requests
         /\ call.pc \in {"check", "wait", "sent", "pause"}
         /\ call.timer \in Nat /\ call.tries \in 0 .. MaxRetries
BY DEF TypeOK, Calls

LEMMA IdlePc == Idle.pc = "idle" /\ Idle.timer = 0 /\ Idle.tries = 0 /\ Idle.req = "none"
BY DEF Idle

LEMMA CallInvs ==
  ASSUME IInv, NEW k \in {"chart", "metadata"}, Call(k)
  PROVE  IInv'
<1> DEFINE r == CASE client = "spotify" -> "chart"
                  [] client = "keyless" -> "html"
                  [] client = "podchaser" -> IF TokenKept THEN "query" ELSE "token"
<1>1. /\ r \in Requests /\ (r = "chart" => client = "spotify")
      /\ r = "query" => trust > Margin
  BY DEF IInv, TypeInv, TypeOK, Requests, TokenKept
<1>2. call' = Begun(k, r) /\ asked' = {r}
  BY DEF Call
<1> HIDE DEF r
<1>3. /\ call' \in Calls /\ call' # Idle /\ call'.req = r /\ call'.pc = "check"
      /\ call'.timer = 0 /\ call'.tries = 0
  BY <1>1, <1>2, BegunType
<1>4. UNCHANGED <<client, result, robots, pass, trust, alive, quiet, prev>>
  BY DEF Call
<1>5. TypeInv'
  BY <1>1, <1>2, <1>3, <1>4 DEF IInv, TypeInv, TypeOK, CallInv, TrustInv, Calls
<1>6. ThrottleInv' /\ AskedInv'
  BY <1>1, <1>2, <1>3, <1>4 DEF IInv, ThrottleInv, AskedInv
<1>7. TokenInv'
  BY <1>1, <1>3, <1>4, Constants DEF IInv, TypeInv, TypeOK, TrustInv, TokenInv, HttpAssumption
<1> QED BY <1>5, <1>6, <1>7 DEF IInv

LEMMA FetchRobotsInv ==
  ASSUME IInv, FetchRobots
  PROVE  IInv'
<1>1. call # Idle
  BY IdlePc DEF FetchRobots
<1>2. TypeInv'
  BY HostType, Constants DEF FetchRobots, IInv, TypeInv, TypeOK, CallInv, TrustInv
<1>3. ThrottleInv'
  BY HostType DEF FetchRobots, IInv, TypeInv, TypeOK, ThrottleInv
<1>4. TokenInv' /\ AskedInv'
  BY DEF FetchRobots, IInv, TokenInv, AskedInv
<1> QED BY <1>2, <1>3, <1>4 DEF IInv

LEMMA DisallowedInv ==
  ASSUME IInv, Disallowed
  PROVE  IInv'
<1>1. call # Idle /\ Ends("error")
  BY IdlePc DEF Disallowed
<1>2. /\ call' = Idle \/ call' \in Calls
      /\ result' \in Results /\ asked' \subseteq Requests
      /\ call'.pc \in {"idle", "check"} /\ call'.timer = 0 /\ call'.tries = 0
      /\ call' # Idle => call'.req \in asked' /\ call'.req # "chart"
      /\ call'.req # "query"
  BY <1>1, EndsInv DEF IInv, Outcomes
<1>3. UNCHANGED <<client, robots, pass, trust, alive, quiet, prev>>
  BY DEF Disallowed
<1>4. TypeInv'
  BY <1>2, <1>3 DEF IInv, TypeInv, TypeOK, CallInv, TrustInv, Calls
<1>5. ThrottleInv' /\ TokenInv' /\ AskedInv'
  BY <1>2, <1>3 DEF IInv, ThrottleInv, TokenInv, AskedInv
<1> QED BY <1>4, <1>5 DEF IInv

LEMMA WaitInv ==
  ASSUME IInv, Wait
  PROVE  IInv'
<1>1. call # Idle
  BY IdlePc DEF Wait
<1> DEFINE h == Host(call.req)
<1>2. /\ pass[h] \in 0 .. Interval /\ call' = [call EXCEPT !.pc = "wait", !.timer = Interval - pass[h]]
      /\ UNCHANGED <<client, result, robots, pass, trust, alive, quiet, prev, asked>>
  BY HostType DEF Wait, IInv, TypeInv, TypeOK
<1> HIDE DEF h
<1>3. /\ Interval - pass[h] \in Nat /\ Interval - pass[h] <= Interval
  BY <1>2, Constants
<1>4. /\ call' \in Calls /\ call'.req = call.req /\ call'.pc = "wait" /\ call'.tries = 0
      /\ call'.timer = Interval - pass[h] /\ call'.kind = call.kind
  BY <1>1, <1>2, <1>3, CallType DEF IInv, TypeInv, CallInv, Calls, Wait
<1>5. TypeInv'
  BY <1>2, <1>3, <1>4 DEF IInv, TypeInv, TypeOK, CallInv, TrustInv, Calls
<1>6. ThrottleInv'
  BY <1>2, <1>4, Constants DEF IInv, ThrottleInv, h
<1>7. TokenInv'
  BY <1>2, <1>3, <1>4, Constants DEF IInv, TypeInv, TypeOK, TokenInv, Wait
<1>8. AskedInv'
  BY <1>1, <1>2, <1>4 DEF IInv, AskedInv
<1> QED BY <1>5, <1>6, <1>7, <1>8 DEF IInv

LEMMA SendInv ==
  ASSUME IInv, Send
  PROVE  IInv'
<1>1. call # Idle
  BY IdlePc DEF Send
<1> DEFINE h == Host(call.req)
           first == call.pc = "wait"
<1>2. /\ call.pc \in {"wait", "pause"} /\ call.timer = 0
      /\ call' = [call EXCEPT !.pc = "sent", !.tries = @ + 1]
      /\ pass' = IF first THEN [pass EXCEPT ![h] = 0] ELSE pass
      /\ quiet' = [quiet EXCEPT ![h] = 0]
      /\ prev' = [prev EXCEPT ![h] = IF first THEN "first" ELSE "retry"]
      /\ UNCHANGED <<client, result, robots, trust, alive, asked>>
  BY DEF Send
<1>3. call.tries + 1 \in 1 .. MaxRetries /\ h \in Hosts
  BY <1>1, <1>2, CallType, HostType, Constants DEF IInv, TypeInv, CallInv
<1>4. /\ call' \in Calls /\ call'.req = call.req /\ call'.pc = "sent" /\ call'.timer = 0
      /\ call'.tries > 0
  <2>1. call \in Calls /\ call.tries \in Nat
    BY <1>1, CallType, Constants DEF IInv, TypeInv
  <2>2. call.tries + 1 \in 0 .. MaxRetries /\ call.tries + 1 > 0
    BY <1>3, Constants
  <2> HIDE DEF h
  <2> QED BY <1>2, <2>1, <2>2 DEF Calls
<1> HIDE DEF h
<1>5. TypeInv'
  <2>1. /\ {pass', quiet'} \subseteq [Hosts -> 0 .. Interval]
        /\ prev' \in [Hosts -> {"none", "robots", "first", "retry"}]
    BY <1>2, <1>3, Constants DEF IInv, TypeInv, TypeOK
  <2>2. TypeOK'
    BY <1>2, <1>4, <2>1 DEF IInv, TypeInv, TypeOK, Calls
  <2>3. CallInv' /\ TrustInv'
    BY <1>2, <1>4, Constants DEF IInv, TypeInv, TypeOK, CallInv, TrustInv
  <2> QED BY <2>2, <2>3 DEF TypeInv
<1>6. ThrottleInv'
  BY <1>2, <1>3, <1>4 DEF IInv, TypeInv, TypeOK, ThrottleInv
<1>7. TokenInv' /\ AskedInv'
  BY <1>1, <1>2, <1>4 DEF IInv, TokenInv, AskedInv
<1> QED BY <1>5, <1>6, <1>7 DEF IInv

LEMMA TryAgainInv ==
  ASSUME IInv, NEW o, TryAgain(o)
  PROVE  IInv'
<1>1. call # Idle
  BY IdlePc DEF TryAgain
<1>2. /\ call.pc = "sent" /\ call.tries < MaxRetries
      /\ call' = [call EXCEPT !.pc = "pause", !.timer = Pause(call.tries)]
      /\ UNCHANGED <<client, result, robots, pass, trust, alive, quiet, prev, asked>>
  BY DEF TryAgain, Repeat
<1>3. Pause(call.tries) \in Nat /\ call.tries > 0
  BY <1>1, <1>2, CallType, PauseType DEF IInv, TypeInv, CallInv
<1>4. /\ call' \in Calls /\ call'.req = call.req /\ call'.pc = "pause"
      /\ call'.tries = call.tries
  BY <1>1, <1>2, <1>3, CallType DEF IInv, TypeInv, Calls
<1>5. TypeInv'
  BY <1>2, <1>3, <1>4 DEF IInv, TypeInv, TypeOK, CallInv, TrustInv, Calls
<1>6. ThrottleInv' /\ TokenInv' /\ AskedInv'
  BY <1>1, <1>2, <1>4 DEF IInv, ThrottleInv, TokenInv, AskedInv
<1> QED BY <1>5, <1>6 DEF IInv

LEMMA AnswerInv ==
  ASSUME IInv, NEW o \in Outcomes \cup {"busy"}, Answer(o)
  PROVE  IInv'
<1>1. call # Idle
  BY IdlePc DEF Answer
<1> DEFINE e == IF o = "busy" THEN "error" ELSE o
<1>2. e \in Outcomes /\ Ends(e) /\ (e = "rows" <=> o = "rows")
  BY DEF Answer, Outcomes
<1> HIDE DEF e
<1>3. /\ call' = Idle \/ call' \in Calls
      /\ result' \in Results /\ asked' \subseteq Requests
      /\ call'.pc \in {"idle", "check"} /\ call'.timer = 0 /\ call'.tries = 0
      /\ call' # Idle => call'.req \in asked' /\ call'.req # "chart"
      /\ call'.req = "query" => call.req = "token" /\ e = "rows"
  BY <1>1, <1>2, EndsInv DEF IInv
<1>4. /\ UNCHANGED <<client, robots, pass, quiet, prev>>
      /\ call.pc = "sent"
      /\ IF call.req = "token" /\ o = "rows"
         THEN trust' = Life /\ \E ago \in 0 .. call.timer : alive' = Life - ago
         ELSE trust' = trust /\ alive' = alive
  BY DEF Answer
<1>5. call.timer \in Nat /\ call.timer <= Timeout
  BY <1>1, <1>4, CallType DEF IInv, TypeInv, CallInv
<1>6. call.req = "token" /\ o = "rows" =>
        /\ trust' = Life /\ alive' \in 0 .. Life /\ Life <= alive' + Timeout
        /\ alive' > Interval
  BY <1>4, <1>5, Constants DEF HttpAssumption
<1>7. trust' \in 0 .. Life /\ alive' \in 0 .. trust' /\ TrustInv'
  BY <1>4, <1>6, Constants DEF IInv, TypeInv, TypeOK, TrustInv
<1>8. TypeInv'
  BY <1>3, <1>4, <1>7 DEF IInv, TypeInv, TypeOK, CallInv, Calls
<1>9. ThrottleInv' /\ AskedInv'
  BY <1>3, <1>4 DEF IInv, ThrottleInv, AskedInv
<1>10. TokenInv'
  BY <1>2, <1>3, <1>6 DEF TokenInv
<1> QED BY <1>8, <1>9, <1>10 DEF IInv

LEMMA TickInv ==
  ASSUME IInv, Tick
  PROVE  IInv'
<1>1. /\ \A h \in Hosts : /\ pass[h] \in 0 .. Interval /\ quiet[h] \in 0 .. Interval
                          /\ pass'[h] = IF pass[h] < Interval THEN pass[h] + 1 ELSE Interval
                          /\ quiet'[h] = IF quiet[h] < Interval THEN quiet[h] + 1 ELSE Interval
      /\ {pass', quiet'} \subseteq [Hosts -> 0 .. Interval]
  BY Constants DEF Tick, More, IInv, TypeInv, TypeOK
<1>2. /\ trust' \in 0 .. Life /\ alive' \in 0 .. trust' /\ trust' <= alive' + Timeout
      /\ alive' = IF alive > 0 THEN alive - 1 ELSE 0
  BY Constants DEF Tick, Less, IInv, TypeInv, TypeOK, TrustInv
<1>3. UNCHANGED <<client, result, robots, prev, asked>>
  BY DEF Tick
<1>4. ASSUME NEW h \in Hosts, prev'[h] \in {"none", "first"} PROVE pass'[h] <= quiet'[h]
  <2>1. pass[h] <= quiet[h]
    BY <1>3, <1>4 DEF IInv, ThrottleInv
  <2>2. /\ pass[h] \in Nat /\ quiet[h] \in Nat
        /\ pass'[h] = IF pass[h] < Interval THEN pass[h] + 1 ELSE Interval
        /\ quiet'[h] = IF quiet[h] < Interval THEN quiet[h] + 1 ELSE Interval
    BY <1>1, Constants
  <2> QED BY <2>1, <2>2, Constants
<1>5. CASE call.pc = "idle" /\ UNCHANGED call
  <2>1. TypeInv'
    BY <1>1, <1>2, <1>3, <1>5 DEF IInv, TypeInv, TypeOK, CallInv, TrustInv, Calls
  <2>2. ThrottleInv'
    BY <1>4, <1>5 DEF ThrottleInv
  <2>3. TokenInv' /\ AskedInv'
    BY <1>3, <1>5 DEF IInv, TokenInv, AskedInv
  <2> QED BY <2>1, <2>2, <2>3 DEF IInv
<1>6. ASSUME NEW n \in Nat, call' = [call EXCEPT !.timer = n], call # Idle,
             \/ call.pc \in {"wait", "pause"} /\ call.timer > 0 /\ n = call.timer - 1
             \/ call.pc = "sent" /\ n <= Timeout
      PROVE  IInv'
  <2>1. /\ call' \in Calls /\ call'.req = call.req /\ call'.pc = call.pc
        /\ call'.tries = call.tries /\ call'.timer = n /\ call.timer \in Nat
        /\ call.pc \in {"wait", "pause", "sent"}
    BY <1>6, CallType DEF IInv, TypeInv, Calls
  <2>2. CallInv'
    BY <1>6, <2>1, CallType, Constants DEF IInv, TypeInv, CallInv
  <2>3. TypeInv'
    BY <1>1, <1>2, <1>3, <2>1, <2>2 DEF IInv, TypeInv, TypeOK, TrustInv, Calls
  <2>4. ThrottleInv'
    <3>1. ASSUME call.pc = "wait" PROVE pass'[Host(call.req)] + n >= Interval
      <4> DEFINE h == Host(call.req)
      <4>1. h \in Hosts /\ pass[h] + call.timer >= Interval
        BY <3>1, HostType DEF IInv, ThrottleInv
      <4>2. n = call.timer - 1 /\ call.timer > 0
        BY <1>6, <3>1
      <4> HIDE DEF h
      <4>3. /\ pass[h] \in 0 .. Interval
            /\ pass'[h] = IF pass[h] < Interval THEN pass[h] + 1 ELSE Interval
        BY <1>1, <4>1
      <4>4. pass'[h] + n >= Interval
        BY <2>1, <4>1, <4>2, <4>3, Constants
      <4> QED BY <4>4 DEF h
    <3> QED BY <1>4, <2>1, <3>1 DEF ThrottleInv
  <2>5. TokenInv'
    BY <1>2, <1>6, <2>1 DEF IInv, TypeInv, TypeOK, TokenInv
  <2>6. AskedInv'
    BY <1>3, <1>6, <2>1 DEF IInv, AskedInv
  <2> QED BY <2>3, <2>4, <2>5, <2>6 DEF IInv
<1>7. CASE call.pc \in {"wait", "pause"} /\ call.timer > 0
           /\ call' = [call EXCEPT !.timer = @ - 1]
  <2>1. call # Idle
    BY <1>7, IdlePc
  <2>2. call.timer - 1 \in Nat
    BY <1>7, <2>1, CallType DEF IInv, TypeInv
  <2> QED BY <1>6, <1>7, <2>1, <2>2
<1>8. CASE call.pc = "sent" /\ call.timer < Timeout /\ call' = [call EXCEPT !.timer = @ + 1]
  <2>1. call # Idle
    BY <1>8, IdlePc
  <2>2. call.timer + 1 \in Nat /\ call.timer + 1 <= Timeout
    BY <1>8, <2>1, CallType, Constants DEF IInv, TypeInv
  <2> QED BY <1>6, <1>8, <2>1, <2>2
<1> QED BY <1>5, <1>7, <1>8 DEF Tick

LEMMA StutterInv == IInv /\ UNCHANGED vars => IInv'
BY DEF vars, IInv, TypeInv, TypeOK, CallInv, TrustInv, ThrottleInv, TokenInv, AskedInv

LEMMA NextInv == IInv /\ [Next]_vars => IInv'
<1> SUFFICES ASSUME IInv, [Next]_vars PROVE IInv'
  OBVIOUS
<1>1. ASSUME Step PROVE IInv'
  BY <1>1, FetchRobotsInv, DisallowedInv, WaitInv, SendInv, AnswerInv, TryAgainInv DEF Step
<1> QED BY <1>1, CallInvs, TickInv, StutterInv DEF Next

LEMMA Invariance == Spec => []IInv
BY InitInv, NextInv, PTL DEF Spec
----------------------------------------------------------------------------
\* Every variable of the client holds a value of its type, no request is sent more
\* often than MAX_RETRIES, and the server drops a token no later than the client.
THEOREM HttpTypes == Spec => []TypeOK
<1>1. IInv => TypeOK
  BY DEF IInv, TypeInv
<1> QED BY <1>1, Invariance, PTL

\* A step by which a request goes out is Send.
LEMMA SentBySend ==
  ASSUME IInv, Next, call.pc # "sent", call'.pc = "sent"
  PROVE  Send
<1>1. ASSUME NEW k \in {"chart", "metadata"}, Call(k) PROVE FALSE
  BY <1>1 DEF Call, Begun
<1>2. ASSUME FetchRobots PROVE FALSE
  BY <1>2 DEF FetchRobots
<1>3. ASSUME Disallowed PROVE FALSE
  <2>1. call # Idle /\ Ends("error")
    BY <1>3, IdlePc DEF Disallowed
  <2> QED BY <2>1, EndsInv DEF IInv, Outcomes
<1>4. ASSUME Wait PROVE FALSE
  <2>1. call # Idle
    BY <1>4, IdlePc DEF Wait
  <2> QED BY <1>4, <2>1, CallType DEF Wait, IInv, TypeInv, Calls
<1>5. ASSUME NEW o, TryAgain(o) \/ Answer(o) PROVE FALSE
  BY <1>5 DEF TryAgain, Answer
<1>6. ASSUME Tick PROVE FALSE
  <2>1. call.pc \in {"wait", "pause"} => call # Idle
    BY IdlePc
  <2> QED BY <1>6, <2>1, CallType DEF Tick, IInv, TypeInv, Calls
<1> QED BY <1>1, <1>2, <1>3, <1>4, <1>5, <1>6 DEF Next, Step

\* A request leaves less than the interval after another to the same host only as a
\* retry, or right after a retry or robots.txt: whatever the rate, the pauses and
\* the time-out are, a first attempt has waited out the interval since any other.
THEOREM ThrottleHolds == Spec => BurstsOnlyByRetries
<1> DEFINE A == \A h \in SentNow : quiet[h] < Interval =>
                  prev'[h] = "retry" \/ prev[h] \in {"retry", "robots"}
<1>1. IInv /\ [Next]_vars => [A]_vars
  <2> SUFFICES ASSUME IInv, Next, NEW h \in SentNow, quiet[h] < Interval
               PROVE  prev'[h] = "retry" \/ prev[h] \in {"retry", "robots"}
    OBVIOUS
  <2>1. call.pc # "sent" /\ call'.pc = "sent" /\ h = Host(call.req) /\ h \in Hosts
    BY HostType DEF SentNow
  <2>2. Send
    BY <2>1, SentBySend
  <2>3. CASE call.pc = "wait"
    <3>1. pass[h] + call.timer >= Interval /\ call.timer = 0 /\ pass[h] \in 0 .. Interval
      BY <2>1, <2>2, <2>3 DEF Send, IInv, ThrottleInv, TypeInv, TypeOK
    <3>2. pass[h] >= Interval /\ quiet[h] \in 0 .. Interval
      BY <2>1, <3>1, Constants DEF IInv, TypeInv, TypeOK
    <3>3. prev[h] \in {"none", "robots", "first", "retry"}
      BY <2>1 DEF IInv, TypeInv, TypeOK
    <3>4. prev[h] \in {"none", "first"} => pass[h] <= quiet[h]
      BY <2>1 DEF IInv, ThrottleInv
    <3> QED BY <3>1, <3>2, <3>3, <3>4, Constants
  <2>4. CASE call.pc # "wait"
    BY <2>1, <2>2, <2>4 DEF Send, IInv, TypeInv, TypeOK
  <2> QED BY <2>3, <2>4
<1>2. Spec => [][A]_vars
  BY <1>1, Invariance, PTL DEF Spec
<1> QED BY <1>2 DEF BurstsOnlyByRetries

\* The first attempt of a query goes out with a token the server still accepts,
\* whatever the limits are, as long as the margin covers one request and one
\* interval: only a retry may carry a token that is over.
THEOREM TokenCoversFirstAttempt == Spec => TokenLastsForFirstAttempt
<1> DEFINE A == SentNow # {} /\ call.req = "query" => alive > 0 \/ call'.tries > 1
<1>1. IInv /\ [Next]_vars => [A]_vars
  <2> SUFFICES ASSUME IInv, Next, SentNow # {}, call.req = "query"
               PROVE  alive > 0 \/ call'.tries > 1
    OBVIOUS
  <2>1. Send
    BY SentBySend DEF SentNow
  <2>2. call # Idle /\ call.timer = 0
    BY <2>1, IdlePc DEF Send
  <2>3. CASE call.pc = "wait"
    BY <2>2, <2>3 DEF IInv, TokenInv
  <2>4. CASE call.pc = "pause"
    <3>1. call.tries \in Nat /\ call.tries > 0
      BY <2>2, <2>4, CallType, Constants DEF IInv, TypeInv, CallInv
    <3>2. call'.tries = call.tries + 1
      BY <2>1, <2>2, CallType DEF Send, IInv, TypeInv, Calls
    <3> QED BY <3>1, <3>2
  <2> QED BY <2>1, <2>3, <2>4 DEF Send
<1>2. Spec => [][A]_vars
  BY <1>1, Invariance, PTL DEF Spec
<1> QED BY <1>2 DEF TokenLastsForFirstAttempt

\* A chart for which no source had rows was asked for on the page, no failure of a
\* request ends Podchaser's call with an exception, and Spotify's only when the last
\* attempt broke off: for any number of attempts, pauses and limits.
THEOREM FallbackIsComplete == Spec => PageIsLastResort
<1> DEFINE A == call # Idle /\ call' = Idle /\ call.kind = "chart" =>
                  /\ result' = "nothing" => "html" \in asked
                  /\ result' = "raised" => client = "spotify" /\ call.tries = MaxRetries
<1>1. IInv /\ [Next]_vars => [A]_vars
  <2> SUFFICES ASSUME IInv, Next, call # Idle, call' = Idle, call.kind = "chart"
               PROVE  /\ result' = "nothing" => "html" \in asked
                      /\ result' = "raised" => client = "spotify" /\ call.tries = MaxRetries
    OBVIOUS
  <2>1. /\ call.req \in asked /\ (call.req = "chart" => client = "spotify")
        /\ call.tries \in 0 .. MaxRetries /\ TypeOK
    BY CallType DEF IInv, AskedInv, TypeInv
  <2>2. ASSUME NEW o \in Outcomes, Ends(o)
        PROVE  /\ result' = "nothing" => call.req = "html"
               /\ result' = "raised" => o = "broken" /\ client = "spotify"
    <3>1. ~\E r \in {"query", "html"} : call' = Begun(call.kind, r)
      BY DEF Begun, Idle
    <3> QED BY <2>1, <2>2, <3>1, EndsCases
  <2>3. CASE Disallowed
    BY <2>1, <2>2, <2>3 DEF Disallowed, Outcomes
  <2>4. CASE \E o \in Outcomes \cup {"busy"} : Answer(o)
    <3>1. PICK o \in Outcomes \cup {"busy"} : Answer(o)
      BY <2>4
    <3>2. /\ result' = "nothing" => call.req = "html"
          /\ result' = "raised" => o = "broken" /\ client = "spotify"
      BY <2>2, <3>1 DEF Answer, Outcomes
    <3>3. o = "broken" => call.tries = MaxRetries
      BY <2>1, <3>1, Constants DEF Answer, Repeat
    <3> QED BY <2>1, <3>2, <3>3
  <2>5. CASE \/ Wait \/ Send \/ Tick \/ FetchRobots
             \/ \E k \in {"chart", "metadata"} : Call(k)
             \/ \E o \in Outcomes \cup {"busy"} : TryAgain(o)
    <3>1. call \in Calls
      BY CallType DEF IInv, TypeInv
    <3> QED BY <2>5, <3>1, IdlePc DEF Wait, Send, Tick, FetchRobots, Call, TryAgain, Calls
  <2> QED BY <2>3, <2>4, <2>5 DEF Next, Step
<1>2. Spec => [][A]_vars
  BY <1>1, Invariance, PTL DEF Spec
<1> QED BY <1>2 DEF PageIsLastResort
=============================================================================
