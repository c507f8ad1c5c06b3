----------------------------- MODULE HttpClient -----------------------------
(***************************************************************************)
(* One HttpClient (ingestion/clients/base.py) under the two chart clients: *)
(* Spotify's asks an endpoint and falls back to a page, Podchaser's asks   *)
(* for a token, which it keeps, then its GraphQL endpoint, for a chart or  *)
(* for the metadata of a podcast, and falls back to a page for a chart.    *)
(* Each task makes a client of its own, so nothing else shares its         *)
(* throttle, its robots.txt or its token.  Time advances in ticks.         *)
(***************************************************************************)
EXTENDS Naturals, Sequences

CONSTANTS
  Interval,    \* ticks between requests to a host, 1 / rate
  MaxRetries,  \* attempts there are at most
  Backoff,     \* ticks waited after the first attempts; the last is the longest
  Timeout,     \* ticks after which a request is given up
  Margin,      \* ticks before its end that a token is no longer used
  Life         \* ticks a token is valid

\* The defaults are 1/2 s, 4 attempts, 1.5, 3 and 6 s, 20 s, 60 s and an hour.  A
\* token is valid longer than one request and one interval take: the server decides.
ASSUME HttpAssumption ==
  /\ {Interval, Timeout, Margin, Life} \subseteq Nat
  /\ MaxRetries \in Nat \ {0} /\ Backoff \in Seq(Nat) \ {<<>>}
  /\ Margin > Timeout + Interval /\ Life > Timeout + Interval

VARIABLES
  client,   \* which of the two it is; Podchaser's may have no keys
  call,     \* the call in progress: its kind, the request it is at, [pc, timer, tries]
  result,   \* what the last call ended in
  robots,   \* what is known of the robots.txt of each host
  pass,     \* ticks since the throttle of each host was passed, at most Interval
  trust,    \* ticks until _token_exp
  alive,    \* ticks for which the server still accepts the token
  quiet,    \* history: ticks since a request went to each host, at most Interval
  prev,     \* history: what the last of them was
  asked     \* history: the requests of the call in progress

vars == <<client, call, result, robots, pass, trust, alive, quiet, prev, asked>>
----------------------------------------------------------------------------
Hosts == {"api", "site"}
Requests == {"token", "query", "chart", "html"}
Host(r) == IF r \in {"token", "query"} THEN "api" ELSE "site"
Idle == [kind |-> "none", req |-> "none", pc |-> "idle", timer |-> 0, tries |-> 0]

\* Request r of a call of this kind is to be made.
Begun(k, r) == [kind |-> k, req |-> r, pc |-> "check", timer |-> 0, tries |-> 0]

\* Mutant: a token is used until its very end.
TokenUntilEnd == trust > 0

\* _access_token: the token is used until a minute before its end.
TokenKept == trust > Margin

\* Mutant: a GraphQL chart that fails is not looked for on the page.
AfterNoPage(k, r, o) ==
  IF o = "rows" THEN IF r = "token" THEN "query" ELSE "rows"
  ELSE IF o \in {"untitled", "unreadable"} THEN o
  ELSE IF o = "broken" THEN "raised" ELSE "nothing"

\* What a request ends as: rows, rows of which none has a title, rows with one that
\* cannot be converted, an answer without any, HttpError, or an exception of the
\* transport, which is no HttpError.
Outcomes == {"rows", "untitled", "unreadable", "none", "error", "broken"}

\* What a call ends as.  A chart is empty in "untitled" and "nothing", and the call
\* raises in "unreadable" and "raised".
Results == {"rows", "untitled", "unreadable", "nothing", "raised"}

\* Where a call goes when its request ended as o: another request or its result.
\* The rows of an answer are converted outside of every try, and those without a
\* title are left out: an answer with rows is the last one, whatever comes of them.
After(k, r, o) ==
  IF o = "rows" THEN IF r = "token" THEN "query" ELSE "rows"
  ELSE IF r # "token" /\ o \in {"untitled", "unreadable"} THEN o
  ELSE CASE r = "chart" -> IF o = "broken" THEN "raised" ELSE "html"
         [] r = "html" -> IF o = "broken" /\ client = "spotify" THEN "raised" ELSE "nothing"
         [] r \in {"token", "query"} ->
              IF k = "chart" THEN "html"
              ELSE IF o \in {"broken", "unreadable"} THEN "raised" ELSE "nothing"

\* The request in progress has ended as o.
Ends(o) ==
  LET next == After(call.kind, call.req, o) IN
    IF next \in Requests
    THEN call' = Begun(call.kind, next) /\ asked' = asked \cup {next} /\ UNCHANGED result
    ELSE call' = Idle /\ result' = next /\ UNCHANGED asked

Init ==
  /\ client \in {"spotify", "podchaser", "keyless"}
  /\ call = Idle /\ result = "nothing"
  /\ robots = [h \in Hosts |-> "unknown"]
  /\ pass = [h \in Hosts |-> Interval]
  /\ trust = 0 /\ alive = 0
  /\ quiet = [h \in Hosts |-> Interval] /\ prev = [h \in Hosts |-> "none"]
  /\ asked = {}

\* fetch_chart or podcast_metadata is called.
Call(k) ==
  /\ call = Idle
  /\ k = "metadata" => client = "podchaser"
  /\ LET r == CASE client = "spotify" -> "chart"
                [] client = "keyless" -> "html"
                [] client = "podchaser" -> IF TokenKept THEN "query" ELSE "token"
     IN call' = Begun(k, r) /\ asked' = {r}
  /\ UNCHANGED <<client, result, robots, pass, trust, alive, quiet, prev>>

\* _check_robots: the file is fetched once, without throttle or retry (its time
\* is left out); when it cannot be had, everything is allowed.
FetchRobots ==
  LET h == Host(call.req) IN
    /\ call.pc = "check" /\ robots[h] = "unknown"
    /\ \E a \in {"allowed", "forbidden"} : robots' = [robots EXCEPT ![h] = a]
    /\ quiet' = [quiet EXCEPT ![h] = 0] /\ prev' = [prev EXCEPT ![h] = "robots"]
    /\ UNCHANGED <<client, call, result, pass, trust, alive, asked>>

\* RobotsDisallowed is an HttpError.
Disallowed ==
  /\ call.pc = "check" /\ robots[Host(call.req)] = "forbidden"
  /\ Ends("error")
  /\ UNCHANGED <<client, robots, pass, trust, alive, quiet, prev>>

\* Mutant: the throttle does not know when it was passed.
WaitNothing ==
  /\ call.pc = "check" /\ robots[Host(call.req)] = "allowed"
  /\ call' = [call EXCEPT !.pc = "wait"]
  /\ UNCHANGED <<client, result, robots, pass, trust, alive, quiet, prev, asked>>

\* _HostThrottle.wait: the first attempt sleeps until the interval is over.
Wait ==
  /\ call.pc = "check" /\ robots[Host(call.req)] = "allowed"
  /\ call' = [call EXCEPT !.pc = "wait", !.timer = Interval - pass[Host(call.req)]]
  /\ UNCHANGED <<client, result, robots, pass, trust, alive, quiet, prev, asked>>

\* An attempt is sent; only the first has passed the throttle.
Send ==
  LET h == Host(call.req)
      first == call.pc = "wait"
  IN /\ call.pc \in {"wait", "pause"} /\ call.timer = 0
     /\ call' = [call EXCEPT !.pc = "sent", !.tries = @ + 1]
     /\ pass' = IF first THEN [pass EXCEPT ![h] = 0] ELSE pass
     /\ quiet' = [quiet EXCEPT ![h] = 0]
     /\ prev' = [prev EXCEPT ![h] = IF first THEN "first" ELSE "retry"]
     /\ UNCHANGED <<client, result, robots, trust, alive, asked>>

\* Mutant: one attempt too many.
RepeatOnceMore == call.tries <= MaxRetries

\* stop_after_attempt
Repeat == call.tries < MaxRetries

\* wait_exponential
Pause(n) == Backoff[IF n < Len(Backoff) THEN n ELSE Len(Backoff)]

\* 429, 5xx and errors of the transport are tried again after a pause.
TryAgain(o) ==
  /\ call.pc = "sent" /\ o \in {"busy", "broken"} /\ Repeat
  /\ call' = [call EXCEPT !.pc = "pause", !.timer = Pause(call.tries)]
  /\ UNCHANGED <<client, result, robots, pass, trust, alive, quiet, prev, asked>>

\* Any other answer, or the last attempt, ends the request.  A query with a token
\* that is over is refused; a new token was issued at some moment of the request.
Answer(o) ==
  /\ call.pc = "sent"
  /\ o \in {"busy", "broken"} => ~Repeat
  /\ o \in {"rows", "untitled", "unreadable", "none"} => ~(call.req = "query" /\ alive = 0)
  /\ o = "untitled" => call.kind = "chart" /\ call.req # "token"
  /\ Ends(IF o = "busy" THEN "error" ELSE o)
  /\ IF call.req = "token" /\ o = "rows"
     THEN trust' = Life /\ \E ago \in 0 .. call.timer : alive' = Life - ago
     ELSE UNCHANGED <<trust, alive>>
  /\ UNCHANGED <<client, robots, pass, quiet, prev>>

Less(n) == IF n > 0 THEN n - 1 ELSE 0
More(f) == [h \in Hosts |-> IF f[h] < Interval THEN f[h] + 1 ELSE Interval]

\* Time passes: at most Timeout while a request is out, as long as a sleep lasts.
Tick ==
  /\ \/ call.pc = "idle" /\ UNCHANGED call
     \/ call.pc \in {"wait", "pause"} /\ call.timer > 0 /\ call' = [call EXCEPT !.timer = @ - 1]
     \/ call.pc = "sent" /\ call.timer < Timeout /\ call' = [call EXCEPT !.timer = @ + 1]
  /\ pass' = More(pass) /\ quiet' = More(quiet)
  /\ trust' = Less(trust) /\ alive' = Less(alive)
  /\ UNCHANGED <<client, result, robots, prev, asked>>

Step ==
  \/ FetchRobots \/ Disallowed \/ Wait \/ Send
  \/ \E o \in Outcomes \cup {"busy"} : Answer(o) \/ TryAgain(o)

Next == (\E k \in {"chart", "metadata"} : Call(k)) \/ Step \/ Tick

Spec == Init /\ [][Next]_vars
----------------------------------------------------------------------------
\* Every variable holds a value of its type; no request is sent more often than
\* MAX_RETRIES, and the server drops a token no later than the client does.
TypeOK ==
  /\ client \in {"spotify", "podchaser", "keyless"}
  /\ call = Idle \/ call \in
       [kind : {"chart", "metadata"}, req : Requests, pc : {"check", "wait", "sent", "pause"},
        timer : Nat, tries : 0 .. MaxRetries]
  /\ result \in Results
  /\ robots \in [Hosts -> {"unknown", "allowed", "forbidden"}]
  /\ {pass, quiet} \subseteq [Hosts -> 0 .. Interval]
  /\ trust \in 0 .. Life /\ alive \in 0 .. trust
  /\ prev \in [Hosts -> {"none", "robots", "first", "retry"}]
  /\ asked \subseteq Requests

\* The host a request is sent to in this step.
SentNow == IF call.pc # "sent" /\ call'.pc = "sent" THEN {Host(call.req)} ELSE {}

\* Requests come faster than the rate only around retries and robots.txt, which do
\* not pass the throttle (base.py:8-9,58-63,155-165).
BurstsOnlyByRetries ==
  [][\A h \in SentNow : quiet[h] < Interval =>
        prev'[h] = "retry" \/ prev[h] \in {"retry", "robots"}]_vars

\* A query goes out with a token that is over only when it is repeated: the minute
\* that is kept in reserve covers the request for the token and the throttle, not
\* the retries (podchaser.py:105-140).
TokenLastsForFirstAttempt ==
  [][SentNow # {} /\ call.req = "query" => alive > 0 \/ call'.tries > 1]_vars

\* A chart for which no source had rows was asked for on the page too, and no failure
\* of a request ends a call of Podchaser's with an exception; Spotify's raises, without
\* having asked for the page, only after the last attempt broke off (spotify.py:45-71,
\* scrapers/podchaser.py:49-71).  Rows without titles, or with one that cannot be
\* converted, are another matter: the page is not asked for then, and the second
\* raises for either client (scrapers/podchaser.py:56-63, scrapers/spotify.py:66-69).
PageIsLastResort ==
  [][call # Idle /\ call' = Idle /\ call.kind = "chart" =>
       /\ result' = "nothing" => "html" \in asked
       /\ result' = "raised" => client = "spotify" /\ call.tries = MaxRetries]_vars
============================================================================
