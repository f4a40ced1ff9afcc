------------------------------- MODULE RateLimit -------------------------------
(***************************************************************************)
(* The rate limiter the agent added to demo/ (examples/llm-run-brownfield): *)
(* sliding windows of admitted requests, one per rule and client, and rules *)
(* that can be changed while requests are served.  Threads call it; each    *)
(* lock is held for one step, and the clock is read before the bucket's     *)
(* lock is taken.                                                          *)
(***************************************************************************)
EXTENDS Integers, Sequences, FiniteSets

CONSTANTS
  Thread,      \* requests that are served
  Addr,        \* addresses of clients and proxies
  Trusted,     \* TRUSTED_PROXIES; "*" stands for any
  Name,        \* names of rules
  Defaults,    \* the rules from the environment
  Requests,    \* what clients may send
  Second,      \* ticks of the clock in a second
  MaxTime      \* bound on the clock

None == "none"

Route == {"health", "metrics", "config", "shorten", "stats", "redirect", "other"}

(* A new limit may be a fraction, so it is sent in halves.                 *)
Request ==
  [route : Route, remote : Addr, forwarded : Addr \cup {None},
   name : Name, halves : Int, window : Int]

Rule == [limit : Int, window : Int]

ASSUME RulesAssumption ==
  {"shorten", "redirect", "admin"} \subseteq DOMAIN Defaults /\ Defaults \in [DOMAIN Defaults -> Rule]
ASSUME TrafficAssumption ==
  /\ Requests \subseteq Request /\ Requests # {} /\ DOMAIN Defaults \subseteq Name
  /\ Trusted \subseteq Addr \cup {"*"} /\ MaxTime \in Nat /\ Second \in Nat \ {0}
  /\ IsFiniteSet(Thread) /\ IsFiniteSet(Addr)

VARIABLES
  rules,       \* name -> rule
  bucket,      \* <<name, client>> -> times of admitted requests, oldest first
  counts,      \* <<name, allowed>> -> decisions
  now,
  req, pc,     \* per thread: its request, and where it is
  rule, stamp, \* the rule and the time it goes by
  verdict,     \* what the limiter told it, with the bucket as it then was (history)
  status,      \* of the response, 0 before
  retryAfter,  \* of a refusal's response: the Retry-After header, in seconds
  admitted,    \* history: every time that was ever in a bucket, in order
  ever         \* history: name -> the rules ever in force

limiter == <<rules, bucket, counts>>
local   == <<rule, stamp, verdict>>
reply   == <<status, retryAfter>>
history == <<admitted, ever>>
vars    == <<limiter, now, req, pc, local, reply, history>>

Keys == Name \X Addr
NoVerdict == [allowed |-> TRUE, reset |-> 0, times |-> <<>>]

Init ==
  /\ rules = Defaults
  /\ bucket = [k \in Keys |-> <<>>]
  /\ counts = [d \in Name \X BOOLEAN |-> 0]
  /\ now = 0
  /\ req = [t \in Thread |-> CHOOSE r \in Requests : TRUE]
  /\ pc = [t \in Thread |-> "idle"]
  /\ rule = [t \in Thread |-> None] /\ stamp = [t \in Thread |-> 0]
  /\ verdict = [t \in Thread |-> NoVerdict]
  /\ status = [t \in Thread |-> 0] /\ retryAfter = [t \in Thread |-> 0]
  /\ admitted = bucket
  /\ ever = [n \in DOMAIN Defaults |-> {Defaults[n]}]

Goto(t, where)  == pc' = [pc EXCEPT ![t] = where]
Respond(t, code) == Goto(t, "done") /\ status' = [status EXCEPT ![t] = code]

(* The rule that guards a route.                                           *)
RuleOf(route) ==
  CASE route \in {"metrics", "config"} -> "admin"
    [] route = "shorten" -> "shorten"
    [] route \in {"stats", "redirect"} -> "redirect"
    [] OTHER -> None

(* client_id: the first forwarded address, if the peer may forward.        *)
ClientOf(r) ==
  IF r.forwarded # None /\ Trusted \cap {"*", r.remote} # {} THEN r.forwarded ELSE r.remote

KeyOf(t) == <<RuleOf(req[t].route), ClientOf(req[t])>>
-----------------------------------------------------------------------------
(* A request comes in; the health check and unknown paths are not guarded. *)
Receive(t) ==
  /\ pc[t] = "idle"
  /\ \E r \in Requests :
       /\ req' = [req EXCEPT ![t] = r]
       /\ IF RuleOf(r.route) # None THEN Goto(t, "rule") /\ UNCHANGED status
          ELSE Respond(t, IF r.route = "health" THEN 200 ELSE 404)
  /\ UNCHANGED <<limiter, now, local, retryAfter, history>>

(* check: the rule is read under its own lock.                             *)
GetRule(t) ==
  /\ pc[t] = "rule" /\ Goto(t, "clock")
  /\ rule' = [rule EXCEPT ![t] = rules[RuleOf(req[t].route)]]
  /\ UNCHANGED <<limiter, now, req, stamp, verdict, reply, history>>

(* hit: the clock is read outside the bucket's lock.                       *)
ReadClock(t) ==
  /\ pc[t] = "clock" /\ Goto(t, "hit")
  /\ stamp' = [stamp EXCEPT ![t] = now]
  /\ UNCHANGED <<limiter, now, req, rule, verdict, reply, history>>

(* The times from the first one on that is later than the cutoff.          *)
(* mutant: the window is one too short. *)
Pruned_mutant(times, cutoff) == SelectSeq(times, LAMBDA s : s > cutoff + 1)
Pruned(times, cutoff) ==
  SubSeq(times,
         CHOOSE n \in 1 .. Len(times) + 1 :
           /\ n <= Len(times) => times[n] > cutoff
           /\ \A i \in 1 .. n - 1 : times[i] <= cutoff,
         Len(times))

(* mutant: the time until the newest request expires. *)
ResetAt_mutant(times, window, s) == s
ResetAt(times, window, s) == (IF times # <<>> THEN Head(times) ELSE s) + window

Hit(t) ==
  /\ pc[t] = "hit" /\ Goto(t, "record")
  /\ LET k       == KeyOf(t)
         kept    == Pruned(bucket[k], stamp[t] - rule[t].window)
         allowed == Len(kept) < rule[t].limit
         times   == IF allowed THEN Append(kept, stamp[t]) ELSE kept
     IN /\ bucket' = [bucket EXCEPT ![k] = times]
        /\ admitted' = [admitted EXCEPT ![k] = IF allowed THEN Append(@, stamp[t]) ELSE @]
        /\ verdict' = [verdict EXCEPT ![t] =
             [allowed |-> allowed, reset |-> ResetAt(times, rule[t].window, stamp[t]),
              times |-> times]]
  /\ UNCHANGED <<rules, counts, now, req, rule, stamp, reply, ever>>

(* round: to the nearest second, a half to the even one.                   *)
Rounded(ticks) ==
  LET whole == ticks \div Second
      rest  == 2 * (ticks % Second)
  IN  IF rest > Second \/ (rest = Second /\ whole % 2 = 1) THEN whole + 1 ELSE whole

(* What a refused client is told, by the clock of that moment.             *)
SecondsUntil(time) == LET s == Rounded(time - now) IN IF s > 0 THEN s ELSE 0

(* The decision is counted; then 429 is answered, with the seconds until    *)
(* the reset, or the handler runs (its own answer, whatever it is, stands   *)
(* as 200).                                                                *)
(* mutant: a refusal is counted as well as admitted. *)
Counted_mutant(t) ==
  [d \in DOMAIN counts |-> counts[d] + IF d[1] = RuleOf(req[t].route) THEN 1 ELSE 0]
Counted(t) == [counts EXCEPT ![<<RuleOf(req[t].route), verdict[t].allowed>>] = @ + 1]

Record(t) ==
  /\ pc[t] = "record"
  /\ counts' = Counted(t)
  /\ \/ /\ ~verdict[t].allowed
        /\ Respond(t, 429)
        /\ retryAfter' = [retryAfter EXCEPT ![t] = SecondsUntil(verdict[t].reset)]
     \/ /\ verdict[t].allowed /\ UNCHANGED retryAfter
        /\ IF req[t].route = "config" THEN Goto(t, "config") /\ UNCHANGED status
           ELSE Respond(t, 200)
  /\ UNCHANGED <<rules, bucket, now, req, local, history>>

(* set_rule: the new rule replaces an old one, or is the first of its name. *)
SetRule(name, new) ==
  /\ rules' = [n \in DOMAIN rules \cup {name} |-> IF n = name THEN new ELSE rules[n]]
  /\ ever' = [n \in DOMAIN rules' |->
                (IF n \in DOMAIN ever THEN ever[n] ELSE {}) \cup {rules'[n]}]

(* PUT /admin/config/rate-limits/<name>: positive numbers only; the limit   *)
(* is then cut to an integer.                                              *)
UpdateRule(t) ==
  /\ pc[t] = "config"
  /\ LET r   == req[t]
         new == [limit |-> r.halves \div 2, window |-> r.window]
     IN IF r.halves <= 0 \/ r.window <= 0
        THEN Respond(t, 400) /\ UNCHANGED <<rules, ever>>
        ELSE /\ SetRule(r.name, new)
             /\ Respond(t, 200)
  /\ UNCHANGED <<bucket, counts, now, req, local, retryAfter, admitted>>

Serve(t) ==
  \/ Receive(t) \/ GetRule(t) \/ ReadClock(t) \/ Hit(t) \/ Record(t) \/ UpdateRule(t)

Tick == now < MaxTime /\ now' = now + 1 /\ UNCHANGED <<limiter, req, pc, local, reply, history>>

Next == Tick \/ \E t \in Thread : Serve(t)
Spec == Init /\ [][Next]_vars
-----------------------------------------------------------------------------
(* "At most limit requests per window_seconds" (ratelimit.py:34), however   *)
(* late a thread comes to the lock and whatever rule it goes by: of the     *)
(* requests of a client, no more than the largest limit ever set are        *)
(* younger than the shortest window ever set.  A limit below zero, which    *)
(* the environment may set, admits as many as a limit of zero.             *)
Room(r) == IF r.limit > 0 THEN r.limit ELSE 0

Young(k, window) == {i \in DOMAIN admitted[k] : admitted[k][i] > now - window}

NeverOverBudget ==
  \A k \in Keys : k[1] \in DOMAIN ever =>
    \E most, least \in ever[k[1]] :
      /\ \A r \in ever[k[1]] : r.limit <= most.limit /\ least.window <= r.window
      /\ Cardinality(Young(k, least.window)) <= Room(most)

(* The header is rounded, so it may be half a second short, and even 0.  A  *)
(* client that was refused and stays away for the seconds it was told and   *)
(* half a second finds room in what then is left of the bucket it was       *)
(* refused over, unless others took it, by whatever clock reading it was    *)
(* refused and however late the answer was written.  Left out is a limit    *)
(* that was lowered: then more requests have to expire than the one the     *)
(* header is computed from.                                                *)
Refused(t) == status[t] # 429 /\ status'[t] = 429
BackAt(t)  == now + Second * retryAfter'[t] + Second \div 2

RetryAfterIsEnough ==
  [][\A t \in Thread :
       Refused(t) /\ rule[t].limit > 0
         /\ (\A r \in ever[RuleOf(req[t].route)] : r.limit <= rule[t].limit)
       => Len(Pruned(verdict[t].times, BackAt(t) - rule[t].window)) < rule[t].limit]_vars

(* The metrics are kept under a lock of their own and still add up: every   *)
(* admitted request is counted, or about to be, and the denied ones of a    *)
(* rule are those its clients were answered 429.                           *)
Admitting(n) ==
  {t \in Thread : pc[t] = "record" /\ RuleOf(req[t].route) = n /\ verdict[t].allowed}

Entries(n) ==
  {e \in Addr \X (1 .. Cardinality(Thread)) : e[2] \in DOMAIN admitted[<<n, e[1]>>]}

Denied(n) == {t \in Thread : status[t] = 429 /\ RuleOf(req[t].route) = n}

MetricsAddUp ==
  \A n \in Name :
    /\ counts[<<n, TRUE>>] + Cardinality(Admitting(n)) = Cardinality(Entries(n))
    /\ counts[<<n, FALSE>>] = Cardinality(Denied(n))
=============================================================================
