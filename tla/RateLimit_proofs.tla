---------------------------- MODULE RateLimit_proofs ----------------------------
(***************************************************************************)
(* What the rate limiter guarantees for every set of rules, clients and    *)
(* threads, whatever rules are changed while requests are served.          *)
(***************************************************************************)
EXTENDS RateLimit, SequenceTheorems, FiniteSetTheorems, WellFoundedInduction, TLAPS

(* Every set of natural numbers has a least one. *)
LEMMA LeastNumber ==
  ASSUME NEW S, S \subseteq Nat, S # {}
  PROVE  \E n \in S : \A m \in S : n <= m
<1>1. PICK n \in S : \A m \in S : ~ (<<m, n>> \in OpToRel(<, Nat))
  BY WFMin, NatLessThanWellFounded
<1>2. ASSUME NEW m \in S PROVE n <= m
  <2>1. m \in Nat /\ n \in Nat
    OBVIOUS
  <2>2. ~ (m < n)
    BY <1>1, <2>1 DEF OpToRel
  <2> QED
    BY <2>1, <2>2
<1> QED
  BY <1>2

(* Pruning drops the times up to the first one within the window. *)
LEMMA Pruning ==
  ASSUME NEW times \in Seq(Int), NEW cutoff \in Int
  PROVE  \E n \in 0 .. Len(times) :
           /\ Pruned(times, cutoff) \in Seq(Int)
           /\ Len(Pruned(times, cutoff)) = Len(times) - n
           /\ \A i \in 1 .. Len(times) - n : Pruned(times, cutoff)[i] = times[i + n]
           /\ \A i \in 1 .. n : times[i] <= cutoff
           /\ n < Len(times) => times[n + 1] > cutoff
<1> DEFINE L == Len(times)
           Cut(n) == /\ n <= L => times[n] > cutoff
                     /\ \A i \in 1 .. n - 1 : times[i] <= cutoff
           Late == {n \in 1 .. L + 1 : n <= L => times[n] > cutoff}
<1>0. L \in Nat /\ \A i \in 1 .. L : times[i] \in Int
  OBVIOUS
<1>1. L + 1 \in Late /\ Late \subseteq Nat
  BY <1>0
<1>2. PICK n \in Late : \A m \in Late : n <= m
  BY <1>1, LeastNumber
<1>3. Cut(n)
  <2>1. ASSUME NEW i \in 1 .. n - 1 PROVE times[i] <= cutoff
    <3>1. i \notin Late /\ i \in 1 .. L
      BY <1>0, <1>2
    <3> QED
      BY <1>0, <3>1
  <2> QED
    BY <2>1
<1>4. PICK p \in 1 .. L + 1 : Cut(p) /\ Pruned(times, cutoff) = SubSeq(times, p, L)
  <2> DEFINE p == CHOOSE m \in 1 .. L + 1 : Cut(m)
  <2>1. p \in 1 .. L + 1 /\ Cut(p)
    BY <1>3
  <2>2. Pruned(times, cutoff) = SubSeq(times, p, L)
    BY DEF Pruned
  <2> QED
    BY <2>1, <2>2
<1>5. /\ SubSeq(times, p, L) \in Seq(Int)
      /\ Len(SubSeq(times, p, L)) = L - p + 1
      /\ \A i \in 1 .. L - p + 1 : SubSeq(times, p, L)[i] = times[p + i - 1]
  BY <1>0, <1>4, SubSeqProperties
<1> DEFINE gone == p - 1
<1>6. /\ gone \in 0 .. L /\ \A i \in 1 .. gone : times[i] <= cutoff
      /\ gone < L => times[gone + 1] > cutoff
  BY <1>0, <1>4
<1>7. p = gone + 1 /\ L - p + 1 = L - gone /\ \A i \in 1 .. L - gone : p + i - 1 = i + gone
  BY <1>0
<1> HIDE DEF gone
<1>8. /\ Len(SubSeq(times, p, L)) = L - gone
      /\ \A i \in 1 .. L - gone : SubSeq(times, p, L)[i] = times[i + gone]
  BY <1>5, <1>7
<1> QED
  BY <1>4, <1>5, <1>6, <1>8

(* Rounding is off by half a second at most, and a client is never told    *)
(* less than the rounded time.                                             *)
LEMMA Rounding ==
  ASSUME NEW time \in Int, now \in Int
  PROVE  SecondsUntil(time) \in Nat /\ now + Second * SecondsUntil(time) + Second \div 2 >= time
<1> DEFINE x == time - now
           q == x \div Second
           h == Second \div 2
           m == x % Second
<1>0. Second \in Nat /\ Second > 0
  BY TrafficAssumption
<1>1. x \in Int /\ q \in Int /\ m \in Int /\ m < Second /\ x = Second * q + m
  BY <1>0
<1>2. h \in Nat /\ 2 * h <= Second /\ Second <= 2 * h + 1
  BY <1>0
<1>3. Second * (q + 1) = Second * q + Second /\ Second * q \in Int
  BY <1>0, <1>1
<1>4. Rounded(x) \in Int /\ Second * Rounded(x) + h >= x
  <2>1. \/ Rounded(x) = q /\ 2 * m <= Second
        \/ Rounded(x) = q + 1
    BY <1>0, <1>1 DEF Rounded
  <2> HIDE DEF x, q, h, m
  <2>2. CASE Rounded(x) = q /\ 2 * m <= Second
    <3>1. m <= h
      BY <1>0, <1>1, <1>2, <2>2
    <3>2. Second * Rounded(x) = Second * q
      BY <2>2
    <3> QED
      BY <1>1, <1>2, <1>3, <2>2, <3>1, <3>2
  <2>3. CASE Rounded(x) = q + 1
    <3>1. Second * Rounded(x) = Second * q + Second
      BY <1>3, <2>3
    <3> QED
      BY <1>0, <1>1, <1>2, <1>3, <2>3, <3>1
  <2> QED
    BY <2>1, <2>2, <2>3
<1>5. CASE Rounded(x) > 0
  <2>1. SecondsUntil(time) = Rounded(x)
    BY <1>5 DEF SecondsUntil
  <2>2. Second * Rounded(x) \in Int
    BY <1>0, <1>4
  <2> HIDE DEF h
  <2> QED
    BY <1>2, <1>4, <1>5, <2>1, <2>2 DEF h
<1>6. CASE ~ (Rounded(x) > 0)
  <2>1. SecondsUntil(time) = 0
    BY <1>6 DEF SecondsUntil
  <2>2. Second * Rounded(x) <= 0
    BY <1>0, <1>4, <1>6
  <2>3. Second * Rounded(x) \in Int /\ Second * 0 = 0
    BY <1>0, <1>4
  <2> QED
    BY <1>1, <1>2, <1>4, <2>1, <2>2, <2>3
<1> QED
  BY <1>5, <1>6
-----------------------------------------------------------------------------
(***************************************************************************)
(* Types, and the rules a thread may go by.                                *)
(***************************************************************************)
(* The rules that guard a route. *)
Guarded == {"admin", "shorten", "redirect"}

(* Every variable has its type.                                            *)
TypeOK ==
  /\ bucket \in [Keys -> Seq(Int)] /\ admitted \in [Keys -> Seq(Int)]
  /\ counts \in [Name \X BOOLEAN -> Nat] /\ now \in Nat
  /\ req \in [Thread -> Requests]
  /\ pc \in [Thread -> {"idle", "rule", "clock", "hit", "record", "config", "done"}]
  /\ stamp \in [Thread -> Int] /\ rule = [t \in Thread |-> rule[t]]
  /\ status \in [Thread -> Nat] /\ retryAfter \in [Thread -> Nat]
  /\ \A t \in Thread : pc[t] # "done" => status[t] = 0
  /\ Guarded \subseteq DOMAIN rules /\ \A n \in DOMAIN rules : rules[n] \in Rule
  /\ \A t \in Thread : pc[t] \in {"clock", "hit", "record"} => rule[t] \in Rule
  /\ verdict \in [Thread -> [allowed : BOOLEAN, reset : Int, times : Seq(Int)]]
  /\ \A t \in Thread : pc[t] \in {"rule", "clock", "hit", "record"} => RuleOf(req[t].route) \in Guarded

(* A rule in force was set once, and so was the rule a thread goes by; of  *)
(* the rules of a name one has the largest limit and one the shortest      *)
(* window.                                                                 *)
RuleInv ==
  /\ DOMAIN ever = DOMAIN rules
  /\ \A n \in DOMAIN rules : rules[n] \in ever[n]
  /\ \A n \in DOMAIN ever :
       /\ ever[n] \subseteq Rule
       /\ \E most \in ever[n] : \A r \in ever[n] : r.limit <= most.limit
       /\ \E least \in ever[n] : \A r \in ever[n] : least.window <= r.window
  /\ \A t \in Thread : pc[t] \in {"clock", "hit"} =>
       rule[t] \in ever[RuleOf(req[t].route)]
  /\ \A t \in Thread : pc[t] = "hit" => stamp[t] <= now

(* A route is guarded by one of the three rules or by none. *)
LEMMA RuleOfType ==
  ASSUME NEW r \in Request
  PROVE  RuleOf(r.route) \in Guarded \cup {None}
BY DEF Request, Route, RuleOf, Guarded, None

(* A guarded request has a bucket. *)
LEMMA KeyType ==
  ASSUME TypeOK, NEW t \in Thread, RuleOf(req[t].route) \in Guarded
  PROVE  KeyOf(t) \in Keys /\ KeyOf(t)[1] = RuleOf(req[t].route)
<1>1. Guarded \subseteq Name
  BY RulesAssumption, TrafficAssumption DEF Guarded
<1>2. ClientOf(req[t]) \in Addr
  BY TrafficAssumption DEF TypeOK, Request, ClientOf
<1> QED
  BY <1>1, <1>2 DEF KeyOf, Keys

(* The limiter's variables keep their types; a thread is only past the     *)
(* gate on a guarded route.                                                *)
THEOREM TypeCorrect == Spec => []TypeOK
<1>1. Init => TypeOK
  <2> SUFFICES ASSUME Init PROVE TypeOK
    OBVIOUS
  <2>1. (CHOOSE r \in Requests : TRUE) \in Requests
    BY TrafficAssumption
  <2>2. <<>> \in Seq(Int)
    OBVIOUS
  <2> QED
    BY <2>1, <2>2, RulesAssumption DEF Init, TypeOK, NoVerdict, Guarded
<1>2. TypeOK /\ [Next]_vars => TypeOK'
  <2> SUFFICES ASSUME TypeOK, [Next]_vars PROVE TypeOK'
    OBVIOUS
  <2> USE DEF Goto, Respond, limiter, local, reply, history
  <2>1. ASSUME NEW t \in Thread, Receive(t) PROVE TypeOK'
    <3>1. PICK r \in Requests : /\ req' = [req EXCEPT ![t] = r]
                                /\ pc' = [pc EXCEPT ![t] = IF RuleOf(r.route) # None THEN "rule" ELSE "done"]
      BY <2>1 DEF Receive
    <3>2. RuleOf(r.route) \in Guarded \cup {None}
      BY RuleOfType, TrafficAssumption
    <3> QED
      BY <2>1, <3>1, <3>2 DEF Receive, TypeOK
  <2>2. ASSUME NEW t \in Thread, GetRule(t) PROVE TypeOK'
    <3>1. rules[RuleOf(req[t].route)] \in Rule
      BY <2>2 DEF GetRule, TypeOK
    <3> QED
      BY <2>2, <3>1 DEF GetRule, TypeOK
  <2>3. ASSUME NEW t \in Thread, ReadClock(t) PROVE TypeOK'
    BY <2>3 DEF ReadClock, TypeOK
  <2>4. ASSUME NEW t \in Thread, Hit(t) PROVE TypeOK'
    <3> DEFINE k     == KeyOf(t)
               kept  == Pruned(bucket[k], stamp[t] - rule[t].window)
               times == IF Len(kept) < rule[t].limit THEN Append(kept, stamp[t]) ELSE kept
    <3>1. k \in Keys /\ stamp[t] \in Int /\ rule[t].window \in Int
      BY <2>4, KeyType DEF Hit, TypeOK, Rule
    <3>2. kept \in Seq(Int)
      <4>1. bucket[k] \in Seq(Int) /\ stamp[t] - rule[t].window \in Int
        BY <3>1 DEF TypeOK
      <4> QED
        BY <4>1, Pruning
    <3>3. times \in Seq(Int) /\ ResetAt(times, rule[t].window, stamp[t]) \in Int
      BY <3>1, <3>2 DEF ResetAt
    <3>4. /\ bucket' = [bucket EXCEPT ![k] = times]
          /\ \/ admitted' = admitted
             \/ admitted' = [admitted EXCEPT ![k] = Append(@, stamp[t])]
          /\ verdict' = [verdict EXCEPT ![t] =
               [allowed |-> Len(kept) < rule[t].limit, reset |-> ResetAt(times, rule[t].window, stamp[t]),
                times |-> times]]
      <4>1. \/ admitted' = [admitted EXCEPT ![k] = admitted[k]]
            \/ admitted' = [admitted EXCEPT ![k] = Append(@, stamp[t])]
        BY <2>4 DEF Hit
      <4> QED
        BY <2>4, <3>1, <4>1 DEF Hit, TypeOK
    <3> HIDE DEF k, times
    <3>5. bucket' \in [Keys -> Seq(Int)] /\ admitted' \in [Keys -> Seq(Int)]
      <4>1. admitted[k] \in Seq(Int) /\ Append(admitted[k], stamp[t]) \in Seq(Int)
        BY <3>1 DEF TypeOK
      <4>2. bucket' \in [Keys -> Seq(Int)]
        BY <3>3, <3>4 DEF TypeOK
      <4>3. admitted' \in [Keys -> Seq(Int)]
        BY <3>4, <4>1 DEF TypeOK
      <4> QED
        BY <4>2, <4>3
    <3>6. verdict' \in [Thread -> [allowed : BOOLEAN, reset : Int, times : Seq(Int)]]
      BY <3>3, <3>4 DEF TypeOK
    <3> QED
      BY <2>4, <3>5, <3>6 DEF Hit, TypeOK
  <2>5. ASSUME NEW t \in Thread, Record(t) \/ UpdateRule(t) PROVE TypeOK'
    <3>1. CASE Record(t)
      <4>1. <<RuleOf(req[t].route), verdict[t].allowed>> \in Name \X BOOLEAN
        BY <3>1, RulesAssumption, TrafficAssumption DEF Record, TypeOK, Guarded
      <4>2. counts' \in [Name \X BOOLEAN -> Nat]
        BY <3>1, <4>1 DEF Record, Counted, TypeOK
      <4>3. retryAfter' \in [Thread -> Nat]
        <5>1. now \in Int /\ verdict[t].reset \in Int
          BY DEF TypeOK
        <5>2. SecondsUntil(verdict[t].reset) \in Nat
          BY <5>1, Rounding
        <5> QED
          BY <3>1, <5>2 DEF Record, TypeOK
      <4>4. /\ pc' \in [Thread -> {"idle", "rule", "clock", "hit", "record", "config", "done"}]
            /\ status' \in [Thread -> Nat]
            /\ pc'[t] \in {"config", "done"} /\ (pc'[t] # "done" => status' = status)
            /\ \A u \in Thread \ {t} : pc'[u] = pc[u] /\ status'[u] = status[u]
        <5>1. CASE pc' = [pc EXCEPT ![t] = "config"] /\ status' = status
          BY <5>1 DEF TypeOK
        <5>2. CASE /\ pc' = [pc EXCEPT ![t] = "done"]
                   /\ \E code \in {200, 429} : status' = [status EXCEPT ![t] = code]
          BY <5>2 DEF TypeOK
        <5> QED
          BY <3>1, <5>1, <5>2 DEF Record
      <4>5. UNCHANGED <<rules, bucket, now, req, rule, stamp, verdict, admitted>>
        BY <3>1 DEF Record
      <4>6. pc[t] = "record"
        BY <3>1 DEF Record
      <4> QED
        BY <4>2, <4>3, <4>4, <4>5, <4>6 DEF TypeOK
    <3>2. CASE UpdateRule(t)
      <4>1. [limit |-> req[t].halves \div 2, window |-> req[t].window] \in Rule
        BY TrafficAssumption DEF TypeOK, Request, Rule
      <4>2. /\ Guarded \subseteq DOMAIN rules'
            /\ \A n \in DOMAIN rules' : rules'[n] \in Rule
        <5>1. CASE rules' = rules
          BY <5>1 DEF TypeOK
        <5>2. CASE rules' # rules
          <6>1. SetRule(req[t].name, [limit |-> req[t].halves \div 2, window |-> req[t].window])
            BY <3>2, <5>2 DEF UpdateRule
          <6> QED
            BY <4>1, <6>1 DEF SetRule, TypeOK
        <5> QED
          BY <5>1, <5>2
      <4>3. /\ pc' \in [Thread -> {"idle", "rule", "clock", "hit", "record", "config", "done"}]
            /\ status' \in [Thread -> Nat] /\ pc'[t] = "done"
            /\ \A u \in Thread \ {t} : pc'[u] = pc[u] /\ status'[u] = status[u]
        <5>1. /\ pc' = [pc EXCEPT ![t] = "done"]
              /\ \E code \in {200, 400} : status' = [status EXCEPT ![t] = code]
          BY <3>2 DEF UpdateRule
        <5> QED
          BY <5>1 DEF TypeOK
      <4>4. UNCHANGED <<bucket, counts, now, req, rule, stamp, verdict, retryAfter, admitted>>
        BY <3>2 DEF UpdateRule
      <4> QED
        BY <4>2, <4>3, <4>4 DEF TypeOK
    <3> QED
      BY <2>5, <3>1, <3>2
  <2>6. CASE Tick \/ UNCHANGED vars
    BY <2>6 DEF Tick, vars, TypeOK
  <2> QED
    BY <2>1, <2>2, <2>3, <2>4, <2>5, <2>6 DEF Next, Serve
<1> QED
  BY <1>1, <1>2, PTL DEF Spec

(* Setting a rule keeps the extremes. *)
LEMMA SettingKeepsExtremes ==
  ASSUME RuleInv, NEW name, NEW new \in Rule, SetRule(name, new)
  PROVE  /\ DOMAIN ever' = DOMAIN rules' /\ DOMAIN ever \subseteq DOMAIN ever'
         /\ \A n \in DOMAIN rules' : rules'[n] \in ever'[n]
         /\ \A n \in DOMAIN ever : ever[n] \subseteq ever'[n]
         /\ \A n \in DOMAIN ever' :
              /\ ever'[n] \subseteq Rule
              /\ \E most \in ever'[n] : \A r \in ever'[n] : r.limit <= most.limit
              /\ \E least \in ever'[n] : \A r \in ever'[n] : least.window <= r.window
<1>1. /\ DOMAIN rules' = DOMAIN rules \cup {name} /\ DOMAIN ever' = DOMAIN rules'
      /\ rules'[name] = new /\ \A n \in DOMAIN rules \ {name} : rules'[n] = rules[n]
      /\ \A n \in DOMAIN ever : ever'[n] = ever[n] \cup {rules'[n]}
      /\ name \notin DOMAIN ever => ever'[name] = {new}
  BY DEF SetRule, RuleInv
<1>2. ASSUME NEW n \in DOMAIN ever \ {name} PROVE ever'[n] = ever[n]
  <2>1. rules'[n] \in ever[n]
    BY <1>1 DEF RuleInv
  <2> QED
    BY <1>1, <2>1
<1>3. ASSUME name \in DOMAIN ever
      PROVE  /\ ever'[name] \subseteq Rule
             /\ \E most \in ever'[name] : \A r \in ever'[name] : r.limit <= most.limit
             /\ \E least \in ever'[name] : \A r \in ever'[name] : least.window <= r.window
  <2>1. ever'[name] = ever[name] \cup {new} /\ ever[name] \subseteq Rule
    BY <1>1, <1>3 DEF RuleInv
  <2>2. PICK most \in ever[name] : \A r \in ever[name] : r.limit <= most.limit
    BY <1>3 DEF RuleInv
  <2>3. PICK least \in ever[name] : \A r \in ever[name] : least.window <= r.window
    BY <1>3 DEF RuleInv
  <2>4. \E m \in {most, new} : \A r \in ever'[name] : r.limit <= m.limit
    BY <2>1, <2>2 DEF Rule
  <2>5. \E m \in {least, new} : \A r \in ever'[name] : m.window <= r.window
    BY <2>1, <2>3 DEF Rule
  <2> QED
    BY <2>1, <2>4, <2>5
<1> QED
  BY <1>1, <1>2, <1>3 DEF RuleInv, Rule

(* The invariant of the rules. *)
LEMMA RulesHold == Spec => []RuleInv
<1>1. Init => RuleInv
  <2> SUFFICES ASSUME Init PROVE RuleInv
    OBVIOUS
  <2>1. \A n \in DOMAIN Defaults : Defaults[n] \in Rule
    BY RulesAssumption
  <2> QED
    BY <2>1 DEF Init, RuleInv, Rule
<1>2. TypeOK /\ RuleInv /\ [Next]_vars => RuleInv'
  <2> SUFFICES ASSUME TypeOK, RuleInv, [Next]_vars PROVE RuleInv'
    OBVIOUS
  <2> USE DEF Goto, Respond, limiter, local, reply, history
  <2>1. ASSUME NEW t \in Thread, Receive(t) PROVE RuleInv'
    <3>1. /\ \A u \in Thread : u # t => req'[u] = req[u] /\ pc'[u] = pc[u]
          /\ pc'[t] \in {"rule", "done"}
      BY <2>1 DEF Receive, TypeOK
    <3> QED
      BY <2>1, <3>1 DEF Receive, RuleInv
  <2>2. ASSUME NEW t \in Thread, GetRule(t) PROVE RuleInv'
    <3>1. rules[RuleOf(req[t].route)] \in ever[RuleOf(req[t].route)]
      BY <2>2 DEF GetRule, TypeOK, RuleInv
    <3> QED
      BY <2>2, <3>1 DEF GetRule, TypeOK, RuleInv
  <2>3. ASSUME NEW t \in Thread, ReadClock(t) PROVE RuleInv'
    BY <2>3 DEF ReadClock, TypeOK, RuleInv
  <2>4. ASSUME NEW t \in Thread, Hit(t) \/ Record(t) PROVE RuleInv'
    <3>1. /\ UNCHANGED <<rules, ever, now, req, rule, stamp>>
          /\ \A u \in Thread : pc'[u] = pc[u] \/ pc'[u] \notin {"clock", "hit"}
      BY <2>4 DEF Hit, Record, TypeOK
    <3> QED
      BY <3>1 DEF RuleInv
  <2>5. ASSUME NEW t \in Thread, UpdateRule(t) PROVE RuleInv'
    <3>1. /\ UNCHANGED <<now, req, rule, stamp>>
          /\ \A u \in Thread : pc'[u] = pc[u] \/ pc'[u] \notin {"clock", "hit"}
      BY <2>5 DEF UpdateRule, TypeOK
    <3>2. CASE UNCHANGED <<rules, ever>>
      BY <3>1, <3>2 DEF RuleInv
    <3>3. CASE ~ UNCHANGED <<rules, ever>>
      <4>1. [limit |-> req[t].halves \div 2, window |-> req[t].window] \in Rule
        BY TrafficAssumption DEF TypeOK, Request, Rule
      <4>2. SetRule(req[t].name, [limit |-> req[t].halves \div 2, window |-> req[t].window])
        BY <2>5, <3>3 DEF UpdateRule
      <4>3. \A u \in Thread : pc[u] \in {"clock", "hit"} => RuleOf(req[u].route) \in DOMAIN ever
        BY DEF TypeOK, RuleInv
      <4> QED
        BY <3>1, <4>1, <4>2, <4>3, SettingKeepsExtremes DEF RuleInv
    <3> QED
      BY <3>2, <3>3
  <2>6. CASE Tick
    BY <2>6 DEF Tick, TypeOK, RuleInv
  <2>7. CASE UNCHANGED vars
    BY <2>7 DEF vars, RuleInv
  <2> QED
    BY <2>1, <2>2, <2>3, <2>4, <2>5, <2>6, <2>7 DEF Next, Serve
<1> QED
  BY <1>1, <1>2, TypeCorrect, PTL DEF Spec
-----------------------------------------------------------------------------
(***************************************************************************)
(* The budget.                                                             *)
(***************************************************************************)
(* The admitted requests a bucket no longer holds. *)
Dropped(k) == Len(admitted[k]) - Len(bucket[k])

(* A bucket holds the latest of the admitted requests, no more than some   *)
(* limit once in force; those it dropped were out of some window then, and *)
(* are out of it since.                                                    *)
WindowInv ==
  \A k \in Keys :
    /\ Dropped(k) >= 0
    /\ \A i \in 1 .. Len(bucket[k]) : bucket[k][i] = admitted[k][i + Dropped(k)]
    /\ Len(bucket[k]) > 0 =>
         k[1] \in DOMAIN ever /\ \E r \in ever[k[1]] : Len(bucket[k]) <= r.limit
    /\ \A i \in 1 .. Dropped(k) :
         k[1] \in DOMAIN ever /\ \E r \in ever[k[1]] : admitted[k][i] <= now - r.window

(* A request drops the n oldest times of its bucket and is admitted or not *)
(* by the number of those it kept.                                         *)
Served(t, k, n, kept) ==
  /\ Len(kept) = Len(bucket[k]) - n
  /\ \A i \in 1 .. Len(kept) : kept[i] = bucket[k][i + n]
  /\ \A i \in 1 .. n : bucket[k][i] <= stamp[t] - rule[t].window
  /\ \/ /\ Len(kept) < rule[t].limit
        /\ bucket'[k] = Append(kept, stamp[t])
        /\ admitted'[k] = Append(admitted[k], stamp[t])
        /\ verdict'[t].allowed
     \/ /\ Len(kept) >= rule[t].limit
        /\ bucket'[k] = kept /\ admitted'[k] = admitted[k]
        /\ ~ verdict'[t].allowed
        /\ verdict'[t].reset = ResetAt(kept, rule[t].window, stamp[t])
        /\ verdict'[t].times = kept

(* What a shorter range holds, a longer one does. *)
LEMMA WithinALonger ==
  ASSUME NEW a \in Nat, NEW b \in Nat, NEW i \in 1 .. (a - b)
  PROVE  i \in 1 .. a
OBVIOUS

(* What a request does to its bucket. *)
LEMMA HitStep ==
  ASSUME TypeOK, RuleInv, NEW t \in Thread, Hit(t), NEW k, k = KeyOf(t)
  PROVE  /\ k \in Keys /\ k[1] = RuleOf(req[t].route) /\ rule[t] \in ever[k[1]]
         /\ rule[t] \in Rule /\ stamp[t] \in Int /\ stamp[t] <= now
         /\ \A other \in Keys \ {k} : bucket'[other] = bucket[other] /\ admitted'[other] = admitted[other]
         /\ bucket[k] \in Seq(Int) /\ admitted[k] \in Seq(Int)
         /\ \E n \in 0 .. Len(bucket[k]), kept \in Seq(Int) : Served(t, k, n, kept)
<1> DEFINE kept == Pruned(bucket[k], stamp[t] - rule[t].window)
<1>1. /\ k \in Keys /\ k[1] = RuleOf(req[t].route)
      /\ rule[t] \in Rule /\ stamp[t] \in Int /\ pc[t] = "hit"
  BY KeyType DEF Hit, TypeOK
<1>2. rule[t] \in ever[k[1]] /\ stamp[t] <= now
  BY <1>1 DEF RuleInv
<1>3. bucket[k] \in Seq(Int) /\ admitted[k] \in Seq(Int) /\ stamp[t] - rule[t].window \in Int
  BY <1>1 DEF TypeOK, Rule
<1>4. PICK n \in 0 .. Len(bucket[k]) :
        /\ kept \in Seq(Int) /\ Len(kept) = Len(bucket[k]) - n
        /\ \A i \in 1 .. Len(bucket[k]) - n : kept[i] = bucket[k][i + n]
        /\ \A i \in 1 .. n : bucket[k][i] <= stamp[t] - rule[t].window
  BY <1>3, Pruning
<1>5. \A other \in Keys \ {k} : bucket'[other] = bucket[other] /\ admitted'[other] = admitted[other]
  BY DEF Hit, TypeOK
<1>6. ASSUME Len(kept) < rule[t].limit
      PROVE  /\ bucket'[k] = Append(kept, stamp[t]) /\ admitted'[k] = Append(admitted[k], stamp[t])
             /\ verdict'[t].allowed
  BY <1>1, <1>6 DEF Hit, TypeOK
<1>7. ASSUME ~ (Len(kept) < rule[t].limit)
      PROVE  /\ Len(kept) >= rule[t].limit
             /\ bucket'[k] = kept /\ admitted'[k] = admitted[k]
             /\ ~ verdict'[t].allowed
             /\ verdict'[t].reset = ResetAt(kept, rule[t].window, stamp[t])
             /\ verdict'[t].times = kept
  <2>1. Len(kept) >= rule[t].limit
    BY <1>1, <1>4, <1>7 DEF Rule
  <2>2. bucket'[k] = kept /\ admitted'[k] = admitted[k]
    BY <1>1, <1>7 DEF Hit, TypeOK
  <2>3. /\ ~ verdict'[t].allowed /\ verdict'[t].reset = ResetAt(kept, rule[t].window, stamp[t])
        /\ verdict'[t].times = kept
    BY <1>1, <1>7 DEF Hit, TypeOK
  <2> QED
    BY <2>1, <2>2, <2>3
<1> HIDE DEF kept
<1>8. \A i \in 1 .. Len(kept) : kept[i] = bucket[k][i + n]
  BY <1>4
<1> QED
  <2>1. Served(t, k, n, kept)
    BY <1>4, <1>6, <1>7, <1>8 DEF Served
  <2> QED
    BY <1>1, <1>2, <1>3, <1>4, <1>5, <2>1

(* The invariant of the buckets: pruning hands the expired prefix over to   *)
(* the history, and a time once out of a window stays out of it.           *)
LEMMA WindowHolds == Spec => []WindowInv
<1>1. Init => WindowInv
  BY DEF Init, WindowInv, Dropped
<1>2. TypeOK /\ RuleInv /\ WindowInv /\ [Next]_vars => WindowInv'
  <2> SUFFICES ASSUME TypeOK, RuleInv, WindowInv, [Next]_vars PROVE WindowInv'
    OBVIOUS
  <2>0. /\ \A k \in Keys : bucket[k] \in Seq(Int) /\ admitted[k] \in Seq(Int)
        /\ \A n \in DOMAIN ever : ever[n] \subseteq Rule
        /\ now \in Nat
    BY DEF TypeOK, RuleInv
  <2>1. CASE /\ UNCHANGED <<bucket, admitted>> /\ now' >= now /\ now' \in Nat
             /\ \A n \in DOMAIN ever : n \in DOMAIN ever' /\ ever[n] \subseteq ever'[n]
    <3> SUFFICES ASSUME NEW k \in Keys
                 PROVE  /\ Dropped(k)' >= 0
                        /\ \A i \in 1 .. Len(bucket'[k]) : bucket'[k][i] = admitted'[k][i + Dropped(k)']
                        /\ Len(bucket'[k]) > 0 =>
                             k[1] \in DOMAIN ever' /\ \E r \in ever'[k[1]] : Len(bucket'[k]) <= r.limit
                        /\ \A i \in 1 .. Dropped(k)' :
                             k[1] \in DOMAIN ever' /\ \E r \in ever'[k[1]] : admitted'[k][i] <= now' - r.window
      BY DEF WindowInv
    <3>0. Dropped(k)' = Dropped(k) /\ bucket'[k] = bucket[k] /\ admitted'[k] = admitted[k]
      BY <2>1 DEF Dropped
    <3>1. /\ Len(bucket[k]) \in Nat /\ Len(admitted[k]) \in Nat
          /\ \A i \in 1 .. Len(admitted[k]) : admitted[k][i] \in Int
      BY <2>0
    <3>2. ASSUME NEW i \in 1 .. Dropped(k)
          PROVE  k[1] \in DOMAIN ever' /\ \E r \in ever'[k[1]] : admitted[k][i] <= now' - r.window
      <4>1. PICK r \in ever[k[1]] : admitted[k][i] <= now - r.window /\ k[1] \in DOMAIN ever
        BY DEF WindowInv
      <4>2. r.window \in Int /\ admitted[k][i] \in Int
        <5>1. i \in 1 .. Len(admitted[k])
          <6>1. i \in 1 .. (Len(admitted[k]) - Len(bucket[k]))
            BY DEF Dropped
          <6> QED
            BY <3>1, <6>1, WithinALonger
        <5> QED
          BY <2>0, <3>1, <4>1, <5>1 DEF Rule
      <4>3. admitted[k][i] <= now' - r.window
        BY <2>0, <2>1, <4>1, <4>2
      <4> QED
        BY <2>1, <4>1, <4>3
    <3> QED
      BY <2>1, <3>0, <3>2 DEF WindowInv
  <2>2. ASSUME NEW t \in Thread, Hit(t) PROVE WindowInv'
    <3> SUFFICES ASSUME NEW k, k = KeyOf(t) PROVE WindowInv'
      OBVIOUS
    <3>0. UNCHANGED <<ever, now>>
      BY <2>2 DEF Hit
    <3>1. /\ k \in Keys /\ rule[t] \in ever[k[1]] /\ k[1] \in DOMAIN ever
          /\ rule[t].window \in Int /\ rule[t].limit \in Int /\ stamp[t] \in Int /\ stamp[t] <= now
      <4>1. /\ k \in Keys /\ k[1] = RuleOf(req[t].route) /\ rule[t] \in ever[k[1]]
            /\ rule[t] \in Rule /\ stamp[t] \in Int /\ stamp[t] <= now
        BY <2>2, HitStep
      <4>2. k[1] \in DOMAIN ever
        BY <2>2, <4>1 DEF TypeOK, RuleInv, Hit
      <4> QED
        BY <4>1, <4>2 DEF Rule
    <3>2. /\ \A other \in Keys \ {k} : bucket'[other] = bucket[other] /\ admitted'[other] = admitted[other]
          /\ bucket[k] \in Seq(Int) /\ admitted[k] \in Seq(Int)
      BY <2>2, HitStep
    <3>3. PICK n \in 0 .. Len(bucket[k]), kept \in Seq(Int) : Served(t, k, n, kept)
      BY <2>2, HitStep
    <3> USE DEF Served
    <3> DEFINE a == Len(admitted[k])
               b == Len(bucket[k])
               c == Len(kept)
               d == a - b
    <3>4. /\ a = Len(admitted[k]) /\ b = Len(bucket[k]) /\ c = Len(kept) /\ d = Dropped(k)
          /\ d = a - b /\ a \in Int /\ b \in Int /\ c \in Int /\ d \in Int /\ b >= 0 /\ c >= 0
      BY <3>2, <3>3 DEF Dropped
    <3> HIDE DEF a, b, c, d
    <3>5. /\ a \in Nat /\ b \in Nat /\ c \in Nat /\ d \in Nat /\ n \in Nat
          /\ a = d + b /\ b = n + c
      <4>1. d >= 0
        BY <3>1, <3>4 DEF WindowInv
      <4>2. n \in 0 .. b /\ c = b - n
        BY <3>3, <3>4
      <4> QED
        BY <3>4, <4>1, <4>2
    <3>6. /\ \A i \in 1 .. b : bucket[k][i] = admitted[k][i + d] /\ bucket[k][i] \in Int
          /\ b > 0 => \E r \in ever[k[1]] : b <= r.limit
          /\ \A i \in 1 .. d : \E r \in ever[k[1]] : admitted[k][i] <= now - r.window
      <4>1. \A i \in 1 .. b : bucket[k][i] \in Int
        BY <3>2, <3>4
      <4>2. /\ \A i \in 1 .. b : bucket[k][i] = admitted[k][i + d]
            /\ b > 0 => \E r \in ever[k[1]] : b <= r.limit
            /\ \A i \in 1 .. d : \E r \in ever[k[1]] : admitted[k][i] <= now - r.window
        BY <3>1, <3>4 DEF WindowInv
      <4> QED
        BY <4>1, <4>2
    <3>7. ASSUME NEW i \in 1 .. d + n PROVE \E r \in ever[k[1]] : admitted[k][i] <= now - r.window
      <4>1. CASE i \in 1 .. d
        BY <3>6, <4>1
      <4>2. CASE i \notin 1 .. d
        <5>1. i - d \in 1 .. n /\ i - d \in 1 .. b /\ (i - d) + d = i
          BY <3>5, <4>2
        <5>2. bucket[k][i - d] = admitted[k][i] /\ bucket[k][i - d] \in Int
          BY <3>6, <5>1
        <5>3. bucket[k][i - d] <= stamp[t] - rule[t].window
          BY <3>3, <5>1
        <5>4. bucket[k][i - d] <= now - rule[t].window
          BY <2>0, <3>1, <5>2, <5>3
        <5> QED
          BY <3>1, <5>2, <5>4
      <4> QED
        BY <4>1, <4>2
    <3>8. ASSUME NEW i \in 1 .. c
          PROVE  i + (d + n) \in 1 .. a /\ kept[i] = admitted[k][i + (d + n)]
      <4>1. i + n \in 1 .. b /\ (i + n) + d = i + (d + n) /\ i + (d + n) \in 1 .. a
        BY <3>5
      <4>2. kept[i] = bucket[k][i + n]
        BY <3>3, <3>4
      <4> QED
        BY <3>6, <4>1, <4>2
    <3>9. /\ Dropped(k)' = d + n
          /\ \A i \in 1 .. Len(bucket'[k]) : bucket'[k][i] = admitted'[k][i + (d + n)]
          /\ Len(bucket'[k]) > 0 => \E r \in ever[k[1]] : Len(bucket'[k]) <= r.limit
          /\ \A i \in 1 .. d + n : admitted'[k][i] = admitted[k][i]
      <4>1. CASE /\ Len(kept) < rule[t].limit
                 /\ bucket'[k] = Append(kept, stamp[t])
                 /\ admitted'[k] = Append(admitted[k], stamp[t])
        <5>1. /\ Len(bucket'[k]) = c + 1 /\ Len(admitted'[k]) = a + 1
              /\ \A i \in 1 .. c : bucket'[k][i] = kept[i]
              /\ \A i \in 1 .. a : admitted'[k][i] = admitted[k][i]
              /\ bucket'[k][c + 1] = stamp[t] /\ admitted'[k][a + 1] = stamp[t]
          <6>1. /\ Len(bucket'[k]) = c + 1 /\ bucket'[k][c + 1] = stamp[t]
                /\ \A i \in 1 .. c : bucket'[k][i] = kept[i]
            BY <3>1, <3>3, <3>4, <4>1
          <6>2. /\ Len(admitted'[k]) = a + 1 /\ admitted'[k][a + 1] = stamp[t]
                /\ \A i \in 1 .. a : admitted'[k][i] = admitted[k][i]
            BY <3>1, <3>2, <3>4, <4>1
          <6> QED
            BY <6>1, <6>2
        <5>2. Dropped(k)' = (a + 1) - (c + 1)
          BY <5>1 DEF Dropped
        <5>3. (a + 1) - (c + 1) = d + n /\ (c + 1) + (d + n) = a + 1
          BY <3>5
        <5>4. ASSUME NEW i \in 1 .. Len(bucket'[k])
              PROVE  bucket'[k][i] = admitted'[k][i + (d + n)]
          <6>1. i \in 1 .. c \/ i = c + 1
            BY <3>5, <5>1
          <6> QED
            BY <3>8, <5>1, <5>3, <6>1
        <5>5. Len(bucket'[k]) <= rule[t].limit
          BY <3>1, <3>4, <3>5, <4>1, <5>1
        <5>6. \A i \in 1 .. d + n : i \in 1 .. a
          BY <3>5
        <5> QED
          BY <3>1, <5>1, <5>2, <5>3, <5>4, <5>5, <5>6
      <4>2. CASE bucket'[k] = kept /\ admitted'[k] = admitted[k]
        <5>0. Dropped(k)' = Len(admitted[k]) - Len(kept)
          BY <4>2 DEF Dropped
        <5>1. Dropped(k)' = a - c
          BY <5>0 DEF a, c
        <5>3. a - c = d + n
          BY <3>5
        <5>2. ASSUME c > 0 PROVE \E r \in ever[k[1]] : c <= r.limit
          <6>1. b > 0 /\ c <= b
            BY <3>5, <5>2
          <6>2. PICK r \in ever[k[1]] : b <= r.limit
            BY <3>6, <6>1
          <6>3. r.limit \in Int
            BY <2>0, <3>1 DEF Rule
          <6> QED
            BY <3>5, <6>1, <6>2, <6>3
        <5> QED
          BY <3>4, <3>8, <4>2, <5>1, <5>2, <5>3
      <4> QED
        BY <3>3, <4>1, <4>2
    <3>10. d + n >= 0
      BY <3>5
    <3> SUFFICES ASSUME NEW q \in Keys
                 PROVE  /\ Dropped(q)' >= 0
                        /\ \A i \in 1 .. Len(bucket'[q]) : bucket'[q][i] = admitted'[q][i + Dropped(q)']
                        /\ Len(bucket'[q]) > 0 =>
                             q[1] \in DOMAIN ever' /\ \E r \in ever'[q[1]] : Len(bucket'[q]) <= r.limit
                        /\ \A i \in 1 .. Dropped(q)' :
                             q[1] \in DOMAIN ever' /\ \E r \in ever'[q[1]] : admitted'[q][i] <= now' - r.window
      BY DEF WindowInv
    <3>11. CASE q = k
      BY <3>0, <3>1, <3>7, <3>9, <3>10, <3>11
    <3>12. CASE q # k
      <4>1. bucket'[q] = bucket[q] /\ admitted'[q] = admitted[q] /\ Dropped(q)' = Dropped(q)
        BY <3>2, <3>12 DEF Dropped
      <4> QED
        BY <3>0, <4>1 DEF WindowInv
    <3> QED
      BY <3>11, <3>12
  <2>3. ASSUME NEW t \in Thread, UpdateRule(t) PROVE WindowInv'
    <3>1. [limit |-> req[t].halves \div 2, window |-> req[t].window] \in Rule
      BY TrafficAssumption DEF TypeOK, Request, Rule
    <3>2. \/ UNCHANGED ever
          \/ SetRule(req[t].name, [limit |-> req[t].halves \div 2, window |-> req[t].window])
      BY <2>3 DEF UpdateRule
    <3>3. \A n \in DOMAIN ever : n \in DOMAIN ever' /\ ever[n] \subseteq ever'[n]
      BY <3>1, <3>2, SettingKeepsExtremes
    <3> QED
      BY <2>0, <2>1, <2>3, <3>3 DEF UpdateRule
  <2>4. ASSUME NEW t \in Thread, Receive(t) \/ GetRule(t) \/ ReadClock(t) \/ Record(t) PROVE WindowInv'
    BY <2>0, <2>1, <2>4 DEF Receive, GetRule, ReadClock, Record, limiter, history
  <2>5. CASE Tick \/ UNCHANGED vars
    BY <2>0, <2>1, <2>5 DEF Tick, vars, limiter, history
  <2> QED
    BY <2>2, <2>3, <2>4, <2>5 DEF Next, Serve
<1> QED
  BY <1>1, <1>2, TypeCorrect, RulesHold, PTL DEF Spec

(* However late threads come to the lock and whatever rules replace one    *)
(* another meanwhile, a client's requests of the shortest window are       *)
(* within the largest limit.                                               *)
THEOREM BudgetHolds == Spec => []NeverOverBudget
<1>1. TypeOK /\ RuleInv /\ WindowInv => NeverOverBudget
  <2> SUFFICES ASSUME TypeOK, RuleInv, WindowInv, NEW k \in Keys, k[1] \in DOMAIN ever
               PROVE  \E most, least \in ever[k[1]] :
                        /\ \A r \in ever[k[1]] : r.limit <= most.limit /\ least.window <= r.window
                        /\ Cardinality(Young(k, least.window)) <= Room(most)
    BY DEF NeverOverBudget
  <2>1. PICK most \in ever[k[1]] : \A r \in ever[k[1]] : r.limit <= most.limit
    BY DEF RuleInv
  <2>2. PICK least \in ever[k[1]] : \A r \in ever[k[1]] : least.window <= r.window
    BY DEF RuleInv
  <2>3. /\ ever[k[1]] \subseteq Rule /\ now \in Int
        /\ bucket[k] \in Seq(Int) /\ admitted[k] \in Seq(Int)
    BY DEF RuleInv, TypeOK
  <2> DEFINE a == Len(admitted[k])
             b == Len(bucket[k])
             d == a - b
  <2>4. /\ a = Len(admitted[k]) /\ b = Len(bucket[k]) /\ d = Dropped(k)
        /\ a \in Int /\ b \in Int /\ d \in Int
        /\ d = a - b /\ b >= 0 /\ a >= 0 /\ DOMAIN admitted[k] = 1 .. a
        /\ \A i \in 1 .. a : admitted[k][i] \in Int
    BY <2>3 DEF Dropped
  <2> HIDE DEF a, b, d
  <2>5. Young(k, least.window) \subseteq d + 1 .. a
    <3>1. ASSUME NEW i \in 1 .. a, i <= d PROVE admitted[k][i] <= now - least.window
      <4>0. i \in 1 .. Dropped(k)
        <5>1. i \in 1 .. d
          BY <2>4, <3>1
        <5> QED
          BY <2>4, <5>1
      <4>1. PICK r \in ever[k[1]] : admitted[k][i] <= now - r.window
        BY <4>0 DEF WindowInv
      <4>2. r.window \in Int /\ least.window \in Int /\ least.window <= r.window
        BY <2>2, <2>3, <4>1 DEF Rule
      <4> QED
        BY <2>3, <2>4, <4>1, <4>2
    <3>2. least.window \in Int
      BY <2>2, <2>3 DEF Rule
    <3>3. ASSUME NEW i \in 1 .. a, admitted[k][i] > now - least.window PROVE i \in d + 1 .. a
      <4>1. ~ (i <= d)
        BY <2>3, <2>4, <3>1, <3>2, <3>3
      <4> QED
        BY <2>4, <4>1
    <3> QED
      BY <2>4, <3>3 DEF Young
  <2>6. IsFiniteSet(d + 1 .. a) /\ Cardinality(d + 1 .. a) = b
    <3>1. d + 1 \in Int /\ a \in Int
      BY <2>4
    <3>2. /\ IsFiniteSet(d + 1 .. a)
          /\ Cardinality(d + 1 .. a) = IF d + 1 > a THEN 0 ELSE a - (d + 1) + 1
      BY <3>1, FS_Interval
    <3>3. (IF d + 1 > a THEN 0 ELSE a - (d + 1) + 1) = b
      <4>1. a \in Int /\ b \in Int /\ d \in Int /\ d = a - b /\ b >= 0
        BY <2>4
      <4> QED
        BY <4>1
    <3> QED
      BY <3>2, <3>3
  <2>7. Cardinality(Young(k, least.window)) <= b /\ Cardinality(Young(k, least.window)) \in Nat
    BY <2>5, <2>6, FS_Subset, FS_CardinalityType
  <2>8. b <= Room(most)
    <3>1. CASE b > 0
      <4>1. PICK r \in ever[k[1]] : b <= r.limit
        BY <2>4, <3>1 DEF WindowInv
      <4>2. r.limit <= most.limit /\ r.limit \in Int /\ most.limit \in Int
        BY <2>1, <2>3, <4>1 DEF Rule
      <4> QED
        BY <2>4, <3>1, <4>1, <4>2 DEF Room
    <3>2. CASE ~ (b > 0)
      <4>1. b = 0 /\ most.limit \in Int
        BY <2>1, <2>3, <2>4, <3>2 DEF Rule
      <4> QED
        BY <4>1 DEF Room
    <3> QED
      BY <3>1, <3>2
  <2>9. Room(most) \in Nat
    BY <2>1, <2>3 DEF Rule, Room
  <2>10. Cardinality(Young(k, least.window)) <= Room(most)
    BY <2>4, <2>7, <2>8, <2>9
  <2> QED
    BY <2>1, <2>2, <2>10
<1> QED
  BY <1>1, TypeCorrect, RulesHold, WindowHolds, PTL

(* What a refused thread answers with: the bucket it was refused over, no   *)
(* fuller than some limit once in force, and the time its oldest request    *)
(* expires.                                                                *)
RefusalInv ==
  \A t \in Thread :
    pc[t] = "record" /\ ~verdict[t].allowed /\ rule[t].limit > 0 =>
      /\ RuleOf(req[t].route) \in DOMAIN ever
      /\ \E r \in ever[RuleOf(req[t].route)] : Len(verdict[t].times) <= r.limit
      /\ verdict[t].times # <<>>
      /\ verdict[t].reset = Head(verdict[t].times) + rule[t].window

(* A refusal finds the bucket full. *)
LEMMA HitRefuses ==
  ASSUME TypeOK, RuleInv, WindowInv, NEW t \in Thread, Hit(t),
         ~verdict'[t].allowed, rule[t].limit > 0
  PROVE  /\ RuleOf(req[t].route) \in DOMAIN ever
         /\ \E r \in ever[RuleOf(req[t].route)] : Len(verdict'[t].times) <= r.limit
         /\ verdict'[t].times # <<>>
         /\ verdict'[t].reset = Head(verdict'[t].times) + rule[t].window
<1> SUFFICES ASSUME NEW k, k = KeyOf(t)
             PROVE  /\ RuleOf(req[t].route) \in DOMAIN ever
                    /\ \E r \in ever[RuleOf(req[t].route)] : Len(verdict'[t].times) <= r.limit
                    /\ verdict'[t].times # <<>>
                    /\ verdict'[t].reset = Head(verdict'[t].times) + rule[t].window
  OBVIOUS
<1>1. /\ k \in Keys /\ k[1] = RuleOf(req[t].route) /\ rule[t] \in Rule
      /\ bucket[k] \in Seq(Int)
  BY HitStep
<1>2. RuleOf(req[t].route) \in DOMAIN ever
  BY DEF Hit, TypeOK, RuleInv
<1>3. PICK n \in 0 .. Len(bucket[k]), kept \in Seq(Int) : Served(t, k, n, kept)
  BY HitStep
<1>4. /\ Len(kept) >= rule[t].limit /\ Len(kept) = Len(bucket[k]) - n
      /\ verdict'[t].reset = ResetAt(kept, rule[t].window, stamp[t])
      /\ verdict'[t].times = kept
  BY <1>3 DEF Served
<1>5. rule[t].limit \in Int /\ Len(kept) \in Nat /\ Len(bucket[k]) \in Nat
  BY <1>1, <1>3 DEF Rule
<1>6. Len(kept) > 0 /\ Len(kept) <= Len(bucket[k])
  BY <1>3, <1>4, <1>5
<1>7. kept # <<>>
  BY <1>6
<1>8. PICK r \in ever[k[1]] : Len(bucket[k]) <= r.limit
  BY <1>1, <1>5, <1>6 DEF WindowInv
<1>9. r.limit \in Int
  BY <1>1, <1>2, <1>8 DEF RuleInv, Rule
<1>10. Len(kept) <= r.limit
  BY <1>5, <1>6, <1>8, <1>9
<1> QED
  BY <1>1, <1>2, <1>4, <1>7, <1>8, <1>10 DEF ResetAt

(* The invariant of the refusals. *)
LEMMA RefusalHolds == Spec => []RefusalInv
<1>1. Init => RefusalInv
  BY DEF Init, RefusalInv
<1>2. TypeOK /\ RuleInv /\ WindowInv /\ RefusalInv /\ [Next]_vars => RefusalInv'
  <2> SUFFICES ASSUME TypeOK, RuleInv, WindowInv, RefusalInv, [Next]_vars PROVE RefusalInv'
    OBVIOUS
  <2> USE DEF Goto, Respond, limiter, local, reply, history
  <2>1. ASSUME NEW t \in Thread, Hit(t) PROVE RefusalInv'
    <3>1. /\ UNCHANGED <<rule, req, ever>>
          /\ \A u \in Thread \ {t} : pc'[u] = pc[u] /\ verdict'[u] = verdict[u]
      BY <2>1 DEF Hit, TypeOK
    <3>2. ASSUME ~verdict'[t].allowed, rule[t].limit > 0
          PROVE  /\ RuleOf(req[t].route) \in DOMAIN ever
                 /\ \E r \in ever[RuleOf(req[t].route)] : Len(verdict'[t].times) <= r.limit
                 /\ verdict'[t].times # <<>>
                 /\ verdict'[t].reset = Head(verdict'[t].times) + rule[t].window
      BY <2>1, <3>2, HitRefuses
    <3> QED
      BY <3>1, <3>2 DEF RefusalInv
  <2>2. ASSUME NEW t \in Thread, Receive(t) \/ GetRule(t) \/ ReadClock(t) \/ Record(t)
        PROVE  RefusalInv'
    <3>1. /\ UNCHANGED <<verdict, ever>> /\ pc'[t] # "record"
          /\ \A u \in Thread \ {t} : pc'[u] = pc[u] /\ req'[u] = req[u] /\ rule'[u] = rule[u]
      BY <2>2 DEF Receive, GetRule, ReadClock, Record, TypeOK
    <3> QED
      BY <3>1 DEF RefusalInv
  <2>3. ASSUME NEW t \in Thread, UpdateRule(t) PROVE RefusalInv'
    <3>1. /\ UNCHANGED <<verdict, req, rule>> /\ pc'[t] # "record"
          /\ \A u \in Thread \ {t} : pc'[u] = pc[u]
      BY <2>3 DEF UpdateRule, TypeOK
    <3>2. [limit |-> req[t].halves \div 2, window |-> req[t].window] \in Rule
      BY TrafficAssumption DEF TypeOK, Request, Rule
    <3>3. \/ UNCHANGED ever
          \/ SetRule(req[t].name, [limit |-> req[t].halves \div 2, window |-> req[t].window])
      BY <2>3 DEF UpdateRule
    <3>4. \A n \in DOMAIN ever : n \in DOMAIN ever' /\ ever[n] \subseteq ever'[n]
      BY <3>2, <3>3, SettingKeepsExtremes
    <3> QED
      BY <3>1, <3>4 DEF RefusalInv
  <2>4. CASE Tick \/ UNCHANGED vars
    BY <2>4 DEF Tick, vars, RefusalInv
  <2> QED
    BY <2>1, <2>2, <2>3, <2>4 DEF Next, Serve
<1> QED
  BY <1>1, <1>2, TypeCorrect, RulesHold, WindowHolds, PTL DEF Spec

(* A thread is answered 429 by the step that counts the refusal. *)
LEMMA OnlyRecordRefuses ==
  ASSUME TypeOK, [Next]_vars, NEW t \in Thread, Refused(t)
  PROVE  /\ pc[t] = "record" /\ ~verdict[t].allowed
         /\ retryAfter'[t] = SecondsUntil(verdict[t].reset)
<1> USE DEF TypeOK, Goto, Respond, Refused
<1>1. ~ Tick /\ ~ UNCHANGED vars
  BY DEF Tick, vars, reply
<1>2. ASSUME NEW u \in Thread, Serve(u) PROVE u = t
  BY <1>2 DEF Serve, Receive, GetRule, ReadClock, Hit, Record, UpdateRule, reply
<1>3. Serve(t)
  BY <1>1, <1>2 DEF Next
<1>4. Record(t)
  BY <1>3 DEF Serve, Receive, GetRule, ReadClock, Hit, UpdateRule, reply
<1> QED
  BY <1>4 DEF Record

(* For every second, clock, limit and window, and whatever the rounding     *)
(* takes away: half a second after the time it was told, a refused client   *)
(* finds the oldest request of the bucket expired, and the bucket held no   *)
(* more than the largest limit ever in force, which here is its rule's.     *)
THEOREM RetryAfterSuffices == Spec => RetryAfterIsEnough
<1> DEFINE Enough(t) ==
      Refused(t) /\ rule[t].limit > 0
        /\ (\A r \in ever[RuleOf(req[t].route)] : r.limit <= rule[t].limit)
      => Len(Pruned(verdict[t].times, BackAt(t) - rule[t].window)) < rule[t].limit
<1>1. TypeOK /\ RuleInv /\ RefusalInv /\ [Next]_vars => [\A t \in Thread : Enough(t)]_vars
  <2> SUFFICES ASSUME TypeOK, RuleInv, RefusalInv, [Next]_vars, NEW t \in Thread, Refused(t),
                      rule[t].limit > 0,
                      \A r \in ever[RuleOf(req[t].route)] : r.limit <= rule[t].limit
               PROVE  Len(Pruned(verdict[t].times, BackAt(t) - rule[t].window)) < rule[t].limit
    OBVIOUS
  <2> DEFINE times  == verdict[t].times
             cutoff == BackAt(t) - rule[t].window
  <2>1. /\ pc[t] = "record" /\ ~verdict[t].allowed
        /\ retryAfter'[t] = SecondsUntil(verdict[t].reset)
    BY OnlyRecordRefuses
  <2>2. /\ times \in Seq(Int) /\ verdict[t].reset \in Int /\ now \in Int
        /\ rule[t].limit \in Int /\ rule[t].window \in Int
    BY <2>1 DEF TypeOK, Rule
  <2>3. PICK r \in ever[RuleOf(req[t].route)] : Len(times) <= r.limit
    BY <2>1 DEF RefusalInv
  <2>4. /\ times # <<>> /\ verdict[t].reset = times[1] + rule[t].window
        /\ RuleOf(req[t].route) \in DOMAIN ever
    BY <2>1, <2>2 DEF RefusalInv
  <2>5. Len(times) <= rule[t].limit /\ Len(times) \in Nat /\ times[1] \in Int
    <3>1. r.limit \in Int /\ r.limit <= rule[t].limit
      BY <2>3, <2>4 DEF RuleInv, Rule
    <3> QED
      BY <2>2, <2>3, <2>4, <3>1
  <2>6. BackAt(t) \in Int /\ BackAt(t) >= verdict[t].reset
    <3>1. Second \in Nat \ {0} /\ SecondsUntil(verdict[t].reset) \in Nat
      BY <2>2, Rounding, TrafficAssumption
    <3>2. now + Second * SecondsUntil(verdict[t].reset) + Second \div 2 >= verdict[t].reset
      BY <2>2, Rounding
    <3>3. BackAt(t) = now + Second * SecondsUntil(verdict[t].reset) + Second \div 2
      BY <2>1 DEF BackAt
    <3>4. now + Second * SecondsUntil(verdict[t].reset) + Second \div 2 \in Int
      BY <2>2, <3>1
    <3> QED
      BY <3>2, <3>3, <3>4
  <2>7. cutoff \in Int /\ times[1] <= cutoff
    BY <2>2, <2>4, <2>5, <2>6
  <2> HIDE DEF times, cutoff
  <2>8. PICK n \in 0 .. Len(times) :
          /\ Len(Pruned(times, cutoff)) = Len(times) - n
          /\ n < Len(times) => times[n + 1] > cutoff
    BY <2>2, <2>7, Pruning DEF times
  <2>9. Len(times) > 0
    BY <2>2, <2>4 DEF times
  <2>10. n # 0
    BY <2>5, <2>7, <2>8, <2>9
  <2>11. Len(Pruned(times, cutoff)) < rule[t].limit
    BY <2>2, <2>5, <2>8, <2>10
  <2> QED
    BY <2>11 DEF times, cutoff
<1> QED
  BY <1>1, TypeCorrect, RulesHold, RefusalHolds, PTL DEF Spec, RetryAfterIsEnough
-----------------------------------------------------------------------------
(***************************************************************************)
(* The metrics.                                                            *)
(***************************************************************************)
(* The threads past the gate. *)
Past == {t \in Thread : pc[t] \in {"record", "config", "done"}}

(* A thread is admitted once: there are no more times in a bucket's        *)
(* history than threads past the gate.                                     *)
CountInv ==
  /\ \A k \in Keys : Len(admitted[k]) <= Cardinality(Past)
  /\ MetricsAddUp

(* The sets that are counted are finite. *)
LEMMA Counting ==
  ASSUME NEW n
  PROVE  /\ IsFiniteSet(Admitting(n)) /\ Cardinality(Admitting(n)) \in Nat
         /\ IsFiniteSet(Entries(n)) /\ Cardinality(Entries(n)) \in Nat
         /\ IsFiniteSet(Denied(n)) /\ Cardinality(Denied(n)) \in Nat
         /\ IsFiniteSet(Past) /\ Cardinality(Past) \in Nat /\ Cardinality(Past) <= Cardinality(Thread)
         /\ Cardinality(Thread) \in Nat
<1>1. IsFiniteSet(Thread) /\ IsFiniteSet(Addr) /\ Cardinality(Thread) \in Nat
  BY TrafficAssumption, FS_CardinalityType
<1>2. Admitting(n) \subseteq Thread /\ Denied(n) \subseteq Thread /\ Past \subseteq Thread
  BY DEF Admitting, Denied, Past
<1>3. IsFiniteSet(1 .. Cardinality(Thread))
  <2>1. 1 \in Int /\ Cardinality(Thread) \in Int
    BY <1>1
  <2> QED
    BY <2>1, FS_Interval
<1>4. IsFiniteSet(Addr \X (1 .. Cardinality(Thread)))
  BY <1>1, <1>3, FS_Product
<1>5. Entries(n) \subseteq Addr \X (1 .. Cardinality(Thread))
  BY DEF Entries
<1> QED
  BY <1>1, <1>2, <1>4, <1>5, FS_Subset, FS_CardinalityType

(* A step that admits nobody and counts nothing. *)
LEMMA NothingCounted ==
  ASSUME TypeOK, CountInv, UNCHANGED <<counts, admitted>>, [Next]_vars,
         \A n \in Name : Admitting(n)' = Admitting(n) /\ Denied(n)' = Denied(n), Past \subseteq Past'
  PROVE  CountInv'
<1>1. \A n : Entries(n)' = Entries(n)
  BY DEF Entries
<1>2. IsFiniteSet(Past') /\ Cardinality(Past') \in Nat /\ Cardinality(Past) \in Nat
  <2>1. Past' \subseteq Thread /\ Past \subseteq Thread
    BY DEF Past
  <2> QED
    BY <2>1, TrafficAssumption, FS_Subset, FS_CardinalityType
<1>3. Cardinality(Past) <= Cardinality(Past')
  BY <1>2, FS_Subset
<1>4. ASSUME NEW k \in Keys PROVE Len(admitted'[k]) <= Cardinality(Past')
  <2>1. Len(admitted[k]) \in Nat /\ Len(admitted[k]) <= Cardinality(Past)
    BY DEF TypeOK, CountInv
  <2> QED
    BY <1>2, <1>3, <2>1
<1>5. MetricsAddUp'
  BY <1>1 DEF CountInv, MetricsAddUp
<1> QED
  BY <1>4, <1>5 DEF CountInv

(* A request that is admitted is an entry more and a thread more to count. *)
LEMMA HitCounts ==
  ASSUME TypeOK, RuleInv, CountInv, NEW t \in Thread, Hit(t)
  PROVE  CountInv'
<1> SUFFICES ASSUME NEW k, k = KeyOf(t) PROVE CountInv'
  OBVIOUS
<1>1. /\ k \in Keys /\ k[1] = RuleOf(req[t].route)
      /\ \A other \in Keys \ {k} : admitted'[other] = admitted[other]
      /\ admitted[k] \in Seq(Int) /\ stamp[t] \in Int
  BY HitStep
<1>2. \/ verdict'[t].allowed /\ admitted'[k] = Append(admitted[k], stamp[t])
      \/ ~ verdict'[t].allowed /\ admitted'[k] = admitted[k]
  <2>1. PICK n \in 0 .. Len(bucket[k]), kept \in Seq(Int) : Served(t, k, n, kept)
    BY HitStep
  <2> QED
    BY <2>1 DEF Served
<1>3. /\ pc[t] = "hit" /\ pc'[t] = "record" /\ UNCHANGED <<counts, req>>
      /\ \A u \in Thread \ {t} : pc'[u] = pc[u] /\ verdict'[u] = verdict[u]
  BY DEF Hit, Goto, TypeOK
<1>0. \A n \in Name : counts'[<<n, FALSE>>] = Cardinality(Denied(n)')
  <2>1. UNCHANGED <<counts, status, req>>
    BY DEF Hit, reply
  <2>2. \A n : Denied(n)' = Denied(n)
    BY <2>1 DEF Denied
  <2> QED
    BY <2>1, <2>2 DEF CountInv, MetricsAddUp
<1>4. Past' = Past \cup {t} /\ t \notin Past
  BY <1>3 DEF Past
<1>5. /\ IsFiniteSet(Past) /\ Cardinality(Past) \in Nat /\ Cardinality(Past') = Cardinality(Past) + 1
      /\ Cardinality(Past') <= Cardinality(Thread) /\ Cardinality(Thread) \in Nat
  <2>1. IsFiniteSet(Past) /\ Cardinality(Past) \in Nat /\ Cardinality(Thread) \in Nat
    BY Counting
  <2>2. Cardinality(Past') = Cardinality(Past) + 1
    BY <1>4, <2>1, FS_AddElement
  <2>3. Past' \subseteq Thread
    BY DEF Past
  <2> QED
    BY <2>1, <2>2, <2>3, TrafficAssumption, FS_Subset
<1>6. \A q \in Keys : Len(admitted[q]) \in Nat /\ Len(admitted[q]) <= Cardinality(Past)
  BY DEF TypeOK, CountInv
<1>7. \A q \in Keys : Len(admitted'[q]) <= Cardinality(Past')
  <2>1. Len(admitted'[k]) <= Len(admitted[k]) + 1 /\ Len(admitted'[k]) \in Nat
    BY <1>1, <1>2
  <2>2. Len(admitted'[k]) <= Cardinality(Past')
    BY <1>1, <1>5, <1>6, <2>1
  <2>3. ASSUME NEW q \in Keys \ {k} PROVE Len(admitted'[q]) <= Cardinality(Past')
    BY <1>1, <1>5, <1>6
  <2> QED
    BY <2>2, <2>3
<1>8. ASSUME NEW n \in Name
      PROVE  counts'[<<n, TRUE>>] + Cardinality(Admitting(n)') = Cardinality(Entries(n)')
  <2>0. /\ counts'[<<n, TRUE>>] = counts[<<n, TRUE>>] /\ counts[<<n, TRUE>>] \in Nat
        /\ counts[<<n, TRUE>>] + Cardinality(Admitting(n)) = Cardinality(Entries(n))
    BY <1>3 DEF CountInv, MetricsAddUp, TypeOK
  <2>1. CASE n = k[1] /\ verdict'[t].allowed
    <3>1. Admitting(n)' = Admitting(n) \cup {t} /\ t \notin Admitting(n)
      BY <1>1, <1>3, <2>1 DEF Admitting
    <3> DEFINE new == <<k[2], Len(admitted[k]) + 1>>
    <3>2. /\ k = <<n, k[2]>> /\ k[2] \in Addr
          /\ \A a \in Addr : a # k[2] => <<n, a>> \in Keys \ {k}
      BY <1>1, <2>1 DEF Keys
    <3>3. /\ DOMAIN admitted[k] = 1 .. Len(admitted[k])
          /\ DOMAIN admitted'[k] = 1 .. Len(admitted[k]) + 1
      BY <1>1, <1>2, <2>1
    <3>4. Len(admitted[k]) + 1 \in 1 .. Cardinality(Thread)
      BY <1>1, <1>5, <1>6
    <3>5. Entries(n)' = Entries(n) \cup {new} /\ new \notin Entries(n)
      <4>1. ASSUME NEW a \in Addr, NEW i \in 1 .. Cardinality(Thread)
            PROVE  <<a, i>> \in Entries(n)' <=> <<a, i>> \in Entries(n) \/ <<a, i>> = new
        <5>1. CASE a = k[2]
          BY <1>6, <3>2, <3>3, <3>4, <5>1 DEF Entries
        <5>2. CASE a # k[2]
          BY <1>1, <3>2, <5>2 DEF Entries
        <5> QED
          BY <5>1, <5>2
      <4>2. new \in Addr \X (1 .. Cardinality(Thread))
        BY <3>2, <3>4
      <4>3. /\ Entries(n) \subseteq Addr \X (1 .. Cardinality(Thread))
            /\ Entries(n)' \subseteq Addr \X (1 .. Cardinality(Thread))
        BY DEF Entries
      <4>4. new \notin Entries(n)
        <5>1. Len(admitted[k]) + 1 \notin DOMAIN admitted[<<n, k[2]>>]
          BY <1>1, <1>6, <3>2, <3>3
        <5> QED
          BY <5>1 DEF Entries
      <4> QED
        BY <4>1, <4>2, <4>3, <4>4
    <3>6. /\ Cardinality(Admitting(n)') = Cardinality(Admitting(n)) + 1
          /\ Cardinality(Admitting(n)) \in Nat
      BY <3>1, Counting, FS_AddElement
    <3>7. /\ Cardinality(Entries(n)') = Cardinality(Entries(n)) + 1
          /\ Cardinality(Entries(n)) \in Nat
      BY <3>5, Counting, FS_AddElement
    <3> QED
      BY <2>0, <3>6, <3>7
  <2>2. CASE ~ (n = k[1] /\ verdict'[t].allowed)
    <3>1. Admitting(n)' = Admitting(n)
      BY <1>1, <1>3, <2>2 DEF Admitting
    <3>2. \A a \in Addr : DOMAIN admitted'[<<n, a>>] = DOMAIN admitted[<<n, a>>]
      <4>1. CASE ~ verdict'[t].allowed
        BY <1>1, <1>2, <4>1 DEF Keys
      <4>2. CASE n # k[1]
        BY <1>1, <4>2 DEF Keys
      <4> QED
        BY <2>2, <4>1, <4>2
    <3>3. Entries(n)' = Entries(n)
      BY <3>2 DEF Entries
    <3> QED
      BY <2>0, <3>1, <3>3
  <2> QED
    BY <2>1, <2>2
<1> QED
  BY <1>0, <1>7, <1>8 DEF CountInv, MetricsAddUp

(* The invariant of the metrics. *)
LEMMA CountHolds == Spec => []CountInv
<1>1. Init => CountInv
  <2> SUFFICES ASSUME Init PROVE CountInv
    OBVIOUS
  <2>1. \A n \in Name : Admitting(n) = {} /\ Entries(n) = {} /\ Denied(n) = {}
    BY DEF Init, Admitting, Entries, Denied, Keys
  <2>2. \A k \in Keys : Len(admitted[k]) = 0
    BY DEF Init
  <2>3. Cardinality(Past) \in Nat
    BY Counting
  <2>4. \A n \in Name : counts[<<n, TRUE>>] = 0 /\ counts[<<n, FALSE>>] = 0
    BY DEF Init
  <2> QED
    <3>1. MetricsAddUp
      <4>1. Cardinality({}) = 0
        BY FS_EmptySet
      <4>2. \A n \in Name : /\ Cardinality(Admitting(n)) = 0 /\ Cardinality(Entries(n)) = 0
                           /\ Cardinality(Denied(n)) = 0
        BY <2>1, <4>1
      <4> QED
        <5>1. ASSUME NEW n \in Name
              PROVE  counts[<<n, TRUE>>] + Cardinality(Admitting(n)) = Cardinality(Entries(n))
          <6>1. counts[<<n, TRUE>>] = 0
            BY <2>4
          <6>2. Cardinality(Admitting(n)) = 0 /\ Cardinality(Entries(n)) = 0
            BY <4>2
          <6> QED
            BY <6>1, <6>2
        <5> QED
          BY <2>4, <4>2, <5>1 DEF MetricsAddUp
    <3>2. \A k \in Keys : Len(admitted[k]) <= Cardinality(Past)
      BY <2>2, <2>3
    <3> QED
      BY <3>1, <3>2 DEF CountInv
<1>2. TypeOK /\ RuleInv /\ CountInv /\ [Next]_vars => CountInv'
  <2> SUFFICES ASSUME TypeOK, RuleInv, CountInv, [Next]_vars PROVE CountInv'
    OBVIOUS
  <2> USE DEF Goto, Respond
  <2>1. ASSUME NEW t \in Thread, Receive(t) \/ GetRule(t) \/ ReadClock(t) \/ UpdateRule(t)
        PROVE  CountInv'
    <3>1. UNCHANGED <<counts, admitted, verdict>>
      BY <2>1 DEF Receive, GetRule, ReadClock, UpdateRule, limiter, local, reply, history
    <3>0. ASSUME NEW n PROVE Denied(n)' = Denied(n)
      <4>1. status[t] # 429 /\ status'[t] # 429
        <5>1. pc[t] # "done"
          BY <2>1 DEF Receive, GetRule, ReadClock, UpdateRule
        <5>2. status'[t] \in {status[t], 200, 400, 404}
          BY <2>1 DEF Receive, GetRule, ReadClock, UpdateRule, reply, TypeOK
        <5> QED
          BY <5>1, <5>2 DEF TypeOK
      <4>2. \A u \in Thread \ {t} : status'[u] = status[u] /\ req'[u] = req[u]
        BY <2>1 DEF Receive, GetRule, ReadClock, UpdateRule, reply, TypeOK
      <4> QED
        BY <4>1, <4>2 DEF Denied
    <3>2. /\ \A u \in Thread \ {t} : pc'[u] = pc[u] /\ req'[u] = req[u]
          /\ pc[t] # "record" /\ pc'[t] # "record"
          /\ pc[t] \in {"record", "config", "done"} => pc'[t] = "done"
      BY <2>1 DEF Receive, GetRule, ReadClock, UpdateRule, TypeOK
    <3>3. \A n \in Name : Admitting(n)' = Admitting(n)
      BY <3>1, <3>2 DEF Admitting
    <3>4. Past \subseteq Past'
      BY <3>2 DEF Past
    <3> QED
      BY <3>0, <3>1, <3>3, <3>4, NothingCounted
  <2>2. ASSUME NEW t \in Thread, Hit(t) PROVE CountInv'
    BY <2>2, HitCounts
  <2>3. ASSUME NEW t \in Thread, Record(t) PROVE CountInv'
    <3> DEFINE m == RuleOf(req[t].route)
               d == <<m, verdict[t].allowed>>
    <3>1. /\ counts' = [counts EXCEPT ![d] = @ + 1] /\ d \in Name \X BOOLEAN
          /\ UNCHANGED <<admitted, req, verdict>>
          /\ pc[t] = "record" /\ pc'[t] \in {"config", "done"}
          /\ \A u \in Thread \ {t} : pc'[u] = pc[u]
      <4>1. m \in Name /\ verdict[t].allowed \in BOOLEAN
        BY <2>3, RulesAssumption, TrafficAssumption DEF Record, TypeOK, Guarded
      <4>2. /\ counts' = [counts EXCEPT ![d] = @ + 1] /\ UNCHANGED <<admitted, req, verdict>>
        BY <2>3 DEF Record, Counted, local, reply, history
      <4>3. /\ pc[t] = "record" /\ pc'[t] \in {"config", "done"}
            /\ \A u \in Thread \ {t} : pc'[u] = pc[u]
        BY <2>3 DEF Record, TypeOK
      <4> QED
        BY <4>1, <4>2, <4>3
    <3>2. Past' = Past
      BY <3>1 DEF Past
    <3>3. ASSUME NEW n \in Name
          PROVE  counts'[<<n, TRUE>>] + Cardinality(Admitting(n)') = Cardinality(Entries(n)')
      <4>1. Entries(n)' = Entries(n)
        BY <3>1 DEF Entries
      <4>2. /\ counts[<<n, TRUE>>] + Cardinality(Admitting(n)) = Cardinality(Entries(n))
            /\ counts[<<n, TRUE>>] \in Nat
        BY DEF CountInv, MetricsAddUp, TypeOK
      <4>3. IsFiniteSet(Admitting(n)) /\ Cardinality(Admitting(n)) \in Nat
            /\ Cardinality(Entries(n)) \in Nat
        BY Counting
      <4>4. CASE n = m /\ verdict[t].allowed
        <5>1. t \in Admitting(n) /\ Admitting(n)' = Admitting(n) \ {t}
          BY <3>1, <4>4 DEF Admitting
        <5>2. Cardinality(Admitting(n)') = Cardinality(Admitting(n)) - 1
          BY <4>3, <5>1, FS_RemoveElement
        <5>3. verdict[t].allowed = TRUE
          BY <4>4 DEF TypeOK
        <5>4. counts'[<<n, TRUE>>] = counts[<<n, TRUE>>] + 1
          BY <3>1, <4>4, <5>3 DEF TypeOK
        <5> QED
          BY <4>1, <4>2, <4>3, <5>2, <5>4
      <4>5. CASE ~ (n = m /\ verdict[t].allowed)
        <5>1. Admitting(n)' = Admitting(n)
          BY <3>1, <4>5 DEF Admitting
        <5>2. d # <<n, TRUE>>
          BY <4>5
        <5>3. counts'[<<n, TRUE>>] = counts[<<n, TRUE>>]
          BY <3>1, <5>2 DEF TypeOK
        <5> QED
          BY <4>1, <4>2, <5>1, <5>3
      <4> QED
        BY <4>4, <4>5
    <3>4. ASSUME NEW n \in Name PROVE counts'[<<n, FALSE>>] = Cardinality(Denied(n)')
      <4>0. /\ status[t] # 429 /\ \A u \in Thread \ {t} : status'[u] = status[u]
            /\ ~verdict[t].allowed => status'[t] = 429
            /\ verdict[t].allowed => status'[t] # 429
        <5>1. status[t] = 0
          BY <3>1 DEF TypeOK
        <5>2. \/ ~verdict[t].allowed /\ status' = [status EXCEPT ![t] = 429]
              \/ verdict[t].allowed /\ status' = [status EXCEPT ![t] = 200]
              \/ verdict[t].allowed /\ status' = status
          BY <2>3 DEF Record
        <5> QED
          BY <5>1, <5>2 DEF TypeOK
      <4>1. /\ counts[<<n, FALSE>>] = Cardinality(Denied(n)) /\ counts[<<n, FALSE>>] \in Nat
            /\ IsFiniteSet(Denied(n))
        BY Counting DEF CountInv, MetricsAddUp, TypeOK
      <4>2. CASE n = m /\ ~verdict[t].allowed
        <5>1. t \notin Denied(n) /\ Denied(n)' = Denied(n) \cup {t}
          BY <3>1, <4>0, <4>2 DEF Denied
        <5>2. Cardinality(Denied(n)') = Cardinality(Denied(n)) + 1
          BY <4>1, <5>1, FS_AddElement
        <5>3. verdict[t].allowed = FALSE
          BY <4>2 DEF TypeOK
        <5>4. counts'[<<n, FALSE>>] = counts[<<n, FALSE>>] + 1
          BY <3>1, <4>2, <5>3 DEF TypeOK
        <5> QED
          BY <4>1, <5>2, <5>4
      <4>3. CASE ~ (n = m /\ ~verdict[t].allowed)
        <5>1. Denied(n)' = Denied(n)
          BY <3>1, <4>0, <4>3 DEF Denied
        <5>2. d # <<n, FALSE>>
          BY <4>3
        <5>3. counts'[<<n, FALSE>>] = counts[<<n, FALSE>>]
          BY <3>1, <5>2 DEF TypeOK
        <5> QED
          BY <4>1, <5>1, <5>3
      <4> QED
        BY <4>2, <4>3
    <3> QED
      BY <3>1, <3>2, <3>3, <3>4 DEF CountInv, MetricsAddUp
  <2>4. CASE Tick \/ UNCHANGED vars
    <3>1. UNCHANGED <<counts, admitted, pc, req, verdict, status>>
      BY <2>4 DEF Tick, vars, limiter, local, reply, history
    <3>2. /\ \A n \in Name : Admitting(n)' = Admitting(n) /\ Denied(n)' = Denied(n)
          /\ Past' = Past
      BY <3>1 DEF Admitting, Denied, Past
    <3> QED
      BY <3>1, <3>2, NothingCounted
  <2> QED
    BY <2>1, <2>2, <2>3, <2>4 DEF Next, Serve
<1> QED
  BY <1>1, <1>2, TypeCorrect, RulesHold, PTL DEF Spec

(* Every admission and every refusal is counted once, though under another *)
(* lock than the one it was decided under.                                 *)
THEOREM MetricsAlwaysAddUp == Spec => []MetricsAddUp
<1>1. CountInv => MetricsAddUp
  BY DEF CountInv
<1> QED
  BY <1>1, CountHolds, PTL
=============================================================================
