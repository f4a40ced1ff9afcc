------------------------ MODULE ClientNegotiation_proofs ------------------------
(***************************************************************************)
(* The adaptation of rejected parameters, for every list of fallbacks,      *)
(* every ceiling a stage asks for and every limit a model has.              *)
(***************************************************************************)
EXTENDS ClientNegotiation, WellFoundedInduction, TLAPS

Rejections == {"name", "temperature", "ceiling"}

(* The variables that matter to the ceiling keep their types.              *)
Types ==
  /\ client \in Client /\ api \in Api(client) /\ asked \in Asked
  /\ ceiling \in Fallbacks \cup {asked} /\ ceiling <= asked
  /\ phase \in {"send", "rejected", "replied", "answered", "truncated", "raised"}

(* What was given up on the way down is more than the model allows.        *)
PassedOver == \A c \in Fallbacks \cup {asked} : c <= asked /\ c > ceiling => c > api.limit

(* The API only grants what it allows, and refuses only what it does not.  *)
Granted == phase \in {"replied", "answered", "truncated"} => ceiling <= api.limit
Refused == phase = "rejected" /\ why = "ceiling" => ceiling > api.limit

(* Knobs fail a request at the end of the list only.                       *)
Exhausted ==
  phase = "raised" /\ why \in Rejections /\ ~Outside =>
    /\ why = "ceiling" /\ ceiling > api.limit
    /\ api.says = "max_tokens" => Smaller = {}

IInv == Types /\ PassedOver /\ Granted /\ Refused /\ Exhausted

(* A set of numbers below a bound has a largest one.                       *)
LEMMA LargestExists ==
  ASSUME NEW n \in Nat, NEW S \in SUBSET Nat, S # {}, \A x \in S : x < n
  PROVE  Max(S) \in S /\ \A x \in S : x <= Max(S)
<1> DEFINE T == {n - x : x \in S}
<1>1. T \subseteq Nat /\ T # {}
  <2>1. \A x \in S : n - x \in Nat
    OBVIOUS
  <2>2. PICK x \in S : TRUE
    OBVIOUS
  <2> QED
    BY <2>1, <2>2
<1>2. PICK d \in T : \A e \in T : ~(<<e, d>> \in OpToRel(<, Nat))
  BY <1>1, WFMin, NatLessThanWellFounded
<1>3. \A e \in T : ~(e < d)
  BY <1>1, <1>2 DEF OpToRel
<1>4. PICK m \in S : d = n - m
  BY <1>2
<1>5. \A x \in S : m >= x
  BY <1>3, <1>4
<1> QED
  BY <1>5 DEF Max

(* The next ceiling is a smaller fallback, and no fallback is skipped.     *)
LEMMA NextCeilingIsNext ==
  ASSUME Types, Smaller # {}
  PROVE  /\ NextCeiling \in Fallbacks /\ NextCeiling < ceiling
         /\ \A c \in Fallbacks : c < ceiling => c <= NextCeiling
<1>1. ceiling \in Nat
  BY CeilingsAssumption DEF Types
<1>2. Smaller \in SUBSET Nat /\ \A x \in Smaller : x < ceiling
  BY CeilingsAssumption DEF Smaller
<1>3. Max(Smaller) \in Smaller /\ \A x \in Smaller : x <= Max(Smaller)
  BY <1>1, <1>2, LargestExists
<1> QED
  BY <1>3 DEF NextCeiling, Smaller

(* What the invariant says holds when a request begins.                    *)
LEMMA InitEstablishes == Init => IInv
<1> SUFFICES ASSUME Init PROVE IInv
  OBVIOUS
<1>1. Types /\ PassedOver
  BY CeilingsAssumption DEF Init, Types, PassedOver
<1>2. Granted /\ Refused /\ Exhausted
  BY DEF Init, Granted, Refused, Exhausted
<1> QED
  BY <1>1, <1>2 DEF IInv

(* Every step keeps it: only Shrink lowers the ceiling, and only after the *)
(* API refused it.                                                         *)
LEMMA StepPreserves ==
  ASSUME IInv, [Next]_vars
  PROVE  IInv'
<1> USE DEF IInv
<1>0. ceiling \in Nat /\ api.limit \in Nat /\ asked \in Nat
  BY CeilingsAssumption DEF Types, Api
<1>1. ASSUME UNCHANGED <<request, ceiling>>, phase' \in
                {"send", "rejected", "replied", "answered", "truncated", "raised"}
      PROVE  Types' /\ PassedOver'
  BY <1>1 DEF Types, PassedOver, Api, request
<1>2. CASE Send
  <2>1. Types' /\ PassedOver'
    BY <1>1, <1>2 DEF Send
  <2>2. Granted'
    BY <1>0, <1>2 DEF Send, Granted, Objections, request
  <2>3. Refused'
    BY <1>0, <1>2 DEF Send, Refused, Objections, request
  <2>4. Exhausted'
    BY <1>2 DEF Send, Exhausted, Rejections, Outside, Streamed, request
  <2> QED
    BY <2>1, <2>2, <2>3, <2>4
<1>3. CASE Rename \/ DropTemperature
  <2>1. Types' /\ PassedOver'
    BY <1>1, <1>3 DEF Rename, DropTemperature
  <2> QED
    BY <1>3, <2>1 DEF Rename, DropTemperature, Granted, Refused, Exhausted
<1>4. CASE Shrink
  <2>1. ceiling > api.limit
    BY <1>4 DEF Shrink, ShrinkHelps, Refused
  <2>2. /\ NextCeiling \in Fallbacks /\ NextCeiling < ceiling
        /\ \A c \in Fallbacks : c < ceiling => c <= NextCeiling
    BY <1>4, NextCeilingIsNext DEF Shrink, ShrinkHelps
  <2>3. ceiling' = NextCeiling /\ UNCHANGED request /\ phase' = "send"
    BY <1>4 DEF Shrink
  <2>4. NextCeiling \in Nat
    BY <2>2, CeilingsAssumption
  <2>5. Types'
    BY <1>0, <2>2, <2>3, <2>4 DEF Types, Api, request
  <2>6. PassedOver'
    <3> SUFFICES ASSUME NEW c \in Fallbacks \cup {asked}, c <= asked, c > NextCeiling
                 PROVE  c > api.limit
      BY <2>3 DEF PassedOver, request
    <3>1. c \in Nat
      BY <1>0, CeilingsAssumption
    <3>2. CASE c > ceiling
      BY <3>2 DEF PassedOver
    <3>3. CASE c = ceiling
      BY <2>1, <3>3
    <3>4. CASE c < ceiling
      <4>1. c = asked
        BY <2>2, <2>4, <3>1, <3>4
      <4> QED
        BY <1>0, <3>4, <4>1 DEF Types
    <3> QED
      BY <1>0, <3>1, <3>2, <3>3, <3>4
  <2>7. Granted' /\ Refused' /\ Exhausted'
    BY <2>3 DEF Granted, Refused, Exhausted
  <2> QED
    BY <2>5, <2>6, <2>7
<1>5. CASE GiveUp
  <2>1. Types' /\ PassedOver'
    BY <1>1, <1>5 DEF GiveUp
  <2>2. Granted' /\ Refused'
    BY <1>5 DEF GiveUp, Granted, Refused
  <2>3. ceiling > api.limit /\ (api.says = "max_tokens" => Smaller = {})
    BY <1>5 DEF GiveUp, ShrinkHelps, Refused
  <2>4. UNCHANGED <<api, ceiling, why>> /\ why = "ceiling" /\ Smaller' = Smaller
    BY <1>5 DEF GiveUp, request, Smaller
  <2>5. Exhausted'
    BY <2>3, <2>4 DEF Exhausted
  <2> QED
    BY <2>1, <2>2, <2>5
<1>6. CASE ReadOpenAI \/ ReadAnthropic
  <2>1. Types' /\ PassedOver'
    BY <1>1, <1>6 DEF ReadOpenAI, ReadAnthropic
  <2>2. phase = "replied" /\ UNCHANGED <<api, ceiling>>
    BY <1>6 DEF ReadOpenAI, ReadAnthropic, request
  <2>3. phase' = "raised" => why' \notin Rejections
    BY <1>6 DEF ReadOpenAI, ReadAnthropic, Rejections
  <2>4. phase' # "rejected"
    BY <1>6 DEF ReadOpenAI, ReadAnthropic
  <2> QED
    BY <2>1, <2>2, <2>3, <2>4 DEF Granted, Refused, Exhausted
<1>7. CASE UNCHANGED vars
  <2>1. Types' /\ PassedOver'
    BY <1>1, <1>7 DEF vars, Types
  <2>2. Smaller' = Smaller /\ Outside' = Outside
    BY <1>7 DEF vars, request, Smaller, Outside, Streamed
  <2> QED
    BY <1>7, <2>1, <2>2 DEF vars, request, Granted, Refused, Exhausted
<1> QED
  BY <1>2, <1>3, <1>4, <1>5, <1>6, <1>7 DEF Next

(* Every request keeps the invariant to its end.                           *)
THEOREM Invariance == Spec => []IInv
<1>1. IInv /\ [Next]_vars => IInv'
  BY StepPreserves
<1> QED
  BY <1>1, InitEstablishes, PTL DEF Spec

(* Whatever the fallbacks, the ceiling asked for and the model's limit: a  *)
(* request is answered with the caller's ceiling if the model allows it    *)
(* and else with the largest fallback it allows.                           *)
THEOREM GrantsTheLargest == Spec => []LargestCeiling
<1>1. IInv => LargestCeiling
  <2> SUFFICES ASSUME IInv, phase \in {"replied", "answered", "truncated"}
               PROVE  /\ ceiling <= api.limit
                      /\ \A c \in Fallbacks \cup {asked} :
                           c <= asked /\ c <= api.limit => c <= ceiling
    BY DEF LargestCeiling
  <2>1. ceiling <= api.limit
    BY DEF IInv, Granted
  <2>2. ASSUME NEW c \in Fallbacks \cup {asked}, c <= asked, c <= api.limit
        PROVE  c <= ceiling
    <3>1. c \in Nat /\ ceiling \in Nat /\ api.limit \in Nat
      BY CeilingsAssumption DEF IInv, Types, Api
    <3>2. ~(c > ceiling)
      BY <2>2, <3>1 DEF IInv, PassedOver
    <3> QED
      BY <3>1, <3>2
  <2> QED
    BY <2>1, <2>2
<1> QED
  BY <1>1, Invariance, PTL

(* In whatever order the API objects: a request the adapting call sends    *)
(* never fails for the ceiling's name or a temperature, and for a ceiling  *)
(* the API calls max_tokens only when it allows none of the smaller ones.  *)
THEOREM KnobsNeverFail == Spec => []KnobsAreAdapted
<1>1. IInv => KnobsAreAdapted
  <2> SUFFICES ASSUME IInv, phase = "raised", why \in Rejections, ~Outside
               PROVE  /\ why = "ceiling"
                      /\ api.says = "max_tokens"
                           => \A c \in Fallbacks : c < asked => c > api.limit
    BY DEF KnobsAreAdapted, Rejections
  <2>1. why = "ceiling" /\ ceiling > api.limit
    BY DEF IInv, Exhausted
  <2>2. ASSUME api.says = "max_tokens", NEW c \in Fallbacks, c < asked
        PROVE  c > api.limit
    <3>1. Smaller = {}
      BY <2>2 DEF IInv, Exhausted
    <3>2. c \in Nat /\ ceiling \in Nat /\ api.limit \in Nat /\ asked \in Nat
      BY CeilingsAssumption DEF IInv, Types, Api
    <3>3. ~(c < ceiling)
      BY <3>1 DEF Smaller
    <3>4. CASE c > ceiling
      BY <2>2, <3>2, <3>4 DEF IInv, PassedOver
    <3> QED
      BY <2>1, <3>2, <3>3, <3>4
  <2> QED
    BY <2>1, <2>2
<1> QED
  BY <1>1, Invariance, PTL
=============================================================================
