-------------------------- MODULE ClientNegotiation --------------------------
(***************************************************************************)
(* One completion request of either client: how client.py adapts the       *)
(* parameters to what the API rejects, and what it makes of the reply.     *)
(* _call drops the temperature and renames the ceiling, _call_with_ceiling *)
(* starts over with a smaller one.  The API and its SDK are external: what *)
(* they support is chosen at the start, and of several reasons to reject a *)
(* request the API reports any.                                            *)
(***************************************************************************)
EXTENDS Naturals, FiniteSetsExt

CONSTANTS
  Fallbacks,  \* _CEILING_FALLBACKS
  Asked,      \* ceilings the stages ask for, _MAX_TOKENS
  Limits,     \* output limits models have
  StreamAbove \* ceilings above this one are streamed by AnthropicClient

ASSUME CeilingsAssumption ==
  /\ Fallbacks \subseteq Nat \ {0} /\ Fallbacks # {} /\ IsFiniteSet(Fallbacks)
  /\ Asked \subseteq Nat \ {0} /\ Limits \subseteq Nat \ {0}
  /\ StreamAbove \in Nat

(* detect_backend: whose key is in the environment.                        *)
Client == {"openai", "anthropic"}

(* What an API supports: its output limit, the name it has for the ceiling *)
(* and the one its ceiling rejections use, a temperature or none; and when *)
(* its SDK sends a streamed request, at the call or on entering the stream. *)
Name   == {"max_tokens", "max_completion_tokens"}
Api(c) == {a \in [limit : Limits, name : Name, says : Name,
                  temperature : BOOLEAN, lazy : BOOLEAN] :
             /\ a.name = "max_tokens" => a.says = "max_tokens"
             /\ c = "anthropic" => a.name = "max_tokens"
             /\ c = "openai" => ~a.lazy}

VARIABLES
  client, api,
  asked, warm,      \* the caller's ceiling, and whether it sends a temperature
  ceiling,          \* kwargs["max_tokens"] of _call_with_ceiling
  name, heated,     \* kwargs of _call: the ceiling's name, temperature present
  phase,            \* "send", "rejected", "replied" and the ends of complete
  why               \* what the last exception was about

request == <<client, api, asked, warm>>
vars    == <<request, ceiling, name, heated, phase, why>>

Init ==
  /\ client \in Client /\ api \in Api(client) /\ asked \in Asked /\ warm \in BOOLEAN
  /\ ceiling = asked /\ name = "max_tokens" /\ heated = warm
  /\ phase = "send" /\ why = "none"

(* The API's objections to the request.                                    *)
Objections ==
  (IF name # api.name THEN {"name"} ELSE {})
    \cup (IF heated /\ ~api.temperature THEN {"temperature"} ELSE {})
    \cup (IF name = api.name /\ ceiling > api.limit THEN {"ceiling"} ELSE {})

(* complete hands messages.stream to the negotiation; what that returns    *)
(* sends the request in the with statement, where nothing adapts it.       *)
Streamed == client = "anthropic" /\ asked > StreamAbove
Outside  == Streamed /\ api.lazy

Send ==
  /\ phase = "send"
  /\ \/ Objections = {} /\ phase' = "replied" /\ why' = "none"
     \/ ~Outside /\ phase' = "rejected" /\ why' \in Objections
     \/ Outside /\ phase' = "raised" /\ why' \in Objections
     \/ phase' = "raised" /\ why' = "failure"   \* connection, timeout, quota
  /\ UNCHANGED <<request, ceiling, name, heated>>

(* _call: "use max_completion_tokens instead".                             *)
Rename ==
  /\ phase = "rejected" /\ why = "name" /\ name = "max_tokens"
  /\ name' = "max_completion_tokens" /\ phase' = "send"
  /\ UNCHANGED <<request, ceiling, heated, why>>

(* _call: an optional parameter that is rejected is dropped.               *)
(* mutant: the call is repeated as it was. *)
DropTemperature_mutant ==
  /\ phase = "rejected" /\ why = "temperature" /\ heated
  /\ phase' = "send"
  /\ UNCHANGED <<request, ceiling, name, heated, why>>
DropTemperature ==
  /\ phase = "rejected" /\ why = "temperature" /\ heated
  /\ heated' = FALSE /\ phase' = "send"
  /\ UNCHANGED <<request, ceiling, name, why>>

Smaller == {c \in Fallbacks : c < ceiling}

(* mutant: straight to the smallest. *)
NextCeiling_mutant == Min(Smaller)
NextCeiling == Max(Smaller)

(* _call_with_ceiling looks for "max_tokens" in the message; it is no part *)
(* of "max_completion_tokens".                                             *)
(* mutant: it looks at the request instead. *)
ShrinkHelps_mutant == why = "ceiling" /\ name = "max_tokens" /\ Smaller # {}
ShrinkHelps == why = "ceiling" /\ api.says = "max_tokens" /\ Smaller # {}

(* _call_with_ceiling: start over from the caller's other parameters.      *)
Shrink ==
  /\ phase = "rejected" /\ ShrinkHelps
  /\ ceiling' = NextCeiling
  /\ name' = "max_tokens" /\ heated' = warm /\ phase' = "send"
  /\ UNCHANGED <<request, why>>

(* Nothing left to adapt: the exception reaches _ask.                      *)
GiveUp ==
  /\ phase = "rejected" /\ why = "ceiling" /\ ~ShrinkHelps
  /\ phase' = "raised"
  /\ UNCHANGED <<request, ceiling, name, heated, why>>

(* The end of complete: a reply that stopped at the ceiling is raised as   *)
(* TruncatedOutput, with its usage; the OpenAI client returns any other.   *)
ReadOpenAI ==
  /\ phase = "replied" /\ client = "openai"
  /\ phase' \in {"truncated", "answered"}
  /\ UNCHANGED <<request, ceiling, name, heated, why>>

(* The Claude client also raises a reply without any text, and a stream    *)
(* may break while it is read.                                             *)
ReadAnthropic ==
  /\ phase = "replied" /\ client = "anthropic"
  /\ \/ phase' \in {"truncated", "answered"} /\ UNCHANGED why
     \/ phase' = "raised" /\ why' = "empty"
     \/ Streamed /\ phase' = "raised" /\ why' = "failure"
  /\ UNCHANGED <<request, ceiling, name, heated>>

Ended == phase \in {"answered", "truncated", "raised"}
Next ==
  \/ Send \/ Rename \/ DropTemperature \/ Shrink \/ GiveUp
  \/ ReadOpenAI \/ ReadAnthropic

Spec     == Init /\ [][Next]_vars
FairSpec == Spec /\ WF_vars(Next)
-----------------------------------------------------------------------------
(* The ceiling is given up one fallback at a time: what is granted is the  *)
(* caller's if the model allows it and else the largest fallback allowed.  *)
LargestCeiling ==
  phase \in {"replied", "answered", "truncated"} =>
    ceiling <= api.limit
      /\ \A c \in Fallbacks \cup {asked} : c <= asked /\ c <= api.limit => c <= ceiling

(* Where the request is sent by the call that adapts it, the name of the   *)
(* ceiling and the temperature never fail it, and the ceiling only when    *)
(* the API's objection does not say max_tokens or its limit is below every *)
(* fallback left.  Streamed requests sent late are not covered.            *)
KnobsAreAdapted ==
  (phase = "raised" /\ why \in {"name", "temperature", "ceiling"} /\ ~Outside)
  => /\ why = "ceiling"
     /\ api.says = "max_tokens" => \A c \in Fallbacks : c < asked => c > api.limit

(* client.py:82 promises it of every request: "a ceiling is a safety       *)
(* limit, never a reason for a stage to fail", where a fallback would do.  *)
CeilingsNeverFail ==
  phase = "raised" /\ why = "ceiling" => \A c \in Fallbacks : c < asked => c > api.limit

(* The adaptation comes to an end: no parameter is adapted for ever.       *)
NegotiationEnds == <>Ended
=============================================================================
