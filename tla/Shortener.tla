------------------------------ MODULE Shortener ------------------------------
(***************************************************************************)
(* The URL shortener the project ships in demo/, the output of the         *)
(* deterministic engine: ShortenerService over one of its two stores,      *)
(* behind the WSGI routes.  The standard library's server handles one      *)
(* request after the other, so a request is a step; the process may be     *)
(* restarted between two of them, and die inside one between two commits.  *)
(***************************************************************************)
EXTENDS Naturals

CONSTANTS
  Url, Code,
  Alias,       \* custom aliases callers ask for, well formed, some already codes
  AutoCode,    \* id -> base62.encode(id + CODE_OFFSET)
  Ttls,        \* lifetimes callers ask for, {} for none
  MaxIds, MaxTime, MaxClicks  \* bounds on ids, on the clock and on clicks per code

ASSUME CodesAssumption ==
  /\ MaxIds \in Nat /\ MaxTime \in Nat /\ MaxClicks \in Nat
  /\ Alias \subseteq Code
  /\ AutoCode \in [1 .. MaxIds -> Code]
  /\ \A i, j \in 1 .. MaxIds : AutoCode[i] = AutoCode[j] => i = j
  /\ Ttls \subseteq SUBSET Nat

VARIABLES
  durable, \* SqliteStore rather than InMemoryStore
  links,   \* LinkRecords
  byUrl,   \* InMemoryStore._by_url, as <<url, code>> pairs; kept beside SqliteStore
           \* for comparison only
  clicks,  \* per code: clicks recorded
  ids,     \* ids handed out
  now,
  reply    \* the last response: its status, 0 before the first, and whether the
           \* request was well formed

vars == <<durable, links, byUrl, clicks, ids, now, reply>>

Link == [code : Code, url : Url, created : Nat, expires : SUBSET Nat]

Init ==
  /\ durable \in BOOLEAN
  /\ links = {} /\ byUrl = {} /\ clicks = [c \in Code |-> 0]
  /\ ids = 0 /\ now = 0
  /\ reply = [status |-> 0, wellFormed |-> TRUE]

Respond(status) == reply' = [status |-> status, wellFormed |-> TRUE]
-----------------------------------------------------------------------------
(***************************************************************************)
(* The stores.                                                             *)
(***************************************************************************)
Get(c)     == {l \in links : l.code = c}
Expired(l) == \E t \in l.expires : now >= t

(* The oldest links of a URL: what find_by_url of SqliteStore picks from.  *)
Oldest(u) == {l \in links : /\ l.url = u
                            /\ \A k \in links : k.url = u => l.created <= k.created}

(* find_by_url, as the links it may return.                                *)
FindByUrl(u) ==
  IF durable THEN Oldest(u) ELSE {l \in links : <<u, l.code>> \in byUrl}

(* setdefault: the first link of a URL stays in the index.                 *)
(* mutant: the last one does. *)
Index_mutant(l) == byUrl' = {p \in byUrl : p[1] # l.url} \cup {<<l.url, l.code>>}
Index(l) ==
  byUrl' = byUrl \cup (IF \E p \in byUrl : p[1] = l.url THEN {} ELSE {<<l.url, l.code>>})

Record(c, u, ttl) ==
  [code |-> c, url |-> u, created |-> now, expires |-> {now + t : t \in ttl}]

(* next_id, committed at once.                                             *)
(* mutant: the counter is not stored. *)
NextId_mutant == ids < MaxIds /\ UNCHANGED ids
NextId == ids < MaxIds /\ ids' = ids + 1

(* create_link, for a code the caller or the store found free.             *)
Create(c, u, ttl) ==
  LET l == Record(c, u, ttl)
  IN  /\ links' = links \cup {l} /\ Index(l)
      /\ Respond(201)
-----------------------------------------------------------------------------
(***************************************************************************)
(* POST /api/shorten.                                                      *)
(***************************************************************************)

(* A request that is not well formed stores nothing: 400 for invalid JSON, *)
(* a URL that is empty or of another scheme, a malformed alias; what raises *)
(* anything else (a body that is no object or no UTF-8, a URL or an alias  *)
(* that is no string, a lifetime that is no number) ends in the defensive  *)
(* handler's 500.                                                          *)
RefuseInput ==
  /\ \E s \in {400, 500} : reply' = [status |-> s, wellFormed |-> FALSE]
  /\ UNCHANGED <<links, byUrl, clicks, ids, now>>

Taken(c) == Get(c) # {}

ShortenAlias(u, c, ttl) ==
  /\ \/ Taken(c) /\ Respond(400) /\ UNCHANGED <<links, byUrl>>
     \/ ~Taken(c) /\ Create(c, u, ttl)
  /\ UNCHANGED <<clicks, ids, now>>

(* An identical URL that find_by_url finds and that is still valid.        *)
ShortenAgain(u) ==
  /\ \E l \in FindByUrl(u) : ~Expired(l) /\ Respond(201)
  /\ UNCHANGED <<links, byUrl, clicks, ids, now>>

(* A new id; create_link raises when its code is already in use, which the *)
(* route turns into a 500.                                                 *)
(* mutant: the record is replaced. *)
Free_mutant(c) == TRUE
Free(c) == Get(c) = {}

Mint(u, ttl) ==
  /\ \/ FindByUrl(u) = {} \/ \E l \in FindByUrl(u) : Expired(l)
  /\ NextId
  /\ LET c == AutoCode[ids + 1]
     IN  \/ Free(c) /\ Create(c, u, ttl)
         \/ ~Free(c) /\ Respond(500) /\ UNCHANGED <<links, byUrl>>
  /\ UNCHANGED <<clicks, now>>
-----------------------------------------------------------------------------
(***************************************************************************)
(* The other routes, the clock and the process.                            *)
(***************************************************************************)

(* record_click: a row whose code references its link, counted by code.    *)
Click(c) == clicks[c] < MaxClicks /\ clicks' = [clicks EXCEPT ![c] = @ + 1]

(* GET /<code>: an expired link is as unknown as one that never was.       *)
Redirect(c) ==
  /\ \/ \E l \in Get(c) : /\ ~Expired(l)
                          /\ Respond(302) /\ Click(c)
     \/ /\ \A l \in Get(c) : Expired(l)
        /\ Respond(404) /\ UNCHANGED clicks
  /\ UNCHANGED <<links, byUrl, ids, now>>

(* GET /api/stats/<code>.                                                  *)
Stats(c) ==
  /\ IF Get(c) # {} THEN Respond(200) ELSE Respond(404)
  /\ UNCHANGED <<links, byUrl, clicks, ids, now>>

Tick == now < MaxTime /\ now' = now + 1 /\ UNCHANGED <<links, byUrl, clicks, ids, reply>>

Forget == links' = {} /\ byUrl' = {} /\ ids' = 0 /\ clicks' = [c \in Code |-> 0]

(* The database survives; a process that dies after next_id has committed  *)
(* the id but not the link.  The dictionaries do not survive.              *)
Restart ==
  /\ Respond(0) /\ UNCHANGED now
  /\ \/ durable /\ UNCHANGED <<links, byUrl, clicks, ids>>
     \/ durable /\ NextId /\ UNCHANGED <<links, byUrl, clicks>>
     \/ ~durable /\ Forget

Step ==
  \/ RefuseInput \/ Tick \/ Restart
  \/ \E u \in Url, ttl \in Ttls :
       \/ \E c \in Alias : ShortenAlias(u, c, ttl)
       \/ ShortenAgain(u) \/ Mint(u, ttl)
  \/ \E c \in Code : Redirect(c) \/ Stats(c)

(* Which store it is does not change.                                      *)
Next == Step /\ UNCHANGED durable

Spec == Init /\ [][Next]_vars
-----------------------------------------------------------------------------
(***************************************************************************)
(* Properties.                                                             *)
(***************************************************************************)

(* The service's variables keep their types; no link is of the future.     *)
TypeOK ==
  /\ durable \in BOOLEAN
  /\ links \subseteq Link /\ \A l \in links : l.created <= now
  /\ byUrl \subseteq Url \X Code
  /\ clicks \in [Code -> Nat] /\ ids \in 0 .. MaxIds /\ now \in Nat

(* A code leads to one URL, whatever expires, collides or restarts.        *)
Bindings == INSTANCE LinkMap WITH target <- {<<l.code, l.url>> : l \in links}
KeepsItsLinks == Bindings!Spec

(* "Two interchangeable backends": the dictionary's index finds the link   *)
(* of a URL that the database's query would find.                          *)
BackendsAgree ==
  \A u \in Url : LET found == {l \in links : <<u, l.code>> \in byUrl}
                 IN  found \subseteq Oldest(u) /\ (found = {} => Oldest(u) = {})

(* A well-formed request meets a server error only when the code of its id *)
(* was taken before as a custom alias.  Ids never collide with each other, *)
(* also when one was lost in a restart.                                    *)
OnlyAliasesCollide ==
  reply.wellFormed /\ reply.status = 500 =>
    \E c \in Alias, i \in 1 .. ids : Get(c) # {} /\ c = AutoCode[i]

(* "An identical, still-valid URL returns its existing code so we never    *)
(* mint duplicate slugs": a code is drawn only for a URL of which no valid *)
(* link is left.  It does not hold: either way to find a URL stops at its  *)
(* oldest link, and once that has expired the valid ones are not found.    *)
NoDuplicateSlugs ==
  [][\A l \in links' \ links : l.code \notin Alias =>
       \A k \in links : k.url = l.url => Expired(k)]_vars
=============================================================================
