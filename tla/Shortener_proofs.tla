--------------------------- MODULE Shortener_proofs ---------------------------
(***************************************************************************)
(* Theorems about Shortener, for any codes, aliases, lifetimes and either  *)
(* store: the types, the one URL of a code, the agreement of the two ways  *)
(* to find the link of a URL, and the owner of the clicks.                 *)
(***************************************************************************)
EXTENDS Shortener, TLAPS

(* All a step does to the links: a link for a free code, the loss of a     *)
(* dictionary, or nothing.                                                 *)
Grow ==
  /\ \E c \in Code, u \in Url, ttl \in Ttls : Get(c) = {} /\ Create(c, u, ttl)
  /\ UNCHANGED <<clicks, now>>
Lose == ~durable /\ Forget /\ UNCHANGED now
Stay ==
  /\ UNCHANGED <<links, byUrl>> /\ now' \in {now, now + 1}
  /\ \/ UNCHANGED clicks
     \/ \E c \in Code : Get(c) # {} /\ clicks' = [clicks EXCEPT ![c] = @ + 1]

(* Every step is one of the three, and hands out at most one id.           *)
LEMMA Steps ==
  ASSUME TypeOK, [Next]_vars
  PROVE  (Grow \/ Lose \/ Stay) /\ ids' \in 0 .. MaxIds /\ durable' = durable
<1>0. durable' = durable
  BY DEF Next, vars
<1> USE CodesAssumption DEF TypeOK
<1>1. CASE RefuseInput \/ Tick
  BY <1>0, <1>1 DEF RefuseInput, Tick, Stay
<1>2. CASE Restart
  <2>1. CASE ~durable /\ Forget
    BY <1>0, <1>2, <2>1 DEF Restart, Lose, Forget
  <2>2. CASE UNCHANGED <<links, byUrl, clicks>> /\ ids' \in {ids, ids + 1} /\ ids' <= MaxIds
    BY <1>0, <1>2, <2>2 DEF Restart, Stay
  <2> QED
    BY <1>2, <2>1, <2>2 DEF Restart, NextId
<1>3. ASSUME NEW u \in Url, NEW ttl \in Ttls, NEW c \in Alias, ShortenAlias(u, c, ttl)
      PROVE  (Grow \/ Stay) /\ ids' = ids
  BY <1>3 DEF ShortenAlias, Taken, Grow, Stay
<1>4. ASSUME NEW u \in Url, ShortenAgain(u) PROVE Stay /\ ids' = ids
  BY <1>4 DEF ShortenAgain, Stay
<1>5. ASSUME NEW u \in Url, NEW ttl \in Ttls, Mint(u, ttl)
      PROVE  (Grow \/ Stay) /\ ids' \in 0 .. MaxIds
  <2>1. ids' \in 0 .. MaxIds /\ AutoCode[ids + 1] \in Code
    BY <1>5 DEF Mint, NextId
  <2>2. CASE Free(AutoCode[ids + 1]) /\ Create(AutoCode[ids + 1], u, ttl)
    BY <1>5, <2>1, <2>2 DEF Mint, Free, Grow
  <2>3. CASE UNCHANGED <<links, byUrl>>
    BY <1>5, <2>1, <2>3 DEF Mint, Stay
  <2> QED
    BY <1>5, <2>1, <2>2, <2>3 DEF Mint
<1>6. ASSUME NEW c \in Code, Redirect(c) \/ Stats(c) PROVE Stay /\ ids' = ids
  BY <1>6 DEF Redirect, Click, Stats, Stay
<1>7. CASE UNCHANGED vars
  BY <1>0, <1>7 DEF vars, Stay
<1> QED
  BY <1>0, <1>1, <1>2, <1>3, <1>4, <1>5, <1>6, <1>7 DEF Next, Step

(* The record a creation adds.                                             *)
LEMMA RecordType ==
  ASSUME now \in Nat, NEW c \in Code, NEW u \in Url, NEW ttl \in Ttls
  PROVE  /\ Record(c, u, ttl) \in Link
         /\ Record(c, u, ttl).code = c /\ Record(c, u, ttl).url = u
         /\ Record(c, u, ttl).created = now
<1>1. {now + t : t \in ttl} \in SUBSET Nat
  BY CodesAssumption
<1> QED
  BY <1>1 DEF Record, Link

(* The service's variables keep their types, and no link is of the future. *)
THEOREM TypeCorrect == Spec => []TypeOK
<1>1. Init => TypeOK
  BY CodesAssumption DEF Init, TypeOK
<1>2. TypeOK /\ [Next]_vars => TypeOK'
  <2> SUFFICES ASSUME TypeOK, [Next]_vars PROVE TypeOK'
    OBVIOUS
  <2>1. ids' \in 0 .. MaxIds /\ now \in Nat /\ durable' \in BOOLEAN
    BY Steps DEF TypeOK
  <2>2. CASE Grow
    <3>1. PICK c \in Code, u \in Url, ttl \in Ttls : Create(c, u, ttl)
      BY <2>2 DEF Grow
    <3>2. UNCHANGED <<clicks, now>>
      BY <2>2 DEF Grow
    <3>3. links' \subseteq Link /\ \A l \in links' : l.created <= now'
      BY <2>1, <3>1, <3>2, RecordType DEF Create, TypeOK
    <3>4. byUrl' \subseteq Url \X Code
      BY <2>1, <3>1, RecordType DEF Create, Index, TypeOK
    <3> QED
      BY <2>1, <3>2, <3>3, <3>4 DEF TypeOK
  <2>3. CASE Lose
    BY <2>1, <2>3 DEF Lose, Forget, TypeOK
  <2>4. CASE Stay
    <3>1. now' \in Nat /\ now <= now'
      BY <2>1, <2>4 DEF Stay
    <3>2. clicks' \in [Code -> Nat]
      BY <2>4 DEF Stay, TypeOK
    <3>3. \A l \in links' : l \in links /\ l.created \in Nat /\ l.created <= now'
      BY <2>1, <2>4, <3>1 DEF Stay, TypeOK, Link
    <3> QED
      BY <2>1, <2>4, <3>1, <3>2, <3>3 DEF Stay, TypeOK
  <2> QED
    BY <2>2, <2>3, <2>4, Steps
<1> QED
  BY <1>1, <1>2, PTL DEF Spec

(* For any codes and aliases and either store, a code leads to one URL     *)
(* until a restart without a database: expiry, collisions of an alias with *)
(* a generated code, and lost ids never give a code a second URL.          *)
THEOREM CodesKeepTheirUrl == Spec => KeepsItsLinks
<1> DEFINE Target == {<<l.code, l.url>> : l \in links}
<1>1. Init => Bindings!Init
  BY DEF Init, Bindings!Init
<1>2. TypeOK /\ [Next]_vars => Bindings!Next \/ UNCHANGED <<durable, Target>>
  <2> SUFFICES ASSUME TypeOK, [Next]_vars PROVE Bindings!Next \/ UNCHANGED <<durable, Target>>
    OBVIOUS
  <2>0. UNCHANGED durable
    BY Steps
  <2>1. CASE Grow
    <3>1. PICK c \in Code, u \in Url, ttl \in Ttls : Get(c) = {} /\ Create(c, u, ttl)
      BY <2>1 DEF Grow
    <3>2. \A p \in Target : p[1] # c
      BY <3>1 DEF Get
    <3>3. Target' = Target \cup {<<c, u>>}
      BY <3>1, RecordType DEF Create, TypeOK
    <3> QED
      BY <2>0, <3>2, <3>3 DEF Bindings!Next, Bindings!Bind
  <2>2. CASE Lose
    BY <2>0, <2>2 DEF Lose, Forget, Bindings!Next, Bindings!Lose
  <2>3. CASE Stay
    BY <2>0, <2>3 DEF Stay
  <2> QED
    BY <2>1, <2>2, <2>3, Steps
<1> QED
  BY <1>1, <1>2, TypeCorrect, PTL DEF Spec, KeepsItsLinks, Bindings!Spec

(* The promise is worth having: a service that keeps it never has two URLs *)
(* for a code, be it right after a restart.                                *)
THEOREM CodesHaveOneTarget == Spec => []Bindings!OneTarget
<1> DEFINE Target == {<<l.code, l.url>> : l \in links}
<1>1. Bindings!Init => Bindings!OneTarget
  BY DEF Bindings!Init, Bindings!OneTarget
<1>2. Bindings!OneTarget /\ [Bindings!Next]_<<durable, Target>> => Bindings!OneTarget'
  <2> SUFFICES ASSUME Bindings!OneTarget, [Bindings!Next]_<<durable, Target>>
               PROVE  Bindings!OneTarget'
    OBVIOUS
  <2>1. CASE Bindings!Lose
    BY <2>1 DEF Bindings!Lose, Bindings!OneTarget
  <2>2. ASSUME NEW c \in Code, NEW u \in Url, Bindings!Bind(c, u)
        PROVE  Bindings!OneTarget'
    BY <2>2 DEF Bindings!Bind, Bindings!OneTarget
  <2>3. CASE UNCHANGED <<durable, Target>>
    BY <2>3 DEF Bindings!OneTarget
  <2> QED
    BY <2>1, <2>2, <2>3 DEF Bindings!Next
<1> QED
  BY <1>1, <1>2, CodesKeepTheirUrl, PTL DEF KeepsItsLinks, Bindings!Spec

(* The inductive invariant behind BackendsAgree: codes name one link, the  *)
(* index has one code per URL, of an oldest link of that URL, and an entry *)
(* for the URL of every link.                                              *)
IndexInv ==
  /\ \A l, k \in links : l.code = k.code => l = k
  /\ \A p, q \in byUrl : p[1] = q[1] => p = q
  /\ \A p \in byUrl : \E l \in links :
       /\ l.code = p[2] /\ l.url = p[1]
       /\ \A k \in links : k.url = p[1] => l.created <= k.created
  /\ \A l \in links : \E p \in byUrl : p[1] = l.url

(* A creation adds one link, of now, and an index entry only for a URL     *)
(* that had none.                                                          *)
LEMMA GrowKeepsIndex == TypeOK /\ IndexInv /\ Grow => IndexInv'
<1> SUFFICES ASSUME TypeOK, IndexInv, Grow PROVE IndexInv'
  OBVIOUS
<1>1. PICK c \in Code, u \in Url, ttl \in Ttls : Get(c) = {} /\ Create(c, u, ttl)
  BY DEF Grow
<1> DEFINE new == Record(c, u, ttl)
<1>2. new.code = c /\ new.url = u /\ new.created = now
  BY RecordType DEF TypeOK
<1>3. links' = links \cup {new} /\ Index(new)
  BY <1>1 DEF Create
<1>4. \A l \in links : l.code # c /\ l.created <= now
  BY <1>1 DEF Get, TypeOK
<1> HIDE DEF new
<1>5. \A l, k \in links' : l.code = k.code => l = k
  BY <1>2, <1>3, <1>4 DEF IndexInv
<1>6. CASE \E p \in byUrl : p[1] = u
  <2>1. byUrl' = byUrl
    BY <1>2, <1>3, <1>6 DEF Index
  <2>2. ASSUME NEW p \in byUrl'
        PROVE  \E l \in links' : /\ l.code = p[2] /\ l.url = p[1]
                                 /\ \A k \in links' : k.url = p[1] => l.created <= k.created
    <3>1. PICK l \in links : /\ l.code = p[2] /\ l.url = p[1]
                             /\ \A k \in links : k.url = p[1] => l.created <= k.created
      BY <2>1, <2>2 DEF IndexInv
    <3> QED
      BY <1>2, <1>3, <1>4, <3>1
  <2>3. \A l \in links' : \E p \in byUrl' : p[1] = l.url
    BY <1>2, <1>3, <1>6, <2>1 DEF IndexInv
  <2> QED
    BY <1>5, <2>1, <2>2, <2>3 DEF IndexInv
<1>7. CASE \A p \in byUrl : p[1] # u
  <2>1. byUrl' = byUrl \cup {<<u, c>>}
    BY <1>2, <1>3, <1>7 DEF Index
  <2>2. \A l \in links : l.url # u
    BY <1>7 DEF IndexInv
  <2>3. ASSUME NEW p \in byUrl'
        PROVE  \E l \in links' : /\ l.code = p[2] /\ l.url = p[1]
                                 /\ \A k \in links' : k.url = p[1] => l.created <= k.created
    <3>1. CASE p \in byUrl
      <4>1. PICK l \in links : /\ l.code = p[2] /\ l.url = p[1]
                               /\ \A k \in links : k.url = p[1] => l.created <= k.created
        BY <3>1 DEF IndexInv
      <4> QED
        BY <1>2, <1>3, <1>4, <4>1
    <3>2. CASE p = <<u, c>>
      <4>1. new.created <= new.created
        BY <1>2 DEF TypeOK
      <4> QED
        BY <1>2, <1>3, <2>2, <3>2, <4>1
    <3> QED
      BY <2>1, <3>1, <3>2
  <2>4. \A p, q \in byUrl' : p[1] = q[1] => p = q
    BY <1>7, <2>1 DEF IndexInv
  <2>5. \A l \in links' : \E p \in byUrl' : p[1] = l.url
    <3>1. \A l \in links : \E p \in byUrl' : p[1] = l.url
      BY <2>1 DEF IndexInv
    <3>2. <<u, c>> \in byUrl' /\ <<u, c>>[1] = new.url
      BY <1>2, <2>1
    <3> QED
      BY <1>3, <3>1, <3>2
  <2> QED
    BY <1>5, <2>3, <2>4, <2>5 DEF IndexInv
<1> QED
  BY <1>6, <1>7

(* For any codes, aliases and lifetimes, the dictionary's index and the    *)
(* database's query find the same link of a URL.                           *)
THEOREM StoresAgree == Spec => []BackendsAgree
<1>1. Init => IndexInv
  BY DEF Init, IndexInv
<1>2. TypeOK /\ IndexInv /\ [Next]_vars => IndexInv'
  <2> SUFFICES ASSUME TypeOK, IndexInv, [Next]_vars PROVE IndexInv'
    OBVIOUS
  <2>1. CASE Grow
    BY <2>1, GrowKeepsIndex
  <2>2. CASE Lose
    BY <2>2 DEF Lose, Forget, IndexInv
  <2>3. CASE Stay
    BY <2>3 DEF Stay, IndexInv
  <2> QED
    BY <2>1, <2>2, <2>3, Steps
<1>3. TypeOK /\ IndexInv => BackendsAgree
  <2> SUFFICES ASSUME TypeOK, IndexInv, NEW u \in Url
               PROVE  LET found == {l \in links : <<u, l.code>> \in byUrl}
                      IN  found \subseteq Oldest(u) /\ (found = {} => Oldest(u) = {})
    BY DEF BackendsAgree
  <2>1. ASSUME NEW l \in links, <<u, l.code>> \in byUrl PROVE l \in Oldest(u)
    <3>1. PICK k \in links : /\ k.code = l.code /\ k.url = u
                             /\ \A j \in links : j.url = u => k.created <= j.created
      BY <2>1 DEF IndexInv
    <3> QED
      BY <3>1 DEF IndexInv, Oldest
  <2>2. ASSUME NEW l \in Oldest(u) PROVE \E k \in links : <<u, k.code>> \in byUrl
    <3>1. PICK p \in byUrl : p[1] = u
      BY <2>2 DEF Oldest, IndexInv
    <3>2. PICK k \in links : k.code = p[2]
      BY DEF IndexInv
    <3>3. p = <<u, k.code>>
      BY <3>1, <3>2 DEF TypeOK
    <3> QED
      BY <3>3
  <2> QED
    BY <2>1, <2>2
<1> QED
  BY <1>1, <1>2, <1>3, TypeCorrect, PTL DEF Spec

(* Every code in use is an alias or that of an id handed out before.       *)
CodeInv == \A l \in links : l.code \in Alias \/ \E i \in 1 .. ids : l.code = AutoCode[i]

(* For any aliases and ids, also ids lost in a restart, a well-formed      *)
(* request fails only over a code that was taken as a custom alias.        *)
THEOREM CollidesOnAliases == Spec => []OnlyAliasesCollide
<1> DEFINE Inv == CodeInv /\ OnlyAliasesCollide
<1>1. Init => Inv
  BY DEF Init, CodeInv, OnlyAliasesCollide
<1>2. TypeOK /\ Inv /\ [Next]_vars => Inv'
  <2> SUFFICES ASSUME TypeOK, Inv, [Next]_vars PROVE Inv'
    OBVIOUS
  <2>0. ids \in Nat /\ ids <= MaxIds
    BY CodesAssumption DEF TypeOK
  <2>1. CASE UNCHANGED <<links, ids>> /\ (reply' = reply \/ ~reply'.wellFormed \/ reply'.status # 500)
    BY <2>1 DEF CodeInv, OnlyAliasesCollide, Get
  <2>2. CASE Restart
    <3>1. OnlyAliasesCollide'
      BY <2>2 DEF Restart, Respond, OnlyAliasesCollide
    <3>2. (links' = links /\ ids' \in {ids, ids + 1}) \/ links' = {}
      BY <2>2 DEF Restart, NextId, Forget
    <3>3. CodeInv'
      BY <2>0, <3>2 DEF CodeInv
    <3> QED
      BY <3>1, <3>3
  <2>3. ASSUME NEW u \in Url, NEW ttl \in Ttls, NEW c \in Alias, ShortenAlias(u, c, ttl)
        PROVE  Inv'
    <3>1. OnlyAliasesCollide'
      BY <2>3 DEF ShortenAlias, Create, Respond, OnlyAliasesCollide
    <3>2. ids' = ids /\ (links' = links \/ links' = links \cup {Record(c, u, ttl)})
      BY <2>3 DEF ShortenAlias, Create
    <3>3. Record(c, u, ttl).code \in Alias
      BY DEF Record
    <3>4. CodeInv'
      BY <3>2, <3>3 DEF CodeInv
    <3> QED
      BY <3>1, <3>4
  <2>4. ASSUME NEW u \in Url, NEW ttl \in Ttls, Mint(u, ttl) PROVE Inv'
    <3> DEFINE c == AutoCode[ids + 1]
    <3>1. ids' = ids + 1 /\ ids + 1 \in 1 .. MaxIds /\ ids + 1 \in 1 .. ids'
      BY <2>0, <2>4, CodesAssumption DEF Mint, NextId, TypeOK
    <3>2. \A l \in links : l.code \in Alias \/ \E i \in 1 .. ids' : l.code = AutoCode[i]
      BY <2>0, <3>1 DEF CodeInv
    <3>3. CASE Free(c) /\ Create(c, u, ttl)
      <4>1. links' = links \cup {Record(c, u, ttl)} /\ reply'.status = 201
        BY <3>3 DEF Create, Respond
      <4>2. Record(c, u, ttl).code = AutoCode[ids + 1]
        BY DEF Record
      <4> QED
        BY <3>1, <3>2, <4>1, <4>2 DEF CodeInv, OnlyAliasesCollide
    <3>4. CASE ~Free(c) /\ UNCHANGED links
      <4>1. PICK l \in links : l.code = c
        BY <3>4 DEF Free, Get
      <4>2. \A i \in 1 .. ids : c # AutoCode[i]
        BY <2>0, <3>1, CodesAssumption
      <4>3. c \in Alias
        BY <4>1, <4>2 DEF CodeInv
      <4> QED
        BY <3>1, <3>2, <3>4, <4>1, <4>3 DEF CodeInv, OnlyAliasesCollide, Get
    <3> QED
      BY <2>4, <3>3, <3>4 DEF Mint
  <2>5. CASE RefuseInput \/ Tick \/ UNCHANGED vars
    BY <2>1, <2>5 DEF RefuseInput, Tick, Respond, vars
  <2>6. ASSUME NEW u \in Url, ShortenAgain(u) PROVE Inv'
    BY <2>1, <2>6 DEF ShortenAgain, Respond
  <2>7. ASSUME NEW c \in Code, Redirect(c) \/ Stats(c) PROVE Inv'
    BY <2>1, <2>7 DEF Redirect, Click, Stats, Respond
  <2> QED
    BY <2>2, <2>3, <2>4, <2>5, <2>6, <2>7 DEF Next, Step
<1> QED
  BY <1>1, <1>2, TypeCorrect, PTL DEF Spec
=============================================================================
