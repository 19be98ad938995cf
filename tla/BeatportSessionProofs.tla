------------------------ MODULE BeatportSessionProofs ------------------------
(***************************************************************************)
(* Five theorems about authenticated requests, for any number of           *)
(* processes, tokens and retries: how often one is sent and takes effect,  *)
(* which token it is never sent with, what the credential store keeps, and *)
(* how many steps it takes at most.                                        *)
(***************************************************************************)
EXTENDS BeatportSession, TLAPS

TokenSet   == [access : Nat, refresh : Nat, dated : BOOLEAN]
GrantSet   == [token : TokenSet, traded : Nat]
RequestSet == [method : {"GET", "POST"}, attempt : Nat, refreshed : BOOLEAN,
               sends : Nat, effects : Nat, refused : SUBSET Nat]

TypeInv ==
    /\ pc \in [Procs -> {"idle", "token", "save", "send"}]
    /\ memory \in [Procs -> TokenSet] /\ stored \in TokenSet
    /\ loaded \in [Procs -> BOOLEAN]
    /\ grant \in [Procs -> GrantSet]
    /\ request \in [Procs -> RequestSet]
    /\ issued \in Nat /\ rotates \in BOOLEAN

LEMMA NoneAreTyped == NoToken \in TokenSet /\ NoGrant \in GrantSet /\ NoRequest \in RequestSet
BY DEF NoToken, NoGrant, NoRequest, TokenSet, GrantSet, RequestSet

LEMMA TypeInit == Init => TypeInv
<1> SUFFICES ASSUME Init PROVE TypeInv
  OBVIOUS
<1>1. [access |-> 1, refresh |-> 1, dated |-> TRUE] \in TokenSet
  BY DEF TokenSet
<1> QED BY <1>1, NoneAreTyped DEF Init, TypeInv

Step(p) == TokenStep(p) \/ SendStep(p) \/ CommandStep(p)

(* What a step of a process leaves of its request.                         *)
LEMMA ClosedIsTyped ==
    ASSUME TypeInv, NEW p \in Procs, NEW effects \in Nat, Close(p, effects)
    PROVE  /\ request' \in [Procs -> RequestSet]
           /\ request'[p] = [NoRequest EXCEPT !.effects = effects]
<1>1. [NoRequest EXCEPT !.effects = effects] \in RequestSet
  BY DEF NoRequest, RequestSet
<1> QED BY <1>1 DEF Close, TypeInv

(* What a request has become when it was answered, and goes on.            *)
LEMMA AnsweredIsTyped ==
    ASSUME TypeInv, NEW p \in Procs, NEW done \in BOOLEAN
    PROVE  /\ Answered(p, done) \in RequestSet
           /\ [Answered(p, done) EXCEPT !.attempt = @ + 1] \in RequestSet
           /\ [Answered(p, done) EXCEPT !.refreshed = TRUE, !.attempt = @ + 1,
                                       !.refused = {memory[p].access}] \in RequestSet
<1>1. request[p] \in RequestSet /\ {memory[p].access} \in SUBSET Nat
  BY DEF TypeInv, TokenSet
<1>2. Answered(p, done) \in RequestSet
  <2> DEFINE n == IF done THEN 1 ELSE 0
  <2>1. request[p].effects + n \in Nat
    BY <1>1 DEF RequestSet
  <2> HIDE DEF n
  <2> QED BY <1>1, <2>1 DEF Answered, RequestSet, n
<1>3. ASSUME NEW r \in RequestSet, NEW ids \in SUBSET Nat
      PROVE  /\ [r EXCEPT !.attempt = @ + 1] \in RequestSet
             /\ [r EXCEPT !.refreshed = TRUE, !.attempt = @ + 1, !.refused = ids] \in RequestSet
  <2> DEFINE next == r.attempt + 1
  <2>1. next \in Nat
    BY DEF RequestSet
  <2> HIDE DEF next
  <2>2. /\ [r EXCEPT !.attempt = next] \in RequestSet
        /\ [r EXCEPT !.refreshed = TRUE, !.attempt = next, !.refused = ids] \in RequestSet
    BY <2>1 DEF RequestSet
  <2> QED BY <2>2 DEF next
<1> QED BY <1>1, <1>2, <1>3

LEMMA TypeToken ==
    ASSUME TypeInv, NEW p \in Procs, TokenStep(p)
    PROVE  TypeInv'
<1> USE DEF Goto, serverVars
<1>0. request[p] \in RequestSet /\ request[p].effects \in Nat /\ memory[p] \in TokenSet
      /\ grant[p] \in GrantSet /\ grant[p].token \in TokenSet
  BY DEF TypeInv, RequestSet, GrantSet
<1>1. CASE Load(p)
  <2>1. request' \in [Procs -> RequestSet]
    BY <1>0, <1>1, ClosedIsTyped DEF Load, TypeInv
  <2> QED BY <1>1, <2>1 DEF Load, TypeInv
<1>2. CASE LoadFails(p) \/ NoAccess(p)
  <2>1. request' \in [Procs -> RequestSet]
    BY <1>0, <1>2, ClosedIsTyped DEF LoadFails, NoAccess
  <2> QED BY <1>2, <2>1 DEF LoadFails, NoAccess, TypeInv
<1>3. CASE UseToken(p)
  BY <1>3 DEF UseToken, Send, TypeInv, RequestSet
<1>4. CASE Refresh(p)
  <2>1. [token |-> Successor(p), traded |-> Traded(p)] \in GrantSet
    BY <1>0 DEF Successor, Traded, TokenSet, GrantSet, TypeInv
  <2> QED BY <1>4, <2>1 DEF Refresh, Issue, TypeInv
<1>5. CASE RefreshLost(p)
  <2>1. request' \in [Procs -> RequestSet]
    BY <1>0, <1>5, ClosedIsTyped DEF RefreshLost
  <2>2. issued' = issued + 1 /\ UNCHANGED <<memory, loaded, grant, stored, rotates>>
    BY <1>5 DEF RefreshLost, Issue
  <2>3. pc' \in [Procs -> {"idle", "token", "save", "send"}]
    BY <1>5 DEF RefreshLost, TypeInv
  <2> QED BY <2>1, <2>2, <2>3 DEF TypeInv
<1>6. CASE Save(p)
  <2>1. request' \in [Procs -> RequestSet]
    BY <1>6, SMTT(60) DEF Save, Send, TypeInv, RequestSet
  <2> QED BY <1>0, <1>6, <2>1, NoneAreTyped DEF Save, Send, TypeInv
<1>7. CASE SaveFails(p)
  <2>1. request' \in [Procs -> RequestSet]
    BY <1>0, <1>7, ClosedIsTyped DEF SaveFails
  <2> QED BY <1>0, <1>7, <2>1, NoneAreTyped DEF SaveFails, TypeInv
<1> QED BY <1>1, <1>2, <1>3, <1>4, <1>5, <1>6, <1>7 DEF TokenStep

LEMMA TypeStep == TypeInv /\ [Next]_vars => TypeInv'
<1> SUFFICES ASSUME TypeInv, [Next]_vars PROVE TypeInv'
  OBVIOUS
<1> USE DEF Goto, serverVars
<1>1. ASSUME NEW p \in Procs, TokenStep(p) PROVE TypeInv'
  BY <1>1, TypeToken
<1>2. ASSUME NEW p \in Procs, Return(p) PROVE TypeInv'
  <2>1. \A done \in {FALSE, MayTakeEffect(p)} : Answered(p, done).effects \in Nat
    BY DEF Answered, TypeInv, RequestSet
  <2>2. request' \in [Procs -> RequestSet]
    BY <1>2, <2>1, ClosedIsTyped DEF Return
  <2> QED BY <1>2, <2>2 DEF Return, TypeInv
<1>3. ASSUME NEW p \in Procs, Refused(p) PROVE TypeInv'
  <2>1. [Answered(p, FALSE) EXCEPT !.refreshed = TRUE, !.attempt = @ + 1, !.refused = {memory[p].access}]
           \in RequestSet
    BY AnsweredIsTyped
  <2>2. request' \in [Procs -> RequestSet]
    BY <1>3, <2>1 DEF Refused, TypeInv
  <2>3. memory' \in [Procs -> TokenSet]
    BY <1>3 DEF Refused, TypeInv, TokenSet
  <2> QED BY <1>3, <2>2, <2>3 DEF Refused, TypeInv
<1>4. ASSUME NEW p \in Procs, Retry(p) PROVE TypeInv'
  <2>1. \A done \in BOOLEAN : [Answered(p, done) EXCEPT !.attempt = @ + 1] \in RequestSet
    BY AnsweredIsTyped
  <2>2. request' \in [Procs -> RequestSet]
    BY <1>4, <2>1, ZenonT(60) DEF Retry, MayTakeEffect, TypeInv
  <2> QED BY <1>4, <2>2 DEF Retry, TypeInv
<1>5. ASSUME NEW p \in Procs, NEW method \in {"GET", "POST"}, Begin(p, method) PROVE TypeInv'
  BY <1>5, NoneAreTyped DEF Begin, TypeInv, RequestSet
<1>6. ASSUME NEW p \in Procs, Authorize(p) PROVE TypeInv'
  BY <1>6 DEF Authorize, Issue, TypeInv, GrantSet, TokenSet
<1>7. ASSUME NEW p \in Procs, Exit(p) PROVE TypeInv'
  BY <1>7, NoneAreTyped DEF Exit, TypeInv
<1>8. CASE Logout \/ Revoke \/ UNCHANGED vars
  BY <1>8, NoneAreTyped DEF Logout, Revoke, vars, procVars, TypeInv
<1> QED BY <1>1, <1>2, <1>3, <1>4, <1>5, <1>6, <1>7, <1>8 DEF Next, SendStep, CommandStep

(* A step of one process leaves the others where they are.                 *)
LEMMA OthersStay ==
    ASSUME TypeInv, NEW p \in Procs, Step(p), NEW q \in Procs, q # p
    PROVE  /\ pc'[q] = pc[q] /\ memory'[q] = memory[q] /\ loaded'[q] = loaded[q]
           /\ grant'[q] = grant[q] /\ request'[q] = request[q]
<1> USE DEF Goto, Close, Send, TypeInv
<1>1. CASE Load(p) \/ LoadFails(p) \/ UseToken(p) \/ NoAccess(p)
  BY <1>1 DEF Load, LoadFails, UseToken, NoAccess
<1>2. CASE Refresh(p) \/ RefreshLost(p)
  BY <1>2 DEF Refresh, RefreshLost
<1>3. CASE Save(p) \/ SaveFails(p)
  BY <1>3 DEF Save, SaveFails
<1>4. CASE SendStep(p)
  BY <1>4 DEF SendStep, Return, Refused, Retry
<1>5. CASE CommandStep(p)
  BY <1>5 DEF CommandStep, Begin, Authorize, Exit
<1> QED BY <1>1, <1>2, <1>3, <1>4, <1>5 DEF Step, TokenStep

-----------------------------------------------------------------------------
(* How often a request is sent, and a write takes effect.                  *)

Renewals(p) == IF request[p].refreshed THEN 1 ELSE 0

(* Every attempt is sent once; the retries and the one renewal bound them. *)
Counted(p) ==
    /\ request[p].sends = request[p].attempt + (IF pc[p] = "send" THEN 1 ELSE 0)
    /\ request[p].attempt <= MaxRetries + Renewals(p)
    /\ request[p].method = "POST" => request[p].attempt <= Renewals(p)

(* A request that goes on has changed nothing.                             *)
Harmless(p) ==
    /\ request[p].effects <= 1
    /\ pc[p] \in {"token", "send"} => request[p].effects = 0
    /\ pc[p] = "save" /\ grant[p].traded # 0 => request[p].effects = 0

RequestInv == \A p \in Procs : Counted(p) /\ Harmless(p)

LEMMA RequestInit == Init => RequestInv
BY RetryAssumption DEF Init, NoRequest, RequestInv, Counted, Renewals, Harmless

LEMMA ClosedIsSound ==
    ASSUME TypeInv, NEW p \in Procs, NEW effects \in Nat, effects <= 1,
           Close(p, effects), Goto(p, "idle")
    PROVE  (Counted(p) /\ Harmless(p))'
<1>1. /\ request'[p].sends = 0 /\ request'[p].attempt = 0 /\ request'[p].method = "GET"
      /\ request'[p].effects = effects /\ request'[p].refreshed = FALSE
  <2>1. request'[p] = [NoRequest EXCEPT !.effects = effects]
    BY ClosedIsTyped
  <2> QED BY <2>1 DEF NoRequest
<1>2. pc'[p] = "idle"
  BY DEF Goto, TypeInv
<1> QED BY <1>1, <1>2, RetryAssumption DEF Counted, Renewals, Harmless

LEMMA SentIsSound ==
    ASSUME TypeInv, NEW p \in Procs, Counted(p), pc[p] # "send", request[p].effects = 0, Send(p)
    PROVE  (Counted(p) /\ Harmless(p))'
<1>1. pc'[p] = "send"
  BY DEF Send, Goto, TypeInv
<1>2. /\ request'[p].sends = request[p].sends + 1 /\ request'[p].attempt = request[p].attempt
      /\ request'[p].method = request[p].method /\ request'[p].effects = request[p].effects
      /\ request'[p].refreshed = request[p].refreshed
  BY DEF Send, TypeInv, RequestSet
<1>3. request[p].sends = request[p].attempt
  BY DEF Counted, Renewals, TypeInv, RequestSet
<1>4. Counted(p)'
  BY <1>1, <1>2, <1>3 DEF Counted, Renewals
<1> QED BY <1>1, <1>2, <1>4 DEF Harmless

LEMMA TokenIsSound ==
    ASSUME TypeInv, NEW p \in Procs, Counted(p), Harmless(p), TokenStep(p)
    PROVE  (Counted(p) /\ Harmless(p))'
<1>0. request[p].effects \in Nat /\ request[p].effects <= 1
  BY DEF TypeInv, RequestSet, Harmless
<1>1. CASE LoadFails(p) \/ NoAccess(p) \/ RefreshLost(p) \/ SaveFails(p)
  BY <1>0, <1>1, ClosedIsSound DEF LoadFails, NoAccess, RefreshLost, SaveFails
<1>2. CASE Load(p)
  <2>1. CASE stored = NoToken
    BY <1>0, <1>2, <2>1, ClosedIsSound DEF Load
  <2>2. CASE stored # NoToken
    BY <1>2, <2>2 DEF Load, Counted, Renewals, Harmless
  <2> QED BY <2>1, <2>2
<1>3. CASE UseToken(p)
  BY <1>3, SentIsSound DEF UseToken, Harmless
<1>4. CASE Refresh(p)
  <2>1. pc[p] = "token" /\ pc'[p] = "save" /\ UNCHANGED request
    BY <1>4 DEF Refresh, MustRefresh, Goto, TypeInv
  <2> QED BY <2>1 DEF Counted, Renewals, Harmless
<1>5. CASE Save(p)
  <2>1. CASE grant[p].traded = 0
    <3>1. pc[p] = "save" /\ pc'[p] = "idle" /\ UNCHANGED request
      BY <1>5, <2>1 DEF Save, Goto, TypeInv
    <3> QED BY <3>1 DEF Counted, Renewals, Harmless
  <2>2. CASE grant[p].traded # 0
    BY <1>5, <2>2, SentIsSound DEF Save, Harmless
  <2> QED BY <2>1, <2>2
<1> QED BY <1>1, <1>2, <1>3, <1>4, <1>5 DEF TokenStep

LEMMA SendIsSound ==
    ASSUME TypeInv, NEW p \in Procs, Counted(p), Harmless(p), SendStep(p)
    PROVE  (Counted(p) /\ Harmless(p))'
<1>0. pc[p] = "send" /\ request[p].effects = 0 /\ request[p].sends = request[p].attempt + 1
  BY DEF SendStep, Return, Refused, Retry, Harmless, Counted, Renewals
<1>t. request[p].attempt \in Nat /\ request[p].refreshed \in BOOLEAN
  BY DEF TypeInv, RequestSet
<1>1. CASE Return(p)
  <2>1. PICK done \in {FALSE, MayTakeEffect(p)} : Close(p, Answered(p, done).effects)
    BY <1>1 DEF Return
  <2>2. Answered(p, done).effects \in Nat /\ Answered(p, done).effects <= 1
    BY <1>0 DEF Answered, TypeInv, RequestSet
  <2> QED BY <1>1, <2>1, <2>2, ClosedIsSound DEF Return
<1>2. CASE Refused(p)
  <2>1. pc'[p] = "token" /\ ~request[p].refreshed
    BY <1>2 DEF Refused, Goto, TypeInv
  <2>2. /\ request'[p].sends = request[p].sends /\ request'[p].attempt = request[p].attempt + 1
        /\ request'[p].method = request[p].method /\ request'[p].effects = request[p].effects
        /\ request'[p].refreshed = TRUE
    BY <1>0, <1>2 DEF Refused, Answered, TypeInv, RequestSet
  <2>3. Counted(p)'
    <3>0. Renewals(p) = 0 /\ Renewals(p)' = 1
      BY <2>1, <2>2, Zenon DEF Renewals
    <3>1. /\ request[p].attempt <= MaxRetries
          /\ request[p].method = "POST" => request[p].attempt <= 0
      BY <3>0, RetryAssumption DEF Counted
    <3>2. /\ request[p].attempt + 1 <= MaxRetries + 1
          /\ request[p].method = "POST" => request[p].attempt + 1 <= 1
      BY <1>t, <3>1, RetryAssumption
    <3> QED BY <1>0, <1>t, <2>1, <2>2, <3>0, <3>2 DEF Counted
  <2> QED BY <1>0, <2>1, <2>2, <2>3 DEF Harmless
<1>3. CASE Retry(p)
  <2>1. pc'[p] = "token" /\ request[p].method = "GET" /\ request[p].attempt < MaxRetries
    BY <1>3 DEF Retry, Goto, TypeInv
  <2>2. /\ request'[p].sends = request[p].sends /\ request'[p].attempt = request[p].attempt + 1
        /\ request'[p].method = request[p].method /\ request'[p].effects = request[p].effects
        /\ request'[p].refreshed = request[p].refreshed
    <3>1. request' = [request EXCEPT ![p] = [Answered(p, FALSE) EXCEPT !.attempt = @ + 1]]
      BY <1>3, <2>1 DEF Retry, MayTakeEffect
    <3> QED BY <1>0, <3>1 DEF Answered, TypeInv, RequestSet
  <2>3. Counted(p)'
    BY <1>0, <1>t, <2>1, <2>2, RetryAssumption DEF Counted, Renewals
  <2> QED BY <1>0, <2>1, <2>2, <2>3 DEF Harmless
<1> QED BY <1>1, <1>2, <1>3 DEF SendStep

LEMMA CommandIsSound ==
    ASSUME TypeInv, NEW p \in Procs, Counted(p), Harmless(p), CommandStep(p)
    PROVE  (Counted(p) /\ Harmless(p))'
<1>1. ASSUME NEW method \in {"GET", "POST"}, Begin(p, method) PROVE (Counted(p) /\ Harmless(p))'
  <2>1. pc'[p] = "token"
    BY <1>1 DEF Begin, Goto, TypeInv
  <2>2. /\ request'[p].sends = 0 /\ request'[p].attempt = 0 /\ request'[p].effects = 0
    BY <1>1 DEF Begin, NoRequest, TypeInv
  <2> QED BY <2>1, <2>2, RetryAssumption DEF Counted, Renewals, Harmless
<1>2. CASE Authorize(p)
  <2>1. pc[p] = "idle" /\ pc'[p] = "save" /\ UNCHANGED request /\ grant'[p].traded = 0
    BY <1>2 DEF Authorize, Goto, TypeInv
  <2> QED BY <2>1 DEF Counted, Renewals, Harmless
<1>3. CASE Exit(p)
  <2>1. pc'[p] = "idle" /\ request'[p] = NoRequest
    BY <1>3 DEF Exit, Goto, TypeInv
  <2> QED BY <2>1, RetryAssumption DEF NoRequest, Counted, Renewals, Harmless
<1> QED BY <1>1, <1>2, <1>3 DEF CommandStep

LEMMA RequestStep == TypeInv /\ RequestInv /\ [Next]_vars => RequestInv'
<1> SUFFICES ASSUME TypeInv, RequestInv, [Next]_vars, NEW q \in Procs
             PROVE  (Counted(q) /\ Harmless(q))'
  BY DEF RequestInv
<1>0. Counted(q) /\ Harmless(q)
  BY DEF RequestInv
<1>1. ASSUME NEW p \in Procs, Step(p), q # p PROVE (Counted(q) /\ Harmless(q))'
  BY <1>0, <1>1, OthersStay DEF Counted, Renewals, Harmless
<1>2. CASE Step(q)
  BY <1>0, <1>2, TokenIsSound, SendIsSound, CommandIsSound DEF Step
<1>3. CASE Logout \/ Revoke \/ UNCHANGED vars
  BY <1>0, <1>3 DEF Logout, Revoke, vars, procVars, Counted, Renewals, Harmless
<1> QED BY <1>1, <1>2, <1>3 DEF Next, Step

(* Lost answers and refused tokens do not add up.                          *)
THEOREM SentFewTimes == Spec => []SendsBounded
<1>1. TypeInv /\ RequestInv => SendsBounded
  <2> SUFFICES ASSUME TypeInv, RequestInv, NEW p \in Procs
               PROVE  /\ request[p].method = "POST" => request[p].sends <= 2
                      /\ request[p].sends <= MaxRetries + (IF request[p].refreshed THEN 2 ELSE 1)
    BY DEF SendsBounded
  <2>1. request[p].attempt \in Nat /\ request[p].sends \in Nat /\ request[p].refreshed \in BOOLEAN
    BY DEF TypeInv, RequestSet
  <2>2. Counted(p)
    BY DEF RequestInv
  <2>3. Renewals(p) \in {0, 1} /\ (IF request[p].refreshed THEN 2 ELSE 1) = Renewals(p) + 1
    BY <2>1 DEF Renewals
  <2> QED BY <2>1, <2>2, <2>3, RetryAssumption DEF Counted
<1> QED BY <1>1, TypeInit, TypeStep, RequestInit, RequestStep, PTL DEF Spec

THEOREM NoWriteTwice == Spec => []PostTakesEffectOnce
<1>1. RequestInv => PostTakesEffectOnce
  BY DEF RequestInv, Harmless, PostTakesEffectOnce
<1> QED BY <1>1, TypeInit, TypeStep, RequestInit, RequestStep, PTL DEF Spec

-----------------------------------------------------------------------------
(* Tokens travel from a grant to the memory and the store, and from the    *)
(* store to other processes.                                               *)

Same(s, t) == s.access = t.access /\ s.refresh = t.refresh

Newest(p) ==
    /\ pc[p] # "save"
    /\ issued' = issued + 1 /\ UNCHANGED <<stored, memory>>
    /\ grant'[p].token.access = issued + 1
    /\ \/ grant'[p].token.refresh \in {0, issued + 1}
       \/ rotates = FALSE /\ grant'[p].token.refresh = memory[p].refresh

LEMMA TokensTravel ==
    ASSUME TypeInv, NEW p \in Procs, Step(p)
    PROVE  /\ issued' \in {issued, issued + 1} /\ UNCHANGED rotates
           /\ stored' = stored \/ (pc[p] = "save" /\ stored' = grant[p].token)
           /\ \/ \E t \in {memory[p], stored, NoToken} : Same(memory'[p], t)
              \/ pc[p] = "save" /\ memory'[p] = grant[p].token
           /\ pc'[p] = "save" => Newest(p)
           /\ Newest(p) \/ grant'[p].token \in {grant[p].token, NoToken}
           /\ request'[p].refused \subseteq request[p].refused \cup {memory[p].access}
<1> USE DEF Goto, serverVars, Same
<1>c. ASSUME NEW effects, Close(p, effects) PROVE request'[p].refused = {}
  BY <1>c DEF Close, NoRequest, TypeInv
<1>1. CASE LoadFails(p) \/ NoAccess(p)
  BY <1>1, <1>c DEF LoadFails, NoAccess, TypeInv
<1>2. CASE Load(p)
  <2>1. /\ UNCHANGED <<issued, rotates, stored, grant>> /\ pc[p] = "token"
        /\ memory'[p] = stored /\ pc'[p] \in {"token", "idle"}
    BY <1>2 DEF Load, TypeInv
  <2>2. request'[p].refused \subseteq request[p].refused
    BY <1>2, <1>c DEF Load
  <2> QED BY <2>1, <2>2
<1>3. CASE UseToken(p)
  <2>1. request'[p].refused = request[p].refused
    BY <1>3 DEF UseToken, Send, TypeInv, RequestSet
  <2> QED BY <1>3, <2>1 DEF UseToken, Send, TypeInv
<1>4. CASE Refresh(p)
  <2>1. Newest(p)
    BY <1>4 DEF Refresh, MustRefresh, Issue, Newest, Successor, Traded, TypeInv
  <2> QED BY <1>4, <2>1 DEF Refresh, Issue, TypeInv
<1>5. CASE RefreshLost(p)
  <2>1. request'[p].refused = {}
    BY <1>5, <1>c DEF RefreshLost
  <2> QED BY <1>5, <2>1 DEF RefreshLost, Issue, TypeInv
<1>6. CASE Save(p)
  <2>1. request'[p].refused = request[p].refused
    BY <1>6 DEF Save, Send, TypeInv, RequestSet
  <2>2. /\ UNCHANGED <<issued, rotates>> /\ pc[p] = "save" /\ stored' = grant[p].token
        /\ memory'[p] = grant[p].token /\ pc'[p] \in {"idle", "send"} /\ grant'[p] = NoGrant
    BY <1>6 DEF Save, Send, TypeInv
  <2> QED BY <2>1, <2>2 DEF NoGrant
<1>7. CASE SaveFails(p)
  <2>1. request'[p].refused = {}
    BY <1>7, <1>c DEF SaveFails
  <2>2. /\ UNCHANGED <<issued, rotates, stored>> /\ pc[p] = "save"
        /\ memory'[p] = grant[p].token /\ pc'[p] = "idle" /\ grant'[p] = NoGrant
    BY <1>7 DEF SaveFails, TypeInv
  <2> QED BY <2>1, <2>2 DEF NoGrant
<1>8. CASE Return(p)
  BY <1>8, <1>c DEF Return, TypeInv
<1>9. CASE Refused(p)
  <2>1. request'[p].refused = {memory[p].access}
    BY <1>9, AnsweredIsTyped DEF Refused, TypeInv, RequestSet
  <2>2. Same(memory'[p], memory[p])
    BY <1>9 DEF Refused, TypeInv, TokenSet
  <2> QED BY <1>9, <2>1, <2>2 DEF Refused, TypeInv
<1>10. CASE Retry(p)
  <2>1. PICK done \in BOOLEAN : request'[p] = [Answered(p, done) EXCEPT !.attempt = @ + 1]
    BY <1>10 DEF Retry, MayTakeEffect, TypeInv
  <2>2. request'[p].refused = request[p].refused
    BY <2>1 DEF Answered, TypeInv, RequestSet
  <2> QED BY <1>10, <2>2 DEF Retry, TypeInv
<1>11. ASSUME NEW method \in {"GET", "POST"}, Begin(p, method)
       PROVE  /\ UNCHANGED <<issued, rotates, stored, memory, grant>>
              /\ pc'[p] = "token" /\ request'[p].refused = {}
  BY <1>11 DEF Begin, NoRequest, TypeInv
<1>12. CASE Authorize(p)
  <2>1. Newest(p)
    BY <1>12 DEF Authorize, Issue, Newest, TypeInv
  <2> QED BY <1>12, <2>1 DEF Authorize, Issue
<1>13. CASE Exit(p)
  BY <1>13 DEF Exit, NoGrant, NoRequest, TypeInv
<1> QED BY <1>1, <1>2, <1>3, <1>4, <1>5, <1>6, <1>7, <1>8, <1>9, <1>10, <1>11, <1>12, <1>13
        DEF Step, TokenStep, SendStep, CommandStep

Known(t, last) == t.access <= last /\ t.refresh <= last

(* Every serial number anybody holds was issued.                           *)
BoundInv ==
    /\ Known(stored, issued)
    /\ \A p \in Procs :
          /\ Known(memory[p], issued) /\ Known(grant[p].token, issued)
          /\ \A id \in request[p].refused : id <= issued

LEMMA BoundInit == Init => BoundInv
BY DEF Init, BoundInv, Known, NoToken, NoGrant, NoRequest

LEMMA BoundStep == TypeInv /\ BoundInv /\ [Next]_vars => BoundInv'
<1> SUFFICES ASSUME TypeInv, BoundInv, [Next]_vars PROVE BoundInv'
  OBVIOUS
<1>0. TypeInv'
  BY TypeStep
<1>1. ASSUME NEW p \in Procs, Step(p) PROVE BoundInv'
  <2>1. issued \in Nat /\ issued' \in {issued, issued + 1}
    BY <1>1, TokensTravel DEF TypeInv
  <2>2. ASSUME NEW t \in TokenSet, Known(t, issued) PROVE Known(t, issued')
    BY <2>1, <2>2 DEF Known, TokenSet
  <2>3. Known(stored, issued') /\ Known(memory[p], issued') /\ Known(grant[p].token, issued')
    BY <2>2 DEF BoundInv, TypeInv, GrantSet
  <2>4. Known(NoToken, issued')
    BY <2>1 DEF NoToken, Known
  <2>5. Known(stored', issued')
    BY <1>1, <2>3, TokensTravel
  <2>6. Known(memory'[p], issued')
    BY <1>1, <2>3, <2>4, TokensTravel DEF Same, Known
  <2>7. Known(grant'[p].token, issued')
    <3>1. CASE Newest(p)
      BY <2>1, <2>3, <3>1 DEF Newest, Known
    <3>2. CASE ~Newest(p)
      BY <1>1, <2>3, <2>4, <3>2, TokensTravel
    <3> QED BY <3>1, <3>2
  <2>8. \A id \in request'[p].refused : id <= issued'
    <3>1. \A id \in request[p].refused : id \in Nat /\ id <= issued
      BY DEF BoundInv, TypeInv, RequestSet
    <3>2. memory[p].access <= issued'
      BY <2>3 DEF Known
    <3> QED BY <1>1, <2>1, <3>1, <3>2, TokensTravel
  <2>9. ASSUME NEW q \in Procs, q # p
        PROVE  /\ Known(memory'[q], issued') /\ Known(grant'[q].token, issued')
               /\ \A id \in request'[q].refused : id <= issued'
    <3>1. memory[q] \in TokenSet /\ grant[q].token \in TokenSet /\ request[q].refused \subseteq Nat
      BY DEF TypeInv, GrantSet, RequestSet
    <3>2. Known(memory[q], issued') /\ Known(grant[q].token, issued')
      BY <2>2, <3>1 DEF BoundInv
    <3>3. \A id \in request[q].refused : id <= issued'
      BY <2>1, <3>1 DEF BoundInv
    <3> QED BY <1>1, <2>9, <3>2, <3>3, OthersStay
  <2> QED BY <2>5, <2>6, <2>7, <2>8, <2>9 DEF BoundInv
<1>2. CASE Logout
  BY <1>2 DEF Logout, procVars, serverVars, BoundInv, TypeInv, Known, NoToken
<1>3. CASE Revoke \/ UNCHANGED vars
  BY <1>3 DEF Revoke, vars, procVars, serverVars, BoundInv
<1> QED BY <1>1, <1>2, <1>3 DEF Next, Step

-----------------------------------------------------------------------------
(* A refused token is not sent again.                                      *)

(* A refused token has lost its date by the time the next one is asked     *)
(* for, and what replaces it has a number of its own.                      *)
Dropped(p) ==
    /\ pc[p] = "send" => loaded[p] = TRUE /\ memory[p].access \notin request[p].refused
    /\ pc[p] = "token" =>
          IF loaded[p] = TRUE THEN memory[p].access \in request[p].refused => memory[p].dated = FALSE
          ELSE request[p].refused = {}
    /\ pc[p] = "save" /\ grant[p].traded # 0 => grant[p].token.access \notin request[p].refused

RefusedInv == \A p \in Procs : Dropped(p)

LEMMA RefusedInit == Init => RefusedInv
BY DEF Init, RefusedInv, Dropped

LEMMA OwnStepDrops ==
    ASSUME TypeInv, BoundInv, NEW p \in Procs, Dropped(p), Step(p)
    PROVE  Dropped(p)'
<1> USE DEF Goto
<1>0. pc'[p] = "idle" => Dropped(p)'
  BY DEF Dropped
<1>1. CASE LoadFails(p) \/ NoAccess(p) \/ RefreshLost(p) \/ SaveFails(p) \/ Return(p) \/ Exit(p)
  <2>1. pc'[p] = "idle"
    BY <1>1 DEF LoadFails, NoAccess, RefreshLost, SaveFails, Return, Exit, TypeInv
  <2> QED BY <1>0, <2>1
<1>2. CASE Load(p)
  <2>1. CASE stored = NoToken
    <3>1. pc'[p] = "idle"
      BY <1>2, <2>1 DEF Load, TypeInv
    <3> QED BY <1>0, <3>1
  <2>2. CASE stored # NoToken
    <3>1. pc'[p] = "token" /\ loaded'[p] = TRUE /\ request' = request /\ request[p].refused = {}
      BY <1>2, <2>2 DEF Load, TypeInv, Dropped
    <3> QED BY <3>1 DEF Dropped
  <2> QED BY <2>1, <2>2
<1>3. CASE UseToken(p)
  <2>1. /\ pc'[p] = "send" /\ request'[p].refused = request[p].refused
        /\ UNCHANGED <<memory, loaded>> /\ loaded[p] = TRUE
    BY <1>3 DEF UseToken, Send, TypeInv, RequestSet
  <2>2. memory[p].access \notin request[p].refused
    BY <1>3 DEF UseToken, MayBeValid, Dropped
  <2> QED BY <2>1, <2>2 DEF Dropped
<1>4. CASE Refresh(p)
  <2>1. /\ pc'[p] = "save" /\ grant'[p].token.access = issued + 1 /\ UNCHANGED request
    BY <1>4 DEF Refresh, Successor, TypeInv
  <2>2. issued + 1 \notin request[p].refused
    BY DEF BoundInv, TypeInv, RequestSet
  <2> QED BY <2>1, <2>2 DEF Dropped
<1>5. CASE Save(p)
  <2>1. CASE grant[p].traded = 0
    <3>1. pc'[p] = "idle"
      BY <1>5, <2>1 DEF Save, TypeInv
    <3> QED BY <1>0, <3>1
  <2>2. CASE grant[p].traded # 0
    <3>1. /\ pc'[p] = "send" /\ request'[p].refused = request[p].refused
          /\ memory'[p] = grant[p].token /\ loaded'[p] = TRUE
      BY <1>5, <2>2 DEF Save, Send, TypeInv, RequestSet
    <3>2. grant[p].token.access \notin request[p].refused
      BY <1>5, <2>2 DEF Save, Dropped
    <3> QED BY <3>1, <3>2 DEF Dropped
  <2> QED BY <2>1, <2>2
<1>6. CASE Refused(p)
  <2>1. /\ pc'[p] = "token" /\ loaded' = loaded /\ memory'[p].dated = FALSE
    BY <1>6 DEF Refused, TypeInv, TokenSet
  <2>2. loaded[p] = TRUE
    BY <1>6 DEF Refused, Dropped
  <2> QED BY <2>1, <2>2 DEF Dropped
<1>7. CASE Retry(p)
  <2>1. PICK done \in BOOLEAN : request'[p] = [Answered(p, done) EXCEPT !.attempt = @ + 1]
    BY <1>7 DEF Retry, MayTakeEffect, TypeInv
  <2>2. request'[p].refused = request[p].refused
    BY <2>1 DEF Answered, TypeInv, RequestSet
  <2>3. pc[p] = "send" /\ pc'[p] = "token" /\ UNCHANGED <<memory, loaded>>
    BY <1>7 DEF Retry, TypeInv
  <2> QED BY <2>2, <2>3 DEF Dropped
<1>8. ASSUME NEW method \in {"GET", "POST"}, Begin(p, method) PROVE Dropped(p)'
  <2>1. pc'[p] = "token" /\ request'[p].refused = {}
    BY <1>8 DEF Begin, NoRequest, TypeInv
  <2> QED BY <2>1 DEF Dropped
<1>9. CASE Authorize(p)
  <2>1. pc'[p] = "save" /\ grant'[p].traded = 0
    BY <1>9 DEF Authorize, TypeInv
  <2> QED BY <2>1 DEF Dropped
<1> QED BY <1>1, <1>2, <1>3, <1>4, <1>5, <1>6, <1>7, <1>8, <1>9
        DEF Step, TokenStep, SendStep, CommandStep

LEMMA RefusedStep == TypeInv /\ BoundInv /\ RefusedInv /\ [Next]_vars => RefusedInv'
<1> SUFFICES ASSUME TypeInv, BoundInv, RefusedInv, [Next]_vars, NEW q \in Procs
             PROVE  Dropped(q)'
  BY DEF RefusedInv
<1>0. Dropped(q)
  BY DEF RefusedInv
<1>1. ASSUME NEW p \in Procs, Step(p), q # p PROVE Dropped(q)'
  BY <1>0, <1>1, OthersStay DEF Dropped
<1>2. CASE Step(q)
  BY <1>0, <1>2, OwnStepDrops
<1>3. CASE Logout \/ Revoke \/ UNCHANGED vars
  BY <1>0, <1>3 DEF Logout, Revoke, vars, procVars, Dropped
<1> QED BY <1>1, <1>2, <1>3 DEF Next, Step

(* Whatever the clock, the store and other processes do meanwhile.         *)
THEOREM RefusedIsDropped == Spec => []RefusedTokenNotResent
<1>1. RefusedInv => RefusedTokenNotResent
  BY DEF RefusedInv, Dropped, RefusedTokenNotResent
<1> QED BY <1>1, TypeInit, TypeStep, BoundInit, BoundStep, RefusedInit, RefusedStep, PTL DEF Spec

-----------------------------------------------------------------------------
(* The credential store.                                                   *)

Mine(p) == grant[p].token.refresh

(* A refresh token that rotates is held by the process that was given it,  *)
(* and by nobody else, until that process stores it.                       *)
Exclusive(r) ==
    pc[r] = "save" /\ Mine(r) # 0 =>
        /\ Mine(r) # stored.refresh
        /\ \A q \in Procs : Mine(r) # memory[q].refresh
        /\ \A q \in Procs \ {r} : pc[q] = "save" => Mine(q) # Mine(r)

FreshInv == rotates = TRUE => \A r \in Procs : Exclusive(r)

LEMMA FreshInit == Init => FreshInv
BY DEF Init, FreshInv, Exclusive

LEMMA NewestIsFresh ==
    ASSUME TypeInv, BoundInv, NEW p \in Procs, Newest(p), rotates = TRUE
    PROVE  /\ grant'[p].token.refresh \in {0, issued + 1}
           /\ issued + 1 # stored.refresh
           /\ \A q \in Procs : issued + 1 # memory[q].refresh /\ issued + 1 # Mine(q)
<1>1. grant'[p].token.refresh \in {0, issued + 1}
  BY DEF Newest
<1>2. issued \in Nat /\ stored.refresh <= issued /\ stored.refresh \in Nat
  BY DEF TypeInv, BoundInv, Known, TokenSet
<1>3. \A q \in Procs : /\ memory[q].refresh \in Nat /\ memory[q].refresh <= issued
                       /\ Mine(q) \in Nat /\ Mine(q) <= issued
  BY DEF TypeInv, BoundInv, Known, TokenSet, GrantSet, Mine
<1> QED BY <1>1, <1>2, <1>3

LEMMA FreshStep == TypeInv /\ BoundInv /\ FreshInv /\ [Next]_vars => FreshInv'
<1> SUFFICES ASSUME TypeInv, BoundInv, FreshInv, [Next]_vars, rotates' = TRUE, NEW r \in Procs
             PROVE  Exclusive(r)'
  BY DEF FreshInv
<1>1. ASSUME NEW p \in Procs, Step(p) PROVE Exclusive(r)'
  <2>0. rotates = TRUE /\ Exclusive(r)
    BY <1>1, TokensTravel DEF FreshInv
  <2>1. \A q \in Procs \ {p} :
            pc'[q] = pc[q] /\ memory'[q] = memory[q] /\ Mine(q)' = Mine(q)
    BY <1>1, OthersStay DEF Mine
  <2>2. CASE r = p
    <3> SUFFICES ASSUME pc'[p] = "save", Mine(p)' # 0 PROVE Exclusive(p)'
      BY <2>2 DEF Exclusive
    <3>1. Newest(p)
      BY <1>1, TokensTravel
    <3>2. Mine(p)' = issued + 1 /\ stored' = stored /\ memory' = memory
      BY <2>0, <3>1, NewestIsFresh DEF Mine, Newest
    <3> QED BY <2>0, <2>1, <3>1, <3>2, NewestIsFresh DEF Exclusive
  <2>3. CASE r # p
    <3> SUFFICES ASSUME pc[r] = "save", Mine(r) # 0 PROVE Exclusive(r)'
      BY <2>1, <2>3 DEF Exclusive
    <3>1. /\ Mine(r)' = Mine(r) /\ Mine(r) # stored.refresh
          /\ \A q \in Procs : Mine(r) # memory[q].refresh
          /\ \A q \in Procs \ {r} : pc[q] = "save" => Mine(q) # Mine(r)
      BY <2>0, <2>1, <2>3 DEF Exclusive
    <3>2. Mine(r) # stored'.refresh
      BY <1>1, <2>3, <3>1, TokensTravel DEF Mine
    <3>3. Mine(r) # memory'[p].refresh
      <4>1. CASE pc[p] = "save" /\ memory'[p] = grant[p].token
        BY <2>3, <3>1, <4>1 DEF Mine
      <4>2. CASE \E t \in {memory[p], stored, NoToken} : Same(memory'[p], t)
        BY <3>1, <4>2 DEF Same, NoToken
      <4> QED BY <1>1, <4>1, <4>2, TokensTravel
    <3>4. pc'[p] = "save" => Mine(p)' # Mine(r)
      <4> SUFFICES ASSUME pc'[p] = "save" PROVE Mine(p)' # Mine(r)
        OBVIOUS
      <4>1. Newest(p)
        BY <1>1, TokensTravel
      <4>2. Mine(p)' \in {0, issued + 1} /\ Mine(r) # issued + 1
        BY <2>0, <4>1, NewestIsFresh DEF Mine
      <4> QED BY <4>2
    <3> QED BY <2>1, <3>1, <3>2, <3>3, <3>4 DEF Exclusive
  <2> QED BY <2>2, <2>3
<1>2. CASE Logout
  <2>1. stored'.refresh = 0 /\ UNCHANGED <<pc, memory, grant, rotates>>
    BY <1>2 DEF Logout, procVars, serverVars, NoToken
  <2> QED BY <2>1 DEF FreshInv, Exclusive, Mine
<1>3. CASE Revoke \/ UNCHANGED vars
  <2>1. UNCHANGED <<pc, memory, grant, rotates, stored>>
    BY <1>3 DEF Revoke, vars, procVars, serverVars
  <2> QED BY <2>1 DEF FreshInv, Exclusive, Mine
<1> QED BY <1>1, <1>2, <1>3 DEF Next, Step

Live == refreshable \cup orphaned

Good(t, live, bare) == t.refresh \in live \/ (t.refresh = 0 /\ t.access \in bare)

(* Only a process that is trading the stored refresh token may have        *)
(* outdated it, and only if Beatport rotates.                              *)
Trading(p) == pc[p] = "save" /\ grant[p].traded # 0 /\ grant[p].traded = stored.refresh

StoreInv ==
    /\ 0 \notin refreshable
    /\ stored # NoToken => Good(stored, Live, pasted) \/ (rotates = TRUE /\ \E p \in Procs : Trading(p))
    /\ \A p \in Procs : pc[p] = "save" => Good(grant[p].token, Live, pasted)

LEMMA StoreInit == Init => StoreInv
<1> SUFFICES ASSUME Init PROVE StoreInv
  OBVIOUS
<1>1. /\ refreshable = {1} /\ orphaned = {} /\ \A p \in Procs : pc[p] = "idle"
      /\ stored # NoToken => stored.refresh = 1
  BY DEF Init
<1> QED BY <1>1 DEF StoreInv, Good, Live

LEMMA MoreIsGood ==
    ASSUME refreshable \subseteq Live', orphaned \subseteq orphaned', pasted \subseteq pasted',
           NEW t, Good(t, Live, pasted)
    PROVE  Good(t, Live', pasted')
BY DEF Good, Live

(* Steps that neither issue a token to the process nor store one.          *)
LEMMA QuietKeepsStore ==
    ASSUME TypeInv, StoreInv, NEW p \in Procs, Step(p), pc[p] # "save", pc'[p] # "save", stored' = stored,
           0 \notin refreshable', refreshable \subseteq Live', orphaned \subseteq orphaned', pasted' = pasted
    PROVE  StoreInv'
<1>0. UNCHANGED rotates
  BY TokensTravel
<1>1. \A t : Good(t, Live, pasted) => Good(t, Live', pasted')
  BY MoreIsGood
<1>2. ASSUME NEW q \in Procs, Trading(q) PROVE Trading(q)'
  BY <1>2, OthersStay DEF Trading
<1>3. ASSUME NEW q \in Procs, pc'[q] = "save" PROVE Good(grant'[q].token, Live', pasted')
  <2>1. q # p /\ pc[q] = "save" /\ grant'[q] = grant[q]
    BY <1>3, OthersStay
  <2> QED BY <1>1, <2>1 DEF StoreInv
<1>4. stored' # NoToken =>
          Good(stored', Live', pasted') \/ (rotates' = TRUE /\ \E q \in Procs : Trading(q)')
  BY <1>0, <1>1, <1>2 DEF StoreInv
<1> QED BY <1>3, <1>4 DEF StoreInv

(* The process gives up what it traded for: the loss is on record.         *)
LEMMA LossKeepsStore ==
    ASSUME TypeInv, StoreInv, NEW p \in Procs, SaveFails(p) \/ Exit(p)
    PROVE  StoreInv'
<1>0. /\ UNCHANGED <<stored, issued, refreshable, rotates, pasted>>
      /\ orphaned' = Orphan(p) /\ pc'[p] = "idle" /\ Step(p)
  BY DEF SaveFails, Exit, Goto, serverVars, TypeInv, Step, TokenStep, CommandStep
<1>1. refreshable \subseteq Live' /\ orphaned \subseteq orphaned' /\ pasted \subseteq pasted'
  BY <1>0 DEF Live, Orphan
<1>2. \A t : Good(t, Live, pasted) => Good(t, Live', pasted')
  BY <1>1, MoreIsGood
<1>3. ASSUME rotates = TRUE, NEW q \in Procs, Trading(q)
      PROVE  Good(stored, Live', pasted') \/ Trading(q)'
  <2>1. CASE q = p
    BY <1>0, <1>3, <2>1 DEF Trading, Orphan, Good, Live
  <2>2. CASE q # p
    BY <1>0, <1>3, <2>2, OthersStay DEF Trading
  <2> QED BY <2>1, <2>2
<1>4. ASSUME NEW q \in Procs, pc'[q] = "save" PROVE Good(grant'[q].token, Live', pasted')
  <2>1. q # p /\ pc[q] = "save" /\ grant'[q] = grant[q]
    BY <1>0, <1>4, OthersStay
  <2> QED BY <1>2, <2>1 DEF StoreInv
<1>5. stored' # NoToken =>
          Good(stored', Live', pasted') \/ (rotates' = TRUE /\ \E q \in Procs : Trading(q)')
  BY <1>0, <1>2, <1>3 DEF StoreInv
<1> QED BY <1>0, <1>4, <1>5 DEF StoreInv

LEMMA SaveKeepsStore ==
    ASSUME TypeInv, StoreInv, NEW p \in Procs, Save(p)
    PROVE  StoreInv'
<1>0. /\ UNCHANGED <<refreshable, rotates, pasted, orphaned>> /\ Live' = Live
      /\ pc[p] = "save" /\ stored' = grant[p].token /\ pc'[p] # "save" /\ Step(p)
  BY DEF Save, Send, Goto, serverVars, TypeInv, Live, Step, TokenStep
<1>1. Good(stored', Live', pasted')
  BY <1>0 DEF StoreInv
<1>2. ASSUME NEW q \in Procs, pc'[q] = "save" PROVE Good(grant'[q].token, Live', pasted')
  <2>1. q # p /\ pc[q] = "save" /\ grant'[q] = grant[q]
    BY <1>0, <1>2, OthersStay
  <2> QED BY <1>0, <2>1 DEF StoreInv
<1> QED BY <1>0, <1>1, <1>2 DEF StoreInv

LEMMA RefreshKeepsStore ==
    ASSUME TypeInv, FreshInv, StoreInv, NEW p \in Procs, Refresh(p)
    PROVE  StoreInv'
<1>0. /\ UNCHANGED <<stored, rotates, pasted, orphaned, memory>> /\ refreshable' = AfterTrade(p)
      /\ Traded(p) \in refreshable /\ pc'[p] = "save" /\ pc[p] # "save" /\ Step(p)
      /\ grant'[p] = [token |-> Successor(p), traded |-> Traded(p)]
  BY DEF Refresh, MustRefresh, Issue, Goto, TypeInv, Step, TokenStep
<1>1. Traded(p) # 0 /\ issued + 1 # 0
  BY <1>0 DEF StoreInv, TypeInv
<1>2. 0 \notin refreshable'
  BY <1>0, <1>1 DEF AfterTrade, StoreInv
<1>3. Good(grant'[p].token, Live', pasted')
  BY <1>0 DEF Successor, AfterTrade, Good, Live
<1>4. Live \ {Traded(p)} \subseteq Live' /\ (rotates = FALSE => Live' = Live)
  BY <1>0 DEF AfterTrade, Live
<1>5. ASSUME NEW t, Good(t, Live, pasted), rotates = TRUE => t.refresh # Traded(p)
      PROVE  Good(t, Live', pasted')
  BY <1>0, <1>4, <1>5 DEF Good, TypeInv
<1>6. ASSUME NEW q \in Procs, pc'[q] = "save", q # p PROVE Good(grant'[q].token, Live', pasted')
  <2>1. pc[q] = "save" /\ grant'[q] = grant[q]
    BY <1>0, <1>6, OthersStay
  <2>2. Good(grant[q].token, Live, pasted)
    BY <2>1 DEF StoreInv
  <2>3. rotates = TRUE => Mine(q) # Traded(p)
    BY <1>1, <2>1 DEF FreshInv, Exclusive, Traded
  <2> QED BY <1>5, <2>1, <2>2, <2>3 DEF Mine
<1>7. ASSUME stored # NoToken
      PROVE  Good(stored, Live', pasted') \/ (rotates = TRUE /\ \E q \in Procs : Trading(q)')
  <2>1. CASE Good(stored, Live, pasted) /\ (rotates = TRUE => stored.refresh # Traded(p))
    BY <1>5, <2>1
  <2>2. CASE rotates = TRUE /\ stored.refresh = Traded(p)
    BY <1>0, <1>1, <2>2 DEF Trading
  <2>3. CASE rotates = TRUE /\ \E q \in Procs : Trading(q)
    <3>1. PICK q \in Procs : Trading(q)
      BY <2>3
    <3>2. q # p
      BY <1>0, <3>1 DEF Trading
    <3> QED BY <1>0, <2>3, <3>1, <3>2, OthersStay DEF Trading
  <2> QED BY <1>7, <2>1, <2>2, <2>3 DEF StoreInv
<1> QED BY <1>0, <1>2, <1>3, <1>6, <1>7 DEF StoreInv

LEMMA AuthorizeKeepsStore ==
    ASSUME TypeInv, StoreInv, NEW p \in Procs, Authorize(p)
    PROVE  StoreInv'
<1>1. PICK renewable \in BOOLEAN :
         /\ refreshable' = refreshable \cup ({IF renewable THEN issued + 1 ELSE 0} \ {0})
         /\ grant'[p].token.refresh = (IF renewable THEN issued + 1 ELSE 0)
         /\ grant'[p].token.access = issued + 1
         /\ pasted' = IF renewable THEN pasted ELSE pasted \cup {issued + 1}
  BY DEF Authorize, Issue, TypeInv
<1>2. /\ UNCHANGED <<stored, rotates, orphaned>> /\ pc[p] = "idle" /\ Step(p)
  BY DEF Authorize, Issue, Step, CommandStep
<1>3. Live \subseteq Live' /\ pasted \subseteq pasted' /\ 0 \notin refreshable'
  BY <1>1, <1>2 DEF Live, StoreInv
<1>4. \A t : Good(t, Live, pasted) => Good(t, Live', pasted')
  BY <1>3 DEF Good
<1>5. Good(grant'[p].token, Live', pasted')
  BY <1>1 DEF Good, Live, TypeInv
<1>6. ASSUME NEW q \in Procs, pc'[q] = "save", q # p PROVE Good(grant'[q].token, Live', pasted')
  BY <1>2, <1>4, <1>6, OthersStay DEF StoreInv
<1>7. ASSUME NEW q \in Procs, Trading(q) PROVE Trading(q)'
  <2>1. q # p
    BY <1>2, <1>7 DEF Trading
  <2> QED BY <1>2, <1>7, <2>1, OthersStay DEF Trading
<1>8. stored' # NoToken =>
          Good(stored', Live', pasted') \/ (rotates' = TRUE /\ \E q \in Procs : Trading(q)')
  BY <1>2, <1>4, <1>7 DEF StoreInv
<1> QED BY <1>3, <1>5, <1>6, <1>8 DEF StoreInv

LEMMA StoreStep == TypeInv /\ FreshInv /\ StoreInv /\ [Next]_vars => StoreInv'
<1> SUFFICES ASSUME TypeInv, FreshInv, StoreInv, [Next]_vars PROVE StoreInv'
  OBVIOUS
<1> USE DEF Goto, serverVars
<1>1. ASSUME NEW p \in Procs, SaveFails(p) \/ Exit(p) PROVE StoreInv'
  BY <1>1, LossKeepsStore
<1>2. ASSUME NEW p \in Procs, Save(p) PROVE StoreInv'
  BY <1>2, SaveKeepsStore
<1>3. ASSUME NEW p \in Procs, Refresh(p) PROVE StoreInv'
  BY <1>3, RefreshKeepsStore
<1>4. ASSUME NEW p \in Procs, Authorize(p) PROVE StoreInv'
  BY <1>4, AuthorizeKeepsStore
<1>5. ASSUME NEW p \in Procs, RefreshLost(p) PROVE StoreInv'
  <2>1. /\ Step(p) /\ pc[p] # "save" /\ pc'[p] # "save" /\ stored' = stored /\ pasted' = pasted
    BY <1>5 DEF RefreshLost, MustRefresh, TypeInv, Step, TokenStep
  <2>2. /\ refreshable' = AfterTrade(p)
        /\ orphaned' = IF rotates THEN orphaned \cup {Traded(p)} ELSE orphaned
        /\ issued + 1 # 0
    BY <1>5 DEF RefreshLost, Issue, TypeInv
  <2>3. 0 \notin refreshable' /\ refreshable \subseteq Live' /\ orphaned \subseteq orphaned'
    BY <2>2 DEF AfterTrade, Live, StoreInv
  <2> QED BY <2>1, <2>3, QuietKeepsStore
<1>6. ASSUME NEW p \in Procs,
             Load(p) \/ LoadFails(p) \/ UseToken(p) \/ NoAccess(p) \/ SendStep(p)
             \/ \E method \in {"GET", "POST"} : Begin(p, method)
      PROVE  StoreInv'
  <2>1. Step(p)
    BY <1>6 DEF Step, TokenStep, CommandStep
  <2>2. pc[p] # "save" /\ pc'[p] # "save"
    BY <1>6 DEF Load, LoadFails, UseToken, NoAccess, MustRefresh, Send, SendStep, Return, Refused, Retry,
                Begin, TypeInv
  <2>3. UNCHANGED <<stored, refreshable, pasted, orphaned>>
    BY <1>6 DEF Load, LoadFails, UseToken, NoAccess, SendStep, Return, Refused, Retry, Begin
  <2> QED BY <2>1, <2>2, <2>3, QuietKeepsStore DEF StoreInv, Live
<1>7. CASE Logout
  BY <1>7 DEF Logout, procVars, StoreInv, Live
<1>8. CASE Revoke
  <2>1. Live' = Live /\ refreshable' \subseteq refreshable
    BY <1>8 DEF Revoke, Live
  <2> QED BY <1>8, <2>1 DEF Revoke, procVars, StoreInv, Trading
<1>9. CASE UNCHANGED vars
  BY <1>9 DEF vars, procVars, StoreInv, Live, Trading
<1> QED BY <1>1, <1>2, <1>3, <1>4, <1>5, <1>6, <1>7, <1>8, <1>9 DEF Next, TokenStep, CommandStep

(* For any number of processes over one store, whether Beatport rotates    *)
(* its refresh tokens or not.                                              *)
THEOREM StoreKeepsUp == Spec => []StoredRefreshLives
<1>1. StoreInv => StoredRefreshLives
  BY DEF StoreInv, Good, Live, Trading, StoredRefreshLives
<1> QED BY <1>1, TypeInit, TypeStep, BoundInit, BoundStep, FreshInit, FreshStep, StoreInit, StoreStep,
           PTL DEF Spec

-----------------------------------------------------------------------------
(* How long a request can take.                                            *)

(* How often a request may still be sent again: once for a 401, and once   *)
(* for each retry that is left.                                            *)
Resends(p) ==
    (IF request[p].attempt < MaxRetries THEN MaxRetries - request[p].attempt ELSE 0)
      + (IF request[p].refreshed THEN 0 ELSE 1)

(* The steps from here to the answer of one send.                          *)
StepsToAnswer(p) ==
    CASE pc[p] = "token" /\ ~loaded[p] -> 4
      [] pc[p] = "token" /\ loaded[p]  -> 3
      [] pc[p] = "save"                -> 2
      [] OTHER                         -> 1

StepsLeft(p) == IF pc[p] = "idle" THEN 0 ELSE 4 * Resends(p) + StepsToAnswer(p)

(* A request takes 4 * MaxRetries + 8 steps at most: each step of its own  *)
(* leaves fewer, and nothing that others do in the course of it more.      *)
RequestIsShort ==
    /\ [](\A p \in Procs : StepsLeft(p) \in 0..(4 * MaxRetries + 8))
    /\ [][\A p \in Procs :
             /\ TokenStep(p) \/ SendStep(p) => StepsLeft(p)' < StepsLeft(p)
             /\ pc[p] # "idle" => StepsLeft(p)' <= StepsLeft(p)]_vars

LEMMA StepsAreCounted ==
    ASSUME TypeInv, NEW p \in Procs
    PROVE  /\ Resends(p) \in 0..(MaxRetries + 1) /\ StepsToAnswer(p) \in 1..4
           /\ StepsLeft(p) \in 0..(4 * MaxRetries + 8)
<1>1. MaxRetries \in Nat /\ request[p].attempt \in Nat /\ request[p].refreshed \in BOOLEAN
  BY RetryAssumption DEF TypeInv, RequestSet
<1>2. Resends(p) \in 0..(MaxRetries + 1)
  BY <1>1 DEF Resends
<1>3. StepsToAnswer(p) \in 1..4
  BY DEF StepsToAnswer
<1> HIDE DEF Resends, StepsToAnswer
<1> QED BY <1>1, <1>2, <1>3 DEF StepsLeft

(* A step on the way to the answer leaves the request as it is, or ends it.*)
LEMMA TokenStepCounts ==
    ASSUME TypeInv, NEW p \in Procs, TokenStep(p)
    PROVE  StepsLeft(p)' < StepsLeft(p)
<1>1. /\ Resends(p) \in 0..(MaxRetries + 1) /\ StepsToAnswer(p) \in 1..4
      /\ MaxRetries \in Nat /\ pc \in [Procs -> {"idle", "token", "save", "send"}]
      /\ loaded \in [Procs -> BOOLEAN] /\ request \in [Procs -> RequestSet]
  BY StepsAreCounted, RetryAssumption DEF TypeInv
<1>2. pc[p] \in {"token", "save"} /\ StepsLeft(p) = 4 * Resends(p) + StepsToAnswer(p)
  BY DEF TokenStep, Load, LoadFails, UseToken, NoAccess, MustRefresh, Refresh, RefreshLost, Save,
         SaveFails, StepsLeft
<1>3. CASE pc'[p] = "idle"
  <2>1. StepsLeft(p)' = 0
    BY <1>3 DEF StepsLeft
  <2> QED BY <1>1, <1>2, <2>1
<1>4. CASE pc'[p] # "idle"
  <2>1. Resends(p)' = Resends(p)
    <3>1. request'[p].attempt = request[p].attempt /\ request'[p].refreshed = request[p].refreshed
      BY <1>1, <1>4 DEF TokenStep, Load, LoadFails, UseToken, NoAccess, MustRefresh, Refresh, RefreshLost,
         Save, SaveFails, Goto, Send, RequestSet
    <3> QED BY <3>1 DEF Resends
  <2>2. StepsToAnswer(p)' < StepsToAnswer(p)
    BY <1>1, <1>4 DEF TokenStep, Load, LoadFails, UseToken, NoAccess, MustRefresh, Refresh, RefreshLost,
       Save, SaveFails, Goto, Send, StepsToAnswer
  <2>3. StepsLeft(p)' = 4 * Resends(p)' + StepsToAnswer(p)' /\ StepsToAnswer(p)' \in 1..4
    BY <1>4 DEF StepsLeft, StepsToAnswer
  <2> HIDE DEF Resends, StepsToAnswer
  <2> QED BY <1>1, <1>2, <2>1, <2>2, <2>3
<1> QED BY <1>3, <1>4

(* What is sent again was answered by a 401, or takes one of the retries.  *)
LEMMA SendStepCounts ==
    ASSUME TypeInv, NEW p \in Procs, SendStep(p)
    PROVE  StepsLeft(p)' < StepsLeft(p)
<1>1. /\ Resends(p) \in 0..(MaxRetries + 1) /\ MaxRetries \in Nat
      /\ pc \in [Procs -> {"idle", "token", "save", "send"}]
      /\ request \in [Procs -> RequestSet]
      /\ request[p].attempt \in Nat /\ request[p].refreshed \in BOOLEAN
  BY StepsAreCounted, RetryAssumption DEF TypeInv, RequestSet
<1>2. pc[p] = "send" /\ StepsLeft(p) = 4 * Resends(p) + 1
  BY DEF SendStep, Return, Refused, Retry, StepsLeft, StepsToAnswer
<1>3. CASE Return(p)
  <2>1. StepsLeft(p)' = 0
    BY <1>1, <1>3 DEF Return, Goto, StepsLeft
  <2> QED BY <1>1, <1>2, <2>1
<1>4. CASE Refused(p) \/ Retry(p)
  <2>1. /\ request'[p].attempt = request[p].attempt + 1
        /\ \/ request[p].refreshed = FALSE /\ request'[p].refreshed = TRUE
           \/ request'[p].refreshed = request[p].refreshed /\ request[p].attempt < MaxRetries
    <3>1. CASE Refused(p)
      BY <1>1, <3>1 DEF Refused, Answered, RequestSet
    <3>2. CASE Retry(p)
      BY <1>1, <3>2 DEF Retry, Answered, RequestSet
    <3> QED BY <1>4, <3>1, <3>2
  <2>2. Resends(p)' < Resends(p) /\ Resends(p)' \in Int
    BY <1>1, <2>1 DEF Resends
  <2>3. StepsLeft(p)' = 4 * Resends(p)' + StepsToAnswer(p)' /\ StepsToAnswer(p)' \in 1..4
    <3>1. pc'[p] = "token"
      BY <1>1, <1>4 DEF Refused, Retry, Goto
    <3> QED BY <3>1 DEF StepsLeft, StepsToAnswer
  <2> HIDE DEF Resends, StepsToAnswer
  <2> QED BY <1>1, <1>2, <2>2, <2>3
<1> QED BY <1>3, <1>4 DEF SendStep

LEMMA RequestStepCounts ==
    ASSUME TypeInv, [Next]_vars, NEW p \in Procs
    PROVE  /\ TokenStep(p) \/ SendStep(p) => StepsLeft(p)' < StepsLeft(p)
           /\ pc[p] # "idle" => StepsLeft(p)' <= StepsLeft(p)
<1>1. StepsLeft(p) \in 0..(4 * MaxRetries + 8) /\ StepsLeft(p)' \in 0..(4 * MaxRetries + 8)
  <2>1. \A q \in Procs : StepsLeft(q) \in 0..(4 * MaxRetries + 8)
    BY StepsAreCounted
  <2>2. StepsLeft(p)' \in 0..(4 * MaxRetries + 8)
    <3>1. TypeInv'
      BY TypeStep
    <3>2. MaxRetries \in Nat /\ request'[p].attempt \in Nat /\ request'[p].refreshed \in BOOLEAN
      BY <3>1, RetryAssumption DEF TypeInv, RequestSet
    <3>3. Resends(p)' \in 0..(MaxRetries + 1)
      BY <3>2 DEF Resends
    <3>4. StepsToAnswer(p)' \in 1..4
      BY DEF StepsToAnswer
    <3> HIDE DEF Resends, StepsToAnswer
    <3> QED BY <3>2, <3>3, <3>4 DEF StepsLeft
  <2> QED BY <2>1, <2>2
<1>2. TokenStep(p) \/ SendStep(p) => StepsLeft(p)' < StepsLeft(p)
  BY TokenStepCounts, SendStepCounts
<1>3. ASSUME pc[p] # "idle" PROVE StepsLeft(p)' <= StepsLeft(p)
  <2>1. CASE TokenStep(p) \/ SendStep(p)
    BY <1>1, <1>2, <2>1, RetryAssumption
  <2>2. CASE CommandStep(p)
    <3>1. Exit(p)
      BY <1>3, <2>2 DEF CommandStep, Begin, Authorize
    <3>2. StepsLeft(p)' = 0
      BY <3>1 DEF Exit, Goto, StepsLeft, TypeInv
    <3> QED BY <1>1, <3>2, RetryAssumption
  <2>3. CASE pc'[p] = pc[p] /\ loaded'[p] = loaded[p] /\ request'[p] = request[p]
    <3>1. StepsLeft(p)' = StepsLeft(p)
      BY <2>3 DEF StepsLeft, Resends, StepsToAnswer
    <3> QED BY <1>1, <3>1, RetryAssumption
  <2>4. ASSUME NEW q \in Procs, q # p, Step(q)
        PROVE  pc'[p] = pc[p] /\ loaded'[p] = loaded[p] /\ request'[p] = request[p]
    BY <2>4, OthersStay
  <2>5. Logout \/ Revoke \/ UNCHANGED vars =>
            pc'[p] = pc[p] /\ loaded'[p] = loaded[p] /\ request'[p] = request[p]
    BY DEF Logout, Revoke, vars, procVars
  <2> QED BY <2>1, <2>2, <2>3, <2>4, <2>5 DEF Next, Step
<1> QED BY <1>2, <1>3

(* "Invalid credentials are never retried indefinitely": whatever Beatport *)
(* answers, and whatever other processes do to the store, a request has    *)
(* its answer, or an error, after 4 * MaxRetries + 8 steps.                *)
THEOREM RequestsAreShort == Spec => RequestIsShort
<1>1. Init => TypeInv
  BY TypeInit
<1>2. TypeInv /\ [Next]_vars => TypeInv'
  BY TypeStep
<1> DEFINE Bounded == \A p \in Procs : StepsLeft(p) \in 0..(4 * MaxRetries + 8)
           Counts == \A p \in Procs :
                         /\ TokenStep(p) \/ SendStep(p) => StepsLeft(p)' < StepsLeft(p)
                         /\ pc[p] # "idle" => StepsLeft(p)' <= StepsLeft(p)
<1>3. TypeInv => Bounded
  BY StepsAreCounted
<1>4. TypeInv /\ [Next]_vars => [Counts]_vars
  BY RequestStepCounts
<1> QED BY <1>1, <1>2, <1>3, <1>4, PTL DEF Spec, RequestIsShort

=============================================================================
