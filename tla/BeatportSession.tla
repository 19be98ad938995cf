--------------------------- MODULE BeatportSession ---------------------------
(***************************************************************************)
(* Authenticated requests to Beatport: Client.request with its retries,    *)
(* AuthManager with its refresh, and the credential store under it, shared *)
(* by the processes of several terminals.                                  *)
(*                                                                         *)
(* Access and refresh tokens are the serial numbers under which Beatport   *)
(* issued them.  A cancelled context makes every later call of a process   *)
(* fail; each of those failures is among the outcomes of the calls below.  *)
(* Whether a token is within five minutes of its expiry is the clock's     *)
(* choice at every call, whether Beatport accepts it is Beatport's.        *)
(***************************************************************************)
EXTENDS Integers, FiniteSets

CONSTANTS
    Procs,          \* running bpbridge commands
    MaxRetries,     \* Client.maxRetries
    MaxTokens       \* bound: tokens Beatport issues

ASSUME RetryAssumption == MaxRetries \in Nat
ASSUME TokenAssumption == MaxTokens \in Nat \ {0}

Serials == 1..MaxTokens

(* A beatport.Token; 0 is the empty string, dated is IssuedAt > 0.         *)
Token == [access : Serials, refresh : {0} \cup Serials, dated : BOOLEAN]
NoToken == [access |-> 0, refresh |-> 0, dated |-> FALSE]

VARIABLES
    pc,         \* per process: "idle", "token", "save" or "send"
    memory,     \* AuthManager.token
    loaded,     \* AuthManager.loaded
    grant,      \* the token just issued, and the refresh token traded for it
    request,    \* method, attempt, refreshed and, as history, what was sent
    stored,     \* the token in the credential store
    issued,     \* Beatport: the last serial number
    refreshable,\* Beatport: the refresh tokens it accepts
    rotates,    \* Beatport: whether a refresh replaces the refresh token
    pasted,     \* history: access tokens imported without a refresh token
    orphaned    \* history: refresh tokens revoked, or whose successor was lost

procVars   == <<pc, memory, loaded, grant, request>>
serverVars == <<issued, refreshable, rotates>>
vars == <<procVars, stored, serverVars, pasted, orphaned>>

NoGrant == [token |-> NoToken, traded |-> 0]
NoRequest == [method |-> "GET", attempt |-> 0, refreshed |-> FALSE,
              sends |-> 0, effects |-> 0, refused |-> {}]

Init ==
    /\ pc = [p \in Procs |-> "idle"]
    /\ memory = [p \in Procs |-> NoToken]
    /\ loaded = [p \in Procs |-> FALSE]
    /\ grant = [p \in Procs |-> NoGrant]
    /\ request = [p \in Procs |-> NoRequest]
    /\ stored \in {NoToken, [access |-> 1, refresh |-> 1, dated |-> TRUE]}
    /\ issued = 1 /\ refreshable = {1} /\ rotates \in BOOLEAN
    /\ pasted = {} /\ orphaned = {}

-----------------------------------------------------------------------------
(* AuthManager.AccessToken.                                                *)

Goto(p, label) == pc' = [pc EXCEPT ![p] = label]

(* The request is over, and only what it did is remembered.                *)
Close(p, effects) == request' = [request EXCEPT ![p] = [NoRequest EXCEPT !.effects = effects]]

(* The request goes out with the bearer token.                             *)
Send(p) == Goto(p, "send") /\ request' = [request EXCEPT ![p].sends = @ + 1]

(* Token.Valid: a token is only used with a date, and not within five      *)
(* minutes of its expiry.                                                  *)
MayBeValid(token) == token.access # 0 /\ token.dated

(* The first use of the manager reads the store.  A failed read is not     *)
(* repeated: loaded is set before it.                                      *)
Load(p) ==
    /\ pc[p] = "token" /\ ~loaded[p]
    /\ loaded' = [loaded EXCEPT ![p] = TRUE]
    /\ memory' = [memory EXCEPT ![p] = stored]
    /\ IF stored = NoToken THEN Goto(p, "idle") /\ Close(p, request[p].effects) ELSE UNCHANGED <<pc, request>>
    /\ UNCHANGED <<grant, stored, serverVars, pasted, orphaned>>

LoadFails(p) ==
    /\ pc[p] = "token" /\ ~loaded[p]
    /\ loaded' = [loaded EXCEPT ![p] = TRUE]
    /\ Goto(p, "idle") /\ Close(p, request[p].effects)
    /\ UNCHANGED <<memory, grant, stored, serverVars, pasted, orphaned>>

UseToken(p) ==
    /\ pc[p] = "token" /\ loaded[p] /\ MayBeValid(memory[p])
    /\ Send(p)
    /\ UNCHANGED <<memory, loaded, grant, stored, serverVars, pasted, orphaned>>

MustRefresh(p) == pc[p] = "token" /\ loaded[p]

(* No token, no refresh token, a refused or failed refresh: the call       *)
(* returns the error, and the memory keeps what it had.                    *)
NoAccess(p) ==
    /\ MustRefresh(p)
    /\ Goto(p, "idle") /\ Close(p, request[p].effects)
    /\ UNCHANGED <<memory, loaded, grant, stored, serverVars, pasted, orphaned>>

Issue(refresh) ==
    /\ issued < MaxTokens
    /\ issued' = issued + 1
    /\ UNCHANGED rotates
    /\ refreshable' = refresh

Traded(p) == memory[p].refresh

(* Mutant: the replacement is taken as it comes, refresh token or not.     *)
SuccessorAsSent(p) ==
    [access |-> issued + 1, refresh |-> IF rotates THEN issued + 1 ELSE 0, dated |-> TRUE]

(* refreshLocked keeps the old refresh token if the answer has none.       *)
Successor(p) ==
    [access |-> issued + 1, refresh |-> IF rotates THEN issued + 1 ELSE Traded(p), dated |-> TRUE]

AfterTrade(p) ==
    IF rotates THEN (refreshable \ {Traded(p)}) \cup {issued + 1} ELSE refreshable

Refresh(p) ==
    /\ MustRefresh(p) /\ Traded(p) \in refreshable
    /\ Issue(AfterTrade(p))
    /\ grant' = [grant EXCEPT ![p] = [token |-> Successor(p), traded |-> Traded(p)]]
    /\ Goto(p, "save")
    /\ UNCHANGED <<memory, loaded, request, stored, pasted, orphaned>>

(* Beatport renewed the token, but its answer was lost or unreadable.      *)
RefreshLost(p) ==
    /\ MustRefresh(p) /\ Traded(p) \in refreshable
    /\ Issue(AfterTrade(p))
    /\ orphaned' = IF rotates THEN orphaned \cup {Traded(p)} ELSE orphaned
    /\ Goto(p, "idle") /\ Close(p, request[p].effects)
    /\ UNCHANGED <<memory, loaded, grant, stored, pasted>>

(* saveLocked: the memory first, then the store.                           *)
Save(p) ==
    /\ pc[p] = "save"
    /\ memory' = [memory EXCEPT ![p] = grant[p].token]
    /\ loaded' = [loaded EXCEPT ![p] = TRUE]
    /\ stored' = grant[p].token
    /\ IF grant[p].traded = 0 THEN Goto(p, "idle") /\ UNCHANGED request
       ELSE Send(p)
    /\ grant' = [grant EXCEPT ![p] = NoGrant]
    /\ UNCHANGED <<serverVars, pasted, orphaned>>

Orphan(p) == IF rotates /\ grant[p].traded # 0 THEN orphaned \cup {grant[p].traded} ELSE orphaned

(* The store refuses the token, or the context is done: the memory has it. *)
SaveFails(p) ==
    /\ pc[p] = "save"
    /\ memory' = [memory EXCEPT ![p] = grant[p].token]
    /\ loaded' = [loaded EXCEPT ![p] = TRUE]
    /\ orphaned' = Orphan(p)
    /\ Goto(p, "idle") /\ Close(p, request[p].effects)
    /\ grant' = [grant EXCEPT ![p] = NoGrant]
    /\ UNCHANGED <<stored, serverVars, pasted>>

-----------------------------------------------------------------------------
(* Client.request.                                                         *)

Begin(p, method) ==
    /\ pc[p] = "idle"
    /\ request' = [request EXCEPT ![p] = [NoRequest EXCEPT !.method = method]]
    /\ Goto(p, "token")
    /\ UNCHANGED <<memory, loaded, grant, stored, serverVars, pasted, orphaned>>

(* Beatport did what was asked for, or not.                                *)
Answered(p, done) == [request[p] EXCEPT !.effects = @ + (IF done THEN 1 ELSE 0)]

MayTakeEffect(p) == request[p].method = "POST"

(* Success, an error that is not retried, a body that cannot be read, or   *)
(* the end of the retries.                                                 *)
Return(p) ==
    /\ pc[p] = "send"
    /\ \E done \in {FALSE, MayTakeEffect(p)} : Close(p, Answered(p, done).effects)
    /\ Goto(p, "idle")
    /\ UNCHANGED <<memory, loaded, grant, stored, serverVars, pasted, orphaned>>

(* Mutants: the first 401 does not invalidate the token; is not remembered.*)
RefusedKeepsToken(p) ==
    /\ pc[p] = "send" /\ ~request[p].refreshed
    /\ request' = [request EXCEPT ![p] = [Answered(p, FALSE) EXCEPT
                      !.refreshed = TRUE, !.attempt = @ + 1, !.refused = {memory[p].access}]]
    /\ Goto(p, "token")
    /\ UNCHANGED <<memory, loaded, grant, stored, serverVars, pasted, orphaned>>

RefusedForgets(p) ==
    /\ pc[p] = "send" /\ request[p].sends <= MaxRetries + 2
    /\ request' = [request EXCEPT ![p] = [Answered(p, FALSE) EXCEPT !.refused = {memory[p].access}]]
    /\ memory' = [memory EXCEPT ![p].dated = FALSE]
    /\ Goto(p, "token")
    /\ UNCHANGED <<loaded, grant, stored, serverVars, pasted, orphaned>>

(* A 401 is answered once per request by a new token; the second returns.  *)
Refused(p) ==
    /\ pc[p] = "send" /\ ~request[p].refreshed
    /\ request' = [request EXCEPT ![p] = [Answered(p, FALSE) EXCEPT
                      !.refreshed = TRUE, !.attempt = @ + 1, !.refused = {memory[p].access}]]
    /\ memory' = [memory EXCEPT ![p].dated = FALSE]
    /\ Goto(p, "token")
    /\ UNCHANGED <<loaded, grant, stored, serverVars, pasted, orphaned>>

(* Mutants: writes are retried too; a failed attempt is not counted.       *)
RetryAnyMethod(p) ==
    /\ pc[p] = "send" /\ request[p].attempt < MaxRetries
    /\ \E done \in {FALSE, MayTakeEffect(p)} :
          request' = [request EXCEPT ![p] = [Answered(p, done) EXCEPT !.attempt = @ + 1]]
    /\ Goto(p, "token")
    /\ UNCHANGED <<memory, loaded, grant, stored, serverVars, pasted, orphaned>>

RetryForever(p) ==
    /\ pc[p] = "send" /\ request[p].method = "GET" /\ request[p].attempt < MaxRetries
    /\ request' = [request EXCEPT ![p].sends = @ - 1]
    /\ Goto(p, "token")
    /\ UNCHANGED <<memory, loaded, grant, stored, serverVars, pasted, orphaned>>

(* No answer, 429 or 5xx: reads are sent again, up to MaxRetries.          *)
Retry(p) ==
    /\ pc[p] = "send" /\ request[p].method = "GET" /\ request[p].attempt < MaxRetries
    /\ \E done \in {FALSE, MayTakeEffect(p)} :
          request' = [request EXCEPT ![p] = [Answered(p, done) EXCEPT !.attempt = @ + 1]]
    /\ Goto(p, "token")
    /\ UNCHANGED <<memory, loaded, grant, stored, serverVars, pasted, orphaned>>

-----------------------------------------------------------------------------
(* The commands around a request.                                          *)

(* auth beatport: Login, or ImportJSON of a token issued elsewhere, which  *)
(* may come without a refresh token.                                       *)
Authorize(p) ==
    /\ pc[p] = "idle"
    /\ \E renewable \in BOOLEAN :
          LET refresh == IF renewable THEN issued + 1 ELSE 0
              token == [access |-> issued + 1, refresh |-> refresh, dated |-> TRUE]
          IN  /\ Issue(refreshable \cup ({refresh} \ {0}))
              /\ grant' = [grant EXCEPT ![p] = [token |-> token, traded |-> 0]]
              /\ pasted' = IF renewable THEN pasted ELSE pasted \cup {issued + 1}
    /\ Goto(p, "save")
    /\ UNCHANGED <<memory, loaded, request, stored, orphaned>>

(* logout beatport deletes the credential, and knows no other process.     *)
Logout ==
    /\ stored' = NoToken
    /\ UNCHANGED <<procVars, serverVars, pasted, orphaned>>

(* A command ends, or dies anywhere; the terminal starts another one.      *)
Exit(p) ==
    /\ orphaned' = Orphan(p)
    /\ Goto(p, "idle")
    /\ memory' = [memory EXCEPT ![p] = NoToken]
    /\ loaded' = [loaded EXCEPT ![p] = FALSE]
    /\ grant' = [grant EXCEPT ![p] = NoGrant]
    /\ request' = [request EXCEPT ![p] = NoRequest]
    /\ UNCHANGED <<stored, serverVars, pasted>>

-----------------------------------------------------------------------------
Revoke ==
    /\ \E token \in refreshable :
          /\ refreshable' = refreshable \ {token}
          /\ orphaned' = orphaned \cup {token}
    /\ UNCHANGED <<procVars, stored, issued, rotates, pasted>>

TokenStep(p) ==
    \/ Load(p) \/ LoadFails(p) \/ UseToken(p) \/ NoAccess(p)
    \/ Refresh(p) \/ RefreshLost(p) \/ Save(p) \/ SaveFails(p)

SendStep(p) == Return(p) \/ Refused(p) \/ Retry(p)

CommandStep(p) == (\E method \in {"GET", "POST"} : Begin(p, method)) \/ Authorize(p) \/ Exit(p)

Next ==
    \/ \E p \in Procs : TokenStep(p) \/ SendStep(p) \/ CommandStep(p)
    \/ Logout \/ Revoke

(* A process executes what it has begun: its calls return, with timeouts.  *)
Spec == Init /\ [][Next]_vars /\ \A p \in Procs : WF_vars(TokenStep(p) \/ SendStep(p))

-----------------------------------------------------------------------------

(* "a response may be lost after the server commits a write": whatever is  *)
(* lost, refused or retried, a POST takes effect at most once.             *)
PostTakesEffectOnce ==
    \A p \in Procs : request[p].effects <= 1

(* "A 401 gets at most one authentication refresh": a write is sent at     *)
(* most twice, a read MaxRetries + 2 times, the 401 taking one retry       *)
(* unless it is the last answer.                                           *)
SendsBounded ==
    \A p \in Procs :
        /\ request[p].method = "POST" => request[p].sends <= 2
        /\ request[p].sends <= MaxRetries + (IF request[p].refreshed THEN 2 ELSE 1)

(* A token that a request was refused with is not sent again by it, with   *)
(* whatever the clock, the store or another process did meanwhile.         *)
RefusedTokenNotResent ==
    \A p \in Procs : pc[p] = "send" => memory[p].access \notin request[p].refused

(* The credential store never falls behind: its refresh token is one       *)
(* Beatport honours, or is being traded this moment, or was lost by a      *)
(* revocation, a lost answer, a failed save or the death of a process;     *)
(* only a token pasted without one has none.  It holds for any number of   *)
(* processes that share the store as long as Beatport rotates always or    *)
(* never.                                                                  *)
StoredRefreshLives ==
    stored # NoToken =>
        \/ stored.refresh \in refreshable \cup orphaned
        \/ stored.refresh = 0 /\ stored.access \in pasted
        \/ \E p \in Procs : pc[p] = "save" /\ grant[p].traded = stored.refresh

(* "Invalid credentials are never retried indefinitely": every request     *)
(* returns, whatever is answered.  It is stated of one process: nothing    *)
(* tells the others apart from it.                                         *)
RequestReturns ==
    LET p == CHOOSE q \in Procs : TRUE IN pc[p] # "idle" ~> pc[p] = "idle"

=============================================================================
