--------------------------- MODULE SpotifySession ---------------------------
(***************************************************************************)
(* The Spotify side of one terminal: `auth spotify --user`, which waits    *)
(* on a loopback port for the browser and trades the code for a token, and *)
(* `spotify <playlist>`, which loads the token, fetches the playlist page  *)
(* by page, renewing the token in memory, and stores it afterwards.        *)
(*                                                                         *)
(* Tokens and attempts to authorize are serial numbers; 0 is none.  A      *)
(* cancelled context makes later calls fail as they may fail anyway.       *)
(***************************************************************************)
EXTENDS Integers, FiniteSets

CONSTANTS
    MaxTokens,      \* bound: tokens Spotify issues
    MaxAttempts,    \* bound: attempts to authorize
    MaxPages,       \* bound: pages of a playlist
    MaxRetries      \* Client.maxRetries

ASSUME BoundAssumption ==
    /\ MaxTokens \in Nat \ {0} /\ MaxAttempts \in Nat
    /\ MaxPages \in Nat \ {0} /\ MaxRetries \in Nat

Serials == 0..MaxTokens
Token == [access : Serials, refresh : Serials]
NoToken == [access |-> 0, refresh |-> 0]

VARIABLES
    pc,         \* "idle"; "wait", "exchange", "save"; "fetch", "token", "send", "persist"
    stored,     \* the credential spotify.token_json; NoToken when there is none
    attempt,    \* the state of the running or last attempt
    listening,  \* the receiver's port is open
    result,     \* LoopbackReceiver.results: none, or one callback
    code,       \* the code that Wait returned: the attempt it was issued for
    user,       \* spotifySession.userToken; else Client Credentials
    held,       \* TokenManager.token
    source,     \* RefreshTokenSource.last, with its refresh token
    pages,      \* pages fetched
    retries, retried,   \* getJSON: transientRetries, authRetried
    refused,    \* the fetch ended with ErrReauthorizationRequired
    issued, refreshable, rotates,   \* Spotify: tokens issued, refresh tokens honoured
    orphaned    \* history: refresh tokens revoked, or whose successor was lost

authVars   == <<attempt, listening, result, code>>
fetchVars  == <<user, held, source, pages, refused>>
sendVars   == <<retries, retried>>
serverVars == <<issued, refreshable, rotates>>
vars == <<pc, stored, authVars, fetchVars, sendVars, serverVars, orphaned>>

NoResult == [attempt |-> 0, granted |-> FALSE]

Init ==
    /\ pc = "idle"
    /\ stored \in {NoToken, [access |-> 1, refresh |-> 1]}
    /\ attempt = 0 /\ listening = FALSE /\ result = NoResult /\ code = 0
    /\ user = FALSE /\ held = NoToken /\ source = NoToken /\ pages = 0 /\ refused = FALSE
    /\ retries = 0 /\ retried = FALSE
    /\ issued = 1 /\ refreshable = {1} /\ rotates \in BOOLEAN
    /\ orphaned = {}

-----------------------------------------------------------------------------
(* auth spotify --user                                                     *)

Authorize ==
    /\ pc = "idle" /\ ~listening /\ attempt < MaxAttempts
    /\ pc' = "wait" /\ listening' = TRUE
    /\ attempt' = attempt + 1
    /\ result' = NoResult /\ code' = 0
    /\ UNCHANGED <<stored, fetchVars, sendVars, serverVars, orphaned>>

Publish(answer) == result' = IF result = NoResult THEN answer ELSE result

(* Mutant: the state is not compared.                                      *)
CallbackOfAnyAttempt ==
    /\ listening
    /\ \E granted \in BOOLEAN, tab \in 1..attempt : Publish([attempt |-> tab, granted |-> granted])
    /\ UNCHANGED <<pc, stored, attempt, listening, code, fetchVars, sendVars, serverVars, orphaned>>

(* A tab of the browser calls back, with a code or with an error.  A tab   *)
(* of an earlier attempt is told that its state does not match.            *)
Callback ==
    /\ listening
    /\ \E granted \in BOOLEAN, tab \in 1..attempt :
          tab = attempt /\ Publish([attempt |-> tab, granted |-> granted])
    /\ UNCHANGED <<pc, stored, attempt, listening, code, fetchVars, sendVars, serverVars, orphaned>>

WaitReturns ==
    /\ pc = "wait" /\ result # NoResult
    /\ listening' = FALSE
    /\ pc' = IF result.granted THEN "exchange" ELSE "idle"
    /\ code' = IF result.granted THEN result.attempt ELSE 0
    /\ UNCHANGED <<stored, attempt, result, fetchVars, sendVars, serverVars, orphaned>>

(* Five minutes, or SIGINT; it may come first though a result is there.    *)
WaitEnds ==
    /\ pc = "wait"
    /\ listening' = FALSE
    /\ pc' = "idle"
    /\ UNCHANGED <<stored, attempt, result, code, fetchVars, sendVars, serverVars, orphaned>>

Issue(refresh) ==
    /\ issued < MaxTokens
    /\ issued' = issued + 1
    /\ refreshable' = refresh
    /\ UNCHANGED rotates

Fresh == [access |-> issued + 1, refresh |-> issued + 1]

(* The code is traded for a token and the token is stored; either fails.   *)
Exchange ==
    /\ pc = "exchange"
    /\ Issue(refreshable \cup {issued + 1})
    /\ held' = Fresh
    /\ pc' = "save"
    /\ UNCHANGED <<stored, authVars, user, source, pages, refused, sendVars, orphaned>>

ExchangeFails ==
    /\ pc = "exchange"
    /\ pc' = "idle"
    /\ UNCHANGED <<stored, authVars, fetchVars, sendVars, serverVars, orphaned>>

SaveAuthorized ==
    /\ pc = "save"
    /\ stored' \in {held, stored}
    /\ pc' = "idle" /\ held' = NoToken
    /\ UNCHANGED <<authVars, user, source, pages, refused, sendVars, serverVars, orphaned>>

-----------------------------------------------------------------------------
(* spotify <playlist>: loadSpotifySource.                                  *)

(* spotifyServices: a stored refresh token means user authorization.       *)
StartImport ==
    /\ pc = "idle"
    /\ pc' = "fetch"
    /\ user' = (stored.refresh # 0)
    /\ held' = stored /\ source' = stored
    /\ pages' = 0 /\ refused' = FALSE
    /\ UNCHANGED <<stored, authVars, sendVars, serverVars, orphaned>>

(* The next page, or the metadata, which are requests of their own.        *)
NextPage ==
    /\ pc = "fetch" /\ pages < MaxPages
    /\ pc' = "token"
    /\ retries' = 0 /\ retried' = FALSE
    /\ UNCHANGED <<stored, authVars, fetchVars, serverVars, orphaned>>

LastPage ==
    /\ pc = "fetch" /\ pages > 0
    /\ pc' = "persist"
    /\ UNCHANGED <<stored, authVars, fetchVars, sendVars, serverVars, orphaned>>

UseToken ==
    /\ pc = "token" /\ held.access # 0
    /\ pc' = "send"
    /\ UNCHANGED <<stored, authVars, fetchVars, sendVars, serverVars, orphaned>>

(* Client Credentials: a new token is never stored.                        *)
AppToken ==
    /\ pc = "token" /\ ~user
    /\ Issue(refreshable)
    /\ held' = [access |-> issued + 1, refresh |-> 0]
    /\ pc' = "send"
    /\ UNCHANGED <<stored, authVars, user, source, pages, refused, sendVars, orphaned>>

(* RefreshTokenSource keeps the refresh token that Spotify omits.          *)
Successor == [access |-> issued + 1, refresh |-> IF rotates THEN issued + 1 ELSE source.refresh]

AfterTrade ==
    IF rotates THEN (refreshable \ {source.refresh}) \cup {issued + 1} ELSE refreshable

Refresh ==
    /\ pc = "token" /\ user /\ source.refresh \in refreshable
    /\ Issue(AfterTrade)
    /\ held' = Successor /\ source' = Successor
    /\ pc' = "send"
    /\ UNCHANGED <<stored, authVars, user, pages, refused, sendVars, orphaned>>

(* The answer is lost: the source keeps a token that is no longer good.    *)
RefreshLost ==
    /\ pc = "token" /\ user /\ source.refresh \in refreshable
    /\ Issue(AfterTrade)
    /\ orphaned' = IF rotates THEN orphaned \cup {source.refresh} ELSE orphaned
    /\ pc' = "persist"
    /\ UNCHANGED <<stored, authVars, fetchVars, sendVars>>

(* Spotify answers invalid_grant.                                          *)
RefreshRefused ==
    /\ pc = "token" /\ user /\ source.refresh \notin refreshable
    /\ refused' = TRUE
    /\ pc' = "persist"
    /\ UNCHANGED <<stored, authVars, user, held, source, pages, sendVars, serverVars, orphaned>>

TokenFails ==
    /\ pc = "token"
    /\ pc' = "persist"
    /\ UNCHANGED <<stored, authVars, fetchVars, sendVars, serverVars, orphaned>>

PageArrives ==
    /\ pc = "send"
    /\ pages' = pages + 1
    /\ pc' = "fetch"
    /\ UNCHANGED <<stored, authVars, user, held, source, refused, retries, retried, serverVars, orphaned>>

(* The first 401 invalidates the token, without using up a retry.          *)
Unauthorized ==
    /\ pc = "send" /\ ~retried
    /\ retried' = TRUE
    /\ held' = [held EXCEPT !.access = 0]
    /\ pc' = "token"
    /\ UNCHANGED <<stored, authVars, user, source, pages, refused, retries, serverVars, orphaned>>

(* Mutant: the retries start anew after each of them.                      *)
TransientForever ==
    /\ pc = "send" /\ retries < MaxRetries
    /\ pc' = "token"
    /\ UNCHANGED <<stored, authVars, fetchVars, sendVars, serverVars, orphaned>>

(* A 429 or a 5xx, or no answer at all.                                    *)
Transient ==
    /\ pc = "send" /\ retries < MaxRetries
    /\ retries' = retries + 1
    /\ pc' = "token"
    /\ UNCHANGED <<stored, authVars, fetchVars, retried, serverVars, orphaned>>

(* Any other answer, an exceeded quota, or the last of the retries.        *)
RequestFails ==
    /\ pc = "send"
    /\ pc' = "persist"
    /\ UNCHANGED <<stored, authVars, fetchVars, sendVars, serverVars, orphaned>>

End ==
    /\ pc' = "idle"
    /\ user' = FALSE /\ held' = NoToken /\ source' = NoToken /\ pages' = 0 /\ refused' = FALSE
    /\ retries' = 0 /\ retried' = FALSE

(* Mutant: the token is stored only when the playlist was fetched.         *)
PersistOnSuccess ==
    /\ pc = "persist"
    /\ stored' = IF user /\ refused THEN NoToken ELSE IF user /\ pages > 0 THEN source ELSE stored
    /\ End /\ UNCHANGED <<authVars, serverVars, orphaned>>

(* However the fetch ended, the last token is stored, under a context of   *)
(* its own; a refused one is deleted afterwards.                           *)
Persist ==
    /\ pc = "persist"
    /\ stored' = IF user /\ refused THEN NoToken ELSE IF user THEN source ELSE stored
    /\ End /\ UNCHANGED <<authVars, serverVars, orphaned>>

Unsaved == rotates /\ user /\ source.refresh # stored.refresh

Lost == IF Unsaved THEN orphaned \cup {stored.refresh} ELSE orphaned

(* The store refuses the token, or stores it and refuses to delete it.     *)
PersistFails ==
    /\ pc = "persist"
    /\ stored' \in IF refused THEN {stored, source} ELSE {stored}
    /\ orphaned' = IF stored' = stored THEN Lost ELSE orphaned
    /\ End /\ UNCHANGED <<authVars, serverVars>>

-----------------------------------------------------------------------------

(* logout spotify *)
Logout ==
    /\ pc = "idle"
    /\ stored' = NoToken
    /\ UNCHANGED <<pc, authVars, fetchVars, sendVars, serverVars, orphaned>>

(* The process dies; the port is closed and the browser's tabs stay.       *)
Crash ==
    /\ pc # "idle"
    /\ listening' = FALSE
    /\ orphaned' = Lost
    /\ End /\ UNCHANGED <<stored, attempt, result, code, serverVars>>

Revoke ==
    /\ \E token \in refreshable :
          /\ refreshable' = refreshable \ {token}
          /\ orphaned' = orphaned \cup {token}
    /\ UNCHANGED <<pc, stored, authVars, fetchVars, sendVars, issued, rotates>>

AuthStep == WaitReturns \/ WaitEnds \/ Exchange \/ ExchangeFails \/ SaveAuthorized

FetchStep ==
    \/ NextPage \/ LastPage
    \/ UseToken \/ AppToken \/ Refresh \/ RefreshLost \/ RefreshRefused \/ TokenFails
    \/ PageArrives \/ Unauthorized \/ Transient \/ RequestFails
    \/ Persist \/ PersistFails

Next == Authorize \/ Callback \/ AuthStep \/ StartImport \/ FetchStep \/ Logout \/ Crash \/ Revoke

(* A command goes on; the wait for the browser has a time limit.           *)
Spec == Init /\ [][Next]_vars /\ WF_vars(AuthStep \/ FetchStep)

-----------------------------------------------------------------------------

(* The credential store never falls behind the import: its refresh token   *)
(* is one Spotify honours, unless it was revoked, a failed call or the     *)
(* death of the process lost its successor, or the running import has the  *)
(* successor in memory and will store it.                                  *)
StoredRefreshLives ==
    stored # NoToken =>
        \/ stored.refresh \in refreshable \cup orphaned
        \/ pc \in {"fetch", "token", "send", "persist"} /\ user
           /\ source.refresh \in refreshable \cup orphaned

(* The code that is traded was granted to this attempt, whatever tabs of   *)
(* earlier ones are still open, and the port is closed by then.            *)
OnlyThisAttempt == pc = "exchange" => code = attempt /\ ~listening

(* Every command returns, whatever the browser and Spotify do.             *)
CommandEnds == pc # "idle" ~> pc = "idle"

=============================================================================
