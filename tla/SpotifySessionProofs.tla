------------------------ MODULE SpotifySessionProofs ------------------------
(***************************************************************************)
(* Three theorems about the Spotify session, for any number of tokens,     *)
(* attempts, pages and retries: the code that is traded is the code of     *)
(* this attempt, the credential store never falls behind the import, and   *)
(* a command takes so many steps and no more.                              *)
(***************************************************************************)
EXTENDS SpotifySession, TLAPS

(* The receiver listens to one attempt only, and keeps its callback.       *)
AttemptInv ==
    /\ listening => pc = "wait"
    /\ pc = "wait" /\ result # NoResult => result.attempt = attempt
    /\ OnlyThisAttempt

LEMMA AttemptInit == Init => AttemptInv
BY DEF Init, AttemptInv, OnlyThisAttempt

LEMMA AuthKeepsAttempt ==
    AttemptInv /\ (Authorize \/ Callback \/ AuthStep) => AttemptInv'
<1> SUFFICES ASSUME AttemptInv, Authorize \/ Callback \/ AuthStep PROVE AttemptInv'
  OBVIOUS
<1> USE DEF AttemptInv, OnlyThisAttempt
<1>1. CASE Authorize
  BY <1>1 DEF Authorize
<1>2. CASE Callback
  <2>1. PICK granted \in BOOLEAN : Publish([attempt |-> attempt, granted |-> granted])
    BY <1>2 DEF Callback
  <2>2. pc = "wait" /\ UNCHANGED <<pc, attempt, listening, code>>
    BY <1>2 DEF Callback
  <2>3. result' # NoResult => result'.attempt = attempt
    BY <2>1, <2>2 DEF Publish
  <2> QED BY <2>2, <2>3
<1>3. CASE WaitReturns
  BY <1>3 DEF WaitReturns
<1>4. CASE WaitEnds
  BY <1>4 DEF WaitEnds
<1>5. CASE Exchange \/ ExchangeFails \/ SaveAuthorized
  BY <1>5 DEF Exchange, ExchangeFails, SaveAuthorized, authVars
<1> QED BY <1>1, <1>2, <1>3, <1>4, <1>5 DEF AuthStep

FetchPlaces == {"fetch", "token", "send", "persist"}

(* No step of an import looks at the browser.                              *)
LEMMA FetchLeavesAuth ==
    FetchStep => /\ pc \in FetchPlaces
                 /\ pc' \in FetchPlaces \cup {"idle"}
                 /\ UNCHANGED authVars
<1> SUFFICES ASSUME FetchStep PROVE /\ pc \in FetchPlaces
                                    /\ pc' \in FetchPlaces \cup {"idle"}
                                    /\ UNCHANGED authVars
  OBVIOUS
<1> USE DEF FetchPlaces
<1>1. CASE NextPage \/ LastPage
  BY <1>1 DEF NextPage, LastPage
<1>2. CASE UseToken \/ AppToken \/ TokenFails
  BY <1>2 DEF UseToken, AppToken, TokenFails
<1>3. CASE Refresh \/ RefreshLost \/ RefreshRefused
  BY <1>3 DEF Refresh, RefreshLost, RefreshRefused
<1>4. CASE PageArrives \/ Unauthorized \/ Transient \/ RequestFails
  BY <1>4 DEF PageArrives, Unauthorized, Transient, RequestFails
<1>5. CASE Persist \/ PersistFails
  BY <1>5 DEF Persist, PersistFails, End
<1> QED BY <1>1, <1>2, <1>3, <1>4, <1>5 DEF FetchStep

LEMMA AttemptStep == AttemptInv /\ [Next]_vars => AttemptInv'
<1> SUFFICES ASSUME AttemptInv, [Next]_vars PROVE AttemptInv'
  OBVIOUS
<1>1. CASE Authorize \/ Callback \/ AuthStep
  BY <1>1, AuthKeepsAttempt
<1>2. CASE FetchStep
  BY <1>2, FetchLeavesAuth DEF AttemptInv, OnlyThisAttempt, FetchPlaces, authVars
<1>3. CASE StartImport
  BY <1>3 DEF StartImport, authVars, AttemptInv, OnlyThisAttempt
<1>4. CASE Crash
  BY <1>4 DEF Crash, End, AttemptInv, OnlyThisAttempt
<1>5. CASE Logout \/ Revoke \/ UNCHANGED vars
  BY <1>5 DEF Logout, Revoke, vars, authVars, AttemptInv, OnlyThisAttempt
<1> QED BY <1>1, <1>2, <1>3, <1>4, <1>5 DEF Next

(* Whatever the tabs of earlier attempts send, and whenever.               *)
THEOREM OnlyItsOwnCode == Spec => []OnlyThisAttempt
<1>1. AttemptInv => OnlyThisAttempt
  BY DEF AttemptInv
<1> QED BY <1>1, AttemptInit, AttemptStep, PTL DEF Spec

-----------------------------------------------------------------------------

Live == refreshable \cup orphaned

StoredLives == stored # NoToken => stored.refresh \in Live

(* Only an import of a user whose refresh tokens rotate may be ahead of    *)
(* the store, and then it holds the successor itself.                      *)
StoreInv ==
    /\ pc \notin FetchPlaces \/ user = FALSE \/ rotates = FALSE => StoredLives
    /\ pc \in FetchPlaces /\ user = TRUE => source.refresh \in Live
    /\ pc = "save" => held.refresh \in Live
    /\ refused = TRUE => user = TRUE
    /\ user \in BOOLEAN /\ refused \in BOOLEAN /\ rotates \in BOOLEAN

LEMMA StoreInit == Init => StoreInv
<1> SUFFICES ASSUME Init PROVE StoreInv
  OBVIOUS
<1>1. StoredLives
  BY DEF Init, StoredLives, Live
<1>2. pc = "idle" /\ user = FALSE /\ refused = FALSE /\ rotates \in BOOLEAN
  BY DEF Init
<1> QED BY <1>1, <1>2, Zenon DEF StoreInv, FetchPlaces

(* Steps that issue nothing and store nothing.                             *)
LEMMA StoreRests ==
    ASSUME StoreInv, UNCHANGED <<stored, user, source, held, refused, refreshable, rotates, orphaned>>,
           pc \in FetchPlaces <=> pc' \in FetchPlaces, pc' = "save" => pc = "save"
    PROVE  StoreInv'
BY DEF StoreInv, StoredLives, Live

LEMMA AuthKeepsStore ==
    ASSUME StoreInv, Authorize \/ Callback \/ AuthStep \/ Logout
    PROVE  StoreInv'
<1> USE DEF FetchPlaces
<1>1. CASE Authorize \/ Callback \/ WaitReturns \/ WaitEnds \/ ExchangeFails
  BY <1>1, StoreRests
     DEF Authorize, Callback, WaitReturns, WaitEnds, ExchangeFails, authVars, fetchVars, serverVars
<1>2. CASE Exchange
  BY <1>2 DEF Exchange, Issue, Fresh, StoreInv, StoredLives, Live
<1>3. CASE SaveAuthorized
  BY <1>3 DEF SaveAuthorized, serverVars, StoreInv, StoredLives, Live
<1>4. CASE Logout
  BY <1>4 DEF Logout, fetchVars, serverVars, StoreInv, StoredLives, Live
<1> QED BY <1>1, <1>2, <1>3, <1>4 DEF AuthStep

LEMMA StartKeepsStore == ASSUME StoreInv, StartImport PROVE StoreInv'
<1>1. StoredLives /\ StoredLives'
  BY DEF StartImport, StoreInv, FetchPlaces, StoredLives, Live, serverVars
<1>2. /\ user' = (stored.refresh # 0) /\ source' = stored /\ Live' = Live
      /\ refused' = FALSE /\ rotates' = rotates /\ pc' = "fetch"
  BY DEF StartImport, Live, serverVars
<1>3. ASSUME user' = TRUE PROVE source'.refresh \in Live'
  <2>1. stored.refresh # 0
    BY <1>2, <1>3
  <2>2. stored # NoToken
    BY <2>1 DEF NoToken
  <2> QED BY <1>1, <1>2, <2>2 DEF StoredLives
<1> QED BY <1>1, <1>2, <1>3 DEF StoreInv

LEMMA RefreshKeepsStore == ASSUME StoreInv, Refresh \/ RefreshLost PROVE StoreInv'
<1> USE DEF FetchPlaces
<1>1. CASE Refresh
  <2>1. /\ pc = "token" /\ pc' = "send" /\ user /\ source' = Successor
        /\ UNCHANGED <<stored, user, refused, rotates, orphaned>>
        /\ refreshable' = AfterTrade /\ source.refresh \in refreshable
    BY <1>1 DEF Refresh, Issue
  <2>2. source'.refresh \in Live'
    BY <2>1 DEF Successor, AfterTrade, Live
  <2>3. rotates = FALSE => StoredLives'
    BY <2>1 DEF StoreInv, StoredLives, AfterTrade, Live
  <2> QED BY <2>1, <2>2, <2>3 DEF StoreInv
<1>2. CASE RefreshLost
  <2>1. /\ pc = "token" /\ pc' = "persist" /\ user
        /\ UNCHANGED <<stored, user, source, refused, rotates>>
        /\ refreshable' = AfterTrade /\ source.refresh \in refreshable
        /\ orphaned' = IF rotates THEN orphaned \cup {source.refresh} ELSE orphaned
    BY <1>2 DEF RefreshLost, Issue, fetchVars
  <2>2. Live \subseteq Live'
    BY <2>1 DEF AfterTrade, Live
  <2> QED BY <2>1, <2>2 DEF StoreInv, StoredLives
<1> QED BY <1>1, <1>2

LEMMA PersistKeepsStore == ASSUME StoreInv, Persist \/ PersistFails PROVE StoreInv'
<1>1. /\ pc' = "idle" /\ user' = FALSE /\ refused' = FALSE
      /\ UNCHANGED <<refreshable, rotates>>
      /\ pc \in FetchPlaces
  BY DEF Persist, PersistFails, End, serverVars, FetchPlaces
<1>2. CASE Persist
  <2>1. Live' = Live
    BY <1>2, <1>1 DEF Persist, Live
  <2>2. stored' = NoToken \/ (user = TRUE /\ stored' = source) \/ (user = FALSE /\ stored' = stored)
    BY <1>2 DEF Persist, StoreInv
  <2>3. StoredLives'
    BY <2>1, <2>2, <1>1 DEF StoredLives, StoreInv
  <2> QED BY <1>1, <2>3 DEF StoreInv, FetchPlaces
<1>3. CASE PersistFails
  <2>1. stored' = stored \/ (refused = TRUE /\ stored' = source)
    BY <1>3 DEF PersistFails, StoreInv
  <2>2. Live \subseteq Live'
    BY <1>1, <1>3 DEF PersistFails, Live, Lost
  <2>3. ASSUME stored' = stored, stored # NoToken PROVE stored.refresh \in Live'
    <3>1. CASE Unsaved
      BY <1>3, <2>3, <3>1 DEF PersistFails, Lost, Live
    <3>2. CASE ~Unsaved
      BY <1>1, <2>2, <2>3, <3>2 DEF Unsaved, StoreInv, StoredLives
    <3> QED BY <3>1, <3>2
  <2>4. ASSUME refused = TRUE, stored' = source PROVE stored'.refresh \in Live'
    BY <1>1, <2>2, <2>4 DEF StoreInv
  <2>5. StoredLives'
    BY <2>1, <2>3, <2>4 DEF StoredLives
  <2> QED BY <1>1, <2>5 DEF StoreInv, FetchPlaces
<1> QED BY <1>2, <1>3

LEMMA CrashKeepsStore == ASSUME StoreInv, Crash PROVE StoreInv'
<1>1. /\ pc' = "idle" /\ user' = FALSE /\ refused' = FALSE
      /\ UNCHANGED <<stored, refreshable, rotates>> /\ orphaned' = Lost
  BY DEF Crash, End, serverVars
<1>2. Live \subseteq Live'
  BY <1>1 DEF Live, Lost
<1>3. ASSUME stored # NoToken PROVE stored.refresh \in Live'
  <2>1. CASE Unsaved
    BY <1>1, <2>1 DEF Lost, Live
  <2>2. CASE ~Unsaved
    BY <1>2, <1>3, <2>2 DEF Unsaved, StoreInv, StoredLives
  <2> QED BY <2>1, <2>2
<1>4. StoredLives'
  BY <1>1, <1>3 DEF StoredLives
<1> QED BY <1>1, <1>4 DEF StoreInv, FetchPlaces

LEMMA StoreStep == StoreInv /\ [Next]_vars => StoreInv'
<1> SUFFICES ASSUME StoreInv, [Next]_vars PROVE StoreInv'
  OBVIOUS
<1>1. CASE Authorize \/ Callback \/ AuthStep \/ Logout
  BY <1>1, AuthKeepsStore
<1>2. CASE StartImport
  BY <1>2, StartKeepsStore
<1>3. CASE Refresh \/ RefreshLost
  BY <1>3, RefreshKeepsStore
<1>4. CASE Persist \/ PersistFails
  BY <1>4, PersistKeepsStore
<1>5. CASE NextPage \/ LastPage \/ UseToken \/ TokenFails
  BY <1>5, StoreRests DEF NextPage, LastPage, UseToken, TokenFails, fetchVars, serverVars, FetchPlaces
<1>6. CASE PageArrives \/ Transient \/ RequestFails
  BY <1>6, StoreRests DEF PageArrives, Transient, RequestFails, fetchVars, serverVars, FetchPlaces
<1>7. CASE AppToken \/ Unauthorized
  BY <1>7 DEF AppToken, Unauthorized, Issue, serverVars, FetchPlaces, StoreInv, StoredLives, Live
<1>8. CASE RefreshRefused
  BY <1>8 DEF RefreshRefused, serverVars, FetchPlaces, StoreInv, StoredLives, Live
<1>9. CASE Crash
  BY <1>9, CrashKeepsStore
<1>10. CASE Revoke
  <2>1. Live' = Live
    BY <1>10 DEF Revoke, Live
  <2> QED BY <1>10, <2>1 DEF Revoke, fetchVars, StoreInv, StoredLives
<1>11. CASE UNCHANGED vars
  BY <1>11, StoreRests DEF vars, fetchVars, serverVars
<1> QED BY <1>1, <1>2, <1>3, <1>4, <1>5, <1>6, <1>7, <1>8, <1>9, <1>10, <1>11 DEF Next, FetchStep

(* Whether Spotify rotates its refresh tokens or not.                      *)
THEOREM StoreKeepsUp == Spec => []StoredRefreshLives
<1>1. StoreInv => StoredRefreshLives
  BY DEF StoreInv, StoredLives, Live, FetchPlaces, StoredRefreshLives
<1> QED BY <1>1, StoreInit, StoreStep, PTL DEF Spec

-----------------------------------------------------------------------------
(* How long a command can take.                                            *)

(* The steps that one page may take, and those left when so many pages     *)
(* are.                                                                    *)
PageCost == 2 * MaxRetries + 7

WithPages(n) == n * PageCost + 2

(* How often a request may still be sent again.                            *)
Resends == (MaxRetries - retries) + IF retried THEN 0 ELSE 1

StepsLeft ==
    CASE pc = "fetch" -> WithPages(MaxPages - pages)
      [] pc = "token" -> WithPages(MaxPages - pages - 1) + 2 * Resends + 4
      [] pc = "send"  -> WithPages(MaxPages - pages - 1) + 2 * Resends + 3
      [] pc = "wait" -> 3
      [] pc = "exchange" -> 2
      [] pc \in {"save", "persist"} -> 1
      [] OTHER -> 0

(* A command takes no more steps than its pages with their retries allow:  *)
(* each of its own leaves fewer, and nothing that others do leaves more.   *)
CommandIsShort ==
    /\ [](StepsLeft \in 0..(WithPages(MaxPages) + 3))
    /\ [][/\ AuthStep \/ FetchStep => StepsLeft' < StepsLeft
          /\ pc # "idle" => StepsLeft' <= StepsLeft]_vars

CountInv ==
    /\ retried \in BOOLEAN
    /\ pages \in 0..MaxPages /\ retries \in 0..MaxRetries
    /\ pc \in {"token", "send"} => pages < MaxPages

LEMMA CountInit == Init => CountInv
<1> SUFFICES ASSUME Init PROVE CountInv
  OBVIOUS
<1>1. pc = "idle" /\ pages = 0 /\ retries = 0 /\ retried = FALSE
  BY DEF Init
<1>2. 0 \in 0..MaxPages /\ 0 \in 0..MaxRetries
  BY BoundAssumption
<1>3. pc \notin {"token", "send"} /\ retried \in BOOLEAN
  BY <1>1
<1> QED BY <1>1, <1>2, <1>3, Zenon DEF CountInv

(* What a step does to the counts.                                         *)
LEMMA CountMoves ==
    ASSUME Next \/ UNCHANGED vars
    PROVE  /\ retried' \in {TRUE, FALSE, retried}
           /\ \/ UNCHANGED <<pages, retries>> /\ (pc' \in {"token", "send"} => pc \in {"token", "send"})
              \/ pages' = 0 /\ pc' \notin {"token", "send"} /\ retries' \in {0, retries}
              \/ pages' = pages /\ pages < MaxPages /\ retries' = 0
              \/ pc = "send" /\ pages' = pages + 1 /\ pc' = "fetch" /\ retries' = retries
              \/ pc = "send" /\ pages' = pages /\ retries < MaxRetries /\ retries' = retries + 1
<1>1. CASE NextPage \/ LastPage
  BY <1>1 DEF NextPage, LastPage, fetchVars, sendVars
<1>2. CASE PageArrives
  BY <1>2 DEF PageArrives
<1>3. CASE Unauthorized \/ Transient
  BY <1>3 DEF Unauthorized, Transient, fetchVars
<1>4. CASE StartImport \/ Persist \/ PersistFails \/ Crash
  BY <1>4 DEF StartImport, Persist, PersistFails, Crash, End, sendVars
<1>5. CASE Authorize \/ Callback \/ AuthStep \/ Logout \/ Revoke \/ UNCHANGED vars
  BY <1>5 DEF Authorize, Callback, AuthStep, WaitReturns, WaitEnds, Exchange, ExchangeFails,
     SaveAuthorized, Logout, Revoke, vars, fetchVars, sendVars
<1>6. CASE UseToken \/ AppToken \/ Refresh
  BY <1>6 DEF UseToken, AppToken, Refresh, fetchVars, sendVars
<1>7. CASE RefreshLost \/ RefreshRefused \/ TokenFails \/ RequestFails
  BY <1>7 DEF RefreshLost, RefreshRefused, TokenFails, RequestFails, fetchVars, sendVars
<1> QED BY <1>1, <1>2, <1>3, <1>4, <1>5, <1>6, <1>7 DEF Next, FetchStep

LEMMA CountStep == CountInv /\ [Next]_vars => CountInv'
<1> SUFFICES ASSUME CountInv, [Next]_vars PROVE CountInv'
  OBVIOUS
<1> DEFINE Numbers == /\ pages \in 0..MaxPages /\ retries \in 0..MaxRetries
                      /\ pc \in {"token", "send"} => pages < MaxPages
<1>1. MaxPages \in Nat \ {0} /\ MaxRetries \in Nat
  BY BoundAssumption
<1>2. Numbers /\ retried \in BOOLEAN
  BY DEF CountInv
<1>3. /\ retried' \in {TRUE, FALSE, retried}
      /\ \/ UNCHANGED <<pages, retries>> /\ (pc' \in {"token", "send"} => pc \in {"token", "send"})
         \/ pages' = 0 /\ pc' \notin {"token", "send"} /\ retries' \in {0, retries}
         \/ pages' = pages /\ pages < MaxPages /\ retries' = 0
         \/ pc = "send" /\ pages' = pages + 1 /\ pc' = "fetch" /\ retries' = retries
         \/ pc = "send" /\ pages' = pages /\ retries < MaxRetries /\ retries' = retries + 1
  BY CountMoves
<1>4. Numbers'
  BY <1>1, <1>2, <1>3
<1>5. retried' \in BOOLEAN
  BY <1>2, <1>3, Zenon
<1> QED BY <1>4, <1>5, Zenon DEF CountInv

(* One page fewer is its steps fewer.                                      *)
LEMMA PagesCost ==
    ASSUME NEW n \in Nat
    PROVE  /\ WithPages(n) \in Nat /\ WithPages(n) >= 2
           /\ n # 0 => WithPages(n - 1) + PageCost = WithPages(n) /\ WithPages(n - 1) \in Nat
<1>1. PageCost \in Nat
  BY BoundAssumption DEF PageCost
<1>2. \A k \in Nat : k * PageCost \in Nat
  BY <1>1
<1>3. n # 0 => (n - 1) * PageCost + PageCost = n * PageCost
  BY <1>1
<1>4. n # 0 => n - 1 \in Nat
  OBVIOUS
<1> HIDE DEF PageCost
<1> QED BY <1>1, <1>2, <1>3, <1>4 DEF WithPages

(* More pages, more steps.                                                 *)
LEMMA CostsGrow ==
    ASSUME NEW n \in 0..MaxPages
    PROVE  WithPages(n) <= WithPages(MaxPages)
<1>1. PageCost \in Nat /\ MaxPages \in Nat /\ n \in Nat /\ MaxPages - n \in Nat
  BY BoundAssumption DEF PageCost
<1>2. n * PageCost \in Nat /\ (MaxPages - n) * PageCost \in Nat /\ MaxPages * PageCost \in Nat
  BY <1>1
<1>3. (MaxPages - n) * PageCost + n * PageCost = MaxPages * PageCost
  BY <1>1
<1> HIDE DEF PageCost
<1> QED BY <1>1, <1>2, <1>3 DEF WithPages

(* What the steps before and after a page are worth.                       *)
LEMMA StepsAreCounted ==
    ASSUME CountInv
    PROVE  /\ Resends \in 0..(MaxRetries + 1)
           /\ WithPages(MaxPages - pages) \in Nat /\ WithPages(MaxPages - pages) >= 2
           /\ WithPages(MaxPages - pages) <= WithPages(MaxPages)
           /\ pages < MaxPages =>
                 /\ WithPages(MaxPages - pages - 1) + 2 * MaxRetries + 7 = WithPages(MaxPages - pages)
                 /\ WithPages(MaxPages - pages - 1) \in Nat /\ WithPages(MaxPages - pages - 1) >= 2
<1>1. /\ MaxPages \in Nat \ {0} /\ MaxRetries \in Nat /\ MaxPages - pages \in 0..MaxPages
      /\ pages \in 0..MaxPages /\ retries \in 0..MaxRetries /\ retried \in BOOLEAN
  BY BoundAssumption DEF CountInv
<1>2. Resends \in 0..(MaxRetries + 1)
  BY <1>1 DEF Resends
<1> DEFINE n == MaxPages - pages
<1>3. n \in Nat /\ n \in 0..MaxPages /\ (pages < MaxPages => n # 0 /\ n - 1 \in Nat)
  BY <1>1
<1> HIDE DEF n
<1>4. WithPages(n) \in Nat /\ WithPages(n) >= 2 /\ WithPages(n) <= WithPages(MaxPages)
  BY <1>3, PagesCost, CostsGrow
<1>5. n # 0 => WithPages(n - 1) + PageCost = WithPages(n) /\ WithPages(n - 1) \in Nat
  BY <1>3, PagesCost
<1>6. n # 0 => WithPages(n - 1) >= 2
  <2>1. SUFFICES ASSUME n # 0 PROVE WithPages(n - 1) >= 2
    OBVIOUS
  <2>2. n - 1 \in Nat
    BY <1>3, <2>1
  <2> QED BY <2>2, PagesCost
<1>7. pages < MaxPages => WithPages(n - 1) + 2 * MaxRetries + 7 = WithPages(n)
  <2>1. SUFFICES ASSUME n # 0 PROVE WithPages(n - 1) + 2 * MaxRetries + 7 = WithPages(n)
    BY <1>3
  <2> HIDE DEF WithPages
  <2> QED BY <1>1, <1>4, <1>5, <2>1 DEF PageCost
<1> HIDE DEF WithPages, Resends
<1> QED BY <1>2, <1>3, <1>4, <1>5, <1>6, <1>7 DEF n

LEMMA StepsLeftIsANumber == CountInv => StepsLeft \in 0..(WithPages(MaxPages) + 3)
<1> SUFFICES ASSUME CountInv PROVE StepsLeft \in 0..(WithPages(MaxPages) + 3)
  OBVIOUS
<1> DEFINE most == WithPages(MaxPages)
           here == WithPages(MaxPages - pages)
           next == WithPages(MaxPages - pages - 1)
<1>1. /\ Resends \in 0..(MaxRetries + 1) /\ MaxRetries \in Nat
      /\ here \in Nat /\ here >= 2 /\ here <= most
      /\ pages < MaxPages => next + 2 * MaxRetries + 7 = here /\ next \in Nat
  BY StepsAreCounted, BoundAssumption
<1>2. most \in Nat
  <2>1. MaxPages \in Nat
    BY BoundAssumption
  <2> QED BY <2>1, PagesCost
<1> HIDE DEF most, here, next
<1>3. CASE pc = "fetch"
  <2>1. StepsLeft = here
    BY <1>3 DEF StepsLeft, here
  <2> QED BY <1>1, <1>2, <2>1 DEF most
<1>4. CASE pc \in {"token", "send"}
  <2>1. pages < MaxPages
    BY <1>4 DEF CountInv
  <2>2. StepsLeft \in {next + 2 * Resends + 4, next + 2 * Resends + 3}
    BY <1>4 DEF StepsLeft, next
  <2> HIDE DEF StepsLeft, Resends
  <2>3. StepsLeft \in 0..(most + 3)
    BY <1>1, <1>2, <2>1, <2>2
  <2> QED BY <2>3 DEF most
<1>5. CASE pc \notin {"fetch", "token", "send"}
  <2>1. StepsLeft \in {0, 1, 2, 3}
    BY <1>5 DEF StepsLeft
  <2> HIDE DEF StepsLeft
  <2>2. StepsLeft \in 0..(most + 3)
    BY <1>2, <2>1
  <2> QED BY <2>2 DEF most
<1> QED BY <1>3, <1>4, <1>5

LEMMA AuthStepCounts == AuthStep => StepsLeft' < StepsLeft
<1> SUFFICES ASSUME AuthStep PROVE StepsLeft' < StepsLeft
  OBVIOUS
<1>1. \/ pc = "wait" /\ pc' \in {"exchange", "idle"}
      \/ pc = "exchange" /\ pc' \in {"save", "idle"}
      \/ pc = "save" /\ pc' = "idle"
  BY DEF AuthStep, WaitReturns, WaitEnds, Exchange, ExchangeFails, SaveAuthorized
<1> QED BY <1>1 DEF StepsLeft

(* A page costs a request, and each of its retries a token and a send.     *)
LEMMA FetchStepCounts == CountInv /\ FetchStep => StepsLeft' < StepsLeft
<1> SUFFICES ASSUME CountInv, FetchStep PROVE StepsLeft' < StepsLeft
  OBVIOUS
<1> DEFINE here == WithPages(MaxPages - pages)
           next == WithPages(MaxPages - pages - 1)
<1>1. /\ Resends \in 0..(MaxRetries + 1) /\ MaxRetries \in Nat
      /\ here \in Nat /\ here >= 2
      /\ pages < MaxPages => next + 2 * MaxRetries + 7 = here /\ next \in Nat /\ next >= 2
      /\ pages \in Nat /\ MaxPages \in Nat /\ retries \in 0..MaxRetries /\ retried \in BOOLEAN
  BY StepsAreCounted, BoundAssumption DEF CountInv
<1> HIDE DEF here, next
<1>2. pc \in {"token", "send"} => pages < MaxPages
  BY DEF CountInv
<1>3. CASE pc = "fetch"
  <2>1. StepsLeft = here
    BY <1>3 DEF StepsLeft, here
  <2>2. CASE NextPage
    <3>1. pages < MaxPages /\ pages' = pages /\ pc' = "token" /\ retries' = 0 /\ retried' = FALSE
      BY <2>2 DEF NextPage, fetchVars
    <3>2. StepsLeft' = next + 2 * (MaxRetries + 1) + 4
      BY <1>1, <3>1 DEF StepsLeft, next, Resends, WithPages
    <3> QED BY <1>1, <2>1, <3>1, <3>2
  <2>3. CASE LastPage
    <3>1. StepsLeft' = 1
      BY <2>3 DEF LastPage, StepsLeft
    <3> QED BY <1>1, <2>1, <3>1
  <2>4. NextPage \/ LastPage
    BY <1>3 DEF FetchStep, UseToken, AppToken, Refresh, RefreshLost, RefreshRefused, TokenFails,
       PageArrives, Unauthorized, Transient, RequestFails, Persist, PersistFails
  <2> QED BY <2>2, <2>3, <2>4
<1>4. CASE pc = "token"
  <2>1. StepsLeft = next + 2 * Resends + 4
    BY <1>4 DEF StepsLeft, next
  <2>2. CASE UseToken \/ AppToken \/ Refresh
    <3>1. pages' = pages /\ pc' = "send" /\ retries' = retries /\ retried' = retried
      BY <2>2 DEF UseToken, AppToken, Refresh, fetchVars, sendVars
    <3>2. StepsLeft' = next + 2 * Resends + 3
      BY <3>1 DEF StepsLeft, next, Resends, WithPages
    <3> HIDE DEF StepsLeft, Resends
    <3> QED BY <1>1, <1>2, <1>4, <2>1, <3>2
  <2>3. CASE RefreshLost \/ RefreshRefused \/ TokenFails
    <3>1. pc' = "persist"
      BY <2>3 DEF RefreshLost, RefreshRefused, TokenFails
    <3>2. StepsLeft' = 1
      BY <3>1 DEF StepsLeft
    <3> HIDE DEF StepsLeft, Resends
    <3> QED BY <1>1, <1>2, <1>4, <2>1, <3>2
  <2>4. UseToken \/ AppToken \/ Refresh \/ RefreshLost \/ RefreshRefused \/ TokenFails
    BY <1>4 DEF FetchStep, NextPage, LastPage, PageArrives, Unauthorized, Transient, RequestFails,
       Persist, PersistFails
  <2> QED BY <2>2, <2>3, <2>4
<1>5. CASE pc = "send"
  <2>1. StepsLeft = next + 2 * Resends + 3
    BY <1>5 DEF StepsLeft, next
  <2>2. CASE PageArrives
    <3>1. pages' = pages + 1 /\ pc' = "fetch"
      BY <2>2 DEF PageArrives
    <3>2. MaxPages - pages' = MaxPages - pages - 1
      BY <1>1, <3>1
    <3>3. StepsLeft' = next
      BY <3>1, <3>2 DEF StepsLeft, next, WithPages
    <3> HIDE DEF StepsLeft, Resends
    <3> QED BY <1>1, <1>2, <1>5, <2>1, <3>3
  <2>3. CASE Unauthorized \/ Transient
    <3>1. /\ pages' = pages /\ pc' = "token"
          /\ \/ retried = FALSE /\ retried' = TRUE /\ retries' = retries
             \/ retried' = retried /\ retries' = retries + 1
      BY <1>1, <2>3 DEF Unauthorized, Transient, fetchVars
    <3>2. Resends' = Resends - 1
      BY <1>1, <3>1 DEF Resends
    <3>3. StepsLeft' = next + 2 * Resends' + 4
      BY <3>1 DEF StepsLeft, next, WithPages
    <3> HIDE DEF StepsLeft, Resends
    <3> QED BY <1>1, <1>2, <1>5, <2>1, <3>2, <3>3
  <2>4. CASE RequestFails
    <3>1. StepsLeft' = 1
      BY <2>4 DEF RequestFails, StepsLeft
    <3> HIDE DEF StepsLeft, Resends
    <3> QED BY <1>1, <1>2, <1>5, <2>1, <3>1
  <2>5. PageArrives \/ Unauthorized \/ Transient \/ RequestFails
    BY <1>5 DEF FetchStep, NextPage, LastPage, UseToken, AppToken, Refresh, RefreshLost, RefreshRefused,
       TokenFails, Persist, PersistFails
  <2> QED BY <2>2, <2>3, <2>4, <2>5
<1>6. CASE Persist \/ PersistFails
  BY <1>6 DEF Persist, PersistFails, End, StepsLeft
<1>7. pc \in {"fetch", "token", "send"} \/ Persist \/ PersistFails
  BY DEF FetchStep, NextPage, LastPage, UseToken, AppToken, Refresh, RefreshLost, RefreshRefused,
     TokenFails, PageArrives, Unauthorized, Transient, RequestFails
<1> QED BY <1>3, <1>4, <1>5, <1>6, <1>7

(* What happens beside a command ends it or leaves its steps.              *)
LEMMA OthersLeaveSteps ==
    ASSUME Next \/ UNCHANGED vars, ~(AuthStep \/ FetchStep), pc # "idle"
    PROVE  StepsLeft' = 0 \/ StepsLeft' = StepsLeft
<1>1. CASE Crash
  BY <1>1 DEF Crash, End, StepsLeft
<1>2. CASE Callback \/ Revoke \/ UNCHANGED vars
  <2>1. UNCHANGED <<pc, pages, retries, retried>>
    BY <1>2 DEF Callback, Revoke, vars, fetchVars, sendVars
  <2> QED BY <2>1 DEF StepsLeft, Resends, WithPages
<1>3. CASE Authorize \/ StartImport \/ Logout
  BY <1>3 DEF Authorize, StartImport, Logout
<1> QED BY <1>1, <1>2, <1>3 DEF Next

LEMMA CommandCounts ==
    ASSUME CountInv, [Next]_vars
    PROVE  /\ AuthStep \/ FetchStep => StepsLeft' < StepsLeft
           /\ pc # "idle" => StepsLeft' <= StepsLeft
<1>1. WithPages(MaxPages) + 3 \in Nat
  <2>1. MaxPages \in Nat
    BY BoundAssumption
  <2>2. WithPages(MaxPages) \in Nat
    BY <2>1, PagesCost
  <2> QED BY <2>2
<1>2. StepsLeft \in Nat
  BY <1>1, StepsLeftIsANumber
<1>3. StepsLeft' \in Nat
  <2>1. CountInv'
    BY CountStep
  <2>2. CountInv' => (StepsLeft \in 0..(WithPages(MaxPages) + 3))'
    BY StepsLeftIsANumber, PTL
  <2>3. (WithPages(MaxPages) + 3)' = WithPages(MaxPages) + 3
    BY DEF WithPages, PageCost
  <2> QED BY <1>1, <2>1, <2>2, <2>3
<1>4. AuthStep \/ FetchStep => StepsLeft' < StepsLeft
  BY AuthStepCounts, FetchStepCounts
<1>5. ASSUME pc # "idle", ~(AuthStep \/ FetchStep) PROVE StepsLeft' <= StepsLeft
  <2>1. StepsLeft' = 0 \/ StepsLeft' = StepsLeft
    BY <1>5, OthersLeaveSteps
  <2> HIDE DEF StepsLeft
  <2> QED BY <1>2, <2>1
<1> HIDE DEF StepsLeft
<1> QED BY <1>2, <1>3, <1>4, <1>5

(* auth spotify and the import come to their end, whatever the browser and *)
(* Spotify do: a page is asked for at most MaxRetries + 2 times, and no    *)
(* token is renewed for ever.                                              *)
THEOREM CommandsAreShort == Spec => CommandIsShort
<1> DEFINE Bounded == StepsLeft \in 0..(WithPages(MaxPages) + 3)
           Counts == /\ AuthStep \/ FetchStep => StepsLeft' < StepsLeft
                     /\ pc # "idle" => StepsLeft' <= StepsLeft
<1>1. CountInv => Bounded
  BY StepsLeftIsANumber
<1>2. CountInv /\ [Next]_vars => CountInv' /\ [Counts]_vars
  BY CountStep, CommandCounts
<1> QED BY <1>1, <1>2, CountInit, PTL DEF Spec, CommandIsShort

=============================================================================
