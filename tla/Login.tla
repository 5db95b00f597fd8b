--------------------------------- MODULE Login ---------------------------------
(***************************************************************************)
(* `cre login`: the command listens on a local port, opens the browser at  *)
(* the authorization page, and waits for the redirect that brings a code   *)
(* to its callback.  When the organization of a new user is not there yet, *)
(* the callback hands out a page that starts over, with a new PKCE         *)
(* verifier and a new state.  The handlers of the callback run at the same *)
(* time as the command, and share the verifier, the state and the count of *)
(* retries with it, without a lock.                                        *)
(* A round is one authorization request: its number stands for the         *)
(* verifier, its challenge, the state, and the code the service grants.    *)
(***************************************************************************)
EXTENDS Naturals, FiniteSets

CONSTANTS Tabs,        \* tabs of the browser
          MaxRetries,  \* maxOrgNotFoundRetries (3)
          MaxRounds,   \* bound: authorization requests made
          MaxReloads   \* bound: reloads of the callback page

LoginAssumption ==
  /\ IsFiniteSet(Tabs) /\ Tabs # {}
  /\ {MaxRetries, MaxReloads} \subseteq Nat /\ MaxRounds \in Nat \ {0}

Rounds == 1..MaxRounds
None == 0

VARIABLES main,      \* the command
          listening, \* the callback server takes requests
          lastPKCEVerifier,
          lastState,
          retryCount,
          rounds,    \* authorization requests made
          codeCh,    \* the channel, with room for one code
          code,      \* the code the command has received
          tab,       \* what each tab shows, and the handler it waits for
          reloads

flow == <<lastPKCEVerifier, lastState, retryCount, rounds>>
vars == <<main, listening, flow, codeCh, code, tab, reloads>>
-----------------------------------------------------------------------------
(* The command. *)

Setup ==
  /\ main = "start"
  /\ \/ main' = "error" /\ UNCHANGED listening
     \/ main' = "pkce" /\ listening' = TRUE
  /\ UNCHANGED <<flow, codeCh, code, tab, reloads>>

\* startAuthFlow prints the address, and opens it when it can.
OpenBrowser ==
  /\ main = "pkce"
  /\ main' = "wait"
  /\ rounds' = 1 /\ lastPKCEVerifier' = 1 /\ lastState' = 1
  /\ UNCHANGED <<listening, retryCount, codeCh, code, tab, reloads>>

Receive ==
  /\ main = "wait" /\ codeCh # None
  /\ main' = "stop" /\ code' = codeCh /\ codeCh' = None
  /\ UNCHANGED <<listening, flow, tab, reloads>>

Timeout ==
  /\ main = "wait"
  /\ main' = "stop"
  /\ UNCHANGED <<listening, flow, codeCh, code, tab, reloads>>

\* The deferred Shutdown: no request is taken any more, and those being
\* handled are waited for, without a limit.
StopListening ==
  /\ main = "stop"
  /\ main' = "drain" /\ listening' = FALSE
  /\ UNCHANGED <<flow, codeCh, code, tab, reloads>>

Handling == {"renew", "restart", "send"}

Drain ==
  /\ main = "drain" /\ \A t \in Tabs : tab[t].at \notin Handling
  /\ main' = IF code = None THEN "error" ELSE "exchange"
  /\ UNCHANGED <<listening, flow, codeCh, code, tab, reloads>>

\* The service grants tokens for a code with the verifier of its challenge.
ExchangeCode ==
  /\ main = "exchange"
  /\ \/ main' = "error"
     \/ lastPKCEVerifier = code /\ main' = "save"
  /\ UNCHANGED <<listening, flow, codeCh, code, tab, reloads>>

Save ==
  /\ main = "save"
  /\ main' \in {"ok", "error"}
  /\ UNCHANGED <<listening, flow, codeCh, code, tab, reloads>>
-----------------------------------------------------------------------------
(* The browser. *)

Blank == [at |-> "blank", url |-> None, kind |-> "none"]
Show(t, page) == tab' = [tab EXCEPT ![t] = page]
BrowserStep == UNCHANGED <<main, listening, flow, codeCh, code>>

\* The first address is opened, by the command or by hand.
Visit(t) ==
  /\ tab[t] = Blank /\ rounds >= 1
  /\ Show(t, [at |-> "authorize", url |-> 1, kind |-> "none"])
  /\ BrowserStep /\ UNCHANGED reloads

\* The user goes back from the authorization page to an earlier one.  Going back
\* from a page of the callback is left out: what it leads to is one more request
\* of the callback, which Reload, and its bound, stand for.
Back(t) ==
  /\ tab[t].at = "authorize"
  /\ \E r \in 1..(tab[t].url - 1) : Show(t, [tab[t] EXCEPT !.url = r])
  /\ BrowserStep /\ UNCHANGED reloads

\* The service redirects to the callback: with a code and the state, with the
\* error of a missing organization, or with any other error.
Authorize(t) ==
  /\ tab[t].at = "authorize"
  /\ \E kind \in {"code", "org", "error"} :
       Show(t, [tab[t] EXCEPT !.at = "callback", !.kind = kind])
  /\ BrowserStep /\ UNCHANGED reloads

Reload(t) ==
  /\ tab[t].at = "page" /\ tab[t].kind = "code"
  /\ reloads < MaxReloads /\ reloads' = reloads + 1
  /\ Show(t, [tab[t] EXCEPT !.at = "callback"])
  /\ BrowserStep
-----------------------------------------------------------------------------
(* The handlers of the callback. *)

HandlerStep == UNCHANGED <<main, listening, code, reloads>>

\* Mutant of GoodState: any state that is there is good.
StateGiven(t) == lastState # None

GoodState(t) == lastState # None /\ tab[t].url = lastState

\* Mutant of MayRetry: one retry more than the limit.
OneMore(t) == retryCount <= MaxRetries

MayRetry(t) == retryCount < MaxRetries

\* Where the checks of the handler lead: to a retry, to the command, or to a
\* page that ends it.
Outcome(t) ==
  IF ~listening THEN "page"
  ELSE IF tab[t].kind = "org" /\ MayRetry(t) THEN "renew"
  ELSE IF tab[t].kind = "code" /\ GoodState(t) THEN "send"
  ELSE "page"

Callback(t) ==
  /\ tab[t].at = "callback"
  /\ Outcome(t) = "renew" => rounds < MaxRounds
  /\ Show(t, [tab[t] EXCEPT !.at = Outcome(t)])
  /\ UNCHANGED <<flow, codeCh>> /\ HandlerStep

\* The retry takes a new verifier and then a new state, ...
Renew(t) ==
  /\ tab[t].at = "renew" /\ rounds < MaxRounds
  /\ rounds' = rounds + 1 /\ lastPKCEVerifier' = rounds'
  /\ Show(t, [tab[t] EXCEPT !.at = "restart", !.url = rounds'])
  /\ UNCHANGED <<lastState, retryCount, codeCh>> /\ HandlerStep

\* ... and the waiting page takes the tab to the new address.
Restart(t) ==
  /\ tab[t].at = "restart"
  /\ lastState' = tab[t].url /\ retryCount' = retryCount + 1
  /\ Show(t, [tab[t] EXCEPT !.at = "authorize", !.kind = "none"])
  /\ UNCHANGED <<lastPKCEVerifier, rounds, codeCh>> /\ HandlerStep

\* The handler waits until there is room in the channel.
Send(t) ==
  /\ tab[t].at = "send" /\ codeCh = None
  /\ codeCh' = tab[t].url
  /\ Show(t, [tab[t] EXCEPT !.at = "page"])
  /\ UNCHANGED <<flow>> /\ HandlerStep

Init ==
  /\ main = "start" /\ listening = FALSE
  /\ lastPKCEVerifier = None /\ lastState = None
  /\ retryCount = 0 /\ rounds = 0
  /\ codeCh = None /\ code = None
  /\ tab = [t \in Tabs |-> Blank] /\ reloads = 0

Command ==
  \/ Setup \/ OpenBrowser \/ Receive \/ Timeout \/ StopListening \/ Drain
  \/ ExchangeCode \/ Save

Handler(t) == Callback(t) \/ Renew(t) \/ Restart(t) \/ Send(t)

Next ==
  \/ Command
  \/ \E t \in Tabs : Handler(t) \/ Visit(t) \/ Back(t) \/ Authorize(t)
                      \/ Reload(t)

\* The command and the handlers are goroutines, which the runtime lets run;
\* the wait for the code ends after 500 s.  Users and the service may stall.
Spec == Init /\ [][Next]_vars /\ WF_vars(Command)
             /\ \A t \in Tabs : WF_vars(Handler(t))
-----------------------------------------------------------------------------
Mains == {"start", "pkce", "wait", "stop", "drain", "exchange", "save", "ok",
          "error"}

TypeOK ==
  /\ main \in Mains /\ listening \in BOOLEAN
  /\ {lastPKCEVerifier, lastState, rounds, codeCh, code} \subseteq Rounds \cup {None}
  /\ lastState <= lastPKCEVerifier
  /\ retryCount \in 0..(MaxRetries + Cardinality(Tabs) - 1)
  /\ reloads \in 0..MaxReloads
  /\ \A t \in Tabs :
       /\ tab[t].at \in {"blank", "authorize", "callback", "page"} \cup Handling
       /\ tab[t].url \in 0..rounds

\* With one tab the code that is exchanged goes with the verifier it is
\* exchanged with, however often the user goes back to an older page
\* (login.go:196): a login that got its code fails for no reason of its own.
CodeMeetsVerifier == main = "exchange" => code = lastPKCEVerifier

\* What `cre login` promises: it opens the browser and saves credentials, or
\* reports an error; a login that waits does not wait for ever (login.go:135).
\* Without a reload of the callback page it does; one reload may break it.
LoginEnds == main = "wait" ~> main \in {"ok", "error"}
===============================================================================
