------------------------------ MODULE Sessions ------------------------------
(***************************************************************************)
(* The refresh tokens of one user's browser: refresh, logout and logoutAll *)
(* of apps/api/src/modules/auth/services/authenticationService.js and the  *)
(* web client's apps/web/src/api/client.js and providers/AuthProvider.jsx. *)
(*                                                                         *)
(* A refresh is a row of single statements, each committed by itself: find *)
(* the token, insert its successor, find that, revoke the token.  A tab    *)
(* has one refresh under way at a time, but the tabs share the cookie.     *)
(*                                                                         *)
(* Expired tokens and suspended accounts are refused and change nothing;   *)
(* they are left out.                                                      *)
(***************************************************************************)
EXTENDS Naturals, FiniteSets

CONSTANTS
    Tab,          \* tabs of the browser
    TokenLimit    \* bound: refresh_tokens rows

ASSUME SessionAssumption == TokenLimit \in Nat \ {0}

VARIABLES
    tokens,        \* refresh_tokens; family is the id of its first token
    cookie,        \* the browser's refresh_token cookie
    tabCall,       \* the requests of the tabs
    endedElsewhere, \* another device ended the sessions since the login
    unsettled      \* requests have overlapped or an answer was lost

sessionVars == <<tokens, cookie, tabCall, endedElsewhere, unsettled>>

NoToken == 0
TokenId == 1..TokenLimit
TokenRow == [family: {NoToken} \cup TokenId, live: BOOLEAN]
TabCall == [pc: {"idle", "sent", "checked", "issued", "answered", "leaving"},
            token: {NoToken} \cup TokenId, next: {NoToken} \cup TokenId]
NoCall == [pc |-> "idle", token |-> NoToken, next |-> NoToken]

InitSessions ==
    /\ tokens = [t \in TokenId |-> [family |-> NoToken, live |-> FALSE]]
    /\ cookie = NoToken
    /\ tabCall = [c \in Tab |-> NoCall]
    /\ endedElsewhere = FALSE /\ unsettled = FALSE

Issued == {t \in TokenId : tokens[t].family # NoToken}
LiveTokens == {t \in Issued : tokens[t].live}
FreshToken == CHOOSE t \in TokenId \ Issued : \A u \in TokenId \ Issued : t <= u

\* #issueTokenPair
Issue(family) ==
    /\ Issued # TokenId
    /\ tokens' =
         [tokens EXCEPT ![FreshToken] = [family |-> family, live |-> TRUE]]

Revoke(toEnd) ==
    tokens' = [t \in TokenId |->
                  IF t \in toEnd THEN [tokens[t] EXCEPT !.live = FALSE]
                                 ELSE tokens[t]]

Family(t) == {u \in Issued : tokens[u].family = tokens[t].family}

TabsBusy(tabs) == \E c \in tabs : tabCall[c].pc # "idle"
Call(c, pc) == tabCall' = [tabCall EXCEPT ![c].pc = pc]
End(c) == tabCall' = [tabCall EXCEPT ![c] = NoCall]

-----------------------------------------------------------------------------

\* The login page is for a browser without a session that works.
Login ==
    /\ cookie \notin LiveTokens
    /\ Issue(FreshToken)
    /\ cookie' = FreshToken
    /\ endedElsewhere' = FALSE
    /\ unsettled' = (unsettled \/ TabsBusy(Tab))
    /\ UNCHANGED tabCall

\* refreshAccessToken or getBootstrapRefresh, or logout: a request goes out with
\* the cookie as it is now.
Send(c, pc) ==
    /\ tabCall[c].pc = "idle" /\ cookie # NoToken
    /\ tabCall' = [tabCall EXCEPT ![c] =
                      [pc |-> pc, token |-> cookie, next |-> NoToken]]
    /\ unsettled' = (unsettled \/ TabsBusy(Tab \ {c}))
    /\ UNCHANGED <<tokens, cookie, endedElsewhere>>

\* MUTANT: a token that was already used is exchanged again.
AcceptsAny(t) == TRUE

NotRevoked(t) == tokens[t].live

\* findByTokenHash: a revoked token revokes its whole family.
RefreshCheck(c) ==
    LET t == tabCall[c].token IN
    /\ tabCall[c].pc = "sent"
    /\ \/ NotRevoked(t) /\ Call(c, "checked") /\ UNCHANGED tokens
       \/ ~NotRevoked(t) /\ Revoke(Family(t)) /\ End(c)
    /\ UNCHANGED <<cookie, endedElsewhere, unsettled>>

RefreshIssue(c) ==
    /\ tabCall[c].pc = "checked"
    /\ Issue(tokens[tabCall[c].token].family)
    /\ tabCall' = [tabCall EXCEPT ![c].pc = "issued", ![c].next = FreshToken]
    /\ UNCHANGED <<cookie, endedElsewhere, unsettled>>

\* MUTANT: the old token stays valid.
RevokeNothing(t) == UNCHANGED tokens

RevokeOld(t) == Revoke({t})

RefreshRevoke(c) ==
    /\ tabCall[c].pc = "issued"
    /\ RevokeOld(tabCall[c].token)
    /\ Call(c, "answered")
    /\ UNCHANGED <<cookie, endedElsewhere, unsettled>>

\* setRefreshCookie
RefreshAnswer(c) ==
    /\ tabCall[c].pc = "answered"
    /\ cookie' = tabCall[c].next
    /\ End(c)
    /\ UNCHANGED <<tokens, endedElsewhere, unsettled>>

\* logout and clearSessionCookies
LogoutRevoke(c) ==
    /\ tabCall[c].pc = "leaving"
    /\ Revoke({tabCall[c].token})
    /\ cookie' = NoToken
    /\ End(c)
    /\ UNCHANGED <<endedElsewhere, unsettled>>

\* logoutAll from this browser, or from another device; resetPassword ends with
\* the same statement.
LogoutAll ==
    /\ LiveTokens # {}
    /\ Revoke(TokenId)
    /\ \/ cookie' = NoToken /\ UNCHANGED endedElsewhere
       \/ endedElsewhere' = TRUE /\ UNCHANGED cookie
    /\ unsettled' = (unsettled \/ TabsBusy(Tab))
    /\ UNCHANGED tabCall

\* The server dies, the answer is lost, or the tab is closed.
CallLost(c) ==
    /\ tabCall[c].pc # "idle"
    /\ End(c)
    /\ unsettled' = TRUE
    /\ UNCHANGED <<tokens, cookie, endedElsewhere>>

SessionsNext ==
    \/ Login \/ LogoutAll
    \/ \E c \in Tab :
          \/ Send(c, "sent") \/ Send(c, "leaving")
          \/ RefreshCheck(c) \/ RefreshIssue(c) \/ RefreshRevoke(c)
          \/ RefreshAnswer(c) \/ LogoutRevoke(c) \/ CallLost(c)

SessionsSpec == InitSessions /\ [][SessionsNext]_sessionVars

-----------------------------------------------------------------------------
(* Properties *)

SessionsTypeOK ==
    /\ tokens \in [TokenId -> TokenRow]
    /\ cookie \in {NoToken} \cup TokenId
    /\ tabCall \in [Tab -> TabCall]
    /\ endedElsewhere \in BOOLEAN /\ unsettled \in BOOLEAN

\* "strict single-use rotation": between requests that do not overlap and are
\* answered, the token in the cookie is the only one that works, and it works
\* unless the sessions were ended on another device.
CookieIsTheSession ==
    ~unsettled /\ ~TabsBusy(Tab) =>
        LiveTokens = IF endedElsewhere THEN {} ELSE {cookie} \ {NoToken}

Over(t) ==
    /\ Family(t) \cap LiveTokens = {}
    /\ \A c \in Tab :
          tabCall[c].pc = "checked" => tabCall[c].token \notin Family(t)

\* Whatever overlaps or is lost, a session whose tokens have all been revoked
\* is over, unless a refresh had already passed its check: no request that
\* comes later brings it back (refresh, logout, logoutAll).
EndedSessionsStayEnded == [][\A t \in Issued : Over(t) => Over(t)']_sessionVars
=============================================================================
