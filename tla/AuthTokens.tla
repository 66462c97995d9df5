------------------------------ MODULE AuthTokens ------------------------------
(****************************************************************************)
(* One user signed in from the tabs of one browser.  The access token is in *)
(* the store of a tab (frontend/src/stores/authStore.ts); the refresh token *)
(* is a cookie all tabs share and a row of the database, replaced each time *)
(* it is used (backend/src/auth/authService.ts).  A request whose access    *)
(* token has expired waits until the tab has a new one and is sent again    *)
(* (frontend/src/utils/http.ts).                                            *)
(*                                                                          *)
(* A request ends with the answer of the server or without one.  Names,     *)
(* passwords, their policy, loginRateLimiter.ts and audit events are left   *)
(* out: they decide only whether an attempt fails, which it may here.       *)
(****************************************************************************)
EXTENDS Naturals, FiniteSets

CONSTANTS
    Tab,
    Work,      \* the requests of a tab other than those of the pages below
    MaxActs,   \* bound: what users and clocks do
    MaxLost    \* bound: answers that are lost

VARIABLES
    rows,      \* refresh tokens in the database, and not expired
    issued,    \* refresh tokens created so far
    account,   \* the user's row
    must,      \* its mustChangePassword
    cookie,    \* the refresh token of the browser, 0 for none
    access,    \* access[t]: what the access token of the tab says
    user,      \* user[t]: what the user of the store says
    route,     \* route[t]: the page the tab shows
    req,       \* req[t][a]: the request actor a of the tab waits for
    acts, lost,
    revoked,   \* refresh tokens ended by a change of the account or the clock
    unheard    \* refresh tokens a request ended whose answer never came

server == <<rows, issued, account, must, revoked, unheard>>
store  == <<access, user, route>>
vars   == <<server, cookie, store, req, acts, lost>>

\* Who waits for a request: the page, other parts of the tab, and the three
\* callers of refreshAccessToken: the interceptor, the router, the page.
Call  == {"shared", "guard", "own"}
Actor == {"page"} \cup Work \cup Call

ASSUME ConstantsAssumption ==
    /\ MaxActs \in Nat /\ MaxLost \in Nat
    /\ IsFiniteSet(Work) /\ Work \cap ({"page"} \cup Call) = {}

NoRequest == [kind |-> "none", pc |-> "none", with |-> "none", cookie |-> 0, new |-> 0, tried |-> FALSE]

\* A request is sent with the access token and the cookie there are; new is
\* the refresh token of its answer.
Request(kind, token, jar) ==
    [kind |-> kind, pc |-> "sent", with |-> token, cookie |-> jar, new |-> 0, tried |-> FALSE]

\* The refresh token whose row is deleted for the request.
Ended(r) == IF r.kind \in {"refresh", "logout"} /\ r.pc \in {"dropped", "ok"} THEN {r.cookie} ELSE {}

Claim(m) == IF m THEN "must" ELSE "free"
Is(t, a, kind, pc) == req[t][a].kind = kind /\ req[t][a].pc = pc

Init ==
    /\ rows = {} /\ issued = 0 /\ account = "active" /\ must \in BOOLEAN /\ revoked = {} /\ unheard = {}
    /\ cookie = 0
    /\ access = [t \in Tab |-> "none"] /\ user = [t \in Tab |-> "none"]
    /\ route = [t \in Tab |-> "login"]
    /\ req = [t \in Tab |-> [a \in Actor |-> NoRequest]]
    /\ acts = 0 /\ lost = 0

----------------------------------------------------------------------------
(* The server. *)

Replies(t, a, pc) == req' = [req EXCEPT ![t][a].pc = pc]
Revokes == rows' = {} /\ revoked' = revoked \cup rows

\* authMiddleware, then mustChangePasswordCheck but for /auth.
Serves(t, a) ==
    LET r == req[t][a]
    IN  /\ r.pc = "sent" /\ r.kind \in {"work", "profile", "change", "dialog", "logout"}
        /\ \/ /\ r.with \in {"none", "expired"}
              /\ Replies(t, a, "401") /\ UNCHANGED server
           \/ /\ r.with \in {"must", "free"} /\ r.kind = "work"
              /\ Replies(t, a, IF r.with = "must" THEN "403" ELSE "ok") /\ UNCHANGED server
           \/ /\ r.with \in {"must", "free"} /\ r.kind \in {"profile", "change", "dialog"}
              /\ account = "deleted"
              /\ Replies(t, a, "401") /\ UNCHANGED server
           \/ /\ r.with \in {"must", "free"} /\ r.kind = "profile" /\ account # "deleted"
              /\ req' = [req EXCEPT ![t][a] = [r EXCEPT !.pc = "ok", !.with = Claim(must)]]
              /\ UNCHANGED server
           \/ \* changePassword: all refresh tokens of the user are deleted, unless
              \* that throws.
              /\ r.with \in {"must", "free"} /\ r.kind \in {"change", "dialog"} /\ account # "deleted"
              /\ \/ Replies(t, a, "fail") /\ must' \in {must, FALSE} /\ UNCHANGED <<rows, revoked>>
                 \/ Replies(t, a, "ok") /\ must' = FALSE /\ Revokes
              /\ UNCHANGED <<issued, account, unheard>>
           \/ /\ r.with \in {"must", "free"} /\ r.kind = "logout"
              /\ rows' = rows \ {r.cookie} /\ Replies(t, a, "ok")
              /\ UNCHANGED <<issued, account, must, revoked, unheard>>
    /\ UNCHANGED <<cookie, store, acts, lost>>

\* login reads the user; r.with says whether the password is right.
ChecksLogin(t) ==
    LET r == req[t]["page"]
    IN  /\ Is(t, "page", "login", "sent")
        /\ \/ /\ account = "deleted" \/ (account = "active" /\ r.with = "wrong")
              /\ Replies(t, "page", "401")
           \/ /\ account = "locked"
              /\ Replies(t, "page", "fail")
           \/ /\ account = "active" /\ r.with = "right"
              /\ req' = [req EXCEPT ![t]["page"] = [r EXCEPT !.pc = "found", !.with = Claim(must)]]
    /\ UNCHANGED <<server, cookie, store, acts, lost>>

\* refresh reads the row and its user.
Finds(t, c) ==
    LET r == req[t][c]
    IN  /\ Is(t, c, "refresh", "sent")
        /\ \/ /\ r.cookie \notin rows
              /\ Replies(t, c, "401") /\ UNCHANGED <<rows, revoked>>
           \/ /\ r.cookie \in rows /\ account = "locked"
              /\ Replies(t, c, "fail")
              /\ rows' = rows \ {r.cookie} /\ revoked' = revoked \cup {r.cookie}
           \/ /\ r.cookie \in rows /\ account # "locked"
              /\ req' = [req EXCEPT ![t][c] = [r EXCEPT !.pc = "found", !.with = Claim(must)]]
              /\ UNCHANGED <<rows, revoked>>
    /\ UNCHANGED <<issued, account, must, unheard, cookie, store, acts, lost>>

\* refresh deletes the row, or that throws.
Drops(t, c) ==
    /\ Is(t, c, "refresh", "found")
    /\ \/ rows' = rows \ {req[t][c].cookie} /\ Replies(t, c, "dropped")
       \/ UNCHANGED rows /\ Replies(t, c, "fail")
    /\ UNCHANGED <<issued, account, must, revoked, unheard, cookie, store, acts, lost>>

\* Mutant: the answer carries another token than the row.
CreatesTwice(t, a) ==
    /\ Is(t, a, "login", "found") \/ Is(t, a, "refresh", "dropped")
    /\ issued' = issued + 1 /\ rows' = rows \cup {issued'}
    /\ req' = [req EXCEPT ![t][a] = [@ EXCEPT !.pc = "ok", !.new = issued + 2]]
    /\ UNCHANGED <<account, must, revoked, unheard, cookie, store, acts, lost>>

\* login and refresh insert the row of the new token. That may throw, and does
\* when the user is deleted.
Creates(t, a) ==
    /\ Is(t, a, "login", "found") \/ Is(t, a, "refresh", "dropped")
    /\ \/ /\ account # "deleted"
          /\ issued' = issued + 1 /\ rows' = rows \cup {issued'}
          /\ req' = [req EXCEPT ![t][a] = [@ EXCEPT !.pc = "ok", !.new = issued']]
          /\ UNCHANGED unheard
       \/ /\ Replies(t, a, "fail") /\ unheard' = unheard \cup Ended(req[t][a])
          /\ UNCHANGED <<rows, issued>>
    /\ UNCHANGED <<account, must, revoked, cookie, store, acts, lost>>

----------------------------------------------------------------------------
(* The interceptor of http.ts. *)

Asked(t) == Request("refresh", access[t], cookie)

Waits(t, a) ==
    req' = [req EXCEPT ![t] = [b \in Actor |->
                IF b = a THEN [req[t][a] EXCEPT !.pc = "waits", !.tried = TRUE]
                ELSE IF b = "shared" /\ req[t][b] = NoRequest THEN Asked(t) ELSE req[t][b]]]

\* Mutant: the refresh endpoint is not skipped.
InterceptsAll(t, a) ==
    /\ req[t][a].pc = "401" /\ ~req[t][a].tried /\ Waits(t, a)
    /\ UNCHANGED <<server, cookie, store, acts, lost>>

\* A request that is refused waits for the refresh that goes on, or starts one.
Intercepts(t, a) ==
    /\ req[t][a].pc = "401" /\ ~req[t][a].tried /\ req[t][a].kind # "refresh" /\ Waits(t, a)
    /\ UNCHANGED <<server, cookie, store, acts, lost>>

\* refreshPromise is settled: those who wait send again, or fail.
Settled(r, ok, token) ==
    IF r.pc # "waits" THEN r
    ELSE IF ~ok THEN [r EXCEPT !.pc = "fail"]
    ELSE [r EXCEPT !.pc = "sent", !.with = IF r.kind = "login" THEN @ ELSE token, !.cookie = cookie']

\* The page the router shows when it is asked for "main".
Home(says) == IF says = "must" THEN "change" ELSE "main"

\* refreshAccessToken returns: the interceptor lets the others go, the router
\* shows a page, ChangePasswordPage goes on to fetchProfile.
Returns(t, c, ok, token, says) ==
    /\ access' = [access EXCEPT ![t] = IF ok THEN token ELSE "none"]
    /\ user' = [user EXCEPT ![t] = IF ok THEN says ELSE "none"]
    /\ req' = [req EXCEPT ![t] = [a \in Actor |->
                  IF a = c THEN NoRequest
                  ELSE IF a = "page" /\ c = "own" THEN Request("profile", access'[t], cookie')
                  ELSE IF c = "shared" THEN Settled(req[t][a], ok, token) ELSE req[t][a]]]
    /\ route' = [route EXCEPT ![t] =
                    IF c = "guard" THEN IF ok /\ token # "none" THEN Home(says) ELSE "login"
                    ELSE IF c = "shared" /\ ~ok THEN "login" ELSE @]

\* Mutant: the profile is not fetched.
HearsRefreshOnly(t, c) ==
    /\ Is(t, c, "refresh", "ok")
    /\ cookie' = req[t][c].new
    /\ Returns(t, c, TRUE, req[t][c].with, user[t])
    /\ UNCHANGED <<server, acts, lost>>

\* Mutant: the answer does not set the cookie.
HearsAccessOnly(t, c) ==
    /\ Is(t, c, "refresh", "ok")
    /\ cookie' = cookie
    /\ IF user[t] # "none" THEN Returns(t, c, TRUE, req[t][c].with, user[t])
       ELSE /\ access' = [access EXCEPT ![t] = req[t][c].with]
            /\ req' = [req EXCEPT ![t][c] = Request("profile", req[t][c].with, cookie')]
            /\ UNCHANGED <<user, route>>
    /\ UNCHANGED <<server, acts, lost>>

\* The new tokens; a tab that does not know its user fetches the profile.
HearsRefresh(t, c) ==
    /\ Is(t, c, "refresh", "ok")
    /\ cookie' = req[t][c].new
    /\ IF user[t] # "none" THEN Returns(t, c, TRUE, req[t][c].with, user[t])
       ELSE /\ access' = [access EXCEPT ![t] = req[t][c].with]
            /\ req' = [req EXCEPT ![t][c] = Request("profile", req[t][c].with, cookie')]
            /\ UNCHANGED <<user, route>>
    /\ UNCHANGED <<server, acts, lost>>

HearsProfile(t, c) ==
    /\ Is(t, c, "profile", "ok")
    /\ cookie' = cookie
    /\ Returns(t, c, TRUE, access[t], req[t][c].with)
    /\ UNCHANGED <<server, acts, lost>>

Failed(r) == r.pc = "fail" \/ (r.pc = "401" /\ (r.tried \/ r.kind = "refresh"))

HearsFailure(t, c) ==
    /\ Failed(req[t][c])
    /\ cookie' = cookie
    /\ Returns(t, c, FALSE, "none", "none")
    /\ UNCHANGED <<server, acts, lost>>

----------------------------------------------------------------------------
(* The pages. *)

Free(t, a) == req[t][a] = NoRequest
Asks(t, a, kind, with) == req' = [req EXCEPT ![t][a] = Request(kind, with, cookie)]
Acts == acts < MaxActs /\ acts' = acts + 1
Done(t, a) == req' = [req EXCEPT ![t][a] = NoRequest]

\* LoginPage.
LogsIn(t) ==
    /\ route[t] = "login" /\ Free(t, "page") /\ Free(t, "own") /\ Acts
    /\ \E password \in {"right", "wrong"} : Asks(t, "page", "login", password)
    /\ UNCHANGED <<server, cookie, store, lost>>

LoggedIn(t) ==
    /\ Is(t, "page", "login", "ok")
    /\ cookie' = req[t]["page"].new
    /\ access' = [access EXCEPT ![t] = req[t]["page"].with]
    /\ user' = [user EXCEPT ![t] = req[t]["page"].with]
    /\ route' = [route EXCEPT ![t] = Home(req[t]["page"].with)]
    /\ Done(t, "page")
    /\ UNCHANGED <<server, acts, lost>>

\* A component asks for something; a refusal by mustChangePasswordCheck shows
\* ChangePasswordPage.
Works(t, w) ==
    /\ route[t] = "main" /\ Free(t, w) /\ Acts
    /\ Asks(t, w, "work", access[t])
    /\ UNCHANGED <<server, cookie, store, lost>>

Worked(t, w) ==
    /\ req[t][w].pc \in {"ok", "403"} \/ Failed(req[t][w])
    /\ Done(t, w)
    /\ route' = IF req[t][w].pc = "403" THEN [route EXCEPT ![t] = "change"] ELSE route
    /\ UNCHANGED <<server, cookie, access, user, acts, lost>>

\* ChangePasswordPage, and ChangePasswordDialog, which does nothing more.
Changes(t) ==
    /\ route[t] \in {"change", "main"} /\ Free(t, "page") /\ Free(t, "own") /\ Acts
    /\ Asks(t, "page", IF route[t] = "change" THEN "change" ELSE "dialog", access[t])
    /\ UNCHANGED <<server, cookie, store, lost>>

Changed(t) ==
    /\ Is(t, "page", "change", "ok")
    /\ req' = [req EXCEPT ![t] = [@ EXCEPT !["page"] = NoRequest, !["own"] = Asked(t)]]
    /\ UNCHANGED <<server, cookie, store, acts, lost>>

\* fetchProfile of that page is answered. The router asks once at a time.
Profiled(t) ==
    /\ Is(t, "page", "profile", "ok")
    /\ user' = [user EXCEPT ![t] = req[t]["page"].with]
    /\ IF access[t] = "none"
       THEN /\ Free(t, "guard")
            /\ req' = [req EXCEPT ![t] = [@ EXCEPT !["page"] = NoRequest, !["guard"] = Asked(t)]]
            /\ UNCHANGED route
       ELSE route' = [route EXCEPT ![t] = Home(user'[t])] /\ Done(t, "page")
    /\ UNCHANGED <<server, cookie, access, acts, lost>>

\* What else the page hears changes nothing.
Ignores(t) ==
    /\ \/ Is(t, "page", "dialog", "ok")
       \/ req[t]["page"].kind # "logout" /\ Failed(req[t]["page"])
    /\ Done(t, "page")
    /\ UNCHANGED <<server, cookie, store, acts, lost>>

\* logout: the store is cleared whatever the answer is.
LogsOut(t) ==
    /\ route[t] \in {"change", "main"} /\ Free(t, "page") /\ Free(t, "own") /\ Acts
    /\ Asks(t, "page", "logout", access[t])
    /\ UNCHANGED <<server, cookie, store, lost>>

LoggedOut(t) ==
    /\ req[t]["page"].kind = "logout"
    /\ req[t]["page"].pc = "ok" \/ Failed(req[t]["page"])
    /\ cookie' = IF req[t]["page"].pc = "ok" THEN 0 ELSE cookie
    /\ access' = [access EXCEPT ![t] = "none"] /\ user' = [user EXCEPT ![t] = "none"]
    /\ route' = [route EXCEPT ![t] = "login"]
    /\ Done(t, "page")
    /\ UNCHANGED <<server, acts, lost>>

\* The tab is loaded anew, at a page for users. It forgets its requests; those
\* the server works on are answered before.
Reloads(t) ==
    /\ Acts /\ \A a \in Actor : req[t][a].pc \notin {"found", "dropped"}
    /\ access' = [access EXCEPT ![t] = "none"] /\ user' = [user EXCEPT ![t] = "none"]
    /\ lost' = lost + Cardinality({a \in Actor : req[t][a].kind \in {"refresh", "login", "logout"} /\ req[t][a].pc = "ok"})
    /\ lost' <= MaxLost
    /\ unheard' = unheard \cup UNION {Ended(req[t][a]) : a \in Actor}
    /\ req' = [req EXCEPT ![t] = [a \in Actor |-> IF a = "guard" THEN Request("refresh", "none", cookie) ELSE NoRequest]]
    /\ route' = [route EXCEPT ![t] = "blank"]
    /\ UNCHANGED <<rows, issued, account, must, revoked, cookie>>

----------------------------------------------------------------------------
(* Clocks, the network and the administrator. *)

\* A token lives longer than a refresh takes.
AccessExpires(t) ==
    /\ access[t] \in {"must", "free"} /\ \A c \in Call : Free(t, c)
    /\ Acts
    /\ access' = [access EXCEPT ![t] = "expired"]
    /\ UNCHANGED <<server, cookie, user, route, req, lost>>

\* A request or its answer is lost, or the first statement for it throws.
Loses(t, a) ==
    /\ req[t][a].pc \in {"sent", "ok"} /\ lost < MaxLost
    /\ lost' = lost + 1 /\ Replies(t, a, "fail")
    /\ unheard' = unheard \cup Ended(req[t][a])
    /\ UNCHANGED <<rows, issued, account, must, revoked, cookie, store, acts>>

\* lockUser, deleteUserById and reset-admin end all refresh tokens, as time
\* does; only the rows of a deleted user go in the same statement.
AccountEnds ==
    /\ Acts
    /\ \/ account = "active" /\ account' \in {"locked", "deleted"} /\ UNCHANGED must
       \/ account = "active" /\ ~must /\ must' = TRUE /\ UNCHANGED account
       \/ rows # {} /\ UNCHANGED <<account, must>>
    /\ \/ Revokes
       \/ /\ account' # "deleted" /\ <<account, must>>' # <<account, must>>
          /\ UNCHANGED <<rows, revoked>>
    /\ UNCHANGED <<issued, unheard, cookie, store, req, lost>>

Unlocks ==
    /\ account = "locked" /\ Acts /\ account' = "active"
    /\ UNCHANGED <<rows, issued, must, revoked, unheard, cookie, store, req, lost>>

----------------------------------------------------------------------------

Goes(t) ==
    \/ ChecksLogin(t) \/ LoggedIn(t) \/ Changed(t) \/ Profiled(t) \/ Ignores(t) \/ LoggedOut(t)
    \/ \E a \in Actor : Serves(t, a) \/ Creates(t, a) \/ Intercepts(t, a)
    \/ \E c \in Call : Finds(t, c) \/ Drops(t, c) \/ HearsRefresh(t, c) \/ HearsProfile(t, c) \/ HearsFailure(t, c)
    \/ \E w \in Work : Worked(t, w)

User(t) == LogsIn(t) \/ Changes(t) \/ LogsOut(t) \/ Reloads(t) \/ \E w \in Work : Works(t, w)

Faults == \E t \in Tab : AccessExpires(t) \/ \E a \in Actor : Loses(t, a)

Next == (\E t \in Tab : Goes(t) \/ User(t)) \/ Faults \/ AccountEnds \/ Unlocks

\* Requests are answered and callbacks run.
Spec == Init /\ [][Next]_vars /\ WF_vars(\E t \in Tab : Goes(t))

----------------------------------------------------------------------------
(* Properties. *)

TypeOK ==
    /\ rows \subseteq 1..issued /\ revoked \subseteq 1..issued /\ cookie \in 0..issued
    /\ unheard \subseteq 0..issued /\ account \in {"active", "locked", "deleted"} /\ must \in BOOLEAN
    /\ acts \in 0..MaxActs /\ lost \in 0..MaxLost
    /\ \A t \in Tab :
          /\ access[t] \in {"none", "must", "free", "expired"}
          /\ user[t] \in {"none", "must", "free"}
          /\ route[t] \in {"login", "change", "main", "blank"}
          /\ \A a \in Actor :
                /\ req[t][a].pc \in {"none", "sent", "found", "dropped", "waits", "ok", "401", "403", "fail"}
                /\ req[t][a].with \in {"none", "must", "free", "expired", "right", "wrong"}
                /\ req[t][a].kind \in {"none", "refresh", "login", "work", "profile", "change", "dialog", "logout"}

Rests(t) == \A a \in Actor : Free(t, a)

\* A tab at rest that has an access token knows its user.
AuthIsWhole == \A t \in Tab : Rests(t) /\ access[t] # "none" => user[t] # "none"

\* When all tabs rest the server knows the token of the browser, unless the
\* account changed, or that very token was deleted by a request whose answer
\* did not come: it was lost, or the insertion of the next token threw. Other
\* losses, and the requests of the other tab, leave the cookie usable.
CookieWorks == (\A t \in Tab : Rests(t)) => cookie = 0 \/ cookie \in rows \cup revoked \cup unheard

\* What the tabs ask for is answered in the end, but for a tab that waits for
\* its own refresh: the user was deleted between that and the profile.
RequestsEnd == []<>(\A t \in Tab : Rests(t) \/ (account = "deleted" /\ req[t]["shared"].pc = "waits"))
============================================================================
