--------------------------- MODULE AuthTokensProofs ---------------------------
(****************************************************************************)
(* Theorems about AuthTokens: its types, the cookie that can be used, and   *)
(* the tab that knows its user.                                             *)
(****************************************************************************)
EXTENDS AuthTokens, FiniteSetTheorems, TLAPS

Kinds     == {"none", "refresh", "login", "work", "profile", "change", "dialog", "logout"}
Places    == {"none", "sent", "found", "dropped", "waits", "ok", "401", "403", "fail"}
Tokens    == {"none", "must", "free", "expired"}
Requests  == [kind : Kinds, pc : Places, with : Tokens \cup {"right", "wrong"},
              cookie : Nat, new : Nat, tried : BOOLEAN]

\* What an actor asks for.
KindsOf(a) ==
    IF a = "page" THEN {"none", "login", "profile", "change", "dialog", "logout"}
    ELSE IF a \in Work THEN {"none", "work"} ELSE {"none", "refresh", "profile"}

\* The server names the user of a login, a refresh or a profile it found.
Fits(a, r, n) ==
    /\ r \in Requests /\ r.kind \in KindsOf(a) /\ r.cookie <= n /\ r.new <= n
    /\ r.kind = "none" => r = NoRequest
    /\ r.pc = "found" => r.kind \in {"refresh", "login"}
    /\ r.pc = "dropped" => r.kind = "refresh"
    /\ r.pc \in {"found", "dropped", "ok"} /\ r.kind \in {"refresh", "login", "profile"} => r.with \in {"must", "free"}

Shape ==
    /\ issued \in Nat /\ rows \subseteq 1..issued /\ revoked \subseteq 1..issued /\ cookie \in 0..issued
    /\ unheard \subseteq 0..issued /\ account \in {"active", "locked", "deleted"} /\ must \in BOOLEAN
    /\ acts \in 0..MaxActs /\ lost \in 0..MaxLost
    /\ access \in [Tab -> Tokens] /\ user \in [Tab -> {"none", "must", "free"}]
    /\ route \in [Tab -> {"login", "change", "main", "blank"}]
    /\ req \in [Tab -> [Actor -> Requests]]
    /\ \A t \in Tab, a \in Actor : Fits(a, req[t][a], issued)

(* The cookie. *)

\* An answer that carries a new refresh token.
Brings(r) == r.kind \in {"refresh", "login"} /\ r.pc = "ok"

\* Nobody has the token an answer brings, but for the server.
Fresh(t, a) ==
    LET n == req[t][a].new
    IN  /\ n \in rows \cup revoked /\ n # cookie
        /\ \A u \in Tab, b \in Actor : req[u][b].cookie # n
        /\ \A u \in Tab, b \in Actor : <<u, b>> # <<t, a>> => req[u][b].new # n

AnswersAreFresh == \A t \in Tab, a \in Actor : Brings(req[t][a]) => Fresh(t, a)

\* A token of the browser that was deleted is about to be replaced there too,
\* unless the answer that does it did not come.
CookieFollows ==
    \/ cookie = 0 \/ cookie \in rows \cup revoked \cup unheard
    \/ \E t \in Tab, a \in Actor : cookie \in Ended(req[t][a])

\* No request is forgotten for another one.
OneAtAPage == \A t \in Tab : Free(t, "page") \/ Free(t, "own")

DeletedHasNoRows == account = "deleted" => rows = {}

CookieInv == OneAtAPage /\ DeletedHasNoRows /\ AnswersAreFresh /\ CookieFollows

\* A tab that has a token and does not know its user asks for the profile.
AuthInv == \A t \in Tab : access[t] # "none" /\ user[t] = "none" => \E c \in Call : req[t][c].kind = "profile"

----------------------------------------------------------------------------
(* What a step does to the requests. *)

\* Actors of different kinds are different, and all are actors.
LEMMA Actors ==
    /\ "page" \in Actor /\ Call \subseteq Actor /\ Work \subseteq Actor
    /\ "page" \notin Work /\ "page" \notin Call /\ Call \cap Work = {}
    /\ {"shared", "guard", "own"} \subseteq Call
BY ConstantsAssumption DEF Actor, Call

\* A new request is one, and asks for what its actor may ask for.
LEMMA Asking ==
    ASSUME NEW kind \in Kinds, NEW token \in Tokens \cup {"right", "wrong"}, NEW jar \in Nat
    PROVE  /\ Request(kind, token, jar) \in Requests /\ NoRequest \in Requests
           /\ Request(kind, token, jar).kind = kind /\ Request(kind, token, jar).pc = "sent"
           /\ Request(kind, token, jar).cookie = jar /\ Request(kind, token, jar) # NoRequest
           /\ NoRequest.kind = "none" /\ NoRequest.pc = "none" /\ NoRequest.cookie = 0
           /\ Request(kind, token, jar).new = 0 /\ NoRequest.new = 0
BY DEF Request, NoRequest, Requests, Kinds, Places, Tokens

\* The request of one actor is another one.
Becomes(t, a, r) ==
    /\ req'[t][a] = r
    /\ \A u \in Tab, b \in Actor : <<u, b>> # <<t, a>> => req'[u][b] = req[u][b]

LEMMA BecomesEffect ==
    ASSUME Shape, NEW t \in Tab, NEW a \in Actor, NEW r \in Requests,
           req' = [req EXCEPT ![t][a] = r]
    PROVE  Becomes(t, a, r) /\ req' \in [Tab -> [Actor -> Requests]]
BY DEF Shape, Becomes

\* An answer, or its loss, changes the place of the request only.
LEMMA RepliesEffect ==
    ASSUME Shape, NEW t \in Tab, NEW a \in Actor, NEW pc \in Places, Replies(t, a, pc)
    PROVE  /\ Becomes(t, a, [req[t][a] EXCEPT !.pc = pc])
           /\ [req[t][a] EXCEPT !.pc = pc] \in Requests
           /\ req' \in [Tab -> [Actor -> Requests]]
<1>1. req[t][a] \in Requests
  BY DEF Shape
<1>2. [req[t][a] EXCEPT !.pc = pc] \in Requests
  BY <1>1 DEF Requests
<1>3. req' = [req EXCEPT ![t][a] = [req[t][a] EXCEPT !.pc = pc]]
  BY DEF Replies, Shape
<1>4. QED
  BY <1>2, <1>3, BecomesEffect

\* Two requests of a tab change.
LEMMA TwoEffect ==
    ASSUME Shape, NEW t \in Tab, NEW a \in Actor, NEW b \in Actor, a # b,
           NEW r \in Requests, NEW s \in Requests,
           req' = [req EXCEPT ![t] = [@ EXCEPT ![a] = r, ![b] = s]]
    PROVE  /\ req'[t][a] = r /\ req'[t][b] = s
           /\ \A u \in Tab, o \in Actor : u # t \/ o \notin {a, b} => req'[u][o] = req[u][o]
           /\ req' \in [Tab -> [Actor -> Requests]]
BY DEF Shape

\* A request that has to wait keeps its cookie; the interceptor may ask for a
\* refresh besides.
LEMMA WaitsEffect ==
    ASSUME Shape, NEW t \in Tab, NEW a \in Actor, Waits(t, a)
    PROVE  /\ req' \in [Tab -> [Actor -> Requests]]
           /\ \A u \in Tab, b \in Actor :
                 \/ req'[u][b] = req[u][b]
                 \/ /\ u = t /\ b = a
                    /\ req'[u][b] = [req[t][a] EXCEPT !.pc = "waits", !.tried = TRUE]
                 \/ u = t /\ b = "shared" /\ req[u][b] = NoRequest /\ req'[u][b] = Asked(t)
           /\ req'[t][a] = [req[t][a] EXCEPT !.pc = "waits", !.tried = TRUE]
<1> DEFINE w == [req[t][a] EXCEPT !.pc = "waits", !.tried = TRUE]
           f == [b \in Actor |-> IF b = a THEN w
                                 ELSE IF b = "shared" /\ req[t][b] = NoRequest THEN Asked(t) ELSE req[t][b]]
<1>1. w \in Requests
  <2>1. req[t][a] \in Requests
    BY DEF Shape
  <2>2. QED
    BY <2>1 DEF Requests, Places
<1>2. Asked(t) \in Requests
  BY Asking DEF Asked, Shape, Kinds
<1>3. req' = [req EXCEPT ![t] = f]
  BY DEF Waits
<1> HIDE DEF w
<1>4. f \in [Actor -> Requests]
  BY <1>1, <1>2 DEF Shape
<1>5. req' \in [Tab -> [Actor -> Requests]] /\ req'[t] = f /\ \A u \in Tab \ {t} : req'[u] = req[u]
  BY <1>3, <1>4 DEF Shape
<1>6. QED
  BY <1>5 DEF w

\* What the callers of refreshAccessToken hear ends their request. The page
\* goes on to its profile, and those who wait for the interceptor send again,
\* or fail.
SettledTo(s, r, ok) ==
    /\ r.pc = "waits" /\ s.kind = r.kind /\ s.new = r.new /\ s \in Requests
    /\ IF ok THEN s.pc = "sent" /\ s.cookie = cookie' ELSE s.pc = "fail" /\ s.cookie = r.cookie

LEMMA ReturnsEffect ==
    ASSUME Shape, NEW t \in Tab, NEW c \in Call, NEW ok \in BOOLEAN, cookie' \in Nat,
           NEW token \in Tokens, NEW says \in {"none", "must", "free"}, Returns(t, c, ok, token, says)
    PROVE  /\ req' \in [Tab -> [Actor -> Requests]]
           /\ \A u \in Tab \ {t} : req'[u] = req[u]
           /\ req'[t][c] = NoRequest
           /\ c = "own" => req'[t]["page"] = Request("profile", access'[t], cookie')
           /\ \A b \in Actor \ {c} :
                 \/ b = "page" /\ c = "own"
                 \/ req'[t][b] = req[t][b]
                 \/ SettledTo(req'[t][b], req[t][b], ok)
           /\ access' \in [Tab -> Tokens] /\ user' \in [Tab -> {"none", "must", "free"}]
           /\ route' \in [Tab -> {"login", "change", "main", "blank"}]
<1> DEFINE asks == Request("profile", access'[t], cookie')
           f == [b \in Actor |-> IF b = c THEN NoRequest
                                 ELSE IF b = "page" /\ c = "own" THEN asks
                                 ELSE IF c = "shared" THEN Settled(req[t][b], ok, token) ELSE req[t][b]]
<1>1. access' \in [Tab -> Tokens] /\ user' \in [Tab -> {"none", "must", "free"}]
  BY DEF Returns, Shape, Tokens
<1>2. route' \in [Tab -> {"login", "change", "main", "blank"}]
  BY DEF Returns, Shape, Home
<1>3. \A b \in Actor : req[t][b] \in Requests
  BY DEF Shape
<1>4. ASSUME NEW b \in Actor
      PROVE  /\ Settled(req[t][b], ok, token) \in Requests
             /\ Settled(req[t][b], ok, token) = req[t][b] \/ SettledTo(Settled(req[t][b], ok, token), req[t][b], ok)
  BY <1>3 DEF Settled, SettledTo, Requests, Places, Tokens
<1>5. asks \in Requests /\ NoRequest \in Requests
  BY <1>1, Asking DEF Kinds
<1>6. c \in Actor /\ "page" \in Actor /\ c # "page"
  BY Actors
<1>7. req' = [req EXCEPT ![t] = f]
  BY DEF Returns
<1> HIDE DEF asks
<1>8. f \in [Actor -> Requests]
  BY <1>3, <1>4, <1>5
<1>9. req' \in [Tab -> [Actor -> Requests]] /\ req'[t] = f /\ \A u \in Tab \ {t} : req'[u] = req[u]
  BY <1>7, <1>8 DEF Shape
<1>10. QED
  BY <1>1, <1>2, <1>4, <1>6, <1>9 DEF asks

----------------------------------------------------------------------------
(* Types. *)

Requested == req' \in [Tab -> [Actor -> Requests]] /\ \A t \in Tab, a \in Actor : Fits(a, req'[t][a], issued')

LEMMA FitsLater ==
    ASSUME NEW n \in Nat, NEW m \in Nat, n <= m, NEW a \in Actor, NEW r, Fits(a, r, n)
    PROVE  Fits(a, r, m)
BY DEF Fits, Requests

LEMMA NoRequestFits ==
    ASSUME NEW n \in Nat, NEW a \in Actor
    PROVE  Fits(a, NoRequest, n)
BY Actors DEF Fits, NoRequest, Requests, KindsOf, Kinds, Places, Tokens, Call

LEMMA RequestFits ==
    ASSUME NEW n \in Nat, NEW a \in Actor, NEW kind \in KindsOf(a) \ {"none"}, NEW token \in Tokens \cup {"right", "wrong"},
           NEW jar \in 0..n
    PROVE  Fits(a, Request(kind, token, jar), n)
BY Actors DEF Fits, Request, Requests, KindsOf, Kinds, Places, Tokens, Call, Actor

\* A request that only moves to a place where it needs no claim.
LEMMA PlaceFits ==
    ASSUME NEW n \in Nat, NEW a \in Actor, NEW r, Fits(a, r, n), r.kind # "none",
           NEW pc \in Places \ {"found"}, pc = "dropped" => r.pc = "found" /\ r.kind = "refresh",
           pc = "ok" => r.kind \notin {"refresh", "login", "profile"}
    PROVE  Fits(a, [r EXCEPT !.pc = pc], n)
BY DEF Fits, Requests, Places

\* A request that has to wait.
LEMMA WaitsFits ==
    ASSUME NEW n \in Nat, NEW a \in Actor, NEW r, Fits(a, r, n), r.kind # "none"
    PROVE  Fits(a, [r EXCEPT !.pc = "waits", !.tried = TRUE], n)
BY DEF Fits, Requests, Places

\* The server found the user.
LEMMA ClaimFits ==
    ASSUME NEW n \in Nat, NEW a \in Actor, NEW r, Fits(a, r, n), r.kind \in {"refresh", "login", "profile"},
           NEW pc \in {"found", "ok"}, pc = "found" => r.kind # "profile", NEW m
    PROVE  Fits(a, [r EXCEPT !.pc = pc, !.with = Claim(m)], n)
BY DEF Fits, Requests, Places, Tokens, Claim

\* The server made a token.
LEMMA TokenFits ==
    ASSUME NEW n \in Nat, NEW a \in Actor, NEW r, Fits(a, r, n), r.pc \in {"found", "dropped"}
    PROVE  Fits(a, [r EXCEPT !.pc = "ok", !.new = n + 1], n + 1)
<1> DEFINE s == [r EXCEPT !.pc = "ok", !.new = n + 1]
<1>1. r \in Requests /\ n + 1 \in Nat
  BY DEF Fits
<1>2. s \in Requests /\ s.kind = r.kind /\ s.with = r.with /\ s.pc = "ok" /\ s.cookie = r.cookie /\ s.new = n + 1
  BY <1>1 DEF Requests, Places
<1>3. r.kind \in {"refresh", "login"} /\ r.kind \in KindsOf(a) /\ r.with \in {"must", "free"} /\ r.cookie <= n
  BY DEF Fits
<1> HIDE DEF s
<1>4. Fits(a, s, n + 1)
  BY <1>1, <1>2, <1>3 DEF Fits, Requests
<1>5. QED
  BY <1>4 DEF s

LEMMA BecomesFits ==
    ASSUME Shape, issued' \in Nat, issued <= issued', NEW t \in Tab, NEW a \in Actor, NEW r,
           Fits(a, r, issued'), req' = [req EXCEPT ![t][a] = r]
    PROVE  Requested
<1>1. r \in Requests
  BY DEF Fits
<1>2. Becomes(t, a, r) /\ req' \in [Tab -> [Actor -> Requests]]
  BY <1>1, BecomesEffect
<1>3. \A u \in Tab, b \in Actor : Fits(b, req[u][b], issued')
  BY FitsLater DEF Shape
<1>4. QED
  BY <1>2, <1>3 DEF Becomes, Requested

LEMMA RepliesFits ==
    ASSUME Shape, issued' = issued, NEW t \in Tab, NEW a \in Actor, req[t][a].kind # "none",
           NEW pc \in Places \ {"found"}, Replies(t, a, pc),
           pc = "dropped" => req[t][a].pc = "found" /\ req[t][a].kind = "refresh",
           pc = "ok" => req[t][a].kind \notin {"refresh", "login", "profile"}
    PROVE  Requested
<1>1. req' = [req EXCEPT ![t][a] = [req[t][a] EXCEPT !.pc = pc]]
  BY DEF Replies, Shape
<1>2. Fits(a, req[t][a], issued)
  BY DEF Shape
<1>3. Fits(a, [req[t][a] EXCEPT !.pc = pc], issued)
  BY <1>2, PlaceFits DEF Shape
<1>4. issued' \in Nat /\ issued <= issued' /\ Fits(a, [req[t][a] EXCEPT !.pc = pc], issued')
  BY <1>3 DEF Shape
<1>5. QED
  BY <1>1, <1>4, BecomesFits

\* What is not at rest has a kind.
LEMMA Placed ==
    ASSUME Shape, NEW t \in Tab, NEW a \in Actor, req[t][a].pc # "none"
    PROVE  req[t][a].kind # "none"
BY DEF Shape, Fits, NoRequest

LEMMA ReturnsFits ==
    ASSUME Shape, issued' = issued, NEW t \in Tab, NEW c \in Call, NEW ok \in BOOLEAN, cookie' \in 0..issued,
           NEW token \in Tokens, NEW says \in {"none", "must", "free"}, Returns(t, c, ok, token, says)
    PROVE  Requested
<1>1. issued \in Nat /\ cookie' \in Nat
  BY DEF Shape
<1>2. /\ req' \in [Tab -> [Actor -> Requests]]
      /\ \A u \in Tab \ {t} : req'[u] = req[u]
      /\ req'[t][c] = NoRequest
      /\ c = "own" => req'[t]["page"] = Request("profile", access'[t], cookie')
      /\ \A b \in Actor \ {c} :
            \/ b = "page" /\ c = "own"
            \/ req'[t][b] = req[t][b]
            \/ SettledTo(req'[t][b], req[t][b], ok)
      /\ access' \in [Tab -> Tokens]
  BY <1>1, ReturnsEffect
<1>3. ASSUME NEW b \in Actor, b # c, SettledTo(req'[t][b], req[t][b], ok)
      PROVE  Fits(b, req'[t][b], issued)
  <2>1. Fits(b, req[t][b], issued)
    BY DEF Shape
  <2>2. req[t][b].kind # "none"
    BY <1>3, Placed DEF SettledTo
  <2>3. QED
    BY <1>1, <1>3, <2>1, <2>2 DEF SettledTo, Fits
<1>4. c = "own" => Fits("page", req'[t]["page"], issued)
  BY <1>1, <1>2, Actors, RequestFits DEF KindsOf
<1>5. Fits(c, NoRequest, issued)
  BY <1>1, Actors, NoRequestFits
<1>6. \A u \in Tab, b \in Actor : Fits(b, req[u][b], issued)
  BY DEF Shape
<1>7. QED
  BY <1>2, <1>3, <1>4, <1>5, <1>6, Actors DEF Requested

LEMMA ShapeParts ==
    ASSUME Shape, Requested, issued' \in Nat, rows' \subseteq 1..issued', revoked' \subseteq 1..issued', unheard' \subseteq 0..issued', cookie' \in 0..issued',
           account' \in {"active", "locked", "deleted"}, must' \in BOOLEAN,
           acts' \in 0..MaxActs, lost' \in 0..MaxLost,
           access' \in [Tab -> Tokens], user' \in [Tab -> {"none", "must", "free"}],
           route' \in [Tab -> {"login", "change", "main", "blank"}]
    PROVE  Shape'
BY DEF Shape, Requested

LEMMA ServesShape ==
    ASSUME Shape, NEW t \in Tab, NEW a \in Actor, Serves(t, a)
    PROVE  Shape'
<1> DEFINE r == req[t][a]
<1>1. r \in Requests /\ r.pc = "sent" /\ r.kind \in {"work", "profile", "change", "dialog", "logout"}
  BY DEF Serves, Shape
<1>2. Fits(a, r, issued) /\ issued \in Nat /\ issued' = issued /\ issued <= issued'
  <2>1. issued' = issued
    BY DEF Serves, server
  <2>2. QED
    BY <2>1 DEF Shape
<1>3. Requested
  <2>1. CASE \E pc \in {"401", "403", "fail"} : Replies(t, a, pc)
    BY <1>1, <1>2, <2>1, RepliesFits DEF Places
  <2>2. CASE Replies(t, a, "ok") /\ r.kind # "profile"
    BY <1>1, <1>2, <2>2, RepliesFits DEF Places
  <2>3. CASE req' = [req EXCEPT ![t][a] = [r EXCEPT !.pc = "ok", !.with = Claim(must)]] /\ r.kind = "profile"
    <3>1. Fits(a, [r EXCEPT !.pc = "ok", !.with = Claim(must)], issued')
      BY <1>1, <1>2, <2>3, ClaimFits
    <3>2. QED
      BY <1>2, <2>3, <3>1, BecomesFits
  <2>4. QED
    BY <1>1, <2>1, <2>2, <2>3 DEF Serves
<1>4. /\ rows' \subseteq 1..issued' /\ revoked' \subseteq 1..issued' /\ cookie' = cookie /\ unheard' = unheard
      /\ account' = account /\ must' \in BOOLEAN /\ UNCHANGED <<access, user, route, acts, lost>>
  BY <1>2 DEF Serves, server, store, Revokes, Shape
<1>5. QED
  BY <1>2, <1>3, <1>4, ShapeParts DEF Shape

LEMMA ChecksLoginShape ==
    ASSUME Shape, NEW t \in Tab, ChecksLogin(t)
    PROVE  Shape'
<1> DEFINE r == req[t]["page"]
<1>1. r \in Requests /\ r.pc = "sent" /\ r.kind = "login" /\ "page" \in Actor
  BY Actors DEF ChecksLogin, Shape, Is
<1>2. Fits("page", r, issued) /\ issued \in Nat /\ issued' = issued /\ issued <= issued'
      /\ UNCHANGED <<server, cookie, store, acts, lost>>
  BY <1>1 DEF ChecksLogin, Shape, server
<1>3. Requested
  <2>1. CASE \E pc \in {"401", "fail"} : Replies(t, "page", pc)
    BY <1>1, <1>2, <2>1, RepliesFits DEF Places, server
  <2>2. CASE req' = [req EXCEPT ![t]["page"] = [r EXCEPT !.pc = "found", !.with = Claim(must)]]
    <3>1. Fits("page", [r EXCEPT !.pc = "found", !.with = Claim(must)], issued')
      BY <1>1, <1>2, ClaimFits DEF server
    <3>2. QED
      BY <1>1, <1>2, <2>2, <3>1, BecomesFits DEF server
  <2>3. QED
    BY <2>1, <2>2 DEF ChecksLogin
<1>4. QED
  BY <1>2, <1>3, ShapeParts DEF Shape, server, store

LEMMA FindsShape ==
    ASSUME Shape, NEW t \in Tab, NEW c \in Call, Finds(t, c)
    PROVE  Shape'
<1> DEFINE r == req[t][c]
<1>1. r \in Requests /\ r.pc = "sent" /\ r.kind = "refresh" /\ c \in Actor
  BY Actors DEF Finds, Shape, Is
<1>2. Fits(c, r, issued) /\ issued \in Nat /\ issued' = issued /\ issued <= issued'
  BY <1>1 DEF Finds, Shape
<1>3. Requested
  <2>1. CASE \E pc \in {"401", "fail"} : Replies(t, c, pc)
    BY <1>1, <1>2, <2>1, RepliesFits DEF Places
  <2>2. CASE req' = [req EXCEPT ![t][c] = [r EXCEPT !.pc = "found", !.with = Claim(must)]]
    <3>1. Fits(c, [r EXCEPT !.pc = "found", !.with = Claim(must)], issued')
      BY <1>1, <1>2, ClaimFits
    <3>2. QED
      BY <1>1, <1>2, <2>2, <3>1, BecomesFits
  <2>3. QED
    BY <2>1, <2>2 DEF Finds
<1>4. /\ rows' \subseteq 1..issued' /\ revoked' \subseteq 1..issued'
      /\ UNCHANGED <<cookie, account, must, unheard, access, user, route, acts, lost>>
  BY <1>2 DEF Finds, store, Shape
<1>5. QED
  BY <1>2, <1>3, <1>4, ShapeParts DEF Shape

LEMMA DropsShape ==
    ASSUME Shape, NEW t \in Tab, NEW c \in Call, Drops(t, c)
    PROVE  Shape'
<1>1. c \in Actor /\ req[t][c].pc = "found" /\ req[t][c].kind = "refresh"
  BY Actors DEF Drops, Is
<1>2. issued' = issued /\ issued \in Nat /\ \E pc \in {"dropped", "fail"} : Replies(t, c, pc)
  BY DEF Drops, Shape
<1>3. Requested
  BY <1>1, <1>2, RepliesFits DEF Places
<1>4. /\ rows' \subseteq 1..issued'
      /\ UNCHANGED <<cookie, account, must, revoked, unheard, access, user, route, acts, lost>>
  BY <1>2 DEF Drops, store, Shape
<1>5. QED
  BY <1>2, <1>3, <1>4, ShapeParts DEF Shape

\* The tokens of requests are tokens.
LEMMA EndedTokens ==
    ASSUME Shape, NEW t \in Tab, NEW a \in Actor
    PROVE  Ended(req[t][a]) \subseteq 0..issued
BY DEF Shape, Fits, Requests, Ended

\* The insertion of a new token: it is done, or it throws.
LEMMA CreatesParts ==
    ASSUME Shape, NEW t \in Tab, NEW a \in Actor, Creates(t, a)
    PROVE  /\ req[t][a] \in Requests /\ req[t][a].pc \in {"found", "dropped"} /\ req[t][a].kind \in {"refresh", "login"}
           /\ UNCHANGED <<account, must, revoked, cookie, access, user, route, acts, lost>>
           /\ \/ /\ account # "deleted" /\ issued' = issued + 1 /\ rows' = rows \cup {issued + 1} /\ unheard' = unheard
                 /\ req' = [req EXCEPT ![t][a] = [req[t][a] EXCEPT !.pc = "ok", !.new = issued + 1]]
              \/ /\ Replies(t, a, "fail") /\ unheard' = unheard \cup Ended(req[t][a]) /\ UNCHANGED <<rows, issued>>
<1>1. req[t][a] \in Requests /\ req[t][a].pc \in {"found", "dropped"} /\ req[t][a].kind \in {"refresh", "login"}
  BY DEF Creates, Is, Shape
<1>2. req' = [req EXCEPT ![t][a] = [@ EXCEPT !.pc = "ok", !.new = issued']]
      => req' = [req EXCEPT ![t][a] = [req[t][a] EXCEPT !.pc = "ok", !.new = issued']]
  BY DEF Shape
<1>3. QED
  BY <1>1, <1>2 DEF Creates, store

LEMMA CreatesShape ==
    ASSUME Shape, NEW t \in Tab, NEW a \in Actor, Creates(t, a)
    PROVE  Shape'
<1> DEFINE r == req[t][a]
<1>1. /\ r \in Requests /\ r.pc \in {"found", "dropped"} /\ r.kind \in {"refresh", "login"} /\ Fits(a, r, issued)
      /\ UNCHANGED <<account, must, revoked, cookie, access, user, route, acts, lost>>
      /\ issued \in Nat /\ rows \subseteq 1..issued /\ revoked \subseteq 1..issued /\ cookie \in 0..issued
      /\ unheard \subseteq 0..issued
  BY CreatesParts DEF Shape
<1>2. CASE /\ issued' = issued + 1 /\ rows' = rows \cup {issued + 1} /\ unheard' = unheard
           /\ req' = [req EXCEPT ![t][a] = [r EXCEPT !.pc = "ok", !.new = issued + 1]]
  <2>1. Fits(a, [r EXCEPT !.pc = "ok", !.new = issued + 1], issued')
    BY <1>1, <1>2, TokenFits
  <2>2. issued' \in Nat /\ issued <= issued'
    BY <1>1, <1>2
  <2>3. Requested
    BY <1>2, <2>1, <2>2, BecomesFits
  <2>4. rows' \subseteq 1..issued' /\ revoked' \subseteq 1..issued' /\ unheard' \subseteq 0..issued' /\ cookie' \in 0..issued'
    BY <1>1, <1>2
  <2>5. QED
    BY <1>1, <2>2, <2>3, <2>4, ShapeParts DEF Shape
<1>3. CASE Replies(t, a, "fail") /\ unheard' = unheard \cup Ended(r) /\ UNCHANGED <<rows, issued>>
  <2>1. Requested
    BY <1>1, <1>3, RepliesFits DEF Places
  <2>2. unheard' \subseteq 0..issued'
    BY <1>1, <1>3, EndedTokens
  <2>3. QED
    BY <1>1, <1>3, <2>1, <2>2, ShapeParts DEF Shape
<1>4. QED
  BY <1>2, <1>3, CreatesParts

LEMMA InterceptsShape ==
    ASSUME Shape, NEW t \in Tab, NEW a \in Actor, Intercepts(t, a)
    PROVE  Shape'
<1>1. Waits(t, a) /\ UNCHANGED <<server, cookie, store, acts, lost>> /\ req[t][a].kind # "none"
  BY Placed DEF Intercepts
<1>2. issued \in Nat /\ cookie \in 0..issued /\ access[t] \in Tokens /\ \A u \in Tab, b \in Actor : Fits(b, req[u][b], issued)
  BY DEF Shape
<1>3. Fits("shared", Asked(t), issued)
  BY <1>2, Actors, RequestFits DEF Asked, KindsOf
<1>4. Fits(a, [req[t][a] EXCEPT !.pc = "waits", !.tried = TRUE], issued)
  BY <1>1, <1>2, WaitsFits
<1>5. /\ req' \in [Tab -> [Actor -> Requests]]
      /\ \A u \in Tab, b \in Actor :
            \/ req'[u][b] = req[u][b]
            \/ /\ u = t /\ b = a
               /\ req'[u][b] = [req[t][a] EXCEPT !.pc = "waits", !.tried = TRUE]
            \/ u = t /\ b = "shared" /\ req[u][b] = NoRequest /\ req'[u][b] = Asked(t)
  BY <1>1, WaitsEffect
<1>6. issued' = issued
  BY <1>1 DEF server
<1>7. Requested
  BY <1>2, <1>3, <1>4, <1>5, <1>6 DEF Requested
<1>8. QED
  BY <1>1, <1>7, ShapeParts DEF Shape, server, store

\* What callers of refreshAccessToken hear.
LEMMA HearsShape ==
    ASSUME Shape, NEW t \in Tab, NEW c \in Call, HearsRefresh(t, c) \/ HearsProfile(t, c) \/ HearsFailure(t, c)
    PROVE  Shape'
<1>1. c \in Actor /\ Fits(c, req[t][c], issued) /\ issued \in Nat
  BY Actors DEF Shape
<1>2. issued' = issued /\ issued <= issued' /\ UNCHANGED <<rows, account, must, revoked, unheard, acts, lost>>
  <2>1. UNCHANGED <<server, acts, lost>>
    BY DEF HearsRefresh, HearsProfile, HearsFailure
  <2>2. QED
    BY <1>1, <2>1 DEF server
<1>3. access \in [Tab -> Tokens] /\ user \in [Tab -> {"none", "must", "free"}]
      /\ route \in [Tab -> {"login", "change", "main", "blank"}] /\ cookie \in 0..issued
  BY DEF Shape
<1>4. ASSUME NEW ok \in BOOLEAN, NEW token \in Tokens, NEW says \in {"none", "must", "free"},
             cookie' \in 0..issued, Returns(t, c, ok, token, says)
      PROVE  Shape'
  <2>1. Requested
    BY <1>2, <1>4, ReturnsFits
  <2>2. cookie' \in Nat
    BY <1>1, <1>4
  <2>3. access' \in [Tab -> Tokens] /\ user' \in [Tab -> {"none", "must", "free"}]
        /\ route' \in [Tab -> {"login", "change", "main", "blank"}]
    BY <1>4, <2>2, ReturnsEffect
  <2>4. QED
    BY <1>1, <1>2, <1>4, <2>1, <2>3, ShapeParts DEF Shape
<1>5. CASE HearsRefresh(t, c)
  <2>1. req[t][c].with \in {"must", "free"} /\ req[t][c].new \in 0..issued
    BY <1>1, <1>5 DEF HearsRefresh, Is, Fits, Requests
  <2>2. cookie' \in 0..issued
    BY <1>5, <2>1 DEF HearsRefresh
  <2>3. CASE user[t] # "none"
    <3>1. Returns(t, c, TRUE, req[t][c].with, user[t])
      BY <1>5, <2>3 DEF HearsRefresh
    <3>2. QED
      BY <1>3, <1>4, <2>1, <2>2, <3>1 DEF Tokens
  <2>4. CASE user[t] = "none"
    <3>1. req' = [req EXCEPT ![t][c] = Request("profile", req[t][c].with, cookie')]
          /\ access' = [access EXCEPT ![t] = req[t][c].with] /\ UNCHANGED <<user, route>>
      BY <1>5, <2>4 DEF HearsRefresh
    <3>2. Fits(c, Request("profile", req[t][c].with, cookie'), issued')
      BY <1>1, <1>2, <2>1, <2>2, Actors, RequestFits DEF KindsOf, Tokens
    <3>3. Requested
      BY <1>1, <1>2, <3>1, <3>2, BecomesFits
    <3>4. access' \in [Tab -> Tokens]
      BY <1>3, <2>1, <3>1 DEF Tokens
    <3>5. QED
      BY <1>2, <2>2, <3>1, <3>3, <3>4, ShapeParts DEF Shape
  <2>5. QED
    BY <2>3, <2>4
<1>6. CASE HearsProfile(t, c)
  <2>1. req[t][c].with \in {"must", "free"} /\ access[t] \in Tokens /\ cookie' = cookie
    BY <1>1, <1>3, <1>6 DEF HearsProfile, Is, Fits
  <2>2. Returns(t, c, TRUE, access[t], req[t][c].with)
    BY <1>6 DEF HearsProfile
  <2>3. QED
    BY <1>3, <1>4, <2>1, <2>2
<1>7. CASE HearsFailure(t, c)
  BY <1>3, <1>4, <1>7 DEF HearsFailure, Tokens
<1>8. QED
  BY <1>5, <1>6, <1>7

\* The requests of pages and components begin.
LEMMA AsksShape ==
    ASSUME Shape, NEW t \in Tab,
           LogsIn(t) \/ Changes(t) \/ LogsOut(t) \/ \E w \in Work : Works(t, w)
    PROVE  Shape'
<1>1. \E a \in Actor : \E kind \in KindsOf(a) \ {"none"}, with \in Tokens \cup {"right", "wrong"} :
         Asks(t, a, kind, with)
  <2>1. access[t] \in Tokens
    BY DEF Shape
  <2>2. CASE LogsIn(t)
    BY <2>2, Actors DEF LogsIn, KindsOf
  <2>3. CASE Changes(t)
    BY <2>1, <2>3, Actors DEF Changes, KindsOf
  <2>4. CASE LogsOut(t)
    BY <2>1, <2>4, Actors DEF LogsOut, KindsOf
  <2>5. CASE \E w \in Work : Works(t, w)
    BY <2>1, <2>5, Actors DEF Works, KindsOf
  <2>6. QED
    BY <2>2, <2>3, <2>4, <2>5
<1>2. UNCHANGED <<server, cookie, store, lost>> /\ Acts
  BY DEF LogsIn, Changes, LogsOut, Works
<1>3. issued' = issued /\ issued' \in Nat /\ issued <= issued' /\ cookie \in 0..issued'
  BY <1>2 DEF server, Shape
<1>4. ASSUME NEW a \in Actor, NEW kind \in KindsOf(a) \ {"none"}, NEW with \in Tokens \cup {"right", "wrong"},
             Asks(t, a, kind, with)
      PROVE  Requested
  <2>1. Fits(a, Request(kind, with, cookie), issued')
    BY <1>3, RequestFits
  <2>2. QED
    BY <1>3, <1>4, <2>1, BecomesFits DEF Asks
<1>5. Requested
  BY <1>1, <1>4
<1>6. acts' \in 0..MaxActs
  BY <1>2, ConstantsAssumption DEF Acts, Shape
<1>7. QED
  BY <1>2, <1>5, <1>6, ShapeParts DEF Shape, server, store

\* The pages hear an answer.
LEMMA PageShape ==
    ASSUME Shape, NEW t \in Tab,
           LoggedIn(t) \/ Ignores(t) \/ LoggedOut(t) \/ Changed(t) \/ Profiled(t) \/ \E w \in Work : Worked(t, w)
    PROVE  Shape'
<1>1. UNCHANGED <<server, acts, lost>>
  BY DEF LoggedIn, Ignores, LoggedOut, Changed, Profiled, Worked
<1>2. issued' = issued /\ issued' \in Nat /\ issued <= issued' /\ cookie \in 0..issued'
  BY <1>1 DEF server, Shape
<1>3. "page" \in Actor /\ {"own", "guard"} \subseteq Call /\ Call \subseteq Actor
  BY Actors
<1>4. Fits("page", req[t]["page"], issued) /\ access[t] \in Tokens
  BY <1>3 DEF Shape
<1>5. ASSUME NEW a \in Actor, Done(t, a)
      PROVE  Requested
    <2>1. Fits(a, NoRequest, issued')
      BY <1>2, NoRequestFits
    <2>2. QED
      BY <1>2, <1>5, <2>1, BecomesFits DEF Done
<1>6. ASSUME NEW c \in Call, req' = [req EXCEPT ![t] = [@ EXCEPT !["page"] = NoRequest, ![c] = Asked(t)]]
      PROVE  Requested
  <2>1. c \in Actor /\ "page" # c
    BY Actors
  <2>2. Fits("page", NoRequest, issued') /\ Fits(c, Asked(t), issued')
    BY <1>2, <1>3, <1>4, <2>1, Actors, NoRequestFits, RequestFits DEF Asked, KindsOf
  <2>3. NoRequest \in Requests /\ Asked(t) \in Requests
    BY <2>2 DEF Fits
  <2>4. /\ req'[t]["page"] = NoRequest /\ req'[t][c] = Asked(t)
        /\ \A u \in Tab, o \in Actor : u # t \/ o \notin {"page", c} => req'[u][o] = req[u][o]
        /\ req' \in [Tab -> [Actor -> Requests]]
    BY <1>3, <1>6, <2>1, <2>3, TwoEffect
  <2>5. \A u \in Tab, o \in Actor : Fits(o, req[u][o], issued')
    BY <1>2 DEF Shape
  <2>6. QED
    BY <2>2, <2>4, <2>5 DEF Requested
<1>7. Requested
  <2>1. CASE LoggedIn(t) \/ Ignores(t) \/ LoggedOut(t)
    BY <1>3, <1>5, <2>1 DEF LoggedIn, Ignores, LoggedOut
  <2>2. CASE Changed(t)
    BY <1>3, <1>6, <2>2 DEF Changed
  <2>3. CASE Profiled(t)
    BY <1>3, <1>5, <1>6, <2>3 DEF Profiled
  <2>4. CASE \E w \in Work : Worked(t, w)
    BY <1>5, <2>4, Actors DEF Worked
  <2>5. QED
    BY <2>1, <2>2, <2>3, <2>4
<1>8. cookie' \in 0..issued'
  <2>1. LoggedIn(t) => req[t]["page"].new \in 0..issued
    BY <1>4 DEF Fits, Requests
  <2>2. QED
    BY <1>2, <2>1 DEF LoggedIn, Ignores, LoggedOut, Changed, Profiled, Worked
<1>9. /\ access' \in [Tab -> Tokens] /\ user' \in [Tab -> {"none", "must", "free"}]
      /\ route' \in [Tab -> {"login", "change", "main", "blank"}]
  <2>1. LoggedIn(t) \/ Profiled(t) => req[t]["page"].with \in {"must", "free"}
    BY <1>4 DEF LoggedIn, Profiled, Is, Fits
  <2>2. /\ access \in [Tab -> Tokens] /\ user \in [Tab -> {"none", "must", "free"}]
        /\ route \in [Tab -> {"login", "change", "main", "blank"}]
    BY DEF Shape
  <2>3. CASE LoggedIn(t) \/ LoggedOut(t)
    BY <2>1, <2>2, <2>3 DEF LoggedIn, LoggedOut, Tokens, Home
  <2>4. CASE Profiled(t)
    BY <2>1, <2>2, <2>4 DEF Profiled, Home
  <2>5. CASE Ignores(t) \/ Changed(t) \/ \E w \in Work : Worked(t, w)
    BY <2>2, <2>5 DEF Ignores, Changed, Worked, store
  <2>6. QED
    BY <2>3, <2>4, <2>5
<1>10. QED
  BY <1>1, <1>2, <1>7, <1>8, <1>9, ShapeParts DEF Shape, server

\* The answers a tab forgets can be counted.
LEMMA ActorsFinite == IsFiniteSet(Actor)
<1>1. IsFiniteSet({"page"}) /\ IsFiniteSet({"shared"}) /\ IsFiniteSet({"guard"}) /\ IsFiniteSet({"own"}) /\ IsFiniteSet(Work)
  BY FS_Singleton, ConstantsAssumption
<1>2. Actor = {"page"} \cup (Work \cup ({"shared"} \cup ({"guard"} \cup {"own"})))
  BY DEF Actor, Call
<1>3. IsFiniteSet({"guard"} \cup {"own"})
  BY <1>1, FS_Union
<1>4. IsFiniteSet({"shared"} \cup ({"guard"} \cup {"own"}))
  BY <1>1, <1>3, FS_Union
<1>5. IsFiniteSet(Work \cup ({"shared"} \cup ({"guard"} \cup {"own"})))
  BY <1>1, <1>4, FS_Union
<1>6. QED
  BY <1>1, <1>2, <1>5, FS_Union

LEMMA ReloadsEffect ==
    ASSUME Shape, NEW t \in Tab, Reloads(t)
    PROVE  /\ req' \in [Tab -> [Actor -> Requests]]
           /\ \A u \in Tab \ {t} : req'[u] = req[u]
           /\ \A a \in Actor : req'[t][a] = IF a = "guard" THEN Request("refresh", "none", cookie) ELSE NoRequest
           /\ lost' \in 0..MaxLost /\ UNCHANGED <<rows, issued, account, must, revoked, cookie>>
           /\ unheard' \subseteq 0..issued /\ unheard \subseteq unheard'
           /\ \A a \in Actor : Ended(req[t][a]) \subseteq unheard'
<1> DEFINE answers == {a \in Actor : req[t][a].kind \in {"refresh", "login", "logout"} /\ req[t][a].pc = "ok"}
           f == [a \in Actor |-> IF a = "guard" THEN Request("refresh", "none", cookie) ELSE NoRequest]
<1>1. IsFiniteSet(answers)
  BY ActorsFinite, FS_Subset
<1>2. Cardinality(answers) \in Nat
  BY <1>1, FS_CardinalityType
<1>3. lost' = lost + Cardinality(answers) /\ lost' <= MaxLost /\ lost \in 0..MaxLost /\ MaxLost \in Nat
  BY ConstantsAssumption DEF Reloads, Shape
<1>4. lost' \in 0..MaxLost
  <2> HIDE DEF answers
  <2>1. QED
    BY <1>2, <1>3
<1>5. /\ unheard' = unheard \cup UNION {Ended(req[t][a]) : a \in Actor}
      /\ UNCHANGED <<rows, issued, account, must, revoked, cookie>>
  BY DEF Reloads
<1>6. unheard \subseteq 0..issued /\ \A a \in Actor : Ended(req[t][a]) \subseteq 0..issued
  BY EndedTokens DEF Shape
<1>7. /\ unheard' \subseteq 0..issued /\ unheard \subseteq unheard'
      /\ \A a \in Actor : Ended(req[t][a]) \subseteq unheard'
  BY <1>5, <1>6
<1>8. cookie \in Nat
  BY DEF Shape
<1>9. f \in [Actor -> Requests]
  BY <1>8, Asking DEF Kinds, Tokens
<1>10. req' = [req EXCEPT ![t] = f]
  BY DEF Reloads
<1>11. req' \in [Tab -> [Actor -> Requests]] /\ req'[t] = f /\ \A u \in Tab \ {t} : req'[u] = req[u]
  BY <1>9, <1>10 DEF Shape
<1>12. QED
  BY <1>4, <1>5, <1>7, <1>11

LEMMA ReloadsShape ==
    ASSUME Shape, NEW t \in Tab, Reloads(t)
    PROVE  Shape'
<1>1. /\ req' \in [Tab -> [Actor -> Requests]]
      /\ \A u \in Tab \ {t} : req'[u] = req[u]
      /\ \A a \in Actor : req'[t][a] = IF a = "guard" THEN Request("refresh", "none", cookie) ELSE NoRequest
      /\ lost' \in 0..MaxLost /\ UNCHANGED <<rows, issued, account, must, revoked, cookie>>
      /\ unheard' \subseteq 0..issued
  BY ReloadsEffect
<1>2. issued' = issued /\ issued' \in Nat /\ cookie \in 0..issued'
  BY <1>1 DEF Shape
<1>3. /\ acts' \in 0..MaxActs /\ access' \in [Tab -> Tokens] /\ user' \in [Tab -> {"none", "must", "free"}]
      /\ route' \in [Tab -> {"login", "change", "main", "blank"}]
  BY ConstantsAssumption DEF Reloads, Acts, Shape, Tokens
<1>4. Fits("guard", Request("refresh", "none", cookie), issued') /\ \A a \in Actor : Fits(a, NoRequest, issued')
  BY <1>2, Actors, RequestFits, NoRequestFits DEF KindsOf, Tokens
<1>5. \A u \in Tab, b \in Actor : Fits(b, req[u][b], issued')
  BY <1>2 DEF Shape
<1>6. Requested
  BY <1>1, <1>4, <1>5 DEF Requested
<1>7. QED
  BY <1>1, <1>2, <1>3, <1>6, ShapeParts DEF Shape

LEMMA FaultsShape ==
    ASSUME Shape, Faults \/ AccountEnds \/ Unlocks
    PROVE  Shape'
<1>1. ASSUME NEW t \in Tab, NEW a \in Actor, Loses(t, a)
      PROVE  Shape'
  <2>1. UNCHANGED <<rows, issued, account, must, revoked, cookie, store, acts>> /\ unheard' \subseteq 0..issued
    BY <1>1, EndedTokens DEF Loses, Shape
  <2>2. req[t][a].kind # "none"
    BY <1>1, Placed DEF Loses
  <2>3. Requested
    BY <1>1, <2>1, <2>2, RepliesFits DEF Loses, Places
  <2>4. lost' \in 0..MaxLost
    BY <1>1, ConstantsAssumption DEF Loses, Shape
  <2>5. QED
    BY <2>1, <2>3, <2>4, ShapeParts DEF Shape, server, store
<1>2. ASSUME req' = req, issued' = issued
      PROVE  Requested
  BY <1>2 DEF Requested, Shape
<1>3. ASSUME NEW t \in Tab, AccessExpires(t)
      PROVE  Shape'
  <2>1. acts' \in 0..MaxActs /\ access' \in [Tab -> Tokens]
    BY <1>3, ConstantsAssumption DEF AccessExpires, Acts, Shape, Tokens
  <2>2. UNCHANGED <<server, cookie, user, route, req, lost>> /\ issued' = issued
    BY <1>3 DEF AccessExpires, server
  <2>3. QED
    BY <1>2, <2>1, <2>2, ShapeParts DEF Shape, server
<1>4. ASSUME AccountEnds \/ Unlocks
      PROVE  Shape'
  <2>1. acts' \in 0..MaxActs /\ UNCHANGED <<issued, unheard, cookie, store, req, lost>>
    BY <1>4, ConstantsAssumption DEF AccountEnds, Unlocks, Acts, Shape
  <2>2. /\ rows' \subseteq 1..issued /\ revoked' \subseteq 1..issued
        /\ account' \in {"active", "locked", "deleted"} /\ must' \in BOOLEAN
    BY <1>4 DEF AccountEnds, Unlocks, Revokes, Shape
  <2>3. QED
    BY <1>2, <2>1, <2>2, ShapeParts DEF Shape, store
<1>5. QED
  BY <1>1, <1>3, <1>4 DEF Faults

LEMMA ShapeInit == Init => Shape
BY ConstantsAssumption, NoRequestFits DEF Init, Shape, Tokens, Fits

LEMMA ShapeStep == Shape /\ [Next]_vars => Shape'
<1> SUFFICES ASSUME Shape, [Next]_vars
             PROVE  Shape'
  OBVIOUS
<1>1. ASSUME NEW t \in Tab, Goes(t)
      PROVE  Shape'
  <2>1. CASE LoggedIn(t) \/ Changed(t) \/ Profiled(t) \/ Ignores(t) \/ LoggedOut(t) \/ \E w \in Work : Worked(t, w)
    BY <2>1, PageShape
  <2>2. CASE \E a \in Actor : Serves(t, a) \/ Creates(t, a) \/ Intercepts(t, a)
    BY <2>2, ServesShape, CreatesShape, InterceptsShape
  <2>3. CASE \E c \in Call : Finds(t, c) \/ Drops(t, c) \/ HearsRefresh(t, c) \/ HearsProfile(t, c) \/ HearsFailure(t, c)
    BY <2>3, FindsShape, DropsShape, HearsShape
  <2>4. QED
    BY <1>1, <2>1, <2>2, <2>3, ChecksLoginShape DEF Goes
<1>2. ASSUME NEW t \in Tab, User(t)
      PROVE  Shape'
  BY <1>2, AsksShape, ReloadsShape DEF User
<1>3. CASE Faults \/ AccountEnds \/ Unlocks
  BY <1>3, FaultsShape
<1>4. CASE UNCHANGED vars
  BY <1>4 DEF vars, server, store, Shape
<1>5. QED
  BY <1>1, <1>2, <1>3, <1>4 DEF Next

LEMMA ShapeAlways == Spec => []Shape
BY ShapeInit, ShapeStep, PTL DEF Spec

\* All that is kept is of its type: the tokens of the server and the browser,
\* the store of each tab, and the requests that are under way.
THEOREM TypeCorrect == Spec => []TypeOK
<1>1. Shape => TypeOK
  BY DEF Shape, TypeOK, Fits, Requests, Kinds, Places, Tokens
<1>2. QED
  BY <1>1, ShapeAlways, PTL

----------------------------------------------------------------------------
(* The cookie. *)

\* A request that keeps its token or takes the one of the browser, and does
\* not become an answer.
Tame(s, r, jar) ==
    /\ s.cookie \in {r.cookie, 0, jar} /\ s.new \in {r.new, 0}
    /\ Brings(s) => Brings(r) /\ s.new = r.new

\* No page begins besides an own refresh.
PagesKept ==
    \A t \in Tab : \/ Free(t, "page")' \/ Free(t, "own")'
                  \/ \A b \in {"page", "own"} : Free(t, b) => Free(t, b)'

\* A token that is deleted is that of a request.
UsableKept ==
    \A n \in rows \cup revoked :
        n \in rows' \cup revoked' \/ \E t \in Tab, a \in Actor : n = req[t][a].cookie /\ n \in Ended(req'[t][a])

\* The end of a token is not forgotten.
EndsKept ==
    /\ unheard \subseteq unheard'
    /\ \A t \in Tab, a \in Actor : Ended(req[t][a]) \subseteq Ended(req'[t][a]) \cup unheard'

DeletedKept == account' = "deleted" => rows' = {}

LEMMA FreshTokens ==
    ASSUME Shape, AnswersAreFresh, NEW t \in Tab, NEW a \in Actor, Brings(req[t][a])
    PROVE  req[t][a].new # 0
<1>1. req[t][a].new \in rows \cup revoked
  BY DEF AnswersAreFresh, Fresh
<1>2. rows \subseteq 1..issued /\ revoked \subseteq 1..issued
  BY DEF Shape
<1>3. QED
  BY <1>1, <1>2

LEMMA PagesEffect ==
    ASSUME OneAtAPage, PagesKept
    PROVE  OneAtAPage'
BY DEF OneAtAPage, PagesKept

\* An answer that is fresh is so still if others keep or forget their tokens,
\* or take another one.
LEMMA FreshKept ==
    ASSUME Shape, AnswersAreFresh, UsableKept, NEW jar,
           NEW t \in Tab, NEW a \in Actor, Brings(req[t][a]), req'[t][a].new = req[t][a].new,
           jar # req[t][a].new, cookie' \in {0, cookie, jar},
           \A u \in Tab, b \in Actor : /\ req'[u][b].cookie \in {req[u][b].cookie, 0, jar}
                                       /\ req'[u][b].new \in {req[u][b].new, 0, jar}
    PROVE  Fresh(t, a)'
<1>1. req[t][a].new # 0
  BY FreshTokens
<1>2. /\ req[t][a].new \in rows \cup revoked /\ req[t][a].new # cookie
      /\ \A u \in Tab, b \in Actor : req[u][b].cookie # req[t][a].new
      /\ \A u \in Tab, b \in Actor : <<u, b>> # <<t, a>> => req[u][b].new # req[t][a].new
  BY DEF AnswersAreFresh, Fresh
<1>3. req[t][a].new \in rows' \cup revoked'
  BY <1>2 DEF UsableKept
<1>4. QED
  BY <1>1, <1>2, <1>3 DEF Fresh

\* Where the cookie stays or goes, the answers on their way are fresh still.
LEMMA AnswersKept ==
    ASSUME Shape, AnswersAreFresh, UsableKept, cookie' \in {0, cookie},
           \A t \in Tab, a \in Actor : Tame(req'[t][a], req[t][a], cookie)
    PROVE  AnswersAreFresh'
<1>1. ASSUME NEW t \in Tab, NEW a \in Actor, Brings(req'[t][a])
      PROVE  Fresh(t, a)'
  <2>1. Brings(req[t][a]) /\ req'[t][a].new = req[t][a].new
    BY <1>1 DEF Tame
  <2>2. cookie # req[t][a].new
    BY <2>1 DEF AnswersAreFresh, Fresh
  <2>3. \A u \in Tab, b \in Actor : /\ req'[u][b].cookie \in {req[u][b].cookie, 0, cookie}
                                    /\ req'[u][b].new \in {req[u][b].new, 0, cookie}
    BY DEF Tame
  <2>4. QED
    BY <2>1, <2>2, <2>3, FreshKept
<1>2. QED
  BY <1>1 DEF AnswersAreFresh

LEMMA FollowsKept ==
    ASSUME CookieFollows, UsableKept, EndsKept, cookie' = cookie
    PROVE  CookieFollows'
<1>1. CASE cookie = 0 \/ cookie \in unheard
  BY <1>1 DEF CookieFollows, EndsKept
<1>2. CASE cookie \in rows \cup revoked
  BY <1>2 DEF CookieFollows, UsableKept
<1>3. CASE \E t \in Tab, a \in Actor : cookie \in Ended(req[t][a])
  BY <1>3 DEF CookieFollows, EndsKept
<1>4. QED
  BY <1>1, <1>2, <1>3 DEF CookieFollows

\* Most steps leave the cookie, what can be used, and the answers alone.
LEMMA CookieKept ==
    ASSUME Shape, CookieInv, PagesKept, UsableKept, EndsKept, DeletedKept, cookie' = cookie,
           \A t \in Tab, a \in Actor : Tame(req'[t][a], req[t][a], cookie)
    PROVE  CookieInv'
<1>1. OneAtAPage'
  BY PagesEffect DEF CookieInv
<1>2. AnswersAreFresh'
  BY AnswersKept DEF CookieInv
<1>3. CookieFollows'
  BY FollowsKept DEF CookieInv
<1>4. QED
  BY <1>1, <1>2, <1>3 DEF CookieInv, DeletedHasNoRows, DeletedKept

\* An answer is heard: its token is the one of the browser from now on.
LEMMA CookieHeard ==
    ASSUME Shape, CookieInv, PagesKept, UNCHANGED <<rows, revoked, account>>,
           NEW t \in Tab, NEW a \in Actor, Brings(req[t][a]), cookie' = req[t][a].new,
           ~Brings(req'[t][a]),
           \A u \in Tab, b \in Actor : Tame(req'[u][b], req[u][b], cookie')
    PROVE  CookieInv'
<1>1. OneAtAPage'
  BY PagesEffect DEF CookieInv
<1>2. /\ cookie' \in rows \cup revoked
      /\ \A u \in Tab, b \in Actor : <<u, b>> # <<t, a>> => req[u][b].new # cookie'
  BY DEF CookieInv, AnswersAreFresh, Fresh
<1>3. ASSUME NEW u \in Tab, NEW b \in Actor, Brings(req'[u][b])
      PROVE  Fresh(u, b)'
  <2>1. req'[u][b].new = req[u][b].new /\ Brings(req[u][b]) /\ <<u, b>> # <<t, a>>
    BY <1>3 DEF Tame
  <2>2. cookie' # req[u][b].new
    BY <1>2, <2>1
  <2>3. \A v \in Tab, c \in Actor : /\ req'[v][c].cookie \in {req[v][c].cookie, 0, cookie'}
                                    /\ req'[v][c].new \in {req[v][c].new, 0, cookie'}
    BY DEF Tame
  <2>4. UsableKept
    BY DEF UsableKept
  <2> DEFINE jar == cookie'
  <2>5. jar # req[u][b].new /\ cookie' \in {0, cookie, jar}
    BY <2>2
  <2>6. \A v \in Tab, c \in Actor : /\ req'[v][c].cookie \in {req[v][c].cookie, 0, jar}
                                    /\ req'[v][c].new \in {req[v][c].new, 0, jar}
    BY <2>3
  <2> HIDE DEF jar
  <2>7. QED
    BY <2>1, <2>4, <2>5, <2>6, FreshKept DEF CookieInv
<1>4. CookieFollows'
  BY <1>2 DEF CookieFollows
<1>5. QED
  BY <1>1, <1>3, <1>4 DEF CookieInv, DeletedHasNoRows, AnswersAreFresh

\* The request of one actor moves on.
LEMMA BecomesPages ==
    ASSUME Shape, NEW t \in Tab, NEW a \in Actor, NEW r, Becomes(t, a, r),
           req[t][a] # NoRequest \/ a \in Call \ {"own"} \/ a \in Work \/ (a = "page" /\ Free(t, "own")) \/ r = NoRequest
    PROVE  PagesKept
BY Actors DEF Becomes, PagesKept, Free

LEMMA BecomesTame ==
    ASSUME Shape, NEW t \in Tab, NEW a \in Actor, NEW r, Becomes(t, a, r), NEW jar, Tame(r, req[t][a], jar)
    PROVE  \A u \in Tab, b \in Actor : Tame(req'[u][b], req[u][b], jar)
BY DEF Becomes, Tame

\* A request moves on and does not become an answer; the cookie stays.
LEMMA CookieBecomes ==
    ASSUME Shape, CookieInv, UsableKept, cookie' = cookie, DeletedKept,
           NEW t \in Tab, NEW a \in Actor, NEW r \in Requests, req' = [req EXCEPT ![t][a] = r],
           req[t][a] # NoRequest \/ a \in Work \/ (a = "page" /\ Free(t, "own")) \/ r = NoRequest,
           Tame(r, req[t][a], cookie), unheard \subseteq unheard', Ended(req[t][a]) \subseteq Ended(r) \cup unheard'
    PROVE  CookieInv'
<1>1. Becomes(t, a, r)
  BY BecomesEffect
<1>2. PagesKept /\ \A u \in Tab, b \in Actor : Tame(req'[u][b], req[u][b], cookie)
  BY <1>1, BecomesPages, BecomesTame
<1>3. EndsKept
  BY <1>1 DEF Becomes, EndsKept
<1>4. QED
  BY <1>2, <1>3, CookieKept

\* The request reaches another place, maybe with what the server found.
Moves(s, r, pc) == s \in Requests /\ s.pc = pc /\ s.kind = r.kind /\ s.cookie = r.cookie /\ s.new = r.new

Reaches(t, a, pc) ==
    Replies(t, a, pc) \/ req' = [req EXCEPT ![t][a] = [req[t][a] EXCEPT !.pc = pc, !.with = Claim(must)]]

LEMMA MovesTo ==
    ASSUME Shape, NEW t \in Tab, NEW a \in Actor, NEW pc \in Places, Reaches(t, a, pc)
    PROVE  \E s \in Requests : Moves(s, req[t][a], pc) /\ req' = [req EXCEPT ![t][a] = s]
<1> DEFINE r == req[t][a]
           p == [r EXCEPT !.pc = pc]
           q == [r EXCEPT !.pc = pc, !.with = Claim(must)]
<1>1. r \in Requests
  BY DEF Shape
<1>2. Moves(p, r, pc) /\ Moves(q, r, pc)
  BY <1>1 DEF Moves, Requests, Tokens, Claim
<1>3. req' = [req EXCEPT ![t][a] = p] \/ req' = [req EXCEPT ![t][a] = q]
  BY DEF Reaches, Replies, Shape
<1> HIDE DEF p, q
<1>4. QED
  BY <1>2, <1>3 DEF Moves

\* The rows that go are in what the administrator ends, or the one row that
\* the request names; then the request has its place.
LEMMA CookieMoves ==
    ASSUME Shape, CookieInv, NEW t \in Tab, NEW a \in Actor, NEW pc \in Places, Reaches(t, a, pc),
           req[t][a].pc \in {"sent", "found"}, pc # "ok" \/ req[t][a].kind \notin {"refresh", "login"},
           UNCHANGED <<cookie, account, unheard>>, rows' \subseteq rows,
           \/ rows \cup revoked \subseteq rows' \cup revoked'
           \/ /\ rows' = rows \ {req[t][a].cookie} /\ revoked' = revoked
              /\ (req[t][a].kind = "logout" /\ pc = "ok") \/ (req[t][a].kind = "refresh" /\ pc = "dropped")
    PROVE  CookieInv'
<1> DEFINE r == req[t][a]
<1>1. PICK s \in Requests : Moves(s, r, pc) /\ req' = [req EXCEPT ![t][a] = s]
  BY MovesTo
<1>2. r # NoRequest /\ Ended(r) = {} /\ ~Brings(s)
  BY <1>1 DEF NoRequest, Ended, Brings, Moves
<1>3. Tame(s, r, cookie)
  BY <1>1, <1>2 DEF Tame, Moves
<1>4. req'[t][a] = s
  BY <1>1 DEF Shape
<1>5. UsableKept
  <2>1. CASE rows \cup revoked \subseteq rows' \cup revoked'
    BY <2>1 DEF UsableKept
  <2>2. CASE /\ rows' = rows \ {r.cookie} /\ revoked' = revoked
             /\ (r.kind = "logout" /\ pc = "ok") \/ (r.kind = "refresh" /\ pc = "dropped")
    <3>1. Ended(s) = {r.cookie}
      BY <1>1, <2>2 DEF Ended, Moves
    <3>2. r.cookie \in Ended(req'[t][a])
      BY <1>4, <3>1
    <3>3. QED
      BY <2>2, <3>2 DEF UsableKept
  <2>3. QED
    BY <2>1, <2>2
<1>6. DeletedKept
  BY DEF DeletedKept, CookieInv, DeletedHasNoRows
<1>7. QED
  BY <1>1, <1>2, <1>3, <1>5, <1>6, CookieBecomes

LEMMA ServesCookie ==
    ASSUME Shape, CookieInv, NEW t \in Tab, NEW a \in Actor, Serves(t, a)
    PROVE  CookieInv'
<1> DEFINE r == req[t][a]
<1>1. r.pc = "sent" /\ r.kind \in {"work", "profile", "change", "dialog", "logout"}
  BY DEF Serves
<1>2. UNCHANGED <<cookie, account, unheard>> /\ rows' \subseteq rows
  BY DEF Serves, server, Revokes
<1>3. \/ \E pc \in {"401", "403", "ok", "fail"} : Replies(t, a, pc)
      \/ req' = [req EXCEPT ![t][a] = [r EXCEPT !.pc = "ok", !.with = Claim(must)]]
  BY DEF Serves
<1>4. CASE rows \cup revoked \subseteq rows' \cup revoked'
  BY <1>1, <1>2, <1>3, <1>4, CookieMoves DEF Places, Reaches
<1>5. CASE ~(rows \cup revoked \subseteq rows' \cup revoked')
  <2>1. r.kind = "logout" /\ Replies(t, a, "ok") /\ rows' = rows \ {r.cookie} /\ revoked' = revoked
    BY <1>5 DEF Serves, server, Revokes
  <2>2. QED
    BY <1>1, <1>2, <2>1, CookieMoves DEF Places, Reaches
<1>6. QED
  BY <1>4, <1>5

LEMMA LooksUpCookie ==
    ASSUME Shape, CookieInv, NEW t \in Tab, ChecksLogin(t) \/ \E c \in Call : Finds(t, c) \/ Drops(t, c)
    PROVE  CookieInv'
<1>1. CASE ChecksLogin(t)
  <2>1. /\ req[t]["page"].pc = "sent" /\ "page" \in Actor /\ UNCHANGED <<rows, revoked, account, unheard, cookie>>
        /\ \/ \E pc \in {"401", "fail"} : Replies(t, "page", pc)
           \/ req' = [req EXCEPT ![t]["page"] = [req[t]["page"] EXCEPT !.pc = "found", !.with = Claim(must)]]
    BY <1>1, Actors DEF ChecksLogin, Is, server
  <2>2. rows' \subseteq rows /\ rows \cup revoked \subseteq rows' \cup revoked'
    BY <2>1
  <2>3. QED
    BY <2>1, <2>2, CookieMoves DEF Places, Reaches
<1>2. ASSUME NEW c \in Call, Finds(t, c)
      PROVE  CookieInv'
  <2>1. /\ req[t][c].pc = "sent" /\ c \in Actor /\ UNCHANGED <<account, unheard, cookie>>
        /\ rows' \subseteq rows /\ rows \cup revoked \subseteq rows' \cup revoked'
        /\ \/ \E pc \in {"401", "fail"} : Replies(t, c, pc)
           \/ req' = [req EXCEPT ![t][c] = [req[t][c] EXCEPT !.pc = "found", !.with = Claim(must)]]
    BY <1>2, Actors DEF Finds, Is
  <2>2. QED
    BY <2>1, CookieMoves DEF Places, Reaches
<1>3. ASSUME NEW c \in Call, Drops(t, c)
      PROVE  CookieInv'
  <2>1. /\ req[t][c].pc = "found" /\ req[t][c].kind = "refresh" /\ c \in Actor
        /\ UNCHANGED <<account, revoked, unheard, cookie>>
    BY <1>3, Actors DEF Drops, Is
  <2>2. CASE Replies(t, c, "dropped") /\ rows' = rows \ {req[t][c].cookie}
    BY <2>1, <2>2, CookieMoves DEF Places, Reaches
  <2>3. CASE Replies(t, c, "fail") /\ rows' = rows
    BY <2>1, <2>3, CookieMoves DEF Places, Reaches
  <2>4. QED
    BY <1>3, <2>2, <2>3 DEF Drops
<1>4. QED
  BY <1>1, <1>2, <1>3

\* The new token is nobody's yet, and its answer is on its way; or no row is
\* inserted and the token that was deleted before is not replaced.
LEMMA CreatesCookie ==
    ASSUME Shape, CookieInv, NEW t \in Tab, NEW a \in Actor, Creates(t, a)
    PROVE  CookieInv'
<1> DEFINE r == req[t][a]
           n == issued + 1
<1>1. /\ r \in Requests /\ r.pc \in {"found", "dropped"} /\ r.kind \in {"refresh", "login"}
      /\ UNCHANGED <<account, must, revoked, cookie, access, user, route, acts, lost>>
      /\ r # NoRequest /\ ~Brings(r) /\ issued \in Nat
  <2>1. /\ r \in Requests /\ r.pc \in {"found", "dropped"} /\ r.kind \in {"refresh", "login"}
        /\ UNCHANGED <<account, must, revoked, cookie, access, user, route, acts, lost>>
    BY CreatesParts
  <2>2. r # NoRequest /\ ~Brings(r)
    BY <2>1 DEF NoRequest, Brings
  <2>3. QED
    BY <2>1, <2>2 DEF Shape
<1>2. CASE Replies(t, a, "fail") /\ unheard' = unheard \cup Ended(r) /\ UNCHANGED <<rows, issued>>
  <2>1. PICK s \in Requests : Moves(s, r, "fail") /\ req' = [req EXCEPT ![t][a] = s]
    BY <1>2, MovesTo DEF Places, Reaches
  <2>2. Tame(s, r, cookie)
    BY <2>1 DEF Tame, Moves, Brings
  <2>3. UsableKept /\ DeletedKept
    BY <1>1, <1>2 DEF UsableKept, DeletedKept, CookieInv, DeletedHasNoRows
  <2>4. unheard \subseteq unheard' /\ Ended(r) \subseteq Ended(s) \cup unheard'
    BY <1>2
  <2>5. QED
    BY <1>1, <2>1, <2>2, <2>3, <2>4, CookieBecomes
<1>3. CASE /\ account # "deleted" /\ issued' = n /\ rows' = rows \cup {n} /\ unheard' = unheard
           /\ req' = [req EXCEPT ![t][a] = [r EXCEPT !.pc = "ok", !.new = n]]
  <2> DEFINE s == [r EXCEPT !.pc = "ok", !.new = n]
  <2>1. req' = [req EXCEPT ![t][a] = s] /\ n \in Nat
    BY <1>1, <1>3
  <2>2. s \in Requests /\ s.pc = "ok" /\ s.kind = r.kind /\ s.cookie = r.cookie /\ s.new = n
    BY <1>1, <2>1 DEF Requests, Places
  <2> HIDE DEF s
  <2>3. Becomes(t, a, s)
    BY <2>1, <2>2, BecomesEffect
  <2>4. OneAtAPage'
    BY <1>1, <2>3, BecomesPages, PagesEffect DEF CookieInv
  <2>5. /\ n # 0 /\ n # cookie /\ cookie' = cookie
        /\ \A u \in Tab, b \in Actor : req[u][b].cookie # n /\ req[u][b].new # n
    <3>1. \A u \in Tab, b \in Actor : /\ req[u][b].cookie <= issued /\ req[u][b].cookie \in Nat
                                      /\ req[u][b].new <= issued /\ req[u][b].new \in Nat
      BY DEF Shape, Fits, Requests
    <3>2. cookie \in 0..issued
      BY DEF Shape
    <3>3. QED
      BY <1>1, <3>1, <3>2
  <2>6. UsableKept
    BY <1>1, <1>3 DEF UsableKept
  <2>7. \A u \in Tab, b \in Actor : /\ req'[u][b].cookie = req[u][b].cookie
                                    /\ u # t \/ b # a => req'[u][b] = req[u][b]
                                    /\ req'[u][b].new \in {req[u][b].new, n}
    BY <2>2, <2>3 DEF Becomes
  <2>8. AnswersAreFresh'
    <3> SUFFICES ASSUME NEW u \in Tab, NEW b \in Actor, Brings(req'[u][b])
                 PROVE  Fresh(u, b)'
      BY DEF AnswersAreFresh
    <3> HIDE DEF n
    <3>1. CASE u = t /\ b = a
      <4>1. req'[u][b].new = n
        BY <2>2, <2>3, <3>1 DEF Becomes
      <4>2. n \in rows' /\ n # cookie'
        BY <1>3, <2>5
      <4>3. \A v \in Tab, c \in Actor : req'[v][c].cookie # n
        BY <2>5, <2>7
      <4>4. ASSUME NEW v \in Tab, NEW c \in Actor, <<v, c>> # <<u, b>>
            PROVE  req'[v][c].new # n
        <5>1. req'[v][c] = req[v][c]
          BY <2>7, <3>1, <4>4
        <5>2. QED
          BY <2>5, <5>1
      <4>5. QED
        BY <4>1, <4>2, <4>3, <4>4 DEF Fresh
    <3>2. CASE u # t \/ b # a
      <4>1. Brings(req[u][b]) /\ req'[u][b].new = req[u][b].new /\ n # req[u][b].new
        <5>1. req'[u][b] = req[u][b]
          BY <2>7, <3>2
        <5>2. n # req[u][b].new
          BY <2>5
        <5>3. QED
          BY <5>1, <5>2
      <4>2. \A v \in Tab, c \in Actor : /\ req'[v][c].cookie \in {req[v][c].cookie, 0, n}
                                        /\ req'[v][c].new \in {req[v][c].new, 0, n}
        BY <2>7
      <4>3. QED
        BY <2>5, <2>6, <4>1, <4>2, FreshKept DEF CookieInv
    <3>3. QED
      BY <3>1, <3>2
  <2>9. EndsKept
    <3>1. Ended(r) \subseteq Ended(s)
      BY <1>1, <2>2 DEF Ended
    <3>2. QED
      BY <1>3, <2>3, <3>1 DEF Becomes, EndsKept
  <2>10. CookieFollows'
    BY <2>5, <2>6, <2>9, FollowsKept DEF CookieInv
  <2>11. QED
    BY <1>1, <1>3, <2>4, <2>8, <2>10 DEF CookieInv, DeletedHasNoRows
<1>4. QED
  BY <1>2, <1>3, CreatesParts

LEMMA InterceptsCookie ==
    ASSUME Shape, CookieInv, NEW t \in Tab, NEW a \in Actor, Intercepts(t, a)
    PROVE  CookieInv'
<1>1. Waits(t, a) /\ UNCHANGED <<server, cookie, lost>> /\ req[t][a].pc = "401"
  BY DEF Intercepts
<1> DEFINE w == [req[t][a] EXCEPT !.pc = "waits", !.tried = TRUE]
<1>2. \A u \in Tab, b \in Actor :
            \/ req'[u][b] = req[u][b]
            \/ u = t /\ b = a /\ req'[u][b] = w
            \/ u = t /\ b = "shared" /\ req[u][b] = NoRequest /\ req'[u][b] = Asked(t)
  BY <1>1, WaitsEffect
<1>3. w.cookie = req[t][a].cookie /\ w.new = req[t][a].new /\ w.pc = "waits"
  BY DEF Shape, Requests
<1>4. Asked(t).cookie = cookie /\ Asked(t).new = 0 /\ Asked(t).pc = "sent"
  BY DEF Asked, Request
<1> HIDE DEF w
<1>5. \A u \in Tab, b \in Actor : Tame(req'[u][b], req[u][b], cookie)
  BY <1>2, <1>3, <1>4 DEF Tame, Brings
<1>6. EndsKept
  <2>1. Ended(req[t][a]) = {} /\ Ended(NoRequest) = {}
    BY <1>1 DEF Ended, NoRequest
  <2>2. QED
    BY <1>1, <1>2, <2>1 DEF EndsKept, server
<1>7. PagesKept
  BY <1>1, <1>2, Actors DEF PagesKept, Free, NoRequest
<1>8. UsableKept /\ DeletedKept /\ cookie' = cookie
  BY <1>1 DEF server, UsableKept, DeletedKept, CookieInv, DeletedHasNoRows
<1>9. QED
  BY <1>5, <1>6, <1>7, <1>8, CookieKept

\* What callers of refreshAccessToken hear: a refresh brings the token the
\* browser has from now on; anything else leaves the cookie.
LEMMA ReturnsTame ==
    ASSUME Shape, CookieInv, NEW t \in Tab, NEW c \in Call, NEW ok \in BOOLEAN, cookie' \in Nat, req[t][c] # NoRequest,
           NEW token \in Tokens, NEW says \in {"none", "must", "free"}, Returns(t, c, ok, token, says)
    PROVE  /\ \A u \in Tab, b \in Actor : Tame(req'[u][b], req[u][b], cookie')
           /\ \A u \in Tab, b \in Actor : <<u, b>> # <<t, c>> => Ended(req[u][b]) \subseteq Ended(req'[u][b])
           /\ ~Brings(req'[t][c]) /\ PagesKept
<1>1. /\ \A u \in Tab \ {t} : req'[u] = req[u]
      /\ req'[t][c] = NoRequest
      /\ c = "own" => req'[t]["page"] = Request("profile", access'[t], cookie')
      /\ \A b \in Actor \ {c} :
            \/ b = "page" /\ c = "own"
            \/ req'[t][b] = req[t][b]
            \/ SettledTo(req'[t][b], req[t][b], ok)
  BY ReturnsEffect
<1>2. c = "own" => req[t]["page"] = NoRequest
  BY DEF CookieInv, OneAtAPage, Free
<1>3. /\ NoRequest.cookie = 0 /\ NoRequest.new = 0 /\ NoRequest.pc = "none" /\ Ended(NoRequest) = {}
      /\ Request("profile", access'[t], cookie').cookie = cookie' /\ Request("profile", access'[t], cookie').new = 0
      /\ Request("profile", access'[t], cookie').pc = "sent"
  BY DEF NoRequest, Request, Ended
<1>4. \A b \in Actor : SettledTo(req'[t][b], req[t][b], ok) =>
          Tame(req'[t][b], req[t][b], cookie') /\ Ended(req[t][b]) = {} /\ req[t][b] # NoRequest
  BY <1>3 DEF SettledTo, Tame, Brings, Ended
<1>5. \A u \in Tab, b \in Actor : Tame(req'[u][b], req[u][b], cookie')
  BY <1>1, <1>3, <1>4 DEF Tame, Brings
<1>6. \A u \in Tab, b \in Actor : <<u, b>> # <<t, c>> => Ended(req[u][b]) \subseteq Ended(req'[u][b])
  BY <1>1, <1>2, <1>3, <1>4
<1>7. ~Brings(req'[t][c])
  BY <1>1, <1>3 DEF Brings
<1>8. PagesKept
  BY <1>1, <1>4, Actors DEF PagesKept, Free
<1>9. QED
  BY <1>5, <1>6, <1>7, <1>8

LEMMA HearsCookie ==
    ASSUME Shape, CookieInv, NEW t \in Tab, NEW c \in Call, HearsRefresh(t, c) \/ HearsProfile(t, c) \/ HearsFailure(t, c)
    PROVE  CookieInv'
<1>1. c \in Actor /\ Fits(c, req[t][c], issued) /\ issued \in Nat /\ cookie \in Nat
  BY Actors DEF Shape
<1>2. access[t] \in Tokens /\ user[t] \in {"none", "must", "free"}
  BY DEF Shape
<1>3. CASE HearsRefresh(t, c)
  <2>1. /\ Brings(req[t][c]) /\ cookie' = req[t][c].new /\ UNCHANGED <<server, lost>>
    BY <1>3 DEF HearsRefresh, Is, Brings
  <2>2. req[t][c].with \in {"must", "free"} /\ cookie' \in Nat /\ req[t][c] # NoRequest
    BY <1>1, <2>1 DEF Fits, Brings, Requests, NoRequest
  <2>3. /\ \A u \in Tab, b \in Actor : Tame(req'[u][b], req[u][b], cookie')
        /\ ~Brings(req'[t][c]) /\ PagesKept
    <3>1. CASE user[t] # "none"
      <4>1. Returns(t, c, TRUE, req[t][c].with, user[t])
        BY <1>3, <3>1 DEF HearsRefresh
      <4>2. req[t][c].with \in Tokens
        BY <2>2 DEF Tokens
      <4>3. QED
        BY <1>2, <2>2, <4>1, <4>2, ReturnsTame
    <3>2. CASE user[t] = "none"
      <4> DEFINE s == Request("profile", req[t][c].with, cookie')
      <4>1. req' = [req EXCEPT ![t][c] = s]
        BY <1>3, <3>2 DEF HearsRefresh
      <4>2. s \in Requests /\ s.cookie = cookie' /\ s.new = 0 /\ s.pc = "sent"
        BY <2>2, Asking DEF Kinds, Tokens
      <4> HIDE DEF s
      <4>3. Becomes(t, c, s)
        BY <1>1, <4>1, <4>2, BecomesEffect
      <4>4. Tame(s, req[t][c], cookie') /\ ~Brings(s)
        BY <4>2 DEF Tame, Brings
      <4>5. QED
        BY <1>1, <2>2, <4>3, <4>4, BecomesPages, BecomesTame DEF Becomes
    <3>3. QED
      BY <3>1, <3>2
  <2>4. QED
    BY <1>1, <2>1, <2>3, CookieHeard DEF server
<1>4. CASE HearsProfile(t, c) \/ HearsFailure(t, c)
  <2>1. cookie' = cookie /\ UNCHANGED <<server, lost>>
    BY <1>4 DEF HearsProfile, HearsFailure
  <2>2. req[t][c] # NoRequest /\ Ended(req[t][c]) = {}
    <3>1. (req[t][c].kind = "profile" /\ req[t][c].pc = "ok") \/ req[t][c].pc \in {"fail", "401"}
      <4>1. HearsProfile(t, c) => req[t][c].kind = "profile" /\ req[t][c].pc = "ok"
        BY DEF HearsProfile, Is
      <4>2. HearsFailure(t, c) => req[t][c].pc \in {"fail", "401"}
        BY DEF HearsFailure, Failed
      <4>3. QED
        BY <1>4, <4>1, <4>2
    <3>2. QED
      BY <3>1 DEF Ended, NoRequest
  <2>3. \E ok \in BOOLEAN : \E token \in Tokens, says \in {"none", "must", "free"} : Returns(t, c, ok, token, says)
    <3>1. CASE HearsProfile(t, c)
      <4>1. req[t][c].with \in {"must", "free"}
        BY <1>1, <3>1 DEF HearsProfile, Is, Fits
      <4>2. QED
        BY <1>2, <3>1, <4>1 DEF HearsProfile
    <3>2. CASE HearsFailure(t, c)
      BY <3>2 DEF HearsFailure, Tokens
    <3>3. QED
      BY <1>4, <3>1, <3>2
  <2>4. /\ \A u \in Tab, b \in Actor : Tame(req'[u][b], req[u][b], cookie)
        /\ \A u \in Tab, b \in Actor : <<u, b>> # <<t, c>> => Ended(req[u][b]) \subseteq Ended(req'[u][b])
        /\ PagesKept
    BY <1>1, <2>1, <2>2, <2>3, ReturnsTame
  <2>5. UsableKept /\ DeletedKept /\ EndsKept
    BY <2>1, <2>2, <2>4 DEF server, UsableKept, DeletedKept, EndsKept, CookieInv, DeletedHasNoRows
  <2>6. QED
    BY <2>1, <2>2, <2>4, <2>5, CookieKept
<1>5. QED
  BY <1>3, <1>4

LEMMA AsksCookie ==
    ASSUME Shape, CookieInv, NEW t \in Tab,
           LogsIn(t) \/ Changes(t) \/ LogsOut(t) \/ \E w \in Work : Works(t, w)
    PROVE  CookieInv'
<1>1. \E a \in Actor : \E kind \in Kinds, with \in Tokens \cup {"right", "wrong"} :
         Asks(t, a, kind, with) /\ Free(t, a) /\ (a \in Work \/ (a = "page" /\ Free(t, "own")))
  <2>1. access[t] \in Tokens
    BY DEF Shape
  <2>2. CASE LogsIn(t)
    BY <2>2, Actors DEF LogsIn, Kinds
  <2>3. CASE Changes(t)
    BY <2>1, <2>3, Actors DEF Changes, Kinds
  <2>4. CASE LogsOut(t)
    BY <2>1, <2>4, Actors DEF LogsOut, Kinds
  <2>5. CASE \E w \in Work : Works(t, w)
    BY <2>1, <2>5, Actors DEF Works, Kinds
  <2>6. QED
    BY <2>2, <2>3, <2>4, <2>5
<1>2. UNCHANGED <<server, cookie, lost>>
  BY DEF LogsIn, Changes, LogsOut, Works
<1>3. UsableKept /\ DeletedKept /\ cookie \in Nat /\ cookie' = cookie /\ unheard' = unheard
  BY <1>2 DEF server, UsableKept, DeletedKept, CookieInv, DeletedHasNoRows, Shape
<1>4. ASSUME NEW a \in Actor, NEW kind \in Kinds, NEW with \in Tokens \cup {"right", "wrong"},
             Asks(t, a, kind, with), Free(t, a), a \in Work \/ (a = "page" /\ Free(t, "own"))
      PROVE  CookieInv'
  <2> DEFINE s == Request(kind, with, cookie)
  <2>1. s \in Requests /\ s.cookie = cookie /\ s.new = 0 /\ s.pc = "sent"
    BY <1>3, Asking
  <2>2. req' = [req EXCEPT ![t][a] = s]
    BY <1>4 DEF Asks
  <2> HIDE DEF s
  <2>3. Tame(s, req[t][a], cookie) /\ Ended(req[t][a]) = {}
    BY <1>4, <2>1 DEF Tame, Brings, Ended, Free, NoRequest
  <2>4. QED
    BY <1>3, <1>4, <2>1, <2>2, <2>3, CookieBecomes
<1>5. QED
  BY <1>1, <1>4

LEMMA PageCookie ==
    ASSUME Shape, CookieInv, NEW t \in Tab,
           LoggedIn(t) \/ Ignores(t) \/ LoggedOut(t) \/ Changed(t) \/ Profiled(t) \/ \E w \in Work : Worked(t, w)
    PROVE  CookieInv'
<1>1. UNCHANGED <<server, lost>> /\ "page" \in Actor
  BY Actors DEF LoggedIn, Ignores, LoggedOut, Changed, Profiled, Worked
<1>2. UsableKept /\ DeletedKept /\ cookie \in Nat /\ unheard' = unheard
  BY <1>1 DEF server, UsableKept, DeletedKept, CookieInv, DeletedHasNoRows, Shape
<1>3. NoRequest \in Requests /\ NoRequest.cookie = 0 /\ NoRequest.new = 0 /\ NoRequest.pc = "none"
  BY Asking DEF Kinds, Tokens, NoRequest
<1>4. \A r, jar : Tame(NoRequest, r, jar)
  BY <1>3 DEF Tame, Brings
<1>5. ASSUME NEW a \in Actor, Done(t, a), Ended(req[t][a]) = {}, cookie' = cookie
      PROVE  CookieInv'
  BY <1>2, <1>3, <1>4, <1>5, CookieBecomes DEF Done
<1>6. ASSUME NEW c \in Call, req' = [req EXCEPT ![t] = [@ EXCEPT !["page"] = NoRequest, ![c] = Asked(t)]],
             Free(t, c), Ended(req[t]["page"]) = {}, cookie' = cookie
      PROVE  CookieInv'
  <2>1. c \in Actor /\ "page" # c
    BY Actors
  <2>2. Asked(t) \in Requests /\ Asked(t).cookie = cookie /\ Asked(t).new = 0 /\ Asked(t).pc = "sent"
    BY <1>2, Asking DEF Asked, Kinds, Shape
  <2>3. /\ req'[t]["page"] = NoRequest /\ req'[t][c] = Asked(t)
        /\ \A u \in Tab, o \in Actor : u # t \/ o \notin {"page", c} => req'[u][o] = req[u][o]
        /\ req' \in [Tab -> [Actor -> Requests]]
    BY <1>1, <1>3, <1>6, <2>1, <2>2, TwoEffect
  <2>4. \A u \in Tab, b \in Actor : Tame(req'[u][b], req[u][b], cookie)
    BY <1>4, <2>2, <2>3 DEF Tame, Brings
  <2>5. EndsKept
    <3>1. Ended(req[t][c]) = {}
      BY <1>3, <1>6 DEF Ended, Free
    <3>2. QED
      BY <1>2, <1>6, <2>3, <3>1 DEF EndsKept
  <2>6. PagesKept
    BY <2>3, Actors DEF PagesKept, Free
  <2>7. QED
    BY <1>2, <1>6, <2>4, <2>5, <2>6, CookieKept
<1>7. CASE LoggedIn(t)
  <2>1. Brings(req[t]["page"]) /\ cookie' = req[t]["page"].new /\ req' = [req EXCEPT ![t]["page"] = NoRequest]
    BY <1>7 DEF LoggedIn, Is, Brings, Done
  <2>2. Becomes(t, "page", NoRequest)
    BY <1>1, <1>3, <2>1, BecomesEffect
  <2>3. PagesKept /\ \A u \in Tab, b \in Actor : Tame(req'[u][b], req[u][b], cookie')
    BY <1>1, <1>4, <2>2, BecomesPages, BecomesTame
  <2>4. ~Brings(req'[t]["page"])
    BY <1>3, <2>2 DEF Becomes, Brings
  <2>5. QED
    BY <1>1, <2>1, <2>3, <2>4, CookieHeard DEF server
<1>8. CASE LoggedOut(t)
  <2>1. Done(t, "page") /\ req[t]["page"].pc \in {"ok", "fail", "401"}
    BY <1>8 DEF LoggedOut, Failed
  <2>2. CASE req[t]["page"].pc # "ok"
    BY <1>1, <1>5, <1>8, <2>1, <2>2 DEF LoggedOut, Ended
  <2>3. CASE req[t]["page"].pc = "ok"
    <3>1. cookie' = 0
      BY <1>8, <2>3 DEF LoggedOut
    <3>2. Becomes(t, "page", NoRequest)
      BY <1>1, <1>3, <2>1, BecomesEffect DEF Done
    <3>3. PagesKept /\ \A u \in Tab, b \in Actor : Tame(req'[u][b], req[u][b], cookie)
      BY <1>1, <1>4, <3>2, BecomesPages, BecomesTame
    <3>4. AnswersAreFresh'
      BY <1>2, <3>1, <3>3, AnswersKept DEF CookieInv
    <3>5. QED
      BY <1>2, <3>1, <3>3, <3>4, PagesEffect DEF CookieInv, CookieFollows, DeletedHasNoRows, DeletedKept
  <2>4. QED
    BY <2>2, <2>3
<1>9. CASE Ignores(t)
  <2>1. Done(t, "page") /\ cookie' = cookie
    BY <1>9 DEF Ignores
  <2>2. req[t]["page"].kind = "dialog" \/ req[t]["page"].pc \in {"fail", "401"}
    BY <1>9 DEF Ignores, Is, Failed
  <2>3. QED
    BY <1>1, <1>5, <2>1, <2>2 DEF Ended
<1>10. CASE Changed(t)
  <2>1. req[t]["page"].kind = "change" /\ req[t]["page"] # NoRequest
    BY <1>10 DEF Changed, Is, NoRequest
  <2>2. Free(t, "own")
    BY <2>1 DEF CookieInv, OneAtAPage, Free
  <2>3. QED
    BY <1>6, <1>10, <2>1, <2>2, Actors DEF Changed, Ended
<1>11. CASE Profiled(t)
  <2>1. req[t]["page"].kind = "profile" /\ cookie' = cookie
    BY <1>11 DEF Profiled, Is
  <2>2. CASE access[t] = "none"
    BY <1>6, <1>11, <2>1, <2>2, Actors DEF Profiled, Ended
  <2>3. CASE access[t] # "none"
    BY <1>1, <1>5, <1>11, <2>1, <2>3 DEF Profiled, Ended
  <2>4. QED
    BY <2>2, <2>3
<1>12. CASE \E w \in Work : Worked(t, w)
  <2>1. PICK w \in Work : Worked(t, w)
    BY <1>12
  <2>2. w \in Actor /\ Fits(w, req[t][w], issued) /\ w # "page"
    BY Actors DEF Shape
  <2>3. Ended(req[t][w]) = {}
    BY <2>2 DEF Fits, KindsOf, Ended
  <2>4. QED
    BY <1>5, <2>1, <2>2, <2>3 DEF Worked
<1>13. QED
  BY <1>7, <1>8, <1>9, <1>10, <1>11, <1>12

LEMMA ReloadsCookie ==
    ASSUME Shape, CookieInv, NEW t \in Tab, Reloads(t)
    PROVE  CookieInv'
<1>1. /\ \A u \in Tab \ {t} : req'[u] = req[u]
      /\ \A a \in Actor : req'[t][a] = IF a = "guard" THEN Request("refresh", "none", cookie) ELSE NoRequest
      /\ UNCHANGED <<rows, issued, account, must, revoked, cookie>> /\ unheard \subseteq unheard'
      /\ \A a \in Actor : Ended(req[t][a]) \subseteq unheard'
  BY ReloadsEffect
<1>2. UsableKept /\ DeletedKept /\ EndsKept
  BY <1>1 DEF UsableKept, DeletedKept, EndsKept, CookieInv, DeletedHasNoRows
<1>3. \A u \in Tab, b \in Actor : Tame(req'[u][b], req[u][b], cookie)
  <2>1. /\ NoRequest.cookie = 0 /\ NoRequest.new = 0 /\ NoRequest.pc = "none"
        /\ Request("refresh", "none", cookie).cookie = cookie /\ Request("refresh", "none", cookie).pc = "sent"
        /\ Request("refresh", "none", cookie).new = 0
    BY DEF NoRequest, Request
  <2>2. QED
    BY <1>1, <2>1 DEF Tame, Brings
<1>4. PagesKept
  BY <1>1, Actors DEF PagesKept, Free
<1>5. QED
  BY <1>1, <1>2, <1>3, <1>4, CookieKept

LEMMA FaultsCookie ==
    ASSUME Shape, CookieInv, Faults \/ AccountEnds \/ Unlocks
    PROVE  CookieInv'
<1>1. ASSUME NEW t \in Tab, NEW a \in Actor, Loses(t, a)
      PROVE  CookieInv'
  <2>1. /\ UNCHANGED <<rows, revoked, account, cookie>> /\ unheard' = unheard \cup Ended(req[t][a])
        /\ Replies(t, a, "fail") /\ req[t][a] # NoRequest
    BY <1>1 DEF Loses, NoRequest
  <2>2. PICK s \in Requests : Moves(s, req[t][a], "fail") /\ req' = [req EXCEPT ![t][a] = s]
    BY <2>1, MovesTo DEF Places, Reaches
  <2>3. Tame(s, req[t][a], cookie)
    BY <2>2 DEF Tame, Brings, Moves
  <2>4. UsableKept /\ DeletedKept
    BY <2>1 DEF UsableKept, DeletedKept, CookieInv, DeletedHasNoRows
  <2>5. unheard \subseteq unheard' /\ Ended(req[t][a]) \subseteq Ended(s) \cup unheard'
    BY <2>1
  <2>6. QED
    BY <2>1, <2>2, <2>3, <2>4, <2>5, CookieBecomes
<1>2. ASSUME UNCHANGED <<req, cookie, unheard>>, rows \cup revoked \subseteq rows' \cup revoked', DeletedKept
      PROVE  CookieInv'
  <2>1. PagesKept /\ \A u \in Tab, b \in Actor : Tame(req'[u][b], req[u][b], cookie)
    BY <1>2 DEF PagesKept, Tame, Free
  <2>2. UsableKept /\ EndsKept
    BY <1>2 DEF UsableKept, EndsKept
  <2>3. QED
    BY <1>2, <2>1, <2>2, CookieKept
<1>3. ASSUME NEW t \in Tab, AccessExpires(t)
      PROVE  CookieInv'
  <2>1. UNCHANGED <<server, cookie, req, lost>>
    BY <1>3 DEF AccessExpires
  <2>2. QED
    BY <1>2, <2>1 DEF server, DeletedKept, CookieInv, DeletedHasNoRows
<1>4. ASSUME AccountEnds \/ Unlocks
      PROVE  CookieInv'
  <2>1. UNCHANGED <<req, cookie, unheard>> /\ rows \cup revoked \subseteq rows' \cup revoked'
    BY <1>4 DEF AccountEnds, Unlocks, Revokes
  <2>2. DeletedKept
    BY <1>4 DEF AccountEnds, Unlocks, Revokes, DeletedKept
  <2>3. QED
    BY <1>2, <2>1, <2>2
<1>5. QED
  BY <1>1, <1>3, <1>4 DEF Faults

LEMMA CookieInit == Init => CookieInv
BY Actors DEF Init, CookieInv, OneAtAPage, Free, DeletedHasNoRows, AnswersAreFresh, CookieFollows, Brings, NoRequest

LEMMA CookieStep == Shape /\ CookieInv /\ [Next]_vars => CookieInv'
<1> SUFFICES ASSUME Shape, CookieInv, [Next]_vars
             PROVE  CookieInv'
  OBVIOUS
<1>1. ASSUME NEW t \in Tab, Goes(t)
      PROVE  CookieInv'
  <2>1. CASE LoggedIn(t) \/ Changed(t) \/ Profiled(t) \/ Ignores(t) \/ LoggedOut(t) \/ \E w \in Work : Worked(t, w)
    BY <2>1, PageCookie
  <2>2. CASE \E a \in Actor : Serves(t, a) \/ Creates(t, a) \/ Intercepts(t, a)
    BY <2>2, ServesCookie, CreatesCookie, InterceptsCookie
  <2>3. CASE ChecksLogin(t) \/ \E c \in Call : Finds(t, c) \/ Drops(t, c)
    BY <2>3, LooksUpCookie
  <2>4. CASE \E c \in Call : HearsRefresh(t, c) \/ HearsProfile(t, c) \/ HearsFailure(t, c)
    BY <2>4, HearsCookie
  <2>5. QED
    BY <1>1, <2>1, <2>2, <2>3, <2>4 DEF Goes
<1>2. ASSUME NEW t \in Tab, User(t)
      PROVE  CookieInv'
  BY <1>2, AsksCookie, ReloadsCookie DEF User
<1>3. CASE Faults \/ AccountEnds \/ Unlocks
  BY <1>3, FaultsCookie
<1>4. CASE UNCHANGED vars
  BY <1>4 DEF vars, server, store, CookieInv, OneAtAPage, Free, DeletedHasNoRows, AnswersAreFresh, Fresh, CookieFollows
<1>5. QED
  BY <1>1, <1>2, <1>3, <1>4 DEF Next

\* When every tab rests, the refresh token of the browser is one the server
\* still knows, however the tabs share and rotate it. It may be unknown only if
\* the account or the clock ended it, or if the request that deleted that very
\* token got no answer: refresh deletes the row before it inserts the next.
THEOREM CookieStaysUsable == Spec => []CookieWorks
<1>1. CookieInv => CookieWorks
  BY Actors DEF CookieInv, CookieFollows, CookieWorks, Rests, Free, Ended, NoRequest
<1>2. QED
  BY <1>1, CookieInit, CookieStep, ShapeAlways, PTL DEF Spec

----------------------------------------------------------------------------
(* The tab that knows its user. *)

ProfilesKept(t) == \A c \in Call : req[t][c].kind = "profile" => req'[t][c].kind = "profile"

LEMMA AuthKept ==
    ASSUME AuthInv,
           \A t \in Tab : \/ access'[t] = "none" \/ user'[t] # "none" \/ \E c \in Call : req'[t][c].kind = "profile"
                          \/ user'[t] = user[t] /\ ProfilesKept(t) /\ (access[t] = "none" => access'[t] = "none")
    PROVE  AuthInv'
BY DEF AuthInv, ProfilesKept

\* A request that keeps its kind.
LEMMA RepliesProfiles ==
    ASSUME Shape, NEW t \in Tab, NEW a \in Actor, NEW pc \in Places, Replies(t, a, pc)
    PROVE  \A u \in Tab : ProfilesKept(u)
<1>1. Becomes(t, a, [req[t][a] EXCEPT !.pc = pc])
  BY RepliesEffect
<1>2. [req[t][a] EXCEPT !.pc = pc].kind = req[t][a].kind
  BY DEF Shape, Requests
<1>3. QED
  BY <1>1, <1>2, Actors DEF Becomes, ProfilesKept

LEMMA BecomesProfiles ==
    ASSUME Shape, NEW t \in Tab, NEW a \in Actor, NEW r \in Requests, req' = [req EXCEPT ![t][a] = r],
           r.kind = req[t][a].kind \/ a \notin Call
    PROVE  \A u \in Tab : ProfilesKept(u)
BY Actors, BecomesEffect DEF Becomes, ProfilesKept

LEMMA ServerAuth ==
    ASSUME Shape, AuthInv, NEW t \in Tab,
           \/ ChecksLogin(t) \/ \E c \in Call : Finds(t, c) \/ Drops(t, c)
           \/ \E a \in Actor : Serves(t, a) \/ Creates(t, a) \/ Intercepts(t, a)
    PROVE  AuthInv'
<1>1. access' = access /\ user' = user
  BY DEF ChecksLogin, Finds, Drops, Serves, Creates, Intercepts, store
<1>2. ASSUME NEW a \in Actor, NEW w \in {"must", "free"}, NEW pc \in Places, req' = [req EXCEPT ![t][a] = [req[t][a] EXCEPT !.pc = pc, !.with = w]]
      PROVE  \A u \in Tab : ProfilesKept(u)
  <2>1. req[t][a] \in Requests
    BY DEF Shape
  <2>2. [req[t][a] EXCEPT !.pc = pc, !.with = w] \in Requests /\ [req[t][a] EXCEPT !.pc = pc, !.with = w].kind = req[t][a].kind
    BY <2>1 DEF Requests, Tokens
  <2>3. QED
    BY <1>2, <2>2, BecomesProfiles
<1>3. Claim(must) \in {"must", "free"} /\ {"401", "403", "ok", "fail", "found", "dropped"} \subseteq Places
  BY DEF Claim, Places
<1>4. \A u \in Tab : ProfilesKept(u)
  <2>1. CASE ChecksLogin(t)
    BY <1>2, <1>3, <2>1, RepliesProfiles, Actors DEF ChecksLogin
  <2>2. ASSUME NEW c \in Call, Finds(t, c)
        PROVE  \A u \in Tab : ProfilesKept(u)
    BY <1>2, <1>3, <2>2, RepliesProfiles, Actors DEF Finds
  <2>7. ASSUME NEW c \in Call, Drops(t, c)
        PROVE  \A u \in Tab : ProfilesKept(u)
    BY <1>3, <2>7, RepliesProfiles, Actors DEF Drops
  <2>3. ASSUME NEW a \in Actor, Serves(t, a)
        PROVE  \A u \in Tab : ProfilesKept(u)
    <3>1. (\E pc \in Places : Replies(t, a, pc)) \/ req' = [req EXCEPT ![t][a] = [req[t][a] EXCEPT !.pc = "ok", !.with = Claim(must)]]
      BY <1>3, <2>3 DEF Serves
    <3>2. QED
      BY <1>2, <1>3, <3>1, RepliesProfiles
  <2>4. ASSUME NEW a \in Actor, Creates(t, a)
        PROVE  \A u \in Tab : ProfilesKept(u)
    <3>1. CASE Replies(t, a, "fail")
      BY <1>3, <3>1, RepliesProfiles
    <3>2. CASE req' = [req EXCEPT ![t][a] = [req[t][a] EXCEPT !.pc = "ok", !.new = issued + 1]]
      <4>1. req[t][a] \in Requests /\ issued + 1 \in Nat
        BY DEF Shape
      <4>2. [req[t][a] EXCEPT !.pc = "ok", !.new = issued + 1] \in Requests
            /\ [req[t][a] EXCEPT !.pc = "ok", !.new = issued + 1].kind = req[t][a].kind
        BY <4>1 DEF Requests, Places
      <4>3. QED
        BY <3>2, <4>2, BecomesProfiles
    <3>3. QED
      BY <2>4, <3>1, <3>2, CreatesParts
  <2>5. ASSUME NEW a \in Actor, Intercepts(t, a)
        PROVE  \A u \in Tab : ProfilesKept(u)
    <3>1. Waits(t, a)
      BY <2>5 DEF Intercepts
    <3>2. \A u \in Tab, b \in Actor :
                \/ req'[u][b] = req[u][b]
                \/ /\ u = t /\ b = a
                   /\ req'[u][b] = [req[t][a] EXCEPT !.pc = "waits", !.tried = TRUE]
                \/ u = t /\ b = "shared" /\ req[u][b] = NoRequest /\ req'[u][b] = Asked(t)
      BY <3>1, WaitsEffect
    <3>3. [req[t][a] EXCEPT !.pc = "waits", !.tried = TRUE].kind = req[t][a].kind /\ NoRequest.kind = "none"
      BY DEF Shape, Requests, NoRequest
    <3>4. ASSUME NEW u \in Tab, NEW c \in Call, req[u][c].kind = "profile"
          PROVE  req'[u][c].kind = "profile"
      <4>1. c \in Actor /\ req[u][c] # NoRequest
        BY <3>3, <3>4, Actors
      <4>2. \/ req'[u][c] = req[u][c]
            \/ u = t /\ c = a /\ req'[u][c] = [req[t][a] EXCEPT !.pc = "waits", !.tried = TRUE]
        BY <3>2, <4>1
      <4>3. QED
        BY <3>3, <3>4, <4>2
    <3>5. QED
      BY <3>4 DEF ProfilesKept
  <2>6. QED
    BY <2>1, <2>2, <2>3, <2>4, <2>5, <2>7
<1>5. QED
  BY <1>1, <1>4, AuthKept

LEMMA HearsAuth ==
    ASSUME Shape, AuthInv, NEW t \in Tab, NEW c \in Call, HearsRefresh(t, c) \/ HearsProfile(t, c) \/ HearsFailure(t, c)
    PROVE  AuthInv'
<1>1. c \in Actor /\ Fits(c, req[t][c], issued) /\ access \in [Tab -> Tokens] /\ user \in [Tab -> {"none", "must", "free"}]
      /\ req \in [Tab -> [Actor -> Requests]]
  BY Actors DEF Shape
<1>2. ASSUME NEW ok, NEW token, NEW says, Returns(t, c, ok, token, says), ok => says # "none"
      PROVE  AuthInv'
  <2>1. access'[t] = "none" \/ user'[t] # "none"
    BY <1>1, <1>2 DEF Returns
  <2>2. \A u \in Tab \ {t} : access'[u] = access[u] /\ user'[u] = user[u] /\ req'[u] = req[u]
    BY <1>1, <1>2 DEF Returns
  <2>3. QED
    BY <2>1, <2>2, AuthKept DEF ProfilesKept
<1>3. CASE HearsRefresh(t, c) /\ user[t] = "none"
  <2>1. /\ req' = [req EXCEPT ![t][c] = Request("profile", req[t][c].with, cookie')]
        /\ access' = [access EXCEPT ![t] = req[t][c].with] /\ user' = user
    BY <1>3 DEF HearsRefresh
  <2>2. req'[t][c].kind = "profile"
    BY <1>1, <2>1 DEF Request
  <2>3. \A u \in Tab \ {t} : access'[u] = access[u] /\ user'[u] = user[u] /\ req'[u] = req[u]
    BY <1>1, <2>1
  <2>4. QED
    BY <2>2, <2>3, AuthKept DEF ProfilesKept
<1>4. CASE HearsRefresh(t, c) /\ user[t] # "none"
  BY <1>2, <1>4 DEF HearsRefresh
<1>5. CASE HearsProfile(t, c)
  <2>1. req[t][c].with \in {"must", "free"}
    BY <1>1, <1>5 DEF HearsProfile, Is, Fits
  <2>2. QED
    BY <1>2, <1>5, <2>1 DEF HearsProfile
<1>6. CASE HearsFailure(t, c)
  BY <1>2, <1>6 DEF HearsFailure
<1>7. QED
  BY <1>3, <1>4, <1>5, <1>6

LEMMA PageAuth ==
    ASSUME Shape, OneAtAPage, AuthInv, NEW t \in Tab,
           \/ LoggedIn(t) \/ Ignores(t) \/ LoggedOut(t) \/ Changed(t) \/ Profiled(t) \/ \E w \in Work : Worked(t, w)
           \/ LogsIn(t) \/ Changes(t) \/ LogsOut(t) \/ \E w \in Work : Works(t, w)
           \/ Reloads(t)
    PROVE  AuthInv'
<1>1. "page" \in Actor /\ Fits("page", req[t]["page"], issued) /\ access \in [Tab -> Tokens] /\ user \in [Tab -> {"none", "must", "free"}]
      /\ req \in [Tab -> [Actor -> Requests]]
  BY Actors DEF Shape
<1>2. \A u \in Tab \ {t} : access'[u] = access[u] /\ user'[u] = user[u] /\ ProfilesKept(u)
  <2>1. \A u \in Tab \ {t} : req'[u] = req[u]
    BY <1>1 DEF LoggedIn, Ignores, LoggedOut, Changed, Profiled, Worked, LogsIn, Changes, LogsOut, Works, Reloads, Done, Asks
  <2>2. \A u \in Tab \ {t} : access'[u] = access[u] /\ user'[u] = user[u]
    BY <1>1 DEF LoggedIn, Ignores, LoggedOut, Changed, Profiled, Worked, LogsIn, Changes, LogsOut, Works, Reloads, store
  <2>3. QED
    BY <2>1, <2>2 DEF ProfilesKept
<1>3. ASSUME access'[t] = "none" \/ user'[t] # "none"
      PROVE  AuthInv'
  BY <1>2, <1>3, AuthKept
<1>4. ASSUME access' = access, user' = user, ProfilesKept(t)
      PROVE  AuthInv'
  BY <1>2, <1>4, AuthKept
<1>5. CASE LoggedIn(t) \/ Profiled(t)
  <2>1. req[t]["page"].with \in {"must", "free"}
    BY <1>1, <1>5 DEF LoggedIn, Profiled, Is, Fits
  <2>2. user'[t] # "none"
    BY <1>1, <1>5, <2>1 DEF LoggedIn, Profiled
  <2>3. QED
    BY <1>3, <2>2
<1>6. CASE LoggedOut(t) \/ Reloads(t)
  BY <1>1, <1>3, <1>6 DEF LoggedOut, Reloads
<1>7. CASE Changed(t)
  <2>1. req[t]["own"] = NoRequest
    BY <1>7 DEF Changed, Is, OneAtAPage, Free, NoRequest
  <2>2. access' = access /\ user' = user
    BY <1>7 DEF Changed, store
  <2>3. \A c \in Call \ {"own"} : req'[t][c] = req[t][c]
    BY <1>1, <1>7, Actors DEF Changed
  <2>4. QED
    BY <1>4, <2>1, <2>2, <2>3 DEF ProfilesKept, NoRequest
<1>8. CASE Ignores(t) \/ LogsIn(t) \/ Changes(t) \/ LogsOut(t) \/ \E w \in Work : Works(t, w) \/ Worked(t, w)
  <2>1. access' = access /\ user' = user
    BY <1>8 DEF Ignores, LogsIn, Changes, LogsOut, Works, Worked, store
  <2>2. \E a \in Actor \ Call : \E r : req' = [req EXCEPT ![t][a] = r]
    <3>1. CASE Ignores(t) \/ LogsIn(t) \/ Changes(t) \/ LogsOut(t)
      BY <3>1, Actors DEF Ignores, LogsIn, Changes, LogsOut, Done, Asks
    <3>2. CASE \E w \in Work : Works(t, w) \/ Worked(t, w)
      BY <3>2, Actors DEF Works, Worked, Done, Asks
    <3>3. QED
      BY <1>8, <3>1, <3>2
  <2>3. \A c \in Call : req'[t][c] = req[t][c]
    BY <1>1, <2>2, Actors
  <2>4. QED
    BY <1>4, <2>1, <2>3 DEF ProfilesKept
<1>9. QED
  BY <1>5, <1>6, <1>7, <1>8

LEMMA FaultsAuth ==
    ASSUME Shape, AuthInv, Faults \/ AccountEnds \/ Unlocks
    PROVE  AuthInv'
<1>1. ASSUME NEW t \in Tab, NEW a \in Actor, Loses(t, a)
      PROVE  AuthInv'
  <2>1. access' = access /\ user' = user /\ \A u \in Tab : ProfilesKept(u)
    BY <1>1, RepliesProfiles DEF Loses, store, Places
  <2>2. QED
    BY <2>1, AuthKept
<1>2. ASSUME NEW t \in Tab, AccessExpires(t)
      PROVE  AuthInv'
  <2>1. /\ user' = user /\ req' = req /\ access[t] # "none"
        /\ \A u \in Tab \ {t} : access'[u] = access[u]
    BY <1>2 DEF AccessExpires, Shape
  <2>2. QED
    BY <2>1, AuthKept DEF ProfilesKept
<1>3. CASE AccountEnds \/ Unlocks
  BY <1>3 DEF AccountEnds, Unlocks, store, AuthInv
<1>4. QED
  BY <1>1, <1>2, <1>3 DEF Faults

LEMMA AuthStep == Shape /\ OneAtAPage /\ AuthInv /\ [Next]_vars => AuthInv'
<1> SUFFICES ASSUME Shape, OneAtAPage, AuthInv, [Next]_vars
             PROVE  AuthInv'
  OBVIOUS
<1>1. ASSUME NEW t \in Tab, Goes(t)
      PROVE  AuthInv'
  BY <1>1, ServerAuth, HearsAuth, PageAuth DEF Goes
<1>2. ASSUME NEW t \in Tab, User(t)
      PROVE  AuthInv'
  BY <1>2, PageAuth DEF User
<1>3. CASE Faults \/ AccountEnds \/ Unlocks
  BY <1>3, FaultsAuth
<1>4. CASE UNCHANGED vars
  BY <1>4 DEF vars, store, AuthInv
<1>5. QED
  BY <1>1, <1>2, <1>3, <1>4 DEF Next

\* A tab that waits for nothing and has an access token knows its user: no
\* order of answers, losses and reloads leaves the store half filled.
THEOREM StoreIsWhole == Spec => []AuthIsWhole
<1>1. Init => AuthInv
  BY DEF Init, AuthInv
<1>2. CookieInv => OneAtAPage
  BY DEF CookieInv
<1>3. AuthInv => AuthIsWhole
  BY Actors DEF AuthInv, AuthIsWhole, Rests, Free, NoRequest
<1>4. QED
  BY <1>1, <1>2, <1>3, AuthStep, CookieInit, CookieStep, ShapeAlways, PTL DEF Spec

============================================================================
