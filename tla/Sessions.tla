------------------------------ MODULE Sessions ------------------------------
(***************************************************************************)
(* apps/api/auth.py and auth_store.py: pairs of tokens, their rotation,    *)
(* replay detection, logout and change of password, with the browsers of   *)
(* apps/web/app/auth that hold the pairs in cookies.  Whether a login is   *)
(* refused, which the lockout decides too, is left open here.              *)
(*                                                                         *)
(* The server runs as one process and its auth routes never await, so a    *)
(* request is handled in one step; it may be cut short between two         *)
(* statements on the database, each its own transaction.  What interleaves *)
(* are the requests and the answers: the tabs of a browser share its       *)
(* cookies, a request carries the cookies of the moment it was sent, and   *)
(* an answer sets or clears the cookies of the moment it arrives.          *)
(*                                                                         *)
(* A pair is named by a number.  Its access token and its refresh token    *)
(* are issued, set and cleared together.                                   *)
(***************************************************************************)
EXTENDS Naturals

CONSTANTS
    Users, Guest,     \* the accounts; Guest is the one that visitors share
    Browsers, Tabs,
    Home,             \* the browser of a tab
    Short, Long,      \* the two leases of a refresh token
    AccessTTL,        \* settings.access_token_ttl_seconds
    Skew,             \* CLOCK_SKEW_SECONDS
    MaxPairs,         \* bound on the pairs ever issued
    MaxChanges,       \* bound on the changes of an account's password
    Instants,         \* the times at which anything happens
    None              \* no pair, no row, no call

Pairs == 1 .. MaxPairs

ASSUME Shapes ==
    /\ Guest \in Users
    /\ Home \in [Tabs -> Browsers]
    /\ Short \in Nat \ {0} /\ Long \in Nat \ {0}
    /\ AccessTTL \in Nat \ {0} /\ AccessTTL <= Short /\ AccessTTL <= Long
    /\ Skew \in Nat
    /\ MaxPairs \in Nat /\ MaxChanges \in Nat
    /\ Instants \subseteq Nat
    /\ None \notin Nat

\* What the tokens of a pair say, with the login it descends from and the
\* password of that login.
Claims == [user : Users, issued : Nat, lease : {Short, Long},
           login : Pairs, password : Nat]

\* A row of refresh_tokens.
Row == [revoked : BOOLEAN, by : Pairs \cup {None}]

\* The routes, in kinds: login and guest; refresh; logout; change-password
\* and the DELETE of a session, which need an access token.
Requests == {"signin", "refresh", "logout", "manage"}

\* What the answer's Set-Cookie does.
Replies == {"set", "clear"}

\* A call on its way, with the pair it carries.
Call == [kind : Requests \cup Replies, with : Pairs \cup {None}]

ASSUME Distinct == None \notin Claims /\ None \notin Row /\ None \notin Call

VARIABLES
    now,
    made,        \* pairs issued
    claims,      \* of each pair
    rows,        \* refresh_tokens
    password,    \* users.password_hash, by the number of changes
    jar,         \* the pair in each browser's cookies
    call,        \* of each tab
    shared,      \* history: browsers that sent a renewal while one was under way
    lost,        \* history: browsers that have lost an answer
    orphans,     \* history: pairs issued by a handler that was cut short
    torn         \* history: accounts whose change of password was

Tokens == <<made, claims, rows>>
History == <<shared, lost, orphans, torn>>

vars == <<now, Tokens, password, jar, call, History>>

-----------------------------------------------------------------------------
(* Tokens and their rows.                                                  *)

Expiry(p) == claims[p].issued + claims[p].lease

AccessExpiry(p) == claims[p].issued + AccessTTL

\* decode_token accepts the refresh token, the access token, of p.
Decodes(p) == p # None /\ now <= Expiry(p) + Skew

Authentic(p) == p # None /\ now <= AccessExpiry(p) + Skew

Live(p) == rows[p] # None /\ ~rows[p].revoked /\ now < Expiry(p)

\* Mutated: a second revocation makes the row live again.
Revoked_Toggled(r, p, by) ==
    [r EXCEPT ![p] = IF @ = None THEN None
                     ELSE [revoked |-> ~@.revoked, by |-> by]]

\* revoke_refresh: an UPDATE that keeps an earlier replaced_by.
Revoked(r, p, by) ==
    [r EXCEPT ![p] = IF @ = None THEN None
                     ELSE [revoked |-> TRUE, by |-> IF by = None THEN @.by ELSE by]]

\* Mutated: the UPDATE has lost its condition on the account.
AllRevoked_Everybody(u) ==
    [p \in Pairs |-> IF rows[p] = None THEN None ELSE [rows[p] EXCEPT !.revoked = TRUE]]

\* revoke_all_refreshes
AllRevoked(u) ==
    [p \in Pairs |-> IF rows[p] # None /\ claims[p].user = u
                     THEN [rows[p] EXCEPT !.revoked = TRUE] ELSE rows[p]]

\* prune_refreshes
Pruned == [p \in Pairs |-> IF rows[p] # None /\ Expiry(p) < now THEN None ELSE rows[p]]

\* Mutated: the pair is counted twice.
Issue_Twice(r, user, lease, login, pw) ==
    /\ made < MaxPairs
    /\ made' = made + 2
    /\ claims' = [claims EXCEPT ![made + 1] =
                    [user |-> user, issued |-> now, lease |-> lease,
                     login |-> login, password |-> pw]]
    /\ rows' = [r EXCEPT ![made + 1] = [revoked |-> FALSE, by |-> None]]

\* _issue_pair on the table r.
Issue(r, user, lease, login, pw) ==
    /\ made < MaxPairs
    /\ made' = made + 1
    /\ claims' = [claims EXCEPT ![made + 1] =
                    [user |-> user, issued |-> now, lease |-> lease,
                     login |-> login, password |-> pw]]
    /\ rows' = [r EXCEPT ![made + 1] = [revoked |-> FALSE, by |-> None]]

Init ==
    /\ now = 0
    /\ made = 0
    /\ claims = [p \in Pairs |-> None]
    /\ rows = [p \in Pairs |-> None]
    /\ password = [u \in Users |-> 0]
    /\ jar = [b \in Browsers |-> None]
    /\ call = [c \in Tabs |-> None]
    /\ shared = {}
    /\ lost = {}
    /\ orphans = {}
    /\ torn = {}

Elapse ==
    /\ now' \in {i \in Instants : i > now}
    /\ UNCHANGED <<Tokens, password, jar, call, History>>

-----------------------------------------------------------------------------
(* The browsers.  A tab has one call under way: renewSession shares one    *)
(* renewal among the requests of a tab, and knows of no other tab.         *)

\* A browser drops a cookie when its token expires.
Cookie(b) == IF jar[b] # None /\ now < Expiry(jar[b]) THEN jar[b] ELSE None

HasAccess(b) == jar[b] # None /\ now < AccessExpiry(jar[b])

\* A renewal, or what may be the answer to one, is on its way to b.
Renewing(d, b) ==
    /\ Home[d] = b
    /\ call[d] # None /\ call[d].kind \in {"refresh", "set"}

\* What a sign-in carries matters to guest_write_guard alone.
GuestCookie(b) ==
    IF HasAccess(b) /\ claims[jar[b]].user = Guest THEN jar[b] ELSE None

Send(c, kind) ==
    LET p == IF kind = "signin" THEN GuestCookie(Home[c]) ELSE Cookie(Home[c]) IN
    /\ call[c] = None
    /\ kind = "manage" => HasAccess(Home[c])
    /\ call' = [call EXCEPT ![c] = [kind |-> kind, with |-> p]]
    /\ shared' = IF kind = "refresh" /\ \E d \in Tabs : Renewing(d, Home[c])
                 THEN shared \cup {Home[c]} ELSE shared
    /\ UNCHANGED <<now, Tokens, password, jar, lost, orphans, torn>>

\* The answer arrives.
Receive(c) ==
    /\ call[c] # None /\ call[c].kind \in Replies
    /\ call' = [call EXCEPT ![c] = None]
    /\ jar' = [jar EXCEPT ![Home[c]] = call[c].with]
    /\ UNCHANGED <<now, Tokens, password, History>>

\* The request, or the answer, does not.
Lose(c) ==
    /\ call[c] # None
    /\ call' = [call EXCEPT ![c] = None]
    /\ lost' = IF call[c].kind \in Replies THEN lost \cup {Home[c]} ELSE lost
    /\ UNCHANGED <<now, Tokens, password, jar, shared, orphans, torn>>

-----------------------------------------------------------------------------
(* The routes.                                                             *)

Handling(c, kind) == call[c] # None /\ call[c].kind = kind

\* The answer sets the cookies, or clears them, or leaves them alone: what
\* comes of it then is settled at once.
SetCookies(c, p) == call' = [call EXCEPT ![c] = [kind |-> "set", with |-> p]]

ClearCookies(c) == call' = [call EXCEPT ![c] = [kind |-> "clear", with |-> None]]

LeaveCookies(c) == call' = [call EXCEPT ![c] = None]

\* The handler stops between two statements; nobody gets an answer.
Cut(c) ==
    /\ call' = [call EXCEPT ![c] = None]
    /\ lost' = lost \cup {Home[c]}

\* guest_write_guard: whoever is in as the guest may renew and log out, and
\* nothing else, not even sign in.
Barred(c) ==
    /\ Authentic(call[c].with)
    /\ claims[call[c].with].user = Guest

\* A login with the right password, or one of the guest, who has none.
MaySignIn(c, u, lease) ==
    /\ Handling(c, "signin") /\ ~Barred(c)
    /\ u = Guest => lease = Short

SignIn(c, u, lease) ==
    /\ MaySignIn(c, u, lease)
    /\ Issue(Pruned, u, lease, made + 1, password[u])
    /\ SetCookies(c, made + 1)
    /\ UNCHANGED <<now, password, jar, shared, lost, orphans, torn>>

\* Cut after prune_refreshes.
SignInCut(c, u) ==
    /\ MaySignIn(c, u, Short)
    /\ rows' = Pruned
    /\ Cut(c)
    /\ UNCHANGED <<now, made, claims, password, jar, shared, orphans, torn>>

\* A name nobody has, a wrong password, or an account that is locked; a
\* current password that is wrong, or the new one again; a session that is
\* gone or another's; an access token that has expired; a call that is barred.
Refuse(c) ==
    /\ Handling(c, "signin") \/ Handling(c, "manage")
    /\ LeaveCookies(c)
    /\ UNCHANGED <<now, Tokens, password, jar, History>>

\* refresh: no token, one that does not decode, or one without a row.  A
\* renewal that is refused raises, and FastAPI builds the answer anew: that
\* the route has cleared the cookies on the other one is lost.
RefreshUnknown(c) ==
    /\ Handling(c, "refresh")
    /\ Decodes(call[c].with) => rows[call[c].with] = None
    /\ LeaveCookies(c)
    /\ UNCHANGED <<now, Tokens, password, jar, History>>

\* Mutated: any revoked token that comes again is taken for a replay.
Replayed_Any(p) == rows[p].revoked

\* A rotated token that comes again is taken for a leak.
Replayed(p) == rows[p].revoked /\ rows[p].by # None

RefreshRevoked(c) ==
    LET p == call[c].with IN
    /\ Handling(c, "refresh")
    /\ Decodes(p) /\ rows[p] # None /\ rows[p].revoked
    /\ rows' = IF Replayed(p) THEN AllRevoked(claims[p].user) ELSE rows
    /\ LeaveCookies(c)
    /\ UNCHANGED <<now, made, claims, password, jar, History>>

RefreshExpired(c) ==
    LET p == call[c].with IN
    /\ Handling(c, "refresh")
    /\ Decodes(p) /\ rows[p] # None /\ ~rows[p].revoked /\ Expiry(p) <= now
    /\ rows' = Revoked(rows, p, None)
    /\ LeaveCookies(c)
    /\ UNCHANGED <<now, made, claims, password, jar, History>>

\* Mutated: the row that was presented stays.
Rotate_Keeps(c) ==
    LET p == call[c].with IN
    /\ Handling(c, "refresh")
    /\ p # None /\ Live(p)
    /\ Issue(rows, claims[p].user, claims[p].lease, claims[p].login,
             claims[p].password)
    /\ SetCookies(c, made + 1)
    /\ UNCHANGED <<now, password, jar, History>>

\* Mutated: the answer sets no cookies.
Rotate_Silent(c) ==
    LET p == call[c].with IN
    /\ Handling(c, "refresh")
    /\ p # None /\ Live(p)
    /\ Issue(Revoked(rows, p, made + 1), claims[p].user, claims[p].lease,
             claims[p].login, claims[p].password)
    /\ LeaveCookies(c)
    /\ UNCHANGED <<now, password, jar, History>>

\* The pair is renewed: one is issued with the lease of the row, and the
\* row is revoked and says which replaced it.
Rotate(c) ==
    LET p == call[c].with IN
    /\ Handling(c, "refresh")
    /\ p # None /\ Live(p)
    /\ Issue(Revoked(rows, p, made + 1), claims[p].user, claims[p].lease,
             claims[p].login, claims[p].password)
    /\ SetCookies(c, made + 1)
    /\ UNCHANGED <<now, password, jar, History>>

\* Cut after _issue_pair.
RotateCut(c) ==
    LET p == call[c].with IN
    /\ Handling(c, "refresh")
    /\ p # None /\ Live(p)
    /\ Issue(rows, claims[p].user, claims[p].lease, claims[p].login,
             claims[p].password)
    /\ orphans' = orphans \cup {made + 1}
    /\ Cut(c)
    /\ UNCHANGED <<now, password, jar, shared, torn>>

Logout(c) ==
    LET p == call[c].with IN
    /\ Handling(c, "logout")
    /\ rows' = IF Decodes(p) THEN Revoked(rows, p, None) ELSE rows
    /\ ClearCookies(c)
    /\ UNCHANGED <<now, made, claims, password, jar, History>>

\* current_user: the account whose access token comes with the call.
Caller(c, u) ==
    /\ Authentic(call[c].with) /\ ~Barred(c)
    /\ u = claims[call[c].with].user

\* set_password
SetPassword(u) ==
    /\ password[u] < MaxChanges
    /\ password' = [password EXCEPT ![u] = @ + 1]

\* Mutated: the session that changes the password keeps its token.
ChangePassword_KeepsOwn(c, u) ==
    /\ Handling(c, "manage") /\ Caller(c, u)
    /\ SetPassword(u)
    /\ rows' = [AllRevoked(u) EXCEPT ![call[c].with] = rows[call[c].with]]
    /\ torn' = torn \ {u}
    /\ ClearCookies(c)
    /\ UNCHANGED <<now, made, claims, jar, shared, lost, orphans>>

ChangePassword(c, u) ==
    /\ Handling(c, "manage") /\ Caller(c, u)
    /\ SetPassword(u)
    /\ rows' = AllRevoked(u)
    /\ torn' = torn \ {u}
    /\ ClearCookies(c)
    /\ UNCHANGED <<now, made, claims, jar, shared, lost, orphans>>

\* Cut after set_password.
ChangePasswordCut(c, u) ==
    /\ Handling(c, "manage") /\ Caller(c, u)
    /\ SetPassword(u)
    /\ torn' = torn \cup {u}
    /\ Cut(c)
    /\ UNCHANGED <<now, Tokens, jar, shared, orphans>>

\* Mutated: anybody's session.
Own_Unchecked(u, p) == rows[p] # None

Own(u, p) == rows[p] # None /\ claims[p].user = u

\* revoke_session of p, which may be the caller's own.
RevokeSession(c, u, p) ==
    /\ Handling(c, "manage") /\ Caller(c, u)
    /\ Own(u, p)
    /\ rows' = Revoked(rows, p, None)
    /\ IF call[c].with = p THEN ClearCookies(c) ELSE LeaveCookies(c)
    /\ UNCHANGED <<now, made, claims, password, jar, History>>

-----------------------------------------------------------------------------
Next ==
    \/ Elapse
    \/ \E c \in Tabs :
          \/ \E kind \in Requests : Send(c, kind)
          \/ Receive(c) \/ Lose(c) \/ Refuse(c)
          \/ \E u \in Users, lease \in {Short, Long} : SignIn(c, u, lease)
          \/ \E u \in Users :
                \/ SignInCut(c, u)
                \/ ChangePassword(c, u) \/ ChangePasswordCut(c, u)
                \/ \E p \in Pairs : RevokeSession(c, u, p)
          \/ RefreshUnknown(c) \/ RefreshRevoked(c) \/ RefreshExpired(c)
          \/ Rotate(c) \/ RotateCut(c) \/ Logout(c)

Spec == Init /\ [][Next]_vars

-----------------------------------------------------------------------------
(* Properties *)

TypeOK ==
    /\ now \in Nat
    /\ made \in 0 .. MaxPairs
    /\ claims \in [Pairs -> Claims \cup {None}]
    /\ rows \in [Pairs -> Row \cup {None}]
    /\ password \in [Users -> Nat]
    /\ jar \in [Browsers -> Pairs \cup {None}]
    /\ call \in [Tabs -> Call \cup {None}]
    /\ shared \subseteq Browsers
    /\ lost \subseteq Browsers
    /\ orphans \subseteq Pairs
    /\ torn \subseteq Users

\* The pairs of login l.
Descent(l) == {p \in 1 .. made : claims[p].login = l}

\* A login has one live pair, whatever its tabs send at once, but for pairs
\* that a cut renewal left behind (refresh, auth.py:492).
OneLivePair ==
    \A l \in Pairs : \A p, q \in Descent(l) \ orphans :
        Live(p) /\ Live(q) => p = q

\* Whoever is signed in gave the password the account has now: a change of
\* password ends every login before it, unless it was cut between its two
\* statements (change_password, auth.py:536).
PasswordGuardsSessions ==
    \A p \in 1 .. made :
        Live(p) => \/ claims[p].password = password[claims[p].user]
                   \/ claims[p].user \in torn

\* The service takes a token for leaked only if its browser has lost an
\* answer, or sent a renewal while another was under way: no logout, late
\* answer or cut renewal alone raises the alarm (refresh, auth.py:475).
AlarmNeedsAReason ==
    [][\A c \in Tabs :
        RefreshRevoked(c) /\ rows' # rows => Home[c] \in lost \cup shared]_vars

\* A call ends no session of an account other than its own
\* (revoke_all_refreshes, revoke_session).
AccountsApart ==
    [][\A c \in Tabs, p \in Pairs :
        /\ call[c] # None /\ call'[c] # call[c]
        /\ Live(p) /\ ~Live(p)'
        => call[c].with # None /\ claims[p].user = claims[call[c].with].user]_vars

\* A browser is not left with a dead pair of a login that lives on, unless
\* it has lost an answer or one is still on its way.
CookieIsCurrent ==
    \A b \in Browsers \ lost :
        LET p == jar[b] IN
        /\ p # None
        /\ \A c \in Tabs : Home[c] = b => call[c] = None
        => \A q \in Descent(claims[p].login) \ orphans : Live(q) => q = p

\* The life of each login, named by its first pair.
phase ==
    [l \in Pairs |->
        IF Descent(l) = {} THEN "unborn"
        ELSE IF \E p \in Descent(l) : Live(p) THEN "live" ELSE "over"]

Promise == INSTANCE LoginLife WITH Logins <- Pairs

\* A login that has ended stays ended.
KeepsPromise == Promise!Spec

\* An active session never expires, as the module's docstring has it
\* (auth.py:9-10): no renewal ends a login that is live.
RenewalEndsNoLogin ==
    [][\A c \in Tabs, l \in Pairs :
        RefreshRevoked(c) /\ phase[l] = "live" => phase'[l] = "live"]_vars

\* Logout revokes the session it is asked to (auth.py:11).
LogoutEndsTheLogin ==
    [][\A c \in Tabs :
        Logout(c) /\ call[c].with # None
        => phase'[claims[call[c].with].login] # "live"]_vars

-----------------------------------------------------------------------------
(* The inductive invariant: why a login has one live pair, and why a       *)
(* change of password leaves none.                                         *)

Unrevoked(p) == rows[p] # None /\ ~rows[p].revoked

\* A pair that a browser may hold or a call may carry.
Held(p) == p <= made /\ p \notin orphans

PairsInv ==
    /\ \A p \in Pairs :
          /\ claims[p] # None <=> p <= made
          /\ rows[p] # None => p <= made
          /\ p <= made => claims[p].login <= made
    /\ orphans \subseteq 1 .. made

CarryInv ==
    /\ \A b \in Browsers : jar[b] # None => Held(jar[b])
    /\ \A c \in Tabs : call[c] # None /\ call[c].with # None => Held(call[c].with)

OneInv ==
    \A p, q \in Pairs :
        /\ Held(p) /\ Held(q) /\ claims[p].login = claims[q].login
        /\ Unrevoked(p) /\ Unrevoked(q)
        => p = q

GuardInv ==
    \A p \in Pairs :
        Unrevoked(p) => \/ claims[p].password = password[claims[p].user]
                        \/ claims[p].user \in torn

IInv == TypeOK /\ PairsInv /\ CarryInv /\ OneInv /\ GuardInv

=============================================================================
