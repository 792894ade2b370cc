--------------------------- MODULE SessionsProofs ---------------------------
(***************************************************************************)
(* A login has one live pair, a change of password leaves none of those    *)
(* before it, and a login that has ended stays ended, for any accounts,    *)
(* browsers, tabs and leases, whatever calls and answers are lost or late. *)
(*                                                                         *)
(* A step of the server either narrows the table, that is revokes or       *)
(* deletes rows, or narrows it and adds one row.  The row it adds belongs  *)
(* to a new login, or takes the place of the row that was presented; and   *)
(* no browser and no call ever carries a pair that a cut renewal left      *)
(* behind (CarryInv), so what is presented is the login's one live pair.   *)
(*                                                                         *)
(* WireInv says where that pair is: in the one browser that the login is   *)
(* in, or in the one answer that brings it there.                          *)
(***************************************************************************)
EXTENDS Sessions, TLAPS

Tables == [Pairs -> Row \cup {None}]

\* The table r revokes or lacks what the table does.
Narrower(r) ==
    /\ r \in Tables
    /\ \A p \in Pairs : r[p] # None =>
          /\ rows[p] # None
          /\ ~r[p].revoked => ~rows[p].revoked

-----------------------------------------------------------------------------
(* What the statements on refresh_tokens do to a table.                    *)

\* A revocation leaves no live row under the token it is given.
LEMMA RevokedNarrows ==
    ASSUME TypeOK, NEW p \in Pairs, NEW by \in Pairs \cup {None}
    PROVE  /\ Narrower(Revoked(rows, p, by))
           /\ LET r == Revoked(rows, p, by) IN
              /\ r[p] # None => r[p].revoked
              /\ \A q \in Pairs \ {p} : r[q] = rows[q]
<1> DEFINE r == Revoked(rows, p, by)
<1>1. rows \in Tables
  BY DEF TypeOK, Tables
<1>2. rows[p] # None =>
        [revoked |-> TRUE, by |-> IF by = None THEN rows[p].by ELSE by] \in Row
  BY <1>1 DEF Tables, Row
<1>3. r \in Tables
  BY <1>1, <1>2 DEF Tables, Revoked
<1>4. /\ r[p] # None => r[p].revoked /\ rows[p] # None
      /\ \A q \in Pairs \ {p} : r[q] = rows[q]
  BY <1>1 DEF Tables, Revoked
<1>5. QED
  BY <1>3, <1>4 DEF Narrower

\* A revocation of all leaves no live row of the account, and leaves the
\* others alone.
LEMMA AllRevokedNarrows ==
    ASSUME TypeOK, NEW u
    PROVE  /\ Narrower(AllRevoked(u))
           /\ \A p \in Pairs :
                 /\ AllRevoked(u)[p] # None /\ claims[p].user = u
                        => AllRevoked(u)[p].revoked
                 /\ claims[p].user # u => AllRevoked(u)[p] = rows[p]
<1>1. ASSUME NEW p \in Pairs, rows[p] # None
      PROVE  [rows[p] EXCEPT !.revoked = TRUE] \in Row
             /\ [rows[p] EXCEPT !.revoked = TRUE].revoked
  <2>1. rows[p] \in Row
    BY <1>1 DEF TypeOK
  <2>2. QED
    BY <2>1 DEF Row
<1>2. AllRevoked(u) \in Tables
  BY <1>1 DEF AllRevoked, TypeOK, Tables
<1>3. QED
  BY <1>1, <1>2 DEF AllRevoked, Narrower

\* A pair that was issued says what it says.
LEMMA ClaimsOf ==
    ASSUME TypeOK, PairsInv, NEW p \in Pairs, p <= made
    PROVE  /\ claims[p] \in Claims
           /\ Expiry(p) \in Nat /\ now \in Nat
<1>1. claims[p] \in Claims
  BY DEF TypeOK, PairsInv
<1>2. QED
  BY <1>1, Shapes DEF Claims, Expiry, TypeOK

\* The pruning deletes rows that have expired, and no other.
LEMMA PrunedNarrows ==
    ASSUME TypeOK, PairsInv
    PROVE  Narrower(Pruned) /\ \A p \in Pairs : Live(p) => Pruned[p] = rows[p]
<1>1. Narrower(Pruned)
  BY DEF Pruned, TypeOK, Tables, Narrower
<1>2. ASSUME NEW p \in Pairs, Live(p)
      PROVE  Pruned[p] = rows[p]
  <2>1. Expiry(p) \in Nat /\ now \in Nat
    BY <1>2, ClaimsOf DEF Live, PairsInv
  <2>2. QED
    BY <1>2, <2>1 DEF Live, Pruned
<1>3. QED
  BY <1>1, <1>2

\* The table is no wider than itself.
LEMMA SameNarrows == TypeOK => Narrower(rows)
  BY DEF TypeOK, Tables, Narrower

-----------------------------------------------------------------------------
(* The two kinds of steps.                                                 *)

\* A step that narrows the table and issues no pair.
LEMMA NarrowStep ==
    ASSUME IInv, Narrower(rows'), UNCHANGED <<made, claims, orphans>>
    PROVE  /\ PairsInv' /\ OneInv'
           /\ password' = password /\ torn' = torn => GuardInv'
<1>1. \A p \in Pairs : Unrevoked(p)' => Unrevoked(p)
  BY DEF Narrower, Unrevoked
<1>2. PairsInv'
  BY DEF IInv, PairsInv, Narrower
<1>3. OneInv'
  BY <1>1 DEF IInv, OneInv, Held
<1>4. password' = password /\ torn' = torn => GuardInv'
  BY <1>1 DEF IInv, GuardInv
<1>5. QED
  BY <1>2, <1>3, <1>4

\* A step that narrows the table at most.
Shrinks ==
    /\ Narrower(rows') /\ UNCHANGED <<made, claims, orphans>>
    /\ now' \in Nat /\ now <= now'

\* A step that issues the pair n for a login: r is the table before the
\* INSERT, in which no row of the login is live, or n is left behind.
Issuance(n, r, u, lease, login, pw) ==
    /\ n = made + 1 /\ login <= n
    /\ Issue(r, u, lease, login, pw) /\ Narrower(r)
    /\ UNCHANGED <<now, password, torn>>
    /\ orphans' \in {orphans, orphans \cup {n}}
    /\ \/ n \in orphans'
       \/ \A p \in Pairs : Held(p) /\ claims[p].login = login =>
              r[p] = None \/ r[p].revoked
    /\ pw = password[u] \/ u \in torn
    /\ login = n \/ \E p \in Pairs : p <= made /\ claims[p].login = login /\ Live(p)

\* What such a step does to the tokens.
Issued(n, r, login) ==
    /\ made' = n
    /\ claims' \in [Pairs -> Claims \cup {None}] /\ rows' \in Tables
    /\ \A p \in Pairs : p <= made => claims'[p] = claims[p] /\ rows'[p] = r[p]
    /\ claims'[n].login = login
    /\ rows'[n] # None /\ ~rows'[n].revoked
    /\ now' < claims'[n].issued + claims'[n].lease

\* It does, and keeps what holds of them.
LEMMA IssueStep ==
    ASSUME IInv, NEW n \in Pairs, NEW r, NEW u \in Users,
           NEW lease \in {Short, Long}, NEW login \in Pairs, NEW pw \in Nat,
           Issuance(n, r, u, lease, login, pw)
    PROVE  Issued(n, r, login) /\ PairsInv' /\ OneInv' /\ GuardInv'
<1> USE DEF Issuance
<1> DEFINE new == [user |-> u, issued |-> now, lease |-> lease,
                   login |-> login, password |-> pw]
<1>1. /\ made \in Nat /\ made < n /\ now \in Nat /\ made' = n
      /\ claims' = [claims EXCEPT ![n] = new]
      /\ rows' = [r EXCEPT ![n] = [revoked |-> FALSE, by |-> None]]
      /\ claims \in [Pairs -> Claims \cup {None}] /\ r \in Tables
  BY Shapes DEF IInv, TypeOK, Issue, Pairs, Narrower
<1>2. new \in Claims /\ new.login = login /\ new.user = u /\ new.password = pw
      /\ new.issued = now /\ new.lease = lease
  BY <1>1 DEF Claims
<1>3. [revoked |-> FALSE, by |-> None] \in Row
  BY DEF Row
<1>4. /\ claims' \in [Pairs -> Claims \cup {None}] /\ rows' \in Tables
      /\ claims'[n] = new /\ rows'[n] = [revoked |-> FALSE, by |-> None]
      /\ \A p \in Pairs : p # n => claims'[p] = claims[p] /\ rows'[p] = r[p]
  BY <1>1, <1>2, <1>3 DEF Tables
<1>5. \A p \in Pairs : p <= made => p # n
  BY <1>1 DEF Pairs
<1>6. \A p \in Pairs : p <= n <=> p <= made \/ p = n
  BY <1>1 DEF Pairs
<1>7. /\ rows'[n] # None /\ ~rows'[n].revoked
      /\ now' < claims'[n].issued + claims'[n].lease
  <2>1. rows'[n] # None /\ ~rows'[n].revoked
    <3>1. rows'[n] = [revoked |-> FALSE, by |-> None]
      BY <1>4
    <3>2. rows'[n] # None
      BY <1>3, <3>1, Distinct, Zenon
    <3>3. rows'[n].revoked = FALSE
      BY <3>1
    <3>4. QED
      BY <3>2, <3>3
  <2>2. lease \in Nat \ {0}
    BY Shapes
  <2>3. now' < now' + lease
    BY <1>1, <2>2
  <2>4. claims'[n].issued = now' /\ claims'[n].lease = lease
    BY <1>2, <1>4
  <2>5. QED
    BY <2>1, <2>3, <2>4
<1>8. PairsInv'
  <2>1. /\ \A p \in Pairs :
              /\ claims[p] # None <=> p <= made
              /\ r[p] # None => p <= made
              /\ p <= made => claims[p].login <= made
        /\ orphans \subseteq 1 .. made
    BY DEF IInv, PairsInv, Narrower
  <2>2. \A p \in Pairs : p <= made =>
            claims[p].login \in Pairs /\ claims[p].login <= n
    <3>1. TAKE p \in Pairs
    <3>2. HAVE p <= made
    <3>3. claims[p] \in Claims
      BY <3>2, ClaimsOf DEF IInv
    <3>4. claims[p].login \in Pairs
      BY <3>3 DEF Claims
    <3>5. QED
      BY <1>1, <2>1, <3>2, <3>4 DEF Pairs
  <2>3. \A p \in Pairs :
            /\ claims'[p] # None <=> p <= n
            /\ rows'[p] # None => p <= n
            /\ p <= n => claims'[p].login <= n
    BY <1>2, <1>3, <1>4, <1>5, <1>6, <2>1, <2>2, Distinct
  <2>4. orphans' \subseteq 1 .. n
    BY <1>1, <2>1
  <2>5. QED
    BY <1>1, <2>3, <2>4 DEF PairsInv
<1>9. \A p \in Pairs : p # n /\ Unrevoked(p)' => Unrevoked(p) /\ p <= made
  BY <1>4 DEF Unrevoked, Narrower, IInv, PairsInv
<1>10. OneInv'
  <2> SUFFICES ASSUME NEW p \in Pairs, NEW q \in Pairs,
                      Held(p)', Held(q)', claims'[p].login = claims'[q].login,
                      Unrevoked(p)', Unrevoked(q)'
               PROVE  p = q
    BY DEF OneInv
  <2>1. ASSUME NEW x \in Pairs, Held(x)', Unrevoked(x)', x # n
        PROVE  Held(x) /\ Unrevoked(x) /\ claims'[x] = claims[x]
               /\ r[x] # None /\ ~r[x].revoked
    BY <1>4, <1>9, <2>1 DEF Held, Unrevoked
  <2>2. ASSUME NEW x \in Pairs, Held(x)', Unrevoked(x)', x # n,
               claims'[x].login = login, Held(n)'
        PROVE  FALSE
    BY <2>1, <2>2 DEF Held
  <2>3. QED
    BY <1>2, <1>4, <2>1, <2>2 DEF IInv, OneInv
<1>11. GuardInv'
  BY <1>2, <1>4, <1>9 DEF IInv, GuardInv
<1>12. Issued(n, r, login)
  BY <1>1, <1>2, <1>4, <1>5, <1>7 DEF Issued
<1>13. QED
  BY <1>8, <1>10, <1>11, <1>12

\* A step that issues a pair, of some account, lease, login and password.
Issues ==
    \E n \in Pairs, r \in Tables, u \in Users, lease \in {Short, Long},
       login \in Pairs, pw \in Nat : Issuance(n, r, u, lease, login, pw)

\* The pair that is issued next, when there is one.
LEMMA NextPair ==
    ASSUME TypeOK, made < MaxPairs
    PROVE  /\ made + 1 \in Pairs /\ made \in Nat
           /\ \A p \in Pairs : p <= made => p <= made + 1 /\ p # made + 1
  BY Shapes DEF TypeOK, Pairs

\* A login, if it is not refused, issues the first pair of a new login.
LEMMA SignInForm ==
    ASSUME IInv, NEW c \in Tabs, NEW u \in Users, NEW lease \in {Short, Long},
           SignIn(c, u, lease)
    PROVE  Issues
<1>1. TypeOK /\ PairsInv
  BY DEF IInv
<1>2. /\ Issue(Pruned, u, lease, made + 1, password[u]) /\ made < MaxPairs
      /\ UNCHANGED <<now, password, torn, orphans>>
  BY DEF SignIn, Issue
<1>3. made + 1 \in Pairs /\ made \in Nat /\ password[u] \in Nat
  BY <1>1, <1>2, NextPair DEF TypeOK
<1>4. Narrower(Pruned) /\ Pruned \in Tables
  BY <1>1, PrunedNarrows DEF Narrower
<1>5. \A p \in Pairs : Held(p) => claims[p].login # made + 1
  <2> SUFFICES ASSUME NEW p \in Pairs, Held(p)
               PROVE  claims[p].login # made + 1
    OBVIOUS
  <2>1. p <= made /\ claims[p].login <= made
    BY <1>1 DEF Held, PairsInv
  <2>2. claims[p].login \in Nat
    BY <1>1, <2>1, ClaimsOf DEF Claims, Pairs
  <2>3. QED
    BY <1>3, <2>1, <2>2
<1>6. Issuance(made + 1, Pruned, u, lease, made + 1, password[u])
  BY <1>2, <1>3, <1>4, <1>5 DEF Issuance
<1>7. QED
  BY <1>3, <1>4, <1>6 DEF Issues

\* What a renewal presents: a live pair that no cut renewal left behind.
LEMMA Presented ==
    ASSUME IInv, NEW c \in Tabs, call[c] # None, call[c].with # None
    PROVE  /\ call[c].with \in Pairs /\ Held(call[c].with)
           /\ claims[call[c].with] \in Claims
           /\ claims[call[c].with].login <= made
<1>1. call[c] \in Call
  BY DEF IInv, TypeOK
<1>2. call[c].with \in Pairs
  BY <1>1 DEF Call
<1>3. Held(call[c].with)
  BY DEF IInv, CarryInv
<1>4. QED
  BY <1>2, <1>3, ClaimsOf DEF IInv, Held, PairsInv

\* A renewal, cut or not, issues a pair that takes the place of the one that
\* is presented, or is left behind.
LEMMA RotateForm ==
    ASSUME IInv, NEW c \in Tabs, Rotate(c) \/ RotateCut(c)
    PROVE  Issues
<1> DEFINE p == call[c].with
<1> DEFINE m == claims[p]
<1>1. /\ TypeOK /\ PairsInv /\ OneInv /\ GuardInv
      /\ call[c] # None /\ p # None /\ Live(p) /\ made < MaxPairs
      /\ UNCHANGED <<now, password, torn>>
  BY DEF IInv, Rotate, RotateCut, Handling, Issue, History
<1>2. p \in Pairs /\ Held(p) /\ m \in Claims /\ m.login <= made
  BY <1>1, Presented
<1>3. /\ m.user \in Users /\ m.lease \in {Short, Long} /\ m.login \in Pairs
      /\ m.password \in Nat
  BY <1>2 DEF Claims
<1>4. /\ made + 1 \in Pairs /\ made \in Nat /\ m.login <= made + 1
      /\ p <= made
  BY <1>1, <1>2, <1>3, NextPair DEF Held
<1>5. Unrevoked(p)
  BY <1>1 DEF Live, Unrevoked
<1>6. m.password = password[m.user] \/ m.user \in torn
  BY <1>1, <1>2, <1>5 DEF GuardInv
<1>7. CASE Rotate(c)
  <2> DEFINE r == Revoked(rows, p, made + 1)
  <2>1. Issue(r, m.user, m.lease, m.login, m.password) /\ orphans' = orphans
    BY <1>7 DEF Rotate, History
  <2>2. /\ Narrower(r) /\ r \in Tables
        /\ r[p] # None => r[p].revoked
        /\ \A q \in Pairs \ {p} : r[q] = rows[q]
    BY <1>1, <1>2, <1>4, RevokedNarrows DEF Narrower
  <2>3. \A q \in Pairs : Held(q) /\ claims[q].login = m.login =>
            r[q] = None \/ r[q].revoked
    BY <1>1, <1>2, <1>5, <2>2 DEF OneInv, Unrevoked
  <2>4. Issuance(made + 1, r, m.user, m.lease, m.login, m.password)
    <3> HIDE DEF r
    <3>1. QED
      BY <1>1, <1>2, <1>4, <1>6, <2>1, <2>2, <2>3 DEF Issuance, History
  <2>5. QED
    BY <1>3, <1>4, <2>2, <2>4 DEF Issues
<1>8. CASE RotateCut(c)
  <2>1. /\ Issue(rows, m.user, m.lease, m.login, m.password)
        /\ orphans' = orphans \cup {made + 1}
    BY <1>8 DEF RotateCut
  <2>2. Narrower(rows) /\ rows \in Tables
    BY <1>1, SameNarrows DEF Narrower
  <2>3. Issuance(made + 1, rows, m.user, m.lease, m.login, m.password)
    BY <1>1, <1>2, <1>4, <1>6, <2>1, <2>2 DEF Issuance
  <2>4. QED
    BY <1>3, <1>4, <2>2, <2>3 DEF Issues
<1>9. QED
  BY <1>7, <1>8

\* Every other action of a tab narrows the table at most.
Lesser(c) ==
    \/ \E kind \in Requests : Send(c, kind)
    \/ Receive(c) \/ Lose(c) \/ Refuse(c)
    \/ \E u \in Users : SignInCut(c, u)
    \/ RefreshUnknown(c) \/ RefreshRevoked(c) \/ RefreshExpired(c) \/ Logout(c)
    \/ \E u \in Users, p \in Pairs : RevokeSession(c, u, p)

\* An action that narrows the table, and leaves the passwords alone.
LEMMA LesserForm ==
    ASSUME IInv, NEW c \in Tabs, Lesser(c)
    PROVE  Shrinks /\ UNCHANGED <<now, password, torn>>
<1>1. /\ TypeOK /\ PairsInv /\ now \in Nat
      /\ \A p \in Pairs : Narrower(Revoked(rows, p, None))
      /\ \A u : Narrower(AllRevoked(u))
      /\ Narrower(Pruned) /\ Narrower(rows)
  BY RevokedNarrows, AllRevokedNarrows, PrunedNarrows, SameNarrows
     DEF IInv, TypeOK
<1>2. call[c] # None /\ call[c].with # None => call[c].with \in Pairs
  BY Presented
<1>3. UNCHANGED <<now, made, claims, orphans, password, torn>>
  BY DEF Lesser, Send, Receive, Lose, Refuse, SignInCut, RefreshUnknown,
         RefreshRevoked, RefreshExpired, Logout, RevokeSession, History, Tokens
<1>4. ASSUME rows' = rows \/ rows' = Pruned
             \/ (\E p \in Pairs : rows' = Revoked(rows, p, None))
             \/ (\E u : rows' = AllRevoked(u))
      PROVE  Narrower(rows')
  BY <1>1, <1>4
<1>5. SUFFICES Narrower(rows')
  BY <1>1, <1>3 DEF Shrinks
<1>6. CASE (\E kind \in Requests : Send(c, kind)) \/ Receive(c) \/ Lose(c)
           \/ Refuse(c) \/ RefreshUnknown(c) \/ \E u \in Users : SignInCut(c, u)
  <2>1. rows' = rows \/ rows' = Pruned
    BY <1>6 DEF Send, Receive, Lose, Refuse, RefreshUnknown, SignInCut, Tokens
  <2>2. QED
    BY <1>4, <2>1
<1>7. CASE RefreshRevoked(c)
  <2>1. rows' = rows \/ \E u : rows' = AllRevoked(u)
    BY <1>7 DEF RefreshRevoked
  <2>2. QED
    BY <1>4, <2>1
<1>8. CASE RefreshExpired(c) \/ Logout(c)
  <2>1. rows' = rows \/ (Decodes(call[c].with) /\ rows' = Revoked(rows, call[c].with, None))
    BY <1>8 DEF RefreshExpired, Logout
  <2>2. Decodes(call[c].with) => call[c].with \in Pairs
    BY <1>2, <1>8 DEF Decodes, RefreshExpired, Logout, Handling
  <2>3. QED
    BY <1>4, <2>1, <2>2
<1>9. CASE \E u \in Users, p \in Pairs : RevokeSession(c, u, p)
  <2>1. \E p \in Pairs : rows' = Revoked(rows, p, None)
    BY <1>9 DEF RevokeSession
  <2>2. QED
    BY <1>4, <2>1
<1>10. QED
  BY <1>6, <1>7, <1>8, <1>9 DEF Lesser

\* A change of password revokes what it must, or leaves the account torn.
LEMMA ChangeForm ==
    ASSUME IInv, NEW c \in Tabs, NEW u \in Users,
           ChangePassword(c, u) \/ ChangePasswordCut(c, u)
    PROVE  Shrinks /\ GuardInv' /\ now' = now /\ password' \in [Users -> Nat]
<1>1. /\ TypeOK /\ GuardInv /\ PairsInv /\ now \in Nat
      /\ UNCHANGED <<now, made, claims, orphans>>
      /\ password' = [password EXCEPT ![u] = @ + 1]
      /\ password \in [Users -> Nat]
  BY DEF IInv, TypeOK, ChangePassword, ChangePasswordCut, SetPassword, Tokens
<1>2. password' \in [Users -> Nat] /\ \A v \in Users \ {u} : password'[v] = password[v]
  BY <1>1
<1>3. \A p \in Pairs : Unrevoked(p) => claims[p].user \in Users
  BY <1>1, ClaimsOf DEF Unrevoked, PairsInv, Claims
<1>4. CASE ChangePassword(c, u)
  <2>1. rows' = AllRevoked(u) /\ torn' = torn \ {u}
    BY <1>4 DEF ChangePassword
  <2>2. /\ Narrower(rows')
        /\ \A p \in Pairs : Unrevoked(p)' => claims[p].user # u
    BY <1>1, <2>1, AllRevokedNarrows DEF Unrevoked
  <2>3. \A p \in Pairs : Unrevoked(p)' => Unrevoked(p)
    BY <2>2 DEF Narrower, Unrevoked
  <2>4. GuardInv'
    BY <1>1, <1>2, <1>3, <2>1, <2>2, <2>3 DEF GuardInv
  <2>5. QED
    BY <1>1, <1>2, <2>2, <2>4 DEF Shrinks
<1>5. CASE ChangePasswordCut(c, u)
  <2>1. rows' = rows /\ torn' = torn \cup {u}
    BY <1>5 DEF ChangePasswordCut, Tokens
  <2>2. Narrower(rows')
    BY <1>1, <2>1, SameNarrows
  <2>3. GuardInv'
    BY <1>1, <1>2, <1>3, <2>1 DEF GuardInv, Unrevoked
  <2>4. QED
    BY <1>1, <1>2, <2>2, <2>3 DEF Shrinks
<1>6. QED
  BY <1>4, <1>5

\* Whatever happens narrows the table at most, or issues a pair.
LEMMA StepForm ==
    ASSUME IInv, [Next]_vars
    PROVE  /\ (Shrinks /\ GuardInv') \/ Issues
           /\ password' \in [Users -> Nat]
<1>1. TypeOK /\ now \in Nat /\ password \in [Users -> Nat]
  BY DEF IInv, TypeOK
<1>2. ASSUME Shrinks, UNCHANGED <<password, torn>>
      PROVE  GuardInv'
  BY <1>2, NarrowStep DEF Shrinks
<1>3. CASE vars' = vars
  <2>1. UNCHANGED <<now, made, claims, rows, orphans, password, torn>>
    BY <1>3 DEF vars, Tokens, History
  <2>2. Shrinks
    BY <1>1, <2>1, SameNarrows DEF Shrinks
  <2>3. QED
    BY <1>1, <1>2, <2>1, <2>2
<1>4. CASE Elapse
  <2>1. /\ UNCHANGED <<made, claims, rows, orphans, password, torn>>
        /\ now' \in Nat /\ now < now'
    BY <1>4, Shapes DEF Elapse, Tokens, History
  <2>2. now <= now'
    BY <1>1, <2>1
  <2>3. Shrinks
    BY <1>1, <2>1, <2>2, SameNarrows DEF Shrinks
  <2>4. QED
    BY <1>1, <1>2, <2>1, <2>3
<1>5. ASSUME NEW c \in Tabs, Lesser(c)
      PROVE  /\ Shrinks /\ GuardInv' /\ password' \in [Users -> Nat]
  BY <1>1, <1>2, <1>5, LesserForm
<1>6. ASSUME NEW c \in Tabs, NEW u \in Users, NEW lease \in {Short, Long},
             SignIn(c, u, lease)
      PROVE  Issues /\ password' \in [Users -> Nat]
  BY <1>1, <1>6, SignInForm DEF SignIn
<1>7. ASSUME NEW c \in Tabs, Rotate(c) \/ RotateCut(c)
      PROVE  Issues /\ password' \in [Users -> Nat]
  BY <1>1, <1>7, RotateForm DEF Rotate, RotateCut
<1>8. ASSUME NEW c \in Tabs, NEW u \in Users,
             ChangePassword(c, u) \/ ChangePasswordCut(c, u)
      PROVE  Shrinks /\ GuardInv' /\ password' \in [Users -> Nat]
  BY <1>8, ChangeForm
<1>9. QED
  BY <1>3, <1>4, <1>5, <1>6, <1>7, <1>8 DEF Next, Lesser

\* What holds of the tokens is kept, and so are their types.
LEMMA TokensKept ==
    ASSUME IInv, [Next]_vars
    PROVE  /\ PairsInv' /\ OneInv' /\ GuardInv'
           /\ now' \in Nat /\ made' \in 0 .. MaxPairs
           /\ claims' \in [Pairs -> Claims \cup {None}]
           /\ rows' \in [Pairs -> Row \cup {None}]
           /\ password' \in [Users -> Nat] /\ orphans' \subseteq Pairs
<1>1. /\ TypeOK /\ password' \in [Users -> Nat]
  BY StepForm DEF IInv
<1>2. CASE Shrinks /\ GuardInv'
  <2>1. PairsInv' /\ OneInv'
    BY <1>2, NarrowStep DEF Shrinks
  <2>2. QED
    BY <1>1, <1>2, <2>1 DEF Shrinks, Narrower, Tables, TypeOK
<1>3. CASE Issues
  <2>1. PICK n \in Pairs, r \in Tables, u \in Users, lease \in {Short, Long},
             login \in Pairs, pw \in Nat : Issuance(n, r, u, lease, login, pw)
    BY <1>3 DEF Issues
  <2>2. /\ made' = n
        /\ claims' \in [Pairs -> Claims \cup {None}] /\ rows' \in Tables
        /\ PairsInv' /\ OneInv' /\ GuardInv'
    <3>1. Issued(n, r, login) /\ PairsInv' /\ OneInv' /\ GuardInv'
      BY <2>1, IssueStep
    <3>2. QED
      BY <3>1 DEF Issued
  <2>3. now' = now
    BY <2>1 DEF Issuance
  <2>4. n \in 0 .. MaxPairs /\ 1 .. n \subseteq Pairs
    BY Shapes DEF Pairs
  <2>5. orphans' \subseteq Pairs
    BY <2>2, <2>4 DEF PairsInv
  <2>6. QED
    BY <1>1, <2>2, <2>3, <2>4, <2>5 DEF TypeOK, Tables
<1>4. QED
  BY <1>2, <1>3, StepForm

-----------------------------------------------------------------------------
(* The browsers.                                                           *)

\* A pair that may be held may be held from then on.
LEMMA HeldOn ==
    ASSUME IInv, [Next]_vars, NEW p \in Pairs, Held(p)
    PROVE  p <= made' /\ p \notin orphans'
<1>1. /\ made \in Nat /\ p \in Nat /\ p <= made /\ p \notin orphans
  BY Shapes DEF IInv, TypeOK, Held, Pairs
<1>2. CASE Shrinks
  BY <1>1, <1>2 DEF Shrinks, Held
<1>3. CASE Issues
  <2>1. PICK n \in Pairs, r \in Tables, u \in Users, lease \in {Short, Long},
             login \in Pairs, pw \in Nat : Issuance(n, r, u, lease, login, pw)
    BY <1>3 DEF Issues
  <2>2. made' = n
    BY <2>1 DEF Issuance, Issue
  <2>3. n = made + 1 /\ orphans' \in {orphans, orphans \cup {n}}
    BY <2>1 DEF Issuance
  <2>4. p <= n /\ p # n
    BY <1>1, <2>3
  <2>5. QED
    BY <1>1, <2>2, <2>3, <2>4
<1>4. QED
  BY <1>2, <1>3, StepForm

\* The calls after one of them is put, answered or dropped.
LEMMA CallSet ==
    ASSUME IInv, [Next]_vars, NEW c \in Tabs, NEW x \in Call \cup {None},
           call' = [call EXCEPT ![c] = x], jar' = jar,
           x # None /\ x.with # None => x.with <= made' /\ x.with \notin orphans'
    PROVE  /\ call' \in [Tabs -> Call \cup {None}]
           /\ jar' \in [Browsers -> Pairs \cup {None}] /\ CarryInv'
<1>1. TypeOK /\ CarryInv
  BY DEF IInv
<1>2. /\ call' \in [Tabs -> Call \cup {None}] /\ call'[c] = x
      /\ \A d \in Tabs \ {c} : call'[d] = call[d]
  BY <1>1 DEF TypeOK
<1>3. \A d \in Tabs : call[d] # None /\ call[d].with # None =>
          call[d].with \in Pairs /\ Held(call[d].with)
  BY Presented
<1>4. \A d \in Tabs : call'[d] # None /\ call'[d].with # None =>
          call'[d].with <= made' /\ call'[d].with \notin orphans'
  BY <1>2, <1>3, HeldOn
<1>5. \A b \in Browsers : jar[b] # None => jar[b] \in Pairs /\ Held(jar[b])
  BY <1>1 DEF TypeOK, CarryInv
<1>6. \A b \in Browsers : jar'[b] # None =>
          jar'[b] <= made' /\ jar'[b] \notin orphans'
  BY <1>5, HeldOn
<1>7. CarryInv'
  BY <1>4, <1>6 DEF CarryInv, Held
<1>8. QED
  BY <1>1, <1>2, <1>7 DEF TypeOK

\* An answer that clears the cookies, or leaves them alone, or never comes.
LEMMA CallDone ==
    ASSUME IInv, [Next]_vars, NEW c \in Tabs, jar' = jar,
           ClearCookies(c) \/ call' = [call EXCEPT ![c] = None]
    PROVE  /\ call' \in [Tabs -> Call \cup {None}]
           /\ jar' \in [Browsers -> Pairs \cup {None}] /\ CarryInv'
<1>1. CASE ClearCookies(c)
  <2> DEFINE x == [kind |-> "clear", with |-> None]
  <2>1. x \in Call /\ x.with = None
    BY DEF Call, Replies
  <2>2. call' = [call EXCEPT ![c] = x]
    BY <1>1 DEF ClearCookies
  <2> HIDE DEF x
  <2>3. QED
    BY <2>1, <2>2, CallSet
<1>2. CASE call' = [call EXCEPT ![c] = None]
  BY <1>2, CallSet
<1>3. QED
  BY <1>1, <1>2

\* An answer that sets the cookies to a pair just issued.
LEMMA CallIssued ==
    ASSUME IInv, [Next]_vars, NEW c \in Tabs, jar' = jar, made < MaxPairs,
           made' = made + 1, orphans' = orphans, SetCookies(c, made + 1)
    PROVE  /\ call' \in [Tabs -> Call \cup {None}]
           /\ jar' \in [Browsers -> Pairs \cup {None}] /\ CarryInv'
<1>1. PICK n \in Pairs : n = made + 1
  BY NextPair DEF IInv
<1> DEFINE x == [kind |-> "set", with |-> n]
<1>2. x \in Call /\ x.with = n
  BY DEF Call, Replies
<1>3. call' = [call EXCEPT ![c] = x]
  BY <1>1 DEF SetCookies
<1>4. made \in Nat /\ orphans \subseteq 1 .. made
  BY DEF IInv, TypeOK, PairsInv
<1>5. n <= made' /\ n \notin orphans'
  BY <1>1, <1>4
<1> HIDE DEF x
<1>6. QED
  BY <1>2, <1>3, <1>5, CallSet

\* A request carries what the browser holds, and an answer leaves the
\* browser with what it carries.
LEMMA WiresKept ==
    ASSUME IInv, [Next]_vars
    PROVE  /\ call' \in [Tabs -> Call \cup {None}]
           /\ jar' \in [Browsers -> Pairs \cup {None}] /\ CarryInv'
<1>1. TypeOK /\ CarryInv
  BY DEF IInv
<1>2. CASE UNCHANGED <<call, jar>>
  <2>1. \A b \in Browsers : jar'[b] # None =>
            jar'[b] <= made' /\ jar'[b] \notin orphans'
    BY <1>1, <1>2, HeldOn DEF TypeOK, CarryInv
  <2>2. \A d \in Tabs : call'[d] # None /\ call'[d].with # None =>
            call'[d].with <= made' /\ call'[d].with \notin orphans'
    BY <1>2, Presented, HeldOn
  <2>3. CarryInv'
    BY <2>1, <2>2 DEF CarryInv, Held
  <2>4. QED
    BY <1>1, <1>2, <2>3 DEF TypeOK
<1>3. ASSUME NEW c \in Tabs, NEW kind \in Requests, Send(c, kind)
      PROVE  /\ call' \in [Tabs -> Call \cup {None}]
             /\ jar' \in [Browsers -> Pairs \cup {None}] /\ CarryInv'
  <2>1. Home[c] \in Browsers
    BY Shapes
  <2>2. PICK p \in {jar[Home[c]], None} :
            call' = [call EXCEPT ![c] = [kind |-> kind, with |-> p]]
    BY <1>3 DEF Send, GuestCookie, Cookie
  <2>3. p \in Pairs \cup {None} /\ (p # None => p \in Pairs /\ Held(p))
    BY <1>1, <2>1, <2>2 DEF TypeOK, CarryInv
  <2>4. p # None => p <= made' /\ p \notin orphans'
    BY <2>3, HeldOn
  <2> DEFINE x == [kind |-> kind, with |-> p]
  <2>5. x \in Call /\ x.with = p
    BY <2>3 DEF Call
  <2>6. call' = [call EXCEPT ![c] = x] /\ jar' = jar
    BY <1>3, <2>2 DEF Send
  <2> HIDE DEF x
  <2>7. QED
    BY <2>4, <2>5, <2>6, CallSet
<1>4. ASSUME NEW c \in Tabs, Receive(c)
      PROVE  /\ call' \in [Tabs -> Call \cup {None}]
             /\ jar' \in [Browsers -> Pairs \cup {None}] /\ CarryInv'
  <2>1. /\ call[c] # None /\ call' = [call EXCEPT ![c] = None]
        /\ jar' = [jar EXCEPT ![Home[c]] = call[c].with]
    BY <1>4 DEF Receive
  <2>2. call[c] \in Call /\ call[c].with \in Pairs \cup {None}
    BY <1>1, <2>1 DEF TypeOK, Call
  <2>3. /\ call' \in [Tabs -> Call \cup {None}]
        /\ jar' \in [Browsers -> Pairs \cup {None}]
    BY <1>1, <2>1, <2>2 DEF TypeOK
  <2>4. \A d \in Tabs : call'[d] = call[d] \/ call'[d] = None
    BY <1>1, <2>1 DEF TypeOK
  <2>5. \A b \in Browsers : jar'[b] = jar[b] \/ jar'[b] = call[c].with
    BY <1>1, <2>1 DEF TypeOK
  <2>6. \A b \in Browsers : jar'[b] # None => jar'[b] \in Pairs /\ Held(jar'[b])
    BY <1>1, <2>1, <2>2, <2>5, Presented DEF TypeOK, CarryInv
  <2>7. \A b \in Browsers : jar'[b] # None =>
            jar'[b] <= made' /\ jar'[b] \notin orphans'
    BY <2>6, HeldOn
  <2>8. \A d \in Tabs : call'[d] # None /\ call'[d].with # None =>
            call'[d].with <= made' /\ call'[d].with \notin orphans'
    BY <2>4, Presented, HeldOn
  <2>9. CarryInv'
    BY <2>7, <2>8 DEF CarryInv, Held
  <2>10. QED
    BY <2>3, <2>9
<1>5. ASSUME NEW c \in Tabs,
             Rotate(c) \/ \E u \in Users, lease \in {Short, Long} : SignIn(c, u, lease)
      PROVE  /\ call' \in [Tabs -> Call \cup {None}]
             /\ jar' \in [Browsers -> Pairs \cup {None}] /\ CarryInv'
  BY <1>5, CallIssued DEF SignIn, Rotate, Issue, History
<1>6. ASSUME NEW c \in Tabs,
             \/ Lose(c) \/ Refuse(c)
             \/ \E u \in Users :
                   \/ SignInCut(c, u)
                   \/ ChangePassword(c, u) \/ ChangePasswordCut(c, u)
                   \/ \E p \in Pairs : RevokeSession(c, u, p)
             \/ RefreshUnknown(c) \/ RefreshRevoked(c) \/ RefreshExpired(c)
             \/ RotateCut(c) \/ Logout(c)
      PROVE  /\ call' \in [Tabs -> Call \cup {None}]
             /\ jar' \in [Browsers -> Pairs \cup {None}] /\ CarryInv'
  <2>1. jar' = jar
    BY <1>6 DEF Lose, Refuse, SignInCut, ChangePassword, ChangePasswordCut,
        RevokeSession, RefreshUnknown, RefreshRevoked, RefreshExpired,
        RotateCut, Logout
  <2>2. ClearCookies(c) \/ call' = [call EXCEPT ![c] = None]
    BY <1>6 DEF Lose, Refuse, SignInCut, ChangePassword, ChangePasswordCut,
        RevokeSession, RefreshUnknown, RefreshRevoked, RefreshExpired,
        RotateCut, Logout, LeaveCookies, Cut
  <2>3. QED
    BY <2>1, <2>2, CallDone
<1>7. CASE Elapse \/ vars' = vars
  BY <1>2, <1>7 DEF Elapse, vars
<1>8. QED
  BY <1>3, <1>4, <1>5, <1>6, <1>7 DEF Next

-----------------------------------------------------------------------------
(* The invariant, and what follows from it.                                *)

\* It holds at the start.
LEMMA InitInv == Init => IInv
<1> SUFFICES ASSUME Init
             PROVE  IInv
  OBVIOUS
<1>1. TypeOK
  BY Shapes DEF Init, TypeOK
<1>2. PairsInv
  <2>1. \A p \in Pairs : ~(p <= 0)
    BY DEF Pairs
  <2>2. QED
    BY <2>1 DEF Init, PairsInv
<1>3. CarryInv
  BY DEF Init, CarryInv
<1>4. OneInv /\ GuardInv
  BY DEF Init, OneInv, GuardInv, Unrevoked
<1>5. QED
  BY <1>1, <1>2, <1>3, <1>4 DEF IInv

\* Every step keeps it.
LEMMA NextInv == IInv /\ [Next]_vars => IInv'
<1> SUFFICES ASSUME IInv, [Next]_vars
             PROVE  IInv'
  OBVIOUS
<1>1. shared' \subseteq Browsers /\ lost' \subseteq Browsers
  <2>1. \A c \in Tabs : Home[c] \in Browsers
    BY Shapes
  <2>2. /\ shared' = shared \/ \E c \in Tabs : shared' = shared \cup {Home[c]}
        /\ lost' = lost \/ \E c \in Tabs : lost' = lost \cup {Home[c]}
    BY DEF Next, vars, Elapse, Send, Receive, Lose, Refuse, SignIn, SignInCut,
           ChangePassword, ChangePasswordCut, RevokeSession, RefreshUnknown,
           RefreshRevoked, RefreshExpired, Rotate, RotateCut, Logout, Cut, History
  <2>3. QED
    BY <2>1, <2>2 DEF IInv, TypeOK
<1>2. torn' \subseteq Users
  <2>1. torn' = torn \/ \E u \in Users : torn' = torn \cup {u} \/ torn' = torn \ {u}
    BY DEF Next, vars, Elapse, Send, Receive, Lose, Refuse, SignIn, SignInCut,
           ChangePassword, ChangePasswordCut, RevokeSession, RefreshUnknown,
           RefreshRevoked, RefreshExpired, Rotate, RotateCut, Logout, History
  <2>2. QED
    BY <2>1 DEF IInv, TypeOK
<1>3. TypeOK'
  BY <1>1, <1>2, TokensKept, WiresKept DEF TypeOK
<1>4. QED
  BY <1>3, TokensKept, WiresKept DEF IInv

\* The invariant holds of every behaviour.
THEOREM Inductive == Spec => []IInv
  BY InitInv, NextInv, PTL DEF Spec

\* Type correctness.
THEOREM TypeCorrect == Spec => []TypeOK
<1>1. IInv => TypeOK
  BY DEF IInv
<1>2. QED
  BY <1>1, Inductive, PTL

\* A login has one live pair at most, but for what a cut renewal left
\* behind, however many tabs renew it at once (refresh, auth.py).
THEOREM OneLivePairHolds == Spec => []OneLivePair
<1>1. ASSUME IInv
      PROVE  OneLivePair
  <2> SUFFICES ASSUME NEW l \in Pairs, NEW p \in Descent(l) \ orphans,
                      NEW q \in Descent(l) \ orphans, Live(p), Live(q)
               PROVE  p = q
    BY DEF OneLivePair
  <2>1. \A x \in 1 .. made : x \in Pairs /\ x <= made
    BY <1>1, Shapes DEF IInv, TypeOK, Pairs
  <2>2. p \in Pairs /\ q \in Pairs /\ Held(p) /\ Held(q)
        /\ claims[p].login = claims[q].login
    BY <2>1 DEF Descent, Held
  <2>3. QED
    BY <1>1, <2>2 DEF IInv, OneInv, Live, Unrevoked
<1>2. QED
  BY <1>1, Inductive, PTL

\* Whoever is signed in gave the password the account has now, unless the
\* change was cut between its two statements (change_password, auth.py).
THEOREM PasswordGuardsSessionsHolds == Spec => []PasswordGuardsSessions
<1>1. ASSUME IInv
      PROVE  PasswordGuardsSessions
  <2> SUFFICES ASSUME NEW p \in 1 .. made, Live(p)
               PROVE  \/ claims[p].password = password[claims[p].user]
                      \/ claims[p].user \in torn
    BY DEF PasswordGuardsSessions
  <2>1. p \in Pairs
    BY <1>1, Shapes DEF IInv, TypeOK, Pairs
  <2>2. QED
    BY <1>1, <2>1 DEF IInv, GuardInv, Live, Unrevoked
<1>2. QED
  BY <1>1, Inductive, PTL

-----------------------------------------------------------------------------
(* What becomes of a login.                                                *)

\* No step brings a pair back to life, or changes what it says.
LEMMA LiveStep ==
    ASSUME IInv, [Next]_vars, NEW p \in Pairs, p <= made
    PROVE  claims'[p] = claims[p] /\ (Live(p)' => Live(p))
<1>1. /\ TypeOK /\ PairsInv /\ Expiry(p) \in Nat /\ now \in Nat
  BY ClaimsOf DEF IInv
<1>2. CASE Shrinks
  <2>1. claims' = claims /\ now' \in Nat /\ now <= now' /\ Narrower(rows')
    BY <1>2 DEF Shrinks
  <2>2. Expiry(p)' = Expiry(p)
    BY <2>1 DEF Expiry
  <2>3. now' < Expiry(p) => now < Expiry(p)
    BY <1>1, <2>1
  <2>4. QED
    BY <2>1, <2>2, <2>3 DEF Live, Narrower
<1>3. CASE Issues
  <2>1. PICK n \in Pairs, r \in Tables, u \in Users, lease \in {Short, Long},
             login \in Pairs, pw \in Nat : Issuance(n, r, u, lease, login, pw)
    BY <1>3 DEF Issues
  <2>2. claims'[p] = claims[p] /\ rows'[p] = r[p]
    <3>1. Issued(n, r, login)
      BY <2>1, IssueStep
    <3>2. QED
      BY <3>1 DEF Issued
  <2>3. now' = now /\ Narrower(r)
    BY <2>1 DEF Issuance
  <2>4. Expiry(p)' = Expiry(p)
    BY <2>2 DEF Expiry
  <2>5. QED
    BY <2>2, <2>3, <2>4 DEF Live, Narrower
<1>4. QED
  BY <1>2, <1>3, StepForm

\* Every step of the service is a step of LoginLife.
LEMMA PromiseStep ==
    ASSUME IInv, [Next]_vars
    PROVE  Promise!Next
<1> DEFINE Lives(l) == \E p \in Descent(l) : Live(p)
<1>1. /\ phase = [l \in Pairs |-> IF Descent(l) = {} THEN "unborn"
                                  ELSE IF Lives(l) THEN "live" ELSE "over"]
      /\ phase' = [l \in Pairs |-> IF Descent(l)' = {} THEN "unborn"
                                   ELSE IF Lives(l)' THEN "live" ELSE "over"]
  BY DEF phase
<1>2. \A p \in 1 .. made : p \in Pairs /\ p <= made
  BY Shapes DEF IInv, TypeOK, Pairs
<1>3. \A p \in 1 .. made : claims'[p] = claims[p] /\ (Live(p)' => Live(p))
  BY <1>2, LiveStep
<1>4. ASSUME NEW l \in Pairs,
             \/ Descent(l)' = Descent(l) /\ (Lives(l)' => Lives(l))
             \/ /\ Descent(l) = {} \/ Lives(l)
                /\ Descent(l)' # {} /\ Lives(l)'
      PROVE  \/ phase'[l] = phase[l]
             \/ phase[l] = "unborn" /\ phase'[l] = "live"
             \/ phase[l] = "live" /\ phase'[l] = "over"
  <2>1. Lives(l) => Descent(l) # {}
    OBVIOUS
  <2> HIDE DEF Lives
  <2>2. QED
    BY <1>1, <1>4, <2>1
<1>5. ASSUME NEW l \in Pairs
      PROVE  \/ Descent(l)' = Descent(l) /\ (Lives(l)' => Lives(l))
             \/ /\ Descent(l) = {} \/ Lives(l)
                /\ Descent(l)' # {} /\ Lives(l)'
  <2>1. CASE Shrinks
    <3>1. Descent(l)' = Descent(l)
      BY <2>1 DEF Shrinks, Descent
    <3>2. Lives(l)' => Lives(l)
      BY <1>3, <3>1 DEF Descent
    <3>3. QED
      BY <3>1, <3>2
  <2>2. CASE Issues
    <3>1. PICK n \in Pairs, r \in Tables, u \in Users, lease \in {Short, Long},
               login \in Pairs, pw \in Nat : Issuance(n, r, u, lease, login, pw)
      BY <2>2 DEF Issues
    <3>2. claims'[n].login = login /\ Live(n)'
      <4>1. Issued(n, r, login)
        BY <3>1, IssueStep
      <4>2. QED
        BY <4>1 DEF Issued, Live, Expiry
    <3>3. made' = n /\ n = made + 1 /\ made \in Nat
      BY <3>1 DEF Issuance, Issue, IInv, TypeOK
    <3>4. 1 .. made' = (1 .. made) \cup {n} /\ n \notin 1 .. made
      BY <3>3
    <3>5. CASE l # login
      <4>1. Descent(l)' = Descent(l)
        BY <1>3, <3>2, <3>4, <3>5 DEF Descent
      <4>2. Lives(l)' => Lives(l)
        BY <1>3, <4>1 DEF Descent
      <4>3. QED
        BY <4>1, <4>2
    <3>6. CASE l = login
      <4>1. n \in Descent(l)'
        BY <3>2, <3>4, <3>6 DEF Descent
      <4>2. Descent(l)' # {} /\ Lives(l)'
        BY <3>2, <4>1
      <4>3. CASE login = n
        <5>1. \A p \in 1 .. made : claims[p].login <= made
          BY <1>2 DEF IInv, PairsInv
        <5>2. \A p \in 1 .. made : claims[p].login # n
          BY <3>3, <5>1
        <5>3. Descent(l) = {}
          BY <3>6, <4>3, <5>2 DEF Descent
        <5>4. QED
          BY <4>2, <5>3
      <4>4. CASE \E p \in Pairs : p <= made /\ claims[p].login = login /\ Live(p)
        <5>1. \A p \in Pairs : p <= made => p \in 1 .. made
          BY <3>3 DEF Pairs
        <5>2. Lives(l)
          BY <3>6, <4>4, <5>1 DEF Descent
        <5>3. QED
          BY <4>2, <5>2
      <4>5. QED
        BY <3>1, <4>3, <4>4 DEF Issuance
    <3>7. QED
      BY <3>5, <3>6
  <2>3. QED
    BY <2>1, <2>2, StepForm
<1>6. phase' \in [Pairs -> Promise!Phases]
  <2> HIDE DEF Lives
  <2>1. QED
    BY <1>1 DEF Promise!Phases
<1>7. QED
  BY <1>4, <1>5, <1>6 DEF Promise!Next, Promise!Begin, Promise!End

\* The service keeps what LoginLife promises: a login begins once, ends once
\* and never comes back.
THEOREM KeepsPromiseHolds == Spec => KeepsPromise
<1>1. Init => Promise!Init
  <2>1. ASSUME Init
        PROVE  \A l \in Pairs : Descent(l) = {}
    <3>1. 1 .. made = {}
      BY <2>1 DEF Init
    <3>2. QED
      BY <3>1 DEF Descent
  <2>2. QED
    BY <2>1 DEF phase, Promise!Init
<1>2. IInv /\ [Next]_vars => [Promise!Next]_phase
  BY PromiseStep
<1>3. QED
  BY <1>1, <1>2, Inductive, PTL DEF Spec, KeepsPromise, Promise!Spec

-----------------------------------------------------------------------------
(* Whose logins a call may end.                                            *)

\* The tab whose call changes is the tab that acts.
LEMMA ActingTab ==
    ASSUME TypeOK, NEW c \in Tabs, NEW d \in Tabs, call'[c] # call[c],
           \/ Rotate(d) \/ RefreshRevoked(d) \/ RefreshExpired(d) \/ Logout(d)
           \/ \E u \in Users :
                 \/ ChangePassword(d, u)
                 \/ \E q \in Pairs : RevokeSession(d, u, q)
    PROVE  c = d
<1>1. \E x : call' = [call EXCEPT ![d] = x]
  BY DEF Rotate, RefreshRevoked, RefreshExpired, Logout, ChangePassword,
         RevokeSession, SetCookies, ClearCookies, LeaveCookies
<1>2. QED
  BY <1>1 DEF TypeOK

\* A login that a call ends is one of the account whose pair it carries.
LEMMA ApartStep ==
    ASSUME IInv, [Next]_vars, NEW c \in Tabs, NEW p \in Pairs,
           call[c] # None, call'[c] # call[c], Live(p), ~Live(p)'
    PROVE  call[c].with # None /\ claims[p].user = claims[call[c].with].user
<1>1. TypeOK /\ PairsInv /\ p <= made /\ made \in Nat /\ rows[p] # None
  BY DEF IInv, TypeOK, Live, PairsInv
<1>2. claims'[p] = claims[p]
  BY <1>1, LiveStep
<1>3. now' = now => rows'[p] # rows[p]
  BY <1>2 DEF Live, Expiry
<1>4. p # made + 1
  BY <1>1 DEF Pairs
<1>5. call[c].with # None => call[c].with \in Pairs
  BY Presented
<1>6. CASE Elapse \/ vars' = vars
  BY <1>3, <1>6 DEF Elapse, vars, Tokens
<1>7. ASSUME NEW d \in Tabs,
             \/ \E kind \in Requests : Send(d, kind)
             \/ Receive(d) \/ Lose(d) \/ Refuse(d) \/ RefreshUnknown(d)
             \/ \E u \in Users : ChangePasswordCut(d, u)
      PROVE  FALSE
  BY <1>3, <1>7 DEF Send, Receive, Lose, Refuse, RefreshUnknown,
     ChangePasswordCut, Tokens
<1>8. ASSUME NEW d \in Tabs,
             \/ \E u \in Users, lease \in {Short, Long} : SignIn(d, u, lease)
             \/ \E u \in Users : SignInCut(d, u)
             \/ RotateCut(d)
      PROVE  FALSE
  <2>1. Pruned[p] = rows[p]
    BY <1>1, PrunedNarrows
  <2>2. now' = now
    BY <1>8 DEF SignIn, SignInCut, RotateCut
  <2>3. \/ rows' = Pruned
        \/ \E x : rows' = [Pruned EXCEPT ![made + 1] = x]
        \/ \E x : rows' = [rows EXCEPT ![made + 1] = x]
    BY <1>8 DEF SignIn, SignInCut, RotateCut, Issue
  <2>4. Pruned \in Tables /\ rows \in Tables
    BY <1>1, PrunedNarrows, SameNarrows DEF Narrower
  <2>5. rows'[p] = rows[p]
    BY <1>4, <2>1, <2>3, <2>4 DEF Tables
  <2>6. QED
    BY <1>3, <2>2, <2>5
<1>9. CASE Rotate(c)
  <2> DEFINE q == call[c].with
  <2>1. /\ q # None /\ now' = now /\ made < MaxPairs
        /\ rows' = [Revoked(rows, q, made + 1) EXCEPT
                      ![made + 1] = [revoked |-> FALSE, by |-> None]]
    BY <1>9 DEF Rotate, Issue
  <2>2. q \in Pairs /\ made + 1 \in Pairs
    BY <1>1, <1>5, <2>1, NextPair
  <2> HIDE DEF q
  <2>3. /\ Revoked(rows, q, made + 1) \in Tables
        /\ p # q => Revoked(rows, q, made + 1)[p] = rows[p]
    BY <1>1, <2>2, RevokedNarrows DEF Narrower
  <2>4. p # q => rows'[p] = rows[p]
    BY <1>4, <2>1, <2>3 DEF Tables
  <2>5. p = q
    BY <1>3, <2>1, <2>4
  <2>6. QED
    BY <2>1, <2>5 DEF q
<1>10. CASE RefreshExpired(c) \/ Logout(c)
  <2> DEFINE q == call[c].with
  <2>1. /\ now' = now
        /\ rows' = rows \/ (q # None /\ rows' = Revoked(rows, q, None))
    BY <1>10 DEF RefreshExpired, Logout, Decodes
  <2>2. q # None /\ rows' = Revoked(rows, q, None)
    BY <1>3, <2>1
  <2>3. p # q => rows'[p] = rows[p]
    BY <1>1, <1>5, <2>2, RevokedNarrows
  <2>4. QED
    BY <1>3, <2>1, <2>2, <2>3
<1>11. CASE RefreshRevoked(c)
  <2> DEFINE q == call[c].with
  <2>1. /\ q # None /\ now' = now
        /\ rows' = rows \/ rows' = AllRevoked(claims[q].user)
    BY <1>11 DEF RefreshRevoked, Decodes
  <2>2. claims[p].user # claims[q].user => rows'[p] = rows[p]
    BY <1>1, <2>1, AllRevokedNarrows
  <2>3. QED
    BY <1>3, <2>1, <2>2
<1>12. ASSUME NEW u \in Users, ChangePassword(c, u)
       PROVE  call[c].with # None /\ claims[p].user = claims[call[c].with].user
  <2>1. /\ call[c].with # None /\ u = claims[call[c].with].user
        /\ now' = now /\ rows' = AllRevoked(u)
    BY <1>12 DEF ChangePassword, Caller, Authentic
  <2>2. claims[p].user # u => rows'[p] = rows[p]
    BY <1>1, <2>1, AllRevokedNarrows
  <2>3. QED
    BY <1>3, <2>1, <2>2
<1>13. ASSUME NEW u \in Users, NEW q \in Pairs, RevokeSession(c, u, q)
       PROVE  call[c].with # None /\ claims[p].user = claims[call[c].with].user
  <2>1. /\ call[c].with # None /\ u = claims[call[c].with].user
        /\ now' = now /\ rows' = Revoked(rows, q, None)
        /\ claims[q].user = u
    BY <1>13 DEF RevokeSession, Caller, Authentic, Own
  <2>2. p # q => rows'[p] = rows[p]
    BY <1>1, <2>1, RevokedNarrows
  <2>3. QED
    BY <1>3, <2>1, <2>2
<1>14. QED
  BY <1>1, <1>6, <1>7, <1>8, <1>9, <1>10, <1>11, <1>12, <1>13, ActingTab
     DEF Next

\* A call ends no login of an account other than its own.
THEOREM AccountsApartHolds == Spec => AccountsApart
<1>1. ASSUME IInv, [Next]_vars
      PROVE  \A c \in Tabs, p \in Pairs :
                /\ call[c] # None /\ call'[c] # call[c]
                /\ Live(p) /\ ~Live(p)'
                => call[c].with # None
                   /\ claims[p].user = claims[call[c].with].user
  BY <1>1, ApartStep
<1>2. QED
  BY <1>1, Inductive, PTL DEF Spec, AccountsApart

-----------------------------------------------------------------------------
(* Where a login's newest pair is.                                         *)

\* Browser b holds the pair p, or a call of one of its tabs carries it.
Carries(b, p) ==
    \/ jar[b] = p
    \/ \E c \in Tabs : Home[c] = b /\ call[c] # None /\ call[c].with = p

\* The answer to c's call sets the cookies to the pair p.
Brings(c, p) == call[c] # None /\ call[c].kind = "set" /\ call[c].with = p

Renews(c) == call[c] # None /\ call[c].kind = "refresh"

\* The pairs of p's login, but for p and what cut renewals left behind, are
\* revoked.
Newest(p) ==
    \A q \in Pairs :
        Held(q) /\ Unrevoked(q) /\ claims[q].login = claims[p].login => q = p

\* The row of p says which pair replaced it.
Rotated(p) == rows[p] # None /\ rows[p].by # None

\* A login lives in one browser.
HomeInv ==
    \A a, b \in Browsers, p, q \in Pairs :
        Carries(a, p) /\ Carries(b, q) /\ claims[p].login = claims[q].login => a = b

\* An answer brings the newest pair of its login, which nobody else has, or
\* none.
AnswerInv ==
    \A c \in Tabs, p \in Pairs \cup {None} :
        Brings(c, p) =>
            /\ p # None /\ Newest(p) /\ ~Rotated(p)
            /\ \A b \in Browsers : jar[b] # p
            /\ \A d \in Tabs \ {c} : call[d] # None => call[d].with # p

ClearInv ==
    \A c \in Tabs : call[c] # None /\ call[c].kind = "clear" => call[c].with = None

\* A browser that has lost no answer holds the newest pair of the login it is
\* in, or is about to be brought it.
JarInv ==
    \A b \in Browsers \ lost, p \in Pairs :
        jar[b] = p =>
            /\ \A q \in Pairs :
                  Held(q) /\ Unrevoked(q) /\ claims[q].login = claims[p].login =>
                      q = p \/ \E c \in Tabs : Home[c] = b /\ Brings(c, q)
            /\ Rotated(p) => \E c \in Tabs, q \in Pairs : Home[c] = b /\ Brings(c, q)

\* A renewal that is alone in its browser presents a pair that was not
\* replaced, unless an answer has been lost.
RenewInv ==
    \A c \in Tabs :
        Home[c] \notin shared /\ Renews(c) =>
            /\ \A d \in Tabs : Home[d] = Home[c] /\ Renews(d) => d = c
            /\ Home[c] \notin lost /\ call[c].with # None => ~Rotated(call[c].with)

WireInv == HomeInv /\ AnswerInv /\ ClearInv /\ JarInv /\ RenewInv

\* What the tokens of a pair that may be held keep saying.
LEMMA HeldStep ==
    ASSUME IInv, [Next]_vars, NEW p \in Pairs, Held(p)
    PROVE  Held(p)' /\ claims'[p] = claims[p] /\ (Unrevoked(p)' => Unrevoked(p))
<1>1. Held(p)' /\ p <= made
  BY HeldOn DEF Held
<1>2. CASE Shrinks
  BY <1>1, <1>2 DEF Shrinks, Narrower, Unrevoked
<1>3. CASE Issues
  <2>1. PICK n \in Pairs, r \in Tables, u \in Users, lease \in {Short, Long},
             login \in Pairs, pw \in Nat : Issuance(n, r, u, lease, login, pw)
    BY <1>3 DEF Issues
  <2>2. Issued(n, r, login) /\ Narrower(r)
    BY <2>1, IssueStep DEF Issuance
  <2>3. claims'[p] = claims[p] /\ rows'[p] = r[p]
    BY <1>1, <2>2 DEF Issued
  <2>4. Unrevoked(p)' => Unrevoked(p)
    BY <2>2, <2>3 DEF Narrower, Unrevoked
  <2>5. QED
    BY <1>1, <2>3, <2>4
<1>4. QED
  BY <1>2, <1>3, StepForm

\* Only a login and a renewal bring a pair that may be held.
LEMMA NewHeld ==
    ASSUME IInv, [Next]_vars, NEW q \in Pairs, Held(q)', ~Held(q)
    PROVE  /\ q = made + 1 /\ made' = made + 1
           /\ \E c \in Tabs : \/ Rotate(c)
                              \/ \E u \in Users, lease \in {Short, Long} : SignIn(c, u, lease)
<1>1. made \in Nat /\ q \in Nat /\ orphans \subseteq 1 .. made
  BY Shapes DEF IInv, TypeOK, Pairs, PairsInv
<1>2. ASSUME made' = made + 1, orphans' = orphans
      PROVE  q = made + 1
  BY <1>1, <1>2 DEF Held
<1>3. ASSUME NEW c \in Tabs, RotateCut(c)
      PROVE  FALSE
  <2>1. made' = made + 1 /\ orphans' = orphans \cup {made + 1}
    BY <1>3 DEF RotateCut, Issue
  <2>2. QED
    BY <1>1, <2>1 DEF Held
<1>4. ASSUME NEW c \in Tabs, Rotate(c)
      PROVE  made' = made + 1 /\ orphans' = orphans
  BY <1>4 DEF Rotate, Issue, History
<1>5. ASSUME NEW c \in Tabs, NEW u, NEW lease, SignIn(c, u, lease)
      PROVE  made' = made + 1 /\ orphans' = orphans
  BY <1>5 DEF SignIn, Issue
<1>6. ASSUME made' = made, orphans' = orphans
      PROVE  FALSE
  BY <1>6 DEF Held
<1>7. ASSUME NEW c \in Tabs, Lesser(c) \/ \E u \in Users : ChangePassword(c, u) \/ ChangePasswordCut(c, u)
      PROVE  FALSE
  BY <1>6, <1>7 DEF Lesser, Send, Receive, Lose, Refuse, SignInCut, RefreshUnknown,
     RefreshRevoked, RefreshExpired, Logout, RevokeSession, ChangePassword,
     ChangePasswordCut, History, Tokens
<1>8. CASE Elapse \/ vars' = vars
  BY <1>6, <1>8 DEF Elapse, vars, History, Tokens
<1>9. QED
  BY <1>2, <1>3, <1>4, <1>5, <1>7, <1>8 DEF Next, Lesser

\* Only a renewal of p says that another pair replaced it.
LEMMA RotatedBy ==
    ASSUME IInv, [Next]_vars, NEW p \in Pairs, Held(p), Rotated(p)'
    PROVE  Rotated(p) \/ \E c \in Tabs : Rotate(c) /\ call[c].with = p
<1>1. /\ TypeOK /\ rows \in Tables /\ p <= made /\ made \in Nat
  BY DEF IInv, TypeOK, Held, Tables
<1>2. p # made + 1
  BY <1>1 DEF Pairs
<1>3. ASSUME NEW r, r[p] = rows[p] \/ r = Pruned \/ (\E u : r = AllRevoked(u))
                    \/ (\E q \in Pairs : r = Revoked(rows, q, None)),
             rows'[p] = r[p]
      PROVE  Rotated(p)
  <2>1. r[p] # None /\ r[p].by # None
    BY <1>3 DEF Rotated
  <2>2. CASE r = Pruned
    BY <2>1, <2>2 DEF Pruned, Rotated
  <2>3. ASSUME NEW u, r = AllRevoked(u)
        PROVE  Rotated(p)
    <3>1. rows[p] # None /\ (r[p] = rows[p] \/ r[p] = [rows[p] EXCEPT !.revoked = TRUE])
      BY <2>1, <2>3 DEF AllRevoked
    <3>2. rows[p] \in Row
      BY <1>1, <3>1 DEF Tables
    <3>3. r[p].by = rows[p].by
      BY <3>1, <3>2 DEF Row
    <3>4. QED
      BY <2>1, <3>1, <3>3 DEF Rotated
  <2>4. ASSUME NEW q \in Pairs, r = Revoked(rows, q, None)
        PROVE  Rotated(p)
    <3>1. rows[p] # None /\ (r[p] = rows[p] \/ r[p] = [revoked |-> TRUE, by |-> rows[p].by])
      BY <1>1, <2>1, <2>4 DEF Revoked, Tables
    <3>2. r[p].by = rows[p].by
      BY <3>1
    <3>3. QED
      BY <2>1, <3>1, <3>2 DEF Rotated
  <2>5. QED
    BY <1>3, <2>1, <2>2, <2>3, <2>4 DEF Rotated
<1>4. ASSUME NEW c \in Tabs, Rotate(c), call[c].with # p
      PROVE  Rotated(p)
  <2> DEFINE q == call[c].with
  <2>1. /\ q # None /\ made < MaxPairs
        /\ rows' = [Revoked(rows, q, made + 1) EXCEPT
                      ![made + 1] = [revoked |-> FALSE, by |-> None]]
    BY <1>4 DEF Rotate, Issue
  <2>2. q \in Pairs /\ made + 1 \in Pairs
    BY <1>1, <1>4, <2>1, Presented, NextPair DEF Rotate, Handling
  <2> HIDE DEF q
  <2>3. Revoked(rows, q, made + 1) \in Tables /\ (p # q => Revoked(rows, q, made + 1)[p] = rows[p])
    BY <1>1, <2>2, RevokedNarrows DEF Narrower
  <2>4. rows'[p] = rows[p]
    BY <1>2, <1>4, <2>1, <2>3 DEF Tables, q
  <2>5. QED
    BY <1>3, <2>4
<1>5. ASSUME NEW c \in Tabs,
             RotateCut(c) \/ \E u \in Users, lease \in {Short, Long} : SignIn(c, u, lease)
      PROVE  Rotated(p)
  <2>1. Pruned \in Tables
    BY PrunedNarrows DEF IInv, Narrower
  <2>2. \E r \in {rows, Pruned} : \E x : rows' = [r EXCEPT ![made + 1] = x]
    BY <1>5 DEF RotateCut, SignIn, Issue
  <2>3. \E r \in {rows, Pruned} : rows'[p] = r[p]
    BY <1>1, <1>2, <2>1, <2>2 DEF Tables
  <2>4. QED
    BY <1>3, <2>3
<1>6. ASSUME NEW c \in Tabs, RefreshExpired(c) \/ Logout(c)
      PROVE  Rotated(p)
  <2>1. rows' = rows \/ (Decodes(call[c].with) /\ rows' = Revoked(rows, call[c].with, None))
    BY <1>6 DEF RefreshExpired, Logout
  <2>2. Decodes(call[c].with) => call[c].with \in Pairs
    BY <1>6, Presented DEF Decodes, RefreshExpired, Logout, Handling
  <2>3. QED
    BY <1>3, <2>1, <2>2
<1>7. ASSUME NEW c \in Tabs,
             Lesser(c) \/ \E u \in Users : ChangePassword(c, u) \/ ChangePasswordCut(c, u)
      PROVE  Rotated(p)
  <2>1. CASE RefreshExpired(c) \/ Logout(c)
    BY <1>6, <2>1
  <2>2. CASE ~(RefreshExpired(c) \/ Logout(c))
    <3>1. \/ rows' = rows \/ rows' = Pruned \/ (\E u : rows' = AllRevoked(u))
          \/ (\E q \in Pairs : rows' = Revoked(rows, q, None))
      BY <1>7, <2>2 DEF Lesser, Send, Receive, Lose, Refuse, SignInCut, RefreshUnknown,
         RefreshRevoked, RevokeSession, ChangePassword, ChangePasswordCut, Tokens
    <3>2. QED
      BY <1>3, <3>1
  <2>3. QED
    BY <2>1, <2>2
<1>8. CASE Elapse \/ vars' = vars
  BY <1>3, <1>8 DEF Elapse, vars, Tokens
<1>9. QED
  BY <1>4, <1>5, <1>7, <1>8 DEF Next, Lesser

\* What a browser or a call carries may be held.
LEMMA CarriedIsHeld ==
    ASSUME IInv, NEW b \in Browsers, NEW p \in Pairs, Carries(b, p)
    PROVE  Held(p)
<1>1. None \notin Pairs
  BY Shapes DEF Pairs
<1>2. QED
  BY <1>1 DEF Carries, IInv, CarryInv

\* So may what an answer brings, and the tab's browser is the one it is for.
LEMMA BroughtIsHeld ==
    ASSUME IInv, NEW c \in Tabs, NEW p \in Pairs, Brings(c, p)
    PROVE  Held(p) /\ Carries(Home[c], p)
<1>1. Carries(Home[c], p) /\ Home[c] \in Browsers
  BY Shapes DEF Brings, Carries
<1>2. QED
  BY <1>1, CarriedIsHeld

\* A step that brings no pair to any cookies: some calls are dropped, or
\* turn into answers that clear them.
Quiet ==
    /\ jar' = jar /\ shared' = shared /\ lost \subseteq lost'
    /\ \A c \in Tabs :
          \/ call'[c] = call[c]
          \/ /\ call[c] # None
             /\ call'[c] # None => call'[c].kind = "clear" /\ call'[c].with = None
             /\ call[c].kind = "set" => Home[c] \in lost'
    /\ \A q \in Pairs : Held(q)' => Held(q)
    /\ \A p \in Pairs : Held(p) /\ Rotated(p)' => Rotated(p)

\* Such a step leaves the newest pairs where they are.
LEMMA QuietKeeps ==
    ASSUME IInv, IInv', WireInv, [Next]_vars, Quiet
    PROVE  WireInv'
<1>1. \A p \in Pairs : Held(p) =>
          Held(p)' /\ claims'[p] = claims[p] /\ (Unrevoked(p)' => Unrevoked(p))
  BY HeldStep
<1>2. None \notin Pairs
  BY Shapes DEF Pairs
<1>3. \A b \in Browsers, p \in Pairs : Carries(b, p)' => Carries(b, p)
  BY <1>2 DEF Quiet, Carries
<1>4. \A c \in Tabs, p \in Pairs \cup {None} : Brings(c, p)' => Brings(c, p) /\ call'[c] = call[c]
  BY DEF Quiet, Brings
<1>5. \A c \in Tabs, p \in Pairs : Brings(c, p) => Brings(c, p)' \/ Home[c] \in lost'
  BY DEF Quiet, Brings
<1>6. \A c \in Tabs : Renews(c)' => Renews(c) /\ call'[c] = call[c]
  BY DEF Quiet, Renews
<1>7. \A q \in Pairs : Held(q)' /\ Unrevoked(q)' =>
          Held(q) /\ Unrevoked(q) /\ claims'[q] = claims[q]
  BY <1>1 DEF Quiet
<1>8. HomeInv'
  <2> SUFFICES ASSUME NEW a \in Browsers, NEW b \in Browsers, NEW p \in Pairs, NEW q \in Pairs,
                      Carries(a, p)', Carries(b, q)', claims'[p].login = claims'[q].login
               PROVE  a = b
    BY DEF HomeInv
  <2>1. Carries(a, p) /\ Carries(b, q) /\ Held(p) /\ Held(q)
    BY <1>3, CarriedIsHeld
  <2>2. QED
    BY <1>1, <2>1 DEF WireInv, HomeInv
<1>9. AnswerInv'
  <2> SUFFICES ASSUME NEW c \in Tabs, NEW p \in Pairs \cup {None}, Brings(c, p)'
               PROVE  /\ p # None /\ Newest(p)' /\ ~Rotated(p)'
                      /\ \A b \in Browsers : jar'[b] # p
                      /\ \A d \in Tabs \ {c} : call'[d] # None => call'[d].with # p
    BY DEF AnswerInv
  <2>1. Brings(c, p)
    BY <1>4
  <2>2. /\ p # None /\ Newest(p) /\ ~Rotated(p) /\ p \in Pairs
        /\ \A b \in Browsers : jar[b] # p
        /\ \A d \in Tabs \ {c} : call[d] # None => call[d].with # p
    BY <2>1 DEF WireInv, AnswerInv
  <2>3. Held(p)
    BY <2>1, <2>2, BroughtIsHeld
  <2>4. Newest(p)'
    BY <1>1, <1>7, <2>2, <2>3 DEF Newest
  <2>5. ~Rotated(p)'
    BY <2>2, <2>3 DEF Quiet
  <2>6. \A d \in Tabs \ {c} : call'[d] # None => call'[d].with # p
    BY <2>2 DEF Quiet
  <2>7. QED
    BY <2>2, <2>4, <2>5, <2>6 DEF Quiet
<1>10. JarInv'
  <2> SUFFICES ASSUME NEW b \in Browsers \ lost', NEW p \in Pairs, jar'[b] = p
               PROVE  /\ \A q \in Pairs :
                            Held(q)' /\ Unrevoked(q)' /\ claims'[q].login = claims'[p].login =>
                                q = p \/ \E c \in Tabs : Home[c] = b /\ Brings(c, q)'
                      /\ Rotated(p)' => \E c \in Tabs, q \in Pairs : Home[c] = b /\ Brings(c, q)'
    BY DEF JarInv
  <2>1. b \in Browsers \ lost /\ jar[b] = p /\ Held(p)
    BY CarriedIsHeld DEF Quiet, Carries
  <2>2. \A c \in Tabs, q \in Pairs : Home[c] = b /\ Brings(c, q) => Brings(c, q)'
    BY <1>5
  <2>3. /\ \A q \in Pairs :
                Held(q) /\ Unrevoked(q) /\ claims[q].login = claims[p].login =>
                    q = p \/ \E c \in Tabs : Home[c] = b /\ Brings(c, q)
        /\ Rotated(p) => \E c \in Tabs, q \in Pairs : Home[c] = b /\ Brings(c, q)
    BY <2>1 DEF WireInv, JarInv
  <2>4. claims'[p] = claims[p] /\ (Rotated(p)' => Rotated(p))
    BY <1>1, <2>1 DEF Quiet
  <2>5. QED
    BY <1>7, <2>2, <2>3, <2>4
<1>11. RenewInv'
  <2> SUFFICES ASSUME NEW c \in Tabs, Home[c] \notin shared', Renews(c)'
               PROVE  /\ \A d \in Tabs : Home[d] = Home[c] /\ Renews(d)' => d = c
                      /\ Home[c] \notin lost' /\ call'[c].with # None => ~Rotated(call[c].with)'
    BY DEF RenewInv
  <2>1. Renews(c) /\ call'[c] = call[c] /\ Home[c] \notin shared
    BY <1>6 DEF Quiet
  <2>2. call[c].with # None => call[c].with \in Pairs /\ Held(call[c].with)
    BY <2>1, Presented DEF Renews
  <2>3. QED
    BY <1>6, <2>1, <2>2 DEF Quiet, WireInv, RenewInv
<1>12. ClearInv'
  BY DEF Quiet, WireInv, ClearInv
<1>13. QED
  BY <1>8, <1>9, <1>10, <1>11, <1>12 DEF WireInv

\* A request goes out with the pair in the cookies.
LEMMA SendKeeps ==
    ASSUME IInv, IInv', WireInv, [Next]_vars, NEW c \in Tabs, NEW kind \in Requests, Send(c, kind)
    PROVE  WireInv'
<1>1. PICK p \in {jar[Home[c]], None} :
        /\ call[c] = None /\ call' = [call EXCEPT ![c] = [kind |-> kind, with |-> p]]
        /\ UNCHANGED <<made, claims, rows, jar, lost, orphans>>
  BY DEF Send, GuestCookie, Cookie, Tokens
<1>2. /\ None \notin Pairs /\ Home[c] \in Browsers /\ call \in [Tabs -> Call \cup {None}]
      /\ jar \in [Browsers -> Pairs \cup {None}] /\ None \notin Call
  BY Shapes, Distinct DEF Pairs, IInv, TypeOK
<1>3. /\ call'[c] = [kind |-> kind, with |-> p] /\ call'[c] # None
      /\ \A d \in Tabs \ {c} : call'[d] = call[d]
  <2>1. [kind |-> kind, with |-> p] \in Call
    BY <1>1, <1>2 DEF Call
  <2>2. QED
    BY <1>1, <1>2, <2>1
<1>4. /\ \A q \in Pairs : Held(q)' = Held(q) /\ Unrevoked(q)' = Unrevoked(q) /\ Rotated(q)' = Rotated(q)
      /\ shared \subseteq shared'
  BY <1>1 DEF Held, Unrevoked, Rotated, Send
<1>5. kind # "set"
  BY DEF Requests
<1>6. \A d \in Tabs, q \in Pairs \cup {None} : Brings(d, q)' <=> Brings(d, q)
  BY <1>1, <1>3, <1>5 DEF Brings
<1>7. \A b \in Browsers, q \in Pairs : Carries(b, q)' => Carries(b, q)
  BY <1>1, <1>2, <1>3 DEF Carries
<1>8. HomeInv'
  BY <1>1, <1>7 DEF WireInv, HomeInv
<1>9. AnswerInv'
  <2> SUFFICES ASSUME NEW d \in Tabs, NEW q \in Pairs \cup {None}, Brings(d, q)'
               PROVE  /\ q # None /\ Newest(q)' /\ ~Rotated(q)'
                      /\ \A b \in Browsers : jar'[b] # q
                      /\ \A e \in Tabs \ {d} : call'[e] # None => call'[e].with # q
    BY DEF AnswerInv
  <2>1. /\ q # None /\ Newest(q) /\ ~Rotated(q) /\ q \in Pairs
        /\ \A b \in Browsers : jar[b] # q
        /\ \A e \in Tabs \ {d} : call[e] # None => call[e].with # q
    BY <1>6 DEF WireInv, AnswerInv
  <2>2. Newest(q)' /\ ~Rotated(q)'
    BY <1>1, <1>4, <2>1 DEF Newest
  <2>3. p # q
    BY <1>1, <1>2, <2>1
  <2>4. QED
    BY <1>1, <1>3, <2>1, <2>2, <2>3
<1>10. JarInv'
  BY <1>1, <1>4, <1>6 DEF WireInv, JarInv
<1>11. RenewInv'
  <2> SUFFICES ASSUME NEW d \in Tabs, Home[d] \notin shared', Renews(d)'
               PROVE  /\ \A e \in Tabs : Home[e] = Home[d] /\ Renews(e)' => e = d
                      /\ Home[d] \notin lost' /\ call'[d].with # None => ~Rotated(call[d].with)'
    BY DEF RenewInv
  <2>1. Home[d] \notin shared
    BY <1>4
  <2>2. \A e \in Tabs \ {c} : Renews(e)' = Renews(e)
    BY <1>3 DEF Renews
  <2>3. Renews(c)' => kind = "refresh"
    BY <1>3 DEF Renews
  <2>4. ASSUME kind = "refresh", Home[c] \notin shared'
        PROVE  \A e \in Tabs : ~Renewing(e, Home[c])
    BY <1>1, <1>2, <2>4 DEF Send
  <2>5. CASE d = c
    <3>1. \A e \in Tabs : ~Renewing(e, Home[c])
      BY <2>3, <2>4, <2>5
    <3>2. \A e \in Tabs : Home[e] = Home[d] /\ Renews(e)' => e = d
      BY <2>2, <2>5, <3>1 DEF Renewing, Renews
    <3>3. ASSUME Home[c] \notin lost', p # None
          PROVE  ~Rotated(p)'
      <4>1. p \in Pairs /\ jar[Home[c]] = p
        BY <1>1, <1>2, <3>3
      <4>2. \A e \in Tabs, q \in Pairs : ~(Home[e] = Home[c] /\ Brings(e, q))
        BY <3>1 DEF Renewing, Brings
      <4>3. Home[c] \in Browsers \ lost
        BY <1>1, <1>2, <3>3
      <4>4. ~Rotated(p)
        BY <4>1, <4>2, <4>3 DEF WireInv, JarInv
      <4>5. QED
        BY <1>4, <4>1, <4>4
    <3>4. QED
      BY <1>3, <2>5, <3>2, <3>3
  <2>6. CASE d # c
    <3>1. Renews(d) /\ call'[d] = call[d]
      BY <1>3, <2>2, <2>6
    <3>2. Home[c] = Home[d] => ~Renews(c)'
      BY <2>3, <2>4, <3>1 DEF Renewing, Renews
    <3>3. \A e \in Tabs : Home[e] = Home[d] /\ Renews(e)' => e = d
      BY <2>1, <2>2, <3>1, <3>2 DEF WireInv, RenewInv
    <3>4. call[d].with # None => call[d].with \in Pairs
      BY <3>1, Presented DEF Renews
    <3>5. QED
      BY <1>1, <1>4, <2>1, <3>1, <3>3, <3>4 DEF WireInv, RenewInv
  <2>7. QED
    BY <2>5, <2>6
<1>12. ClearInv'
  BY <1>3 DEF WireInv, ClearInv, Requests
<1>13. QED
  BY <1>8, <1>9, <1>10, <1>11, <1>12 DEF WireInv

\* An answer arrives.
LEMMA ReceiveKeeps ==
    ASSUME IInv, IInv', WireInv, [Next]_vars, NEW c \in Tabs, Receive(c)
    PROVE  WireInv'
<1> DEFINE p == call[c].with
<1>1. /\ call[c] # None /\ call[c].kind \in Replies
      /\ call' = [call EXCEPT ![c] = None]
      /\ jar' = [jar EXCEPT ![Home[c]] = p]
      /\ UNCHANGED <<made, claims, rows, lost, shared, orphans>>
  BY DEF Receive, Tokens, History
<1>2. /\ None \notin Pairs /\ Home[c] \in Browsers /\ call \in [Tabs -> Call \cup {None}]
      /\ jar \in [Browsers -> Pairs \cup {None}]
  BY Shapes DEF Pairs, IInv, TypeOK
<1>3. p \in Pairs \cup {None}
  BY <1>1, <1>2 DEF Call
<1>4. /\ call'[c] = None /\ jar'[Home[c]] = p
      /\ \A d \in Tabs \ {c} : call'[d] = call[d]
      /\ \A b \in Browsers \ {Home[c]} : jar'[b] = jar[b]
  BY <1>1, <1>2
<1>5. \A q \in Pairs : Held(q)' = Held(q) /\ Unrevoked(q)' = Unrevoked(q) /\ Rotated(q)' = Rotated(q)
  BY <1>1 DEF Held, Unrevoked, Rotated
<1>6. \/ /\ Brings(c, p) /\ p \in Pairs /\ Newest(p) /\ ~Rotated(p)
      \/ p = None
  BY <1>1, <1>3 DEF WireInv, AnswerInv, ClearInv, Brings, Replies
<1>7. \A d \in Tabs, q \in Pairs \cup {None} : Brings(d, q)' <=> Brings(d, q) /\ d # c
  BY <1>4 DEF Brings
<1>8. \A d \in Tabs : Renews(d)' <=> Renews(d) /\ d # c
  BY <1>4 DEF Renews
<1>9. \A b \in Browsers, q \in Pairs : Carries(b, q)' => Carries(b, q)
  BY <1>1, <1>4 DEF Carries
<1> HIDE DEF p
<1>10. HomeInv'
  BY <1>1, <1>9 DEF WireInv, HomeInv
<1>11. AnswerInv'
  <2> SUFFICES ASSUME NEW d \in Tabs, NEW q \in Pairs \cup {None}, Brings(d, q)'
               PROVE  /\ q # None /\ Newest(q)' /\ ~Rotated(q)'
                      /\ \A b \in Browsers : jar'[b] # q
                      /\ \A e \in Tabs \ {d} : call'[e] # None => call'[e].with # q
    BY DEF AnswerInv
  <2>1. /\ d # c /\ q # None /\ Newest(q) /\ ~Rotated(q) /\ q \in Pairs
        /\ \A b \in Browsers : jar[b] # q
        /\ \A e \in Tabs \ {d} : call[e] # None => call[e].with # q
    BY <1>7 DEF WireInv, AnswerInv
  <2>2. Newest(q)' /\ ~Rotated(q)'
    BY <1>1, <1>5, <2>1 DEF Newest
  <2>3. p # q
    BY <1>1, <2>1 DEF p
  <2>4. QED
    BY <1>4, <2>1, <2>2, <2>3
<1>12. JarInv'
  <2> SUFFICES ASSUME NEW b \in Browsers \ lost', NEW q \in Pairs, jar'[b] = q
               PROVE  /\ \A r \in Pairs :
                            Held(r)' /\ Unrevoked(r)' /\ claims'[r].login = claims'[q].login =>
                                r = q \/ \E d \in Tabs : Home[d] = b /\ Brings(d, r)'
                      /\ Rotated(q)' => \E d \in Tabs, r \in Pairs : Home[d] = b /\ Brings(d, r)'
    BY DEF JarInv
  <2>1. CASE b = Home[c]
    <3>1. q = p /\ Newest(q) /\ ~Rotated(q)
      BY <1>2, <1>4, <1>6, <2>1
    <3>2. QED
      BY <1>1, <1>5, <3>1 DEF Newest
  <2>2. CASE b # Home[c]
    <3>1. jar[b] = q /\ b \in Browsers \ lost
      BY <1>1, <1>4, <2>2
    <3>2. \A d \in Tabs, r \in Pairs : Home[d] = b /\ Brings(d, r) => Brings(d, r)'
      BY <1>7, <2>2
    <3>3. QED
      BY <1>1, <1>5, <3>1, <3>2 DEF WireInv, JarInv
  <2>3. QED
    BY <2>1, <2>2
<1>13. RenewInv'
  <2> SUFFICES ASSUME NEW d \in Tabs, Home[d] \notin shared', Renews(d)'
               PROVE  /\ \A e \in Tabs : Home[e] = Home[d] /\ Renews(e)' => e = d
                      /\ Home[d] \notin lost' /\ call'[d].with # None => ~Rotated(call[d].with)'
    BY DEF RenewInv
  <2>1. Renews(d) /\ call'[d] = call[d]
    BY <1>4, <1>8
  <2>2. call[d].with # None => call[d].with \in Pairs
    BY <2>1, Presented DEF Renews
  <2>3. QED
    BY <1>1, <1>5, <1>8, <2>1, <2>2 DEF WireInv, RenewInv
<1>14. ClearInv'
  BY <1>4 DEF WireInv, ClearInv
<1>15. QED
  BY <1>10, <1>11, <1>12, <1>13, <1>14 DEF WireInv

\* A login or a renewal is answered with a new pair.
LEMMA AnswerKeeps ==
    ASSUME IInv, IInv', WireInv, [Next]_vars, NEW c \in Tabs,
           Rotate(c) \/ \E u \in Users, lease \in {Short, Long} : SignIn(c, u, lease)
    PROVE  WireInv'
<1> DEFINE p == call[c].with
<1>0. PICK n \in Pairs : n = made + 1
  BY NextPair DEF IInv, Rotate, SignIn, Issue
<1>1. /\ call[c] # None /\ call[c].kind \in {"refresh", "signin"}
      /\ call' = [call EXCEPT ![c] = [kind |-> "set", with |-> n]]
      /\ made < MaxPairs /\ made' = n
      /\ UNCHANGED <<jar, lost, shared, orphans>>
  BY <1>0 DEF Rotate, SignIn, MaySignIn, Handling, SetCookies, Issue, History
<1>2. /\ None \notin Pairs /\ None \notin Call /\ made \in Nat /\ n \in Nat
      /\ call \in [Tabs -> Call \cup {None}] /\ jar \in [Browsers -> Pairs \cup {None}]
      /\ \A d \in Tabs : Home[d] \in Browsers
  BY Shapes, Distinct DEF Pairs, IInv, TypeOK
<1>3. call'[c] = [kind |-> "set", with |-> n] /\ call'[c] # None /\ call'[c] # call[c]
      /\ \A d \in Tabs \ {c} : call'[d] = call[d]
  <2>1. [kind |-> "set", with |-> n] \in Call
    BY <1>2 DEF Call, Replies
  <2>2. call'[c] = [kind |-> "set", with |-> n] /\ \A d \in Tabs \ {c} : call'[d] = call[d]
    BY <1>1, <1>2
  <2>3. QED
    BY <1>1, <1>2, <2>1, <2>2
<1>4. ~Held(n) /\ Held(n)' /\ \A q \in Pairs : Held(q)' => Held(q) \/ q = n
  <2>1. ~Held(n) /\ Held(n)'
    <3>1. orphans \subseteq 1 .. made
      BY DEF IInv, PairsInv
    <3>2. QED
      BY <1>0, <1>1, <1>2, <3>1 DEF Held
  <2>2. QED
    BY <1>0, <2>1, NewHeld
<1>5. \A q \in Pairs : Held(q) =>
          Held(q)' /\ claims'[q] = claims[q] /\ (Unrevoked(q)' => Unrevoked(q))
  BY HeldStep
<1>6. \A q \in Pairs : Held(q) /\ Rotated(q)' => Rotated(q) \/ (Rotate(c) /\ q = p)
  <2>1. \A d \in Tabs : Rotate(d) => d = c
    BY <1>3, ActingTab DEF IInv
  <2>2. QED
    BY <2>1, RotatedBy
<1>7. Unrevoked(n)' /\ ~Rotated(n)'
  <2>1. \E r \in Tables : rows' = [r EXCEPT ![n] = [revoked |-> FALSE, by |-> None]]
    <3>1. Pruned \in Tables
      BY PrunedNarrows DEF IInv, Narrower
    <3>2. CASE Rotate(c)
      <4>1. p \in Pairs /\ rows' = [Revoked(rows, p, n) EXCEPT ![n] = [revoked |-> FALSE, by |-> None]]
        BY <1>0, <3>2, Presented DEF Rotate, Issue, Handling
      <4>2. Revoked(rows, p, n) \in Tables
        BY <1>2, <4>1, RevokedNarrows DEF IInv, Narrower
      <4>3. QED
        BY <4>1, <4>2
    <3>3. CASE \E u \in Users, lease \in {Short, Long} : SignIn(c, u, lease)
      BY <1>0, <3>1, <3>3 DEF SignIn, Issue
    <3>4. QED
      BY <3>2, <3>3
  <2>2. rows'[n] = [revoked |-> FALSE, by |-> None]
    BY <1>2, <2>1 DEF Tables
  <2>3. [revoked |-> FALSE, by |-> None] \in Row
    BY DEF Row
  <2>4. rows'[n] # None
    BY <2>2, <2>3, Distinct, Zenon
  <2>5. QED
    BY <2>2, <2>4 DEF Unrevoked, Rotated
<1>8. \/ Rotate(c) /\ p \in Pairs /\ Held(p) /\ Unrevoked(p) /\ Renews(c) /\ Carries(Home[c], p)
            /\ claims'[n].login = claims[p].login
      \/ ~Rotate(c) /\ \A q \in Pairs : Held(q) => claims[q].login # claims'[n].login
  <2>0. claims \in [Pairs -> Claims \cup {None}]
    BY DEF IInv, TypeOK
  <2>1. CASE Rotate(c)
    <3>1. p \in Pairs /\ Held(p) /\ Live(p) /\ Handling(c, "refresh")
          /\ claims' = [claims EXCEPT ![n] =
                [user |-> claims[p].user, issued |-> now, lease |-> claims[p].lease,
                 login |-> claims[p].login, password |-> claims[p].password]]
      BY <1>0, <2>1, Presented DEF Rotate, Issue, Handling
    <3>2. claims'[n].login = claims[p].login
      BY <1>2, <2>0, <3>1
    <3>3. QED
      BY <2>1, <3>1, <3>2 DEF Live, Unrevoked, Handling, Renews, Carries
  <2>2. CASE \E u \in Users, lease \in {Short, Long} : SignIn(c, u, lease)
    <3>1. ~Rotate(c)
      BY <2>2 DEF SignIn, MaySignIn, Rotate, Handling
    <3>2. PICK u \in Users, lease \in {Short, Long} :
              claims' = [claims EXCEPT ![n] =
                [user |-> u, issued |-> now, lease |-> lease, login |-> n, password |-> password[u]]]
      BY <1>0, <2>2 DEF SignIn, Issue
    <3>3. claims'[n].login = n
      BY <1>2, <2>0, <3>2
    <3>4. \A q \in Pairs : Held(q) => claims[q].login # n
      <4> SUFFICES ASSUME NEW q \in Pairs, Held(q)
                   PROVE  claims[q].login # n
        OBVIOUS
      <4>1. claims[q].login <= made /\ claims[q] \in Claims
        BY ClaimsOf DEF Held, IInv, PairsInv
      <4>2. claims[q].login \in Nat
        BY <4>1 DEF Claims, Pairs
      <4>3. QED
        BY <1>0, <1>2, <4>1, <4>2
    <3>5. QED
      BY <3>1, <3>3, <3>4
  <2>3. QED
    BY <2>1, <2>2
<1> HIDE DEF p
<1>9. /\ \A b \in Browsers, q \in Pairs : Carries(b, q)' => Carries(b, q) \/ (b = Home[c] /\ q = n)
      /\ \A b \in Browsers : ~Carries(b, n)
  BY <1>1, <1>2, <1>3, <1>4, CarriedIsHeld DEF Carries
<1>10. /\ Brings(c, n)'
       /\ \A d \in Tabs, q \in Pairs \cup {None} :
             /\ Brings(d, q) => Brings(d, q)' /\ d # c
             /\ Brings(d, q)' => (d = c /\ q = n) \/ (d # c /\ Brings(d, q))
  BY <1>1, <1>3 DEF Brings
<1>11. \A d \in Tabs : Renews(d)' => Renews(d) /\ d # c /\ call'[d] = call[d]
  BY <1>3 DEF Renews
<1>12. ASSUME NEW b \in Browsers, NEW q \in Pairs, Carries(b, q), claims[q].login = claims'[n].login
       PROVE  Rotate(c) /\ b = Home[c]
  <2>1. Held(q)
    BY <1>12, CarriedIsHeld
  <2>2. QED
    BY <1>2, <1>8, <1>12, <2>1 DEF WireInv, HomeInv
<1>13. HomeInv'
  <2> SUFFICES ASSUME NEW a \in Browsers, NEW b \in Browsers, NEW q \in Pairs, NEW r \in Pairs,
                      Carries(a, q)', Carries(b, r)', claims'[q].login = claims'[r].login
               PROVE  a = b
    BY DEF HomeInv
  <2>1. \A d \in Browsers, x \in Pairs : Carries(d, x) => claims'[x] = claims[x]
    BY <1>5, CarriedIsHeld
  <2>2. QED
    BY <1>9, <1>12, <2>1 DEF WireInv, HomeInv
<1>14. AnswerInv'
  <2> SUFFICES ASSUME NEW d \in Tabs, NEW q \in Pairs \cup {None}, Brings(d, q)'
               PROVE  /\ q # None /\ Newest(q)' /\ ~Rotated(q)'
                      /\ \A b \in Browsers : jar'[b] # q
                      /\ \A e \in Tabs \ {d} : call'[e] # None => call'[e].with # q
    BY DEF AnswerInv
  <2>1. CASE d = c /\ q = n
    <3>1. Newest(n)'
      BY <1>2, <1>4, <1>7 DEF IInv, OneInv, Newest
    <3>2. /\ \A b \in Browsers : jar'[b] # n
          /\ \A e \in Tabs \ {c} : call'[e] # None => call'[e].with # n
      BY <1>1, <1>2, <1>3, <1>9 DEF Carries
    <3>3. QED
      BY <1>2, <1>7, <2>1, <3>1, <3>2
  <2>2. CASE d # c /\ Brings(d, q)
    <3>1. /\ q # None /\ Newest(q) /\ ~Rotated(q) /\ q \in Pairs
          /\ \A b \in Browsers : jar[b] # q
          /\ \A e \in Tabs \ {d} : call[e] # None => call[e].with # q
      BY <2>2 DEF WireInv, AnswerInv
    <3>2. Held(q) /\ Carries(Home[d], q)
      BY <2>2, <3>1, BroughtIsHeld
    <3>3. q # p /\ q # n
      BY <1>1, <1>4, <2>2, <3>1, <3>2 DEF p
    <3>4. claims[q].login # claims'[n].login
      BY <1>8, <3>1, <3>2, <3>3 DEF Newest
    <3>5. Newest(q)'
      BY <1>4, <1>5, <3>1, <3>2, <3>4 DEF Newest
    <3>6. ~Rotated(q)'
      BY <1>6, <3>1, <3>2, <3>3
    <3>7. QED
      BY <1>1, <1>3, <2>2, <3>1, <3>3, <3>5, <3>6
  <2>3. QED
    BY <1>10, <2>1, <2>2
<1>15. JarInv'
  <2> SUFFICES ASSUME NEW b \in Browsers \ lost', NEW q \in Pairs, jar'[b] = q
               PROVE  /\ \A r \in Pairs :
                            Held(r)' /\ Unrevoked(r)' /\ claims'[r].login = claims'[q].login =>
                                r = q \/ \E d \in Tabs : Home[d] = b /\ Brings(d, r)'
                      /\ Rotated(q)' => \E d \in Tabs, r \in Pairs : Home[d] = b /\ Brings(d, r)'
    BY DEF JarInv
  <2>1. jar[b] = q /\ b \in Browsers \ lost /\ Carries(b, q)
    BY <1>1 DEF Carries
  <2>2. Held(q) /\ claims'[q] = claims[q]
    BY <1>5, <2>1, CarriedIsHeld
  <2>3. /\ \A r \in Pairs :
                Held(r) /\ Unrevoked(r) /\ claims[r].login = claims[q].login =>
                    r = q \/ \E d \in Tabs : Home[d] = b /\ Brings(d, r)
        /\ Rotated(q) => \E d \in Tabs, r \in Pairs : Home[d] = b /\ Brings(d, r)
    BY <2>1 DEF WireInv, JarInv
  <2>4. ASSUME NEW r \in Pairs, Held(r)', Unrevoked(r)', claims'[r].login = claims'[q].login
        PROVE  r = q \/ \E d \in Tabs : Home[d] = b /\ Brings(d, r)'
    <3>1. CASE r = n
      BY <1>10, <1>12, <2>1, <2>2, <2>4, <3>1
    <3>2. CASE Held(r)
      BY <1>5, <1>10, <2>2, <2>3, <2>4, <3>2
    <3>3. QED
      BY <1>4, <2>4, <3>1, <3>2
  <2>5. ASSUME Rotated(q)'
        PROVE  \E d \in Tabs, r \in Pairs : Home[d] = b /\ Brings(d, r)'
    <3>1. CASE Rotated(q)
      BY <1>10, <2>3, <3>1
    <3>2. CASE Rotate(c) /\ q = p
      BY <1>2, <1>8, <1>10, <1>12, <2>1, <3>2
    <3>3. QED
      BY <1>6, <2>2, <2>5, <3>1, <3>2
  <2>6. QED
    BY <2>4, <2>5
<1>16. RenewInv'
  <2> SUFFICES ASSUME NEW d \in Tabs, Home[d] \notin shared', Renews(d)'
               PROVE  /\ \A e \in Tabs : Home[e] = Home[d] /\ Renews(e)' => e = d
                      /\ Home[d] \notin lost' /\ call'[d].with # None => ~Rotated(call[d].with)'
    BY DEF RenewInv
  <2>1. Renews(d) /\ d # c /\ call'[d] = call[d] /\ Home[d] \notin shared
    BY <1>1, <1>11
  <2>2. ASSUME call[d].with # None
        PROVE  call[d].with \in Pairs /\ Held(call[d].with) /\ Carries(Home[d], call[d].with)
    BY <2>1, <2>2, Presented DEF Renews, Carries
  <2>3. ASSUME Rotate(c), call[d].with # None, call[d].with = p
        PROVE  FALSE
    <3>1. Home[d] = Home[c] /\ Renews(c)
      BY <1>2, <1>8, <1>12, <2>2, <2>3
    <3>2. QED
      BY <2>1, <3>1 DEF WireInv, RenewInv
  <2>4. QED
    BY <1>1, <1>6, <1>11, <2>1, <2>2, <2>3 DEF WireInv, RenewInv
<1>17. ClearInv'
  BY <1>3 DEF WireInv, ClearInv
<1>18. QED
  BY <1>13, <1>14, <1>15, <1>16, <1>17 DEF WireInv

\* Every step keeps it there.
LEMMA WireNext == IInv /\ IInv' /\ WireInv /\ [Next]_vars => WireInv'
<1> SUFFICES ASSUME IInv, IInv', WireInv, [Next]_vars PROVE WireInv'
  OBVIOUS
<1>1. CASE \E c \in Tabs : Rotate(c) \/ \E u \in Users, lease \in {Short, Long} : SignIn(c, u, lease)
  BY <1>1, AnswerKeeps
<1>2. CASE \E c \in Tabs : Receive(c) \/ \E kind \in Requests : Send(c, kind)
  BY <1>2, ReceiveKeeps, SendKeeps
<1>3. ASSUME ~\E c \in Tabs : Rotate(c) \/ \E u \in Users, lease \in {Short, Long} : SignIn(c, u, lease),
             ~\E c \in Tabs : Receive(c) \/ \E kind \in Requests : Send(c, kind)
      PROVE  WireInv'
  <2>1. /\ \A q \in Pairs : Held(q)' => Held(q)
        /\ \A p \in Pairs : Held(p) /\ Rotated(p)' => Rotated(p)
    BY <1>3, NewHeld, RotatedBy
  <2>2. CASE Elapse \/ vars' = vars
    <3>1. UNCHANGED <<jar, call, shared, lost>>
      BY <2>2 DEF Elapse, vars, History
    <3>2. Quiet
      BY <2>1, <3>1 DEF Quiet
    <3>3. QED
      BY <3>2, QuietKeeps
  <2>3. ASSUME NEW c \in Tabs,
               \/ Lose(c) \/ Refuse(c)
               \/ \E u \in Users :
                     \/ SignInCut(c, u)
                     \/ ChangePassword(c, u) \/ ChangePasswordCut(c, u)
                     \/ \E p \in Pairs : RevokeSession(c, u, p)
               \/ RefreshUnknown(c) \/ RefreshRevoked(c) \/ RefreshExpired(c)
               \/ RotateCut(c) \/ Logout(c)
        PROVE  WireInv'
    <3>1. jar' = jar /\ shared' = shared /\ lost \subseteq lost' /\ call[c] # None
      BY <2>3 DEF Lose, Refuse, SignInCut, ChangePassword, ChangePasswordCut,
         RevokeSession, RefreshUnknown, RefreshRevoked, RefreshExpired,
         RotateCut, Logout, Handling, MaySignIn, Cut, History
    <3>2. call[c].kind = "set" => Home[c] \in lost'
      BY <2>3 DEF Lose, Refuse, SignInCut, ChangePassword, ChangePasswordCut,
         RevokeSession, RefreshUnknown, RefreshRevoked, RefreshExpired,
         RotateCut, Logout, Handling, MaySignIn, Replies
    <3>3. ClearCookies(c) \/ call' = [call EXCEPT ![c] = None]
      BY <2>3 DEF Lose, Refuse, SignInCut, ChangePassword, ChangePasswordCut,
         RevokeSession, RefreshUnknown, RefreshRevoked, RefreshExpired,
         RotateCut, Logout, LeaveCookies, Cut
    <3>4. call \in [Tabs -> Call \cup {None}]
      BY DEF IInv, TypeOK
    <3>5. /\ \A d \in Tabs \ {c} : call'[d] = call[d]
          /\ call'[c] # None => call'[c].kind = "clear" /\ call'[c].with = None
      BY <3>3, <3>4 DEF ClearCookies
    <3>6. Quiet
      BY <2>1, <3>1, <3>2, <3>5 DEF Quiet
    <3>7. QED
      BY <3>6, QuietKeeps
  <2>4. QED
    BY <1>3, <2>2, <2>3 DEF Next
<1>4. QED
  BY <1>1, <1>2, <1>3

\* In every behaviour the newest pair of a login is in the one browser that
\* the login is in, or on its way there, unless an answer was lost.
THEOREM WiresAreSound == Spec => [](IInv /\ WireInv)
<1>1. Init => IInv /\ WireInv
  <2>1. Init => IInv
    BY InitInv
  <2>2. ASSUME Init
        PROVE  WireInv
    <3>1. None \notin Pairs /\ (\A b \in Browsers : jar[b] = None) /\ \A c \in Tabs : call[c] = None
      BY <2>2, Shapes DEF Pairs, Init
    <3>2. \A c \in Tabs, p \in Pairs \cup {None} : ~Brings(c, p) /\ ~Renews(c)
      BY <3>1 DEF Brings, Renews
    <3>3. \A b \in Browsers, p \in Pairs : jar[b] # p /\ ~Carries(b, p)
      BY <3>1 DEF Carries
    <3>4. QED
      BY <3>1, <3>2, <3>3 DEF WireInv, HomeInv, AnswerInv, ClearInv, JarInv, RenewInv
  <2>3. QED
    BY <2>1, <2>2
<1>2. (IInv /\ WireInv) /\ [Next]_vars => (IInv /\ WireInv)'
  BY NextInv, WireNext
<1>3. QED
  BY <1>1, <1>2, PTL DEF Spec

\* A browser is not left with a dead pair of a login that lives on, unless it
\* has lost an answer (api.ts, renewSession; refresh, auth.py:464-493).
THEOREM CookieIsCurrentHolds == Spec => []CookieIsCurrent
<1>1. ASSUME IInv, WireInv
      PROVE  CookieIsCurrent
  <2> SUFFICES ASSUME NEW b \in Browsers \ lost, jar[b] # None,
                      \A c \in Tabs : Home[c] = b => call[c] = None,
                      NEW q \in Descent(claims[jar[b]].login) \ orphans, Live(q)
               PROVE  q = jar[b]
    BY DEF CookieIsCurrent
  <2>1. jar[b] \in Pairs
    BY <1>1 DEF IInv, TypeOK
  <2>2. q \in Pairs /\ Held(q) /\ claims[q].login = claims[jar[b]].login /\ Unrevoked(q)
    <3>1. \A x \in 1 .. made : x \in Pairs /\ x <= made
      BY <1>1, Shapes DEF IInv, TypeOK, Pairs
    <3>2. QED
      BY <3>1 DEF Descent, Held, Live, Unrevoked
  <2>3. \A c \in Tabs : ~(Home[c] = b /\ Brings(c, q))
    BY DEF Brings
  <2>4. QED
    BY <1>1, <2>1, <2>2, <2>3 DEF WireInv, JarInv
<1>2. QED
  BY <1>1, WiresAreSound, PTL

\* The service takes a token for leaked only if its browser has lost an answer
\* or sent a renewal while another was under way (refresh, auth.py:475).
THEOREM AlarmNeedsAReasonHolds == Spec => AlarmNeedsAReason
<1>1. ASSUME IInv, WireInv, [Next]_vars
      PROVE  \A c \in Tabs : RefreshRevoked(c) /\ rows' # rows => Home[c] \in lost \cup shared
  <2> SUFFICES ASSUME NEW c \in Tabs, RefreshRevoked(c), rows' # rows
               PROVE  Home[c] \in lost \cup shared
    OBVIOUS
  <2>1. Renews(c) /\ call[c].with # None /\ Rotated(call[c].with)
    BY DEF RefreshRevoked, Handling, Renews, Decodes, Replayed, Rotated
  <2>2. QED
    BY <1>1, <2>1 DEF WireInv, RenewInv
<1>2. QED
  BY <1>1, WiresAreSound, PTL DEF Spec, AlarmNeedsAReason

=============================================================================
