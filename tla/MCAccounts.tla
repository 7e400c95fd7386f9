----------------------------- MODULE MCAccounts -----------------------------
(* Small instances of Accounts.                                             *)
EXTENDS Accounts, TLC

CONSTANTS b1, b2, r1, r2, u1, u2, s1, s2, t1, y1, blank

\* Requests of every kind, with a Yandex whose answers name nobody.
AllForms == {<<"telegram", t1>>, <<"link", t1>>, <<"yandex", blank>>,
             <<"yandexToken", blank>>, <<"terms", None>>, <<"token", None>>,
             <<"logout", None>>}

TermsForms == {<<"telegram", t1>>, <<"terms", None>>}

\* An empty database, or one where a user of Yandex has registered before.
MCInit == Init \/ \E u \in User, b \in Browser, s \in Secret : Registered(u, b, y1, s)

MCSpec == MCInit /\ [][Next]_accountVars

Symmetry == Permutations({b1, b2}) \union Permutations({r1, r2})
            \union Permutations({u1, u2}) \union Permutations({s1, s2})

=============================================================================
