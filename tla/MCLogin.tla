------------------------------ MODULE MCLogin ------------------------------
(* Small instances of Login.  One browser is already signed in, as a user   *)
(* who registered with Yandex, so that one hash can sign in or link.        *)
EXTENDS Login

CONSTANTS b1, b2, r1, r2, u1, u2, t1, y1, blank, h1, s1, s2

\* Of the dashboard's other requests, the one that writes a column of a row that
\* a request of the bot may hold in memory.
TermsForm == {<<"terms", None>>}

MCInit == Registered(u1, b1, y1, s1) /\ LoginStart

MCSpec == MCInit /\ [][LoginNext]_vars /\ LoginFairness

=============================================================================
