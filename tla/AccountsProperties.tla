------------------------- MODULE AccountsProperties -------------------------
(* What Accounts must guarantee.                                             *)
EXTENDS Accounts

\* Every account was made with an id of its own; rows never leave the table.
AccountsTypeOK ==
  /\ account \in [KeycloakIds -> Emails \cup {""}]
  /\ \A i \in DOMAIN rows : rows[i] \in Row
  /\ Len(rows) <= MaxRows
  /\ outside \subseteq ever /\ ever \subseteq KeycloakIds
  /\ \A k \in KeycloakIds \ ever : ~HasAccount(k)

\* register, inviteWorker, login and the deletions cross Keycloak and the tables
\* with no transaction.  If none was cut short, an account has a row as soon as no
\* handler is on its way to create it, and a live row has an account unless a row
\* of that account was deleted, or Keycloak was changed by itself.  An account is
\* never two workers, and two users only where two handlers met; and whatever a
\* sign-in offers, loginSelect and getMe answer with.
AccountsAgree ==
  /\ faults = 0 =>
       /\ \A k \in KeycloakIds \ outside : HasAccount(k) =>
            \/ \E i \in DOMAIN rows : rows[i].keycloakId = k
            \/ \E p \in Procs : In(p, "create_row") /\ handler[p].keycloakId = k
       /\ \A i \in LiveRows : rows[i].keycloakId \notin outside =>
            \/ HasAccount(rows[i].keycloakId)
            \/ \E j \in DOMAIN rows : rows[j].keycloakId = rows[i].keycloakId /\ rows[j].deleted
            \/ \E p \in Procs : In(p, "soft_delete") /\ rows[handler[p].row].keycloakId = rows[i].keycloakId
  /\ \A k \in KeycloakIds :
       /\ Cardinality(LiveWorkers(k)) <= 1
       /\ ~raced => Cardinality(LiveUsers(k)) <= 1
       /\ \A offered \in Offers(k) :
            /\ \A i \in offered : loginSelect(k, i) = {i} /\ getMe(k, i) = {i}
            /\ offered # {} => refreshToken(k) # {}
            /\ Cardinality(offered) = 1 => offered \subseteq getMe(k, 0)
=============================================================================
