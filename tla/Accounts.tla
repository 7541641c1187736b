------------------------------ MODULE Accounts ------------------------------
(* Who may sign in: the accounts of Keycloak and the rows of users and of     *)
(* worker_accounts that belong to them (auth, users, workers, cafe-admin).    *)
(* Each operation crosses the two stores without a transaction, and Keycloak  *)
(* may also be changed by itself.  Names, passwords and tokens are left out.  *)
EXTENDS Requests, Sequences, FiniteSetsExt

CONSTANTS
  KeycloakIds, Emails,
  CafeBrand,  \* the brand of each cafe
  Root,       \* the Keycloak id of the system administrator that the seed makes
  MaxRows     \* bound

ASSUME AccountsAssumption ==
  /\ Root \in KeycloakIds /\ MaxRows \in Nat \ {0} \* the seed's row
  /\ Emails # {} /\ "" \notin Emails \* every account has an email

VARIABLES
  account,  \* the email of each account of Keycloak, "" of none
  rows,     \* users and worker_accounts, in the order they were created
  ever,     \* Keycloak never gives an id twice
  outside,  \* accounts that were registered or deleted in Keycloak itself
  raced     \* ghost: two requests were in flight at once

avars == <<account, rows, ever, outside, raced>>

WorkerRoles == {"SYSTEM_ADMIN", "BRAND_ADMIN", "CAFE_ADMIN", "WORKER"}
CafeIds == DOMAIN CafeBrand
Owners == {CafeBrand[c] : c \in CafeIds}

Row == [kind : {"USER"} \cup WorkerRoles, keycloakId : KeycloakIds, email : Emails,
        brand : Owners \cup {""}, cafe : CafeIds \cup {""}, deleted : BOOLEAN]

RootEmail == CHOOSE x \in Emails : TRUE

AccountsInit ==
  /\ account = [k \in KeycloakIds |-> IF k = Root THEN RootEmail ELSE ""]
  /\ rows = <<[kind |-> "SYSTEM_ADMIN", keycloakId |-> Root, email |-> RootEmail,
               brand |-> "", cafe |-> "", deleted |-> FALSE]>>
  /\ ever = {Root} /\ outside = {} /\ raced = FALSE

HasAccount(k) == account[k] # ""
IsUser(i) == rows[i].kind = "USER"
LiveRows == {i \in DOMAIN rows : ~rows[i].deleted}
LiveUsers(k) == {i \in LiveRows : IsUser(i) /\ rows[i].keycloakId = k}
LiveWorkers(k) == {i \in LiveRows : ~IsUser(i) /\ rows[i].keycloakId = k}

BeginRequest(p, h) ==
  /\ Become(p, h)
  /\ raced' = (raced \/ \E q \in Procs \ {p} : ~Idle(q))
  /\ UNCHANGED <<account, rows, ever, outside>>

\* Rows are read, and the handler goes on or throws.
ReadRows(p, h) == Become(p, h) /\ UNCHANGED avars
InsertRow(p, row) ==
  /\ Len(rows) < MaxRows
  /\ rows' = Append(rows, row)
  /\ Finish(p)
  /\ UNCHANGED <<account, ever, outside, raced>>

-----------------------------------------------------------------------------
(* Mutants.                                                                  *)

\* The user is looked for by its email.
FindUserByEmail(p) ==
  LET h == handler[p]
      Found == {i \in LiveRows : IsUser(i) /\ rows[i].email = h.email}
  IN /\ In(p, "find_user")
     /\ ReadRows(p, IF Found = {} THEN [h EXCEPT !.pc = "create_user"] ELSE NoRequest)

-----------------------------------------------------------------------------
(* Registration.                                                              *)

\* Who may register whom, and where.
MayRegister(by, row) ==
  LET brand == rows[by].brand
      OwnCafe == rows[by].kind = "BRAND_ADMIN" => brand # "" /\ brand = CafeBrand[row.cafe]
  IN /\ rows[by].kind \in {"SYSTEM_ADMIN", "BRAND_ADMIN"}
     /\ row.kind \in {"CAFE_ADMIN", "WORKER"} => row.cafe # "" /\ OwnCafe
     /\ row.kind = "CAFE_ADMIN" => row.brand \in {"", CafeBrand[row.cafe]}
     /\ row.kind = "BRAND_ADMIN" =>
          row.brand # "" /\ (rows[by].kind = "BRAND_ADMIN" => brand = row.brand)

\* Keycloak is asked for the email first; an error of it reads as "nobody".
RegisterBegins(p, row) ==
  /\ Idle(p)
  /\ row.kind = "USER" \/ \E by \in LiveRows : ~IsUser(by) /\ MayRegister(by, row)
  /\ BeginRequest(p, [pc |-> "check_rows", row |-> row])

CheckRows(p) ==
  LET row == handler[p].row
      Taken == \E i \in LiveRows : rows[i].email = row.email /\ (row.kind = "USER" => IsUser(i))
  IN /\ In(p, "check_rows")
     /\ ReadRows(p, IF Taken THEN NoRequest ELSE [handler[p] EXCEPT !.pc = "create_account"])

\* inviteWorker of the cafe's administrator looks at the workers only.
inviteWorker(p, cafe, email) ==
  /\ Idle(p)
  /\ ~\E i \in LiveRows : ~IsUser(i) /\ rows[i].email = email
  /\ BeginRequest(p, [pc |-> "create_account",
               row |-> [kind |-> "WORKER", email |-> email, brand |-> CafeBrand[cafe], cafe |-> cafe]])

\* Keycloak keeps emails unique; the id comes back in the answer's Location.
createUser(p) ==
  LET row == handler[p].row IN
  /\ In(p, "create_account")
  /\ IF \E k \in KeycloakIds : account[k] = row.email
     THEN Finish(p) /\ UNCHANGED avars
     ELSE \E k \in KeycloakIds \ ever :
            /\ account' = [account EXCEPT ![k] = row.email]
            /\ ever' = ever \cup {k}
            /\ Become(p, [pc |-> "create_row", row |-> row, keycloakId |-> k])
            /\ UNCHANGED <<rows, outside, raced>>

\* The sign-in that register retries afterwards changes nothing.
CreateRow(p) ==
  LET h == handler[p] IN
  /\ In(p, "create_row")
  /\ InsertRow(p, [kind |-> h.row.kind, keycloakId |-> h.keycloakId, email |-> h.row.email,
                brand |-> h.row.brand, cafe |-> h.row.cafe, deleted |-> FALSE])

-----------------------------------------------------------------------------
(* Sign-in, and the events of Keycloak.                                       *)

\* login, and a REGISTER or UPDATE_PROFILE event: the account as Keycloak has it.
SyncReads(p, k) ==
  /\ Idle(p) /\ HasAccount(k)
  /\ BeginRequest(p, [pc |-> "find_user", keycloakId |-> k, email |-> account[k]])

FindUser(p) ==
  LET h == handler[p]
      Found == LiveUsers(h.keycloakId)
  IN /\ In(p, "find_user")
     /\ \/ Found = {} /\ ReadRows(p, [h EXCEPT !.pc = "create_user"])
        \/ \E i \in Found :
             ReadRows(p, IF rows[i].email = h.email THEN NoRequest ELSE [pc |-> "email", row |-> i, email |-> h.email])

CreateUserRow(p) ==
  /\ In(p, "create_user")
  /\ InsertRow(p, [kind |-> "USER", keycloakId |-> handler[p].keycloakId, email |-> handler[p].email,
                brand |-> "", cafe |-> "", deleted |-> FALSE])

updateEmail(p) ==
  /\ In(p, "email")
  /\ rows' = [rows EXCEPT ![handler[p].row].email = handler[p].email]
  /\ Finish(p)
  /\ UNCHANGED <<account, ever, outside, raced>>

\* The accounts that loginLookup offers: one user, and every worker.
Offers(k) == {LiveWorkers(k) \cup (IF u = 0 THEN {} ELSE {u}) :
                u \in IF LiveUsers(k) = {} THEN {0} ELSE LiveUsers(k)}

\* loginSelect and refreshToken: the row they answer with.
loginSelect(k, i) ==
  {j \in DOMAIN rows \cap {i} : IsUser(j) \/ (j \in LiveRows /\ rows[j].keycloakId = k)}
refreshToken(k) == IF LiveUsers(k) # {} THEN LiveUsers(k) ELSE LiveWorkers(k)

\* getMe: the row that was selected; without one, the only row there is.
getMe(k, selected) ==
  IF selected # 0
  THEN IF /\ selected \in DOMAIN rows /\ rows[selected].keycloakId = k
          /\ IsUser(selected) \/ selected \in LiveRows
       THEN {selected} ELSE {}
  ELSE {i \in LiveWorkers(k) \cup LiveUsers(k) :
          Cardinality(LiveWorkers(k)) + (IF LiveUsers(k) = {} THEN 0 ELSE 1) = 1}

-----------------------------------------------------------------------------
(* Changes and deletions.                                                     *)

\* A worker is updated by itself, by an administrator of its brand or by the
\* system's; only the last, through updateById, has its cafe and brand looked up.
UpdateBegins(p, by, i, new) ==
  /\ Idle(p) /\ by \in LiveRows /\ ~IsUser(by) /\ ~IsUser(i)
  /\ \/ by = i
     \/ rows[by].kind = "SYSTEM_ADMIN"
     \/ rows[by].kind = "BRAND_ADMIN" /\ rows[i].brand = rows[by].brand
  /\ BeginRequest(p, [pc |-> "update_worker", row |-> i, new |-> new])

\* The cafe's administrator changes a worker's email, unknown to Keycloak.
UpdateEmailBegins(p, i, email) ==
  /\ Idle(p) /\ i \in LiveRows /\ rows[i].cafe # ""
  /\ email = rows[i].email \/ ~\E j \in LiveRows : ~IsUser(j) /\ rows[j].email = email
  /\ BeginRequest(p, [pc |-> "update_worker", row |-> i, new |-> [email |-> email]])

UpdateWorker(p) ==
  LET h == handler[p] IN
  /\ In(p, "update_worker")
  /\ rows' = [rows EXCEPT ![h.row] = [f \in DOMAIN @ |-> IF f \in DOMAIN h.new THEN h.new[f] ELSE @[f]]]
  /\ Finish(p)
  /\ UNCHANGED <<account, ever, outside, raced>>

\* A user or worker deletes itself, or an administrator a worker: the account goes first.
DeleteBegins(p, by, i) ==
  /\ Idle(p) /\ by \in LiveRows
  /\ \/ by = i
     \/ /\ ~IsUser(by) /\ ~IsUser(i)
        /\ \/ rows[by].kind = "SYSTEM_ADMIN" /\ rows[i].kind # "SYSTEM_ADMIN"
           \/ rows[by].kind = "BRAND_ADMIN" /\ rows[i].brand = rows[by].brand
  /\ BeginRequest(p, [pc |-> "delete_account", row |-> i])

\* Keycloak's deleteUser throws when there is no such account, or it fails.
deleteUser(p) ==
  LET k == rows[handler[p].row].keycloakId IN
  /\ In(p, "delete_account")
  /\ \/ /\ HasAccount(k)
        /\ account' = [account EXCEPT ![k] = ""]
        /\ Become(p, [handler[p] EXCEPT !.pc = "soft_delete"])
        /\ UNCHANGED <<rows, ever, outside, raced>>
     \/ Finish(p) /\ UNCHANGED avars

softDelete(p) ==
  /\ In(p, "soft_delete")
  /\ rows' = [rows EXCEPT ![handler[p].row].deleted = TRUE]
  /\ Finish(p)
  /\ UNCHANGED <<account, ever, outside, raced>>

\* deleteAdmin deletes the row of a user and leaves the account.
deleteAdmin(p, i) ==
  /\ Idle(p) /\ IsUser(i)
  /\ BeginRequest(p, [pc |-> "soft_delete", row |-> i])

\* deleteWorker of the cafe's administrator: the row goes first, whatever Keycloak says then.
CafeDeleteBegins(p, i) ==
  /\ Idle(p) /\ i \in LiveRows /\ rows[i].cafe # ""
  /\ BeginRequest(p, [pc |-> "cafe_delete", row |-> i])

CafeDelete(p) ==
  /\ In(p, "cafe_delete")
  /\ rows' = [rows EXCEPT ![handler[p].row].deleted = TRUE]
  /\ Become(p, [handler[p] EXCEPT !.pc = "deactivate"])
  /\ UNCHANGED <<account, ever, outside, raced>>

Deactivate(p) ==
  LET k == rows[handler[p].row].keycloakId IN
  /\ In(p, "deactivate")
  /\ account' \in {account, [account EXCEPT ![k] = ""]}
  /\ Finish(p)
  /\ UNCHANGED <<rows, ever, outside, raced>>

-----------------------------------------------------------------------------
(* Keycloak by itself.                                                        *)

KeycloakRegisters(k, email) ==
  /\ k \notin ever /\ \A other \in KeycloakIds : account[other] # email
  /\ account' = [account EXCEPT ![k] = email]
  /\ ever' = ever \cup {k} /\ outside' = outside \cup {k}
  /\ UNCHANGED <<rows, raced, rvars>>

KeycloakRenames(k, email) ==
  /\ HasAccount(k) /\ \A other \in KeycloakIds : account[other] # email
  /\ account' = [account EXCEPT ![k] = email]
  /\ UNCHANGED <<rows, ever, outside, raced, rvars>>

\* A DELETE event is only logged.
KeycloakDeletes(k) ==
  /\ HasAccount(k)
  /\ account' = [account EXCEPT ![k] = ""]
  /\ outside' = outside \cup {k}
  /\ UNCHANGED <<rows, ever, raced, rvars>>

-----------------------------------------------------------------------------
NewRows == [kind : {"USER"}, email : Emails, brand : {""}, cafe : {""}]
             \cup [kind : WorkerRoles, email : Emails, brand : Owners \cup {""}, cafe : CafeIds \cup {""}]
Changes == [kind : WorkerRoles] \cup [cafe : CafeIds] \cup [brand : Owners, cafe : CafeIds]

RegisterRequest(p) ==
  \/ \E row \in NewRows : RegisterBegins(p, row)
  \/ \E cafe \in CafeIds, email \in Emails : inviteWorker(p, cafe, email)
  \/ CheckRows(p) \/ createUser(p) \/ CreateRow(p)

LoginRequest(p) ==
  \/ \E k \in KeycloakIds : SyncReads(p, k)
  \/ FindUser(p) \/ CreateUserRow(p) \/ updateEmail(p)

AdminRequest(p) ==
  \/ \E by, i \in DOMAIN rows, new \in Changes : UpdateBegins(p, by, i, new)
  \/ \E i \in DOMAIN rows, email \in Emails : UpdateEmailBegins(p, i, email)
  \/ UpdateWorker(p)

DeleteRequest(p) ==
  \/ \E by, i \in DOMAIN rows : DeleteBegins(p, by, i)
  \/ \E i \in DOMAIN rows : deleteAdmin(p, i) \/ CafeDeleteBegins(p, i)
  \/ deleteUser(p) \/ softDelete(p) \/ CafeDelete(p) \/ Deactivate(p)

KeycloakStep(k) ==
  \/ \E email \in Emails : KeycloakRegisters(k, email) \/ KeycloakRenames(k, email)
  \/ KeycloakDeletes(k)

AccountsNext ==
  \/ \E p \in Procs : RegisterRequest(p) \/ LoginRequest(p) \/ AdminRequest(p) \/ DeleteRequest(p)
  \/ \E k \in KeycloakIds : KeycloakStep(k)
  \/ \E p \in Procs : Dies(p) /\ UNCHANGED avars

AccountsSpec == AccountsInit /\ RequestsInit /\ [][AccountsNext]_<<avars, rvars>>
=============================================================================
