----------------------------- MODULE MCNetwork -----------------------------
(* Instances of the modules of the network of cafes for TLC: they share no   *)
(* state but the slots of the handlers, so each is explored on its own; focus *)
(* says which.                                                               *)
EXTENDS BrandsProperties, GuestsProperties, MenuProperties, AccountsProperties

CONSTANTS b1, b2, root, a1, p1, p2, g1, g2, u1, bronze, silver, k0, k1, k2, nothing

MCAdminOf == [w \in Admins \ {root} |-> IF w = a1 THEN b1 ELSE b2]

MCClientPhone == [u \in Clients |-> "phone"]
MCNormalized == [written \in WrittenPhones |-> IF written = "8phone" THEN "phone" ELSE written]

\* A menu of another cafe, and one whose item has a category it does not hold.
MCDocuments ==
  {[categories |-> [c \in {"drinks"} |-> [name |-> "name", isActive |-> TRUE]],
    items |-> [i \in {"tea"} |-> [categoryKey |-> k, price |-> 1, name |-> "name", isActive |-> TRUE]]] :
      k \in {"drinks", "food"}}

VARIABLE focus

MCInit ==
  /\ RequestsInit
  /\ BrandsInit /\ GuestsInit /\ MenuInit /\ AccountsInit
  /\ focus \in {"documents", "pictures", "cafes", "guests", "tiers", "menu", "accounts", "workers"}

\* One brand's documents, one brand's pictures, or two brands and their cafe.
BrandsFocus ==
  \/ /\ focus = "documents"
     /\ cafe' = << >> /\ pictures' = 0 /\ faults' = 0
     /\ brand'[b2] = NoBrand
     /\ \A p \in Procs : handler'[p].pc = "brand_write" => "status" \in DOMAIN handler'[p].new
     /\ brand'[b1].settings = NoBrand.settings
     /\ handler'[p2].pc # "brand_write" /\ handler'[p1].pc \notin {"document_verify", "document_insert"}
  \/ /\ focus = "pictures"
     /\ document' = << >> /\ cafe' = << >>
     /\ brand'[b2] = NoBrand
     /\ \A p \in Procs : handler'[p].pc # "document_store"
     /\ handler'[p2].pc = "brand_write" => handler[p2].pc = "picture_store"
     /\ handler'[p1].pc = "brand_write" => "status" \notin DOMAIN handler'[p1].new
  \/ /\ focus = "cafes"
     /\ pictures' = 0
     /\ Len(document') <= 1 /\ faults' = 0
     /\ handler'[p2].pc # "brand_write"
     /\ \A b \in BrandIds : brand'[b].settings = NoBrand.settings
     /\ \A p \in Procs : handler'[p].pc \notin {"document_unstore", "picture_store", "picture_delete"}
     /\ \A p \in Procs : "type" \in DOMAIN handler'[p] => handler'[p].type = "license" /\ handler'[p].brand = b1

\* One guest's phone and card: one clerk verifies, the other edits and refuses; or a guest and the tiers.
GuestsFocus ==
  /\ guest'[g2] = NoGuest /\ faults' = faults
  /\ \/ /\ focus = "guests"
        /\ tier' = tier
        /\ \A g \in GuestIds : guest'[g].userId = Nothing
        /\ handler'[p1].pc \notin {"tier_update", "tier_change", "tier_deactivate", "link"}
        /\ handler'[p2].pc \notin {"tier_update", "tier_change", "tier_deactivate", "link", "guest_insert"}
        /\ handler'[p1].pc = "guest_insert" => handler'[p1].row.phone = "phone"
        /\ handler'[p1].pc = "guest_update" => handler'[p1].by = "confirm"
        /\ handler'[p2].pc = "guest_update" => handler'[p2].by # "confirm"
        /\ handler'[p2].pc = "guest_update" /\ handler'[p2].by = "update" =>
             Cardinality(DOMAIN handler'[p2].new \ {"phone", "phoneVerified", "code"}) <= 2
     \/ /\ focus = "tiers"
        /\ codes' = 0 /\ Cardinality(history') <= 1
        /\ \A p \in Procs : handler'[p].pc = "guest_update" => handler'[p].by = "link"
        /\ \A p \in Procs : handler'[p].pc = "guest_insert" => handler'[p].row.phone = "phone"
        /\ \A p \in Procs : handler'[p].pc = "tier_update" =>
             IF handler'[p].tier = bronze THEN handler'[p].status = Nothing ELSE ~handler'[p].locks

MCCafeBrand == [c \in {"cafe"} |-> b1]

\* One person that registers, signs in and leaves; or workers and their administrators.
AccountsFocus ==
  \/ /\ focus = "accounts"
     /\ account'[k2] = "" /\ account'[k0] = account[k0] /\ rows'[1] = rows[1]
     /\ \A i \in DOMAIN rows' \ {1} : rows'[i].kind = "USER"
     /\ \A p \in Procs : handler'[p].pc \in {"check_rows", "create_account"} => handler'[p].row.kind = "USER"
     /\ \A p \in Procs : handler'[p].pc = "find_user" => handler'[p].keycloakId # Root
     /\ \A p \in Procs : handler'[p].pc \in {"delete_account", "soft_delete"} => handler'[p].row # 1
     /\ handler'[p2].pc \in {"idle", "find_user", "create_user", "email"}
     /\ account'[k1] # "root@" /\ faults' = 1 => outside' = {}
  \/ /\ focus = "workers"
     /\ outside' = {} /\ faults' = 0 /\ account'[k0] # "" /\ Cardinality(ever') <= 2
     /\ \A k \in KeycloakIds : account'[k] \in {account[k], "", "x@"}
     /\ \A i \in DOMAIN rows' \ {1} : rows'[i].email # "root@" /\ rows'[i].kind \notin {"SYSTEM_ADMIN", "CAFE_ADMIN"}
     /\ handler'[p2] = NoRequest
     /\ handler'[p1].pc = "find_user" => handler'[p1].keycloakId # Root
     /\ handler'[p1].pc = "update_worker" =>
          handler'[p1].row = 2 /\ handler'[p1].new \in {[email |-> "x@"], [email |-> "y@"], [kind |-> "BRAND_ADMIN"], [cafe |-> "cafe"]}
     /\ handler'[p1].pc = "check_rows" => (handler'[p1].row.brand # "" <=> handler'[p1].row.kind = "BRAND_ADMIN")
     /\ handler'[p1].pc = "check_rows" => (handler'[p1].row.cafe # "" <=> handler'[p1].row.kind = "WORKER")
     /\ Len(rows') = 3 => rows'[3].kind \in {"USER", "WORKER"}

\* One editor exports once, whatever it edits before, during and after. Food keeps its name, and tea
\* has one price while its name is blank; food is not there when an export that was torn is taken.
MenuFocus ==
  /\ focus = "menu" /\ faults' = faults
  /\ handler'[p2] = NoRequest
  /\ exported # NoExport => handler'[p1] = NoRequest
  /\ category'["food"].name = "name" /\ item'["tea"].price = 2 => item'["tea"].name = "name"
  /\ exported' # NoExport /\ ~exported'.whole => category'["food"].status = "none"

MCNext ==
  /\ UNCHANGED focus
  /\ \/ BrandsNext /\ BrandsFocus /\ UNCHANGED <<gvars, mvars, avars>>
     \/ GuestsNext /\ GuestsFocus /\ UNCHANGED <<bvars, mvars, avars>>
     \/ MenuNext /\ MenuFocus /\ UNCHANGED <<bvars, gvars, avars>>
     \/ AccountsNext /\ AccountsFocus /\ UNCHANGED <<bvars, gvars, mvars>>

NetworkSpec == MCInit /\ [][MCNext]_<<bvars, gvars, mvars, avars, rvars, focus>>

NetworkTypeOK == BrandsTypeOK /\ GuestsTypeOK /\ MenuTypeOK /\ AccountsTypeOK
=============================================================================
