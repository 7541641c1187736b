------------------------------- MODULE Guests -------------------------------
(* Guests of the network and their loyalty tiers (guests.service.ts,          *)
(* loyalty.service.ts): a phone is verified, then a card is issued, then the   *)
(* guest is active and has a tier.  Handlers read, check, and write later.    *)
EXTENDS Requests, FiniteSetsExt

CONSTANTS
  GuestIds, Tiers, DefaultTier,
  Phones, Cards,
  WrittenPhones, normalizeGuestPhone, \* ways to write them, and what each is normalized to
  Clients, ClientPhone, \* users of the app, and their phones
  Nothing,              \* no phone, card, tier, user
  MaxCodes              \* bound

ASSUME GuestsAssumption ==
  /\ DefaultTier \in Tiers /\ MaxCodes \in Nat
  /\ Nothing \notin Phones \cup Cards \cup Tiers \cup Clients \cup GuestIds
  /\ ClientPhone \in [Clients -> Phones \cup {Nothing}]
  /\ Phones \subseteq WrittenPhones
  /\ normalizeGuestPhone \in [WrittenPhones -> Phones]
  /\ \A phone \in Phones : normalizeGuestPhone[phone] = phone

VARIABLES
  guest,    \* network_guests
  tier,     \* loyalty_tiers
  history,  \* loyalty_tier_history
  codes,    \* how many codes were sent
  loose     \* tiers switched off, or given to guests when off, without a migration

gvars == <<guest, tier, history, codes, loose>>

GuestStatus == {"NONE", "DRAFT", "ACTIVE", "REFUSED"}
Guest == [status : GuestStatus, phone : Phones \cup {Nothing}, phoneVerified : BOOLEAN,
          code : 0..MaxCodes, expired : BOOLEAN, accessCardNumber : Cards \cup {Nothing},
          loyaltyTierId : Tiers \cup {Nothing}, userId : Clients \cup {Nothing}]
NoGuest == [status |-> "NONE", phone |-> Nothing, phoneVerified |-> FALSE, code |-> 0,
            expired |-> FALSE, accessCardNumber |-> Nothing, loyaltyTierId |-> Nothing, userId |-> Nothing]

Tier == [isActive : BOOLEAN, bonusPercent : {1, 2}, locked : BOOLEAN]

GuestsInit ==
  /\ guest = [g \in GuestIds |-> NoGuest]
  /\ tier = [t \in Tiers |-> [isActive |-> TRUE, bonusPercent |-> 1, locked |-> FALSE]]
  /\ history = {} /\ codes = 0 /\ loose = {}

IsGuest(g) == guest[g].status # "NONE"

\* A tier that is off when a handler writes it.
Late(t) == {t} \ {u \in Tiers : tier[u].isActive}

getDefaultTier == tier[DefaultTier].isActive \* otherwise it throws

\* What a handler goes on with of the guest it has read.
Seen(g) == [status |-> guest[g].status, loyaltyTierId |-> guest[g].loyaltyTierId]

\* The unique columns: phone, accessCardNumber and userId.
Violates(g, row) ==
  \E other \in GuestIds \ {g} : \E f \in {"phone", "accessCardNumber", "userId"} :
    row[f] # Nothing /\ guest[other][f] = row[f]

With(row, new) == [f \in DOMAIN row |-> IF f \in DOMAIN new THEN new[f] ELSE row[f]]

\* An update by id: it throws, and changes nothing, if a unique column forbids it.
Update(g, new) ==
  guest' = IF Violates(g, With(guest[g], new)) THEN guest ELSE [guest EXCEPT ![g] = With(@, new)]

-----------------------------------------------------------------------------
(* Mutants.                                                                  *)

\* A guest who was refused is made active too.
StatusForAll(seen) == "ACTIVE"

\* The guests of the tier are left where they are.
DeactivateAlone(p) ==
  LET h == handler[p] IN
  /\ In(p, "tier_deactivate")
  /\ tier' = [tier EXCEPT ![h.tier].isActive = FALSE]
  /\ loose' = (loose \ {h.tier}) \cup (IF h.target = h.tier THEN {h.tier} ELSE Late(h.target))
  /\ Finish(p)
  /\ UNCHANGED <<guest, history, codes>>

-----------------------------------------------------------------------------
(* create, and ensureGuestForUser with linkUserByPhone.                      *)

create(p, g, written) ==
  LET phone == normalizeGuestPhone[written] IN
  /\ Idle(p)
  /\ guest[g] = NoGuest
  /\ \A other \in GuestIds : guest[other].phone # phone
  /\ getDefaultTier
  /\ Become(p, [pc |-> "guest_insert", guest |-> g,
                row |-> [NoGuest EXCEPT !.status = "DRAFT", !.phone = phone, !.loyaltyTierId = DefaultTier]])
  /\ UNCHANGED gvars

\* A row that another insert has taken meanwhile is another guest's.
GuestInsert(p) ==
  LET h == handler[p] IN
  /\ In(p, "guest_insert")
  /\ guest[h.guest] = NoGuest
  /\ guest' = IF Violates(h.guest, h.row) THEN guest ELSE [guest EXCEPT ![h.guest] = h.row]
  /\ loose' = loose \cup Late(DefaultTier)
  /\ Finish(p)
  /\ UNCHANGED <<tier, history, codes>>

ensureGuestForUser(p, u) ==
  /\ Idle(p)
  /\ \A g \in GuestIds : guest[g].userId # u
  /\ Become(p, [pc |-> "link", user |-> u])
  /\ UNCHANGED gvars

\* A guest linked to another user is returned as it is.
linkUserByPhone(p) ==
  LET u == handler[p].user
      phone == ClientPhone[u]
  IN /\ In(p, "link")
     /\ \/ \E g \in GuestIds :
             /\ phone # Nothing /\ guest[g].phone = phone
             /\ IF guest[g].userId = Nothing
                THEN Become(p, [pc |-> "guest_update", by |-> "link", guest |-> g, seen |-> Seen(g),
                                   new |-> [userId |-> u], activate |-> FALSE])
                ELSE Finish(p)
        \/ /\ phone = Nothing \/ \A g \in GuestIds : guest[g].phone # phone
           /\ IF getDefaultTier
              THEN \E g \in GuestIds :
                     /\ guest[g] = NoGuest
                     /\ Become(p, [pc |-> "guest_insert", guest |-> g,
                          row |-> [NoGuest EXCEPT !.status = "ACTIVE", !.phone = phone, !.userId = u,
                                                  !.phoneVerified = TRUE, !.loyaltyTierId = DefaultTier]])
              ELSE Finish(p)
     /\ UNCHANGED gvars

-----------------------------------------------------------------------------
(* update: another phone, or the same one written otherwise, must be         *)
(* verified again; a card needs a verified phone.                            *)

UpdateRead(p, g, written, card, status) ==
  LET old == guest[g]
      moves == written # Nothing /\ written # old.phone
      becomes == CASE status # Nothing -> status
                   [] card # Nothing /\ ~moves -> "ACTIVE"
                   [] moves /\ old.status = "ACTIVE" -> "DRAFT"
                   [] OTHER -> old.status
      fields == (IF moves THEN {"phone", "phoneVerified", "code"} ELSE {})
                   \cup (IF card # Nothing THEN {"accessCardNumber"} ELSE {})
                   \cup (IF status # Nothing \/ (card # Nothing /\ ~moves) \/ (moves /\ old.status = "ACTIVE")
                         THEN {"status"} ELSE {})
  IN /\ Idle(p)
     /\ IsGuest(g)
     /\ moves => \A other \in GuestIds \ {g} : guest[other].phone # normalizeGuestPhone[written]
     /\ card # Nothing =>
          /\ old.phoneVerified
          /\ \A other \in GuestIds \ {g} : guest[other].accessCardNumber # card
     /\ Become(p, [pc |-> "guest_update", by |-> "update", guest |-> g, seen |-> Seen(g), activate |-> card # Nothing,
                   new |-> [f \in fields |->
                     CASE f = "phone" -> normalizeGuestPhone[written] [] f = "phoneVerified" -> FALSE [] f = "code" -> 0
                       [] f = "accessCardNumber" -> card [] f = "status" -> becomes]])
     /\ UNCHANGED gvars

GuestWrite(p) ==
  LET h == handler[p] IN
  /\ In(p, "guest_update")
  /\ Update(h.guest, h.new)
  /\ IF h.activate /\ ~Violates(h.guest, With(guest[h.guest], h.new))
     THEN Become(p, [pc |-> "activate", guest |-> h.guest])
     ELSE Finish(p)
  /\ UNCHANGED <<tier, history, codes, loose>>

-----------------------------------------------------------------------------
(* requestPhoneVerify, the ten minutes of a code, confirmPhoneVerify.        *)

requestPhoneVerify(g) ==
  /\ IsGuest(g)
  /\ codes < MaxCodes
  /\ codes' = codes + 1
  /\ guest' = [guest EXCEPT ![g].code = codes + 1, ![g].expired = FALSE]
  /\ UNCHANGED <<tier, history, loose, rvars>>

CodeExpires(g) ==
  /\ guest[g].code # 0 /\ ~guest[g].expired
  /\ guest' = [guest EXCEPT ![g].expired = TRUE]
  /\ UNCHANGED <<tier, history, codes, loose, rvars>>

confirmPhoneVerify(p, g, code) ==
  LET old == guest[g] IN
  /\ Idle(p)
  /\ IsGuest(g)
  /\ old.code # 0 /\ ~old.expired /\ old.code = code
  /\ Become(p, [pc |-> "guest_update", by |-> "confirm", guest |-> g, seen |-> Seen(g), activate |-> TRUE,
                new |-> [phoneVerified |-> TRUE, code |-> 0,
                         status |-> IF old.accessCardNumber # Nothing /\ old.status # "REFUSED"
                                    THEN "ACTIVE" ELSE old.status]])
  /\ UNCHANGED gvars

-----------------------------------------------------------------------------
(* applyLoyaltyActivationAfterScud: two reads, then a transaction.            *)

\* The status to write for the guest it has read.
StatusAfterScud(seen) == IF seen.status # "REFUSED" THEN "ACTIVE" ELSE seen.status

ActivateRead(p) ==
  LET seen == guest[handler[p].guest] IN
  /\ In(p, "activate")
  /\ IF seen.phoneVerified /\ seen.accessCardNumber # Nothing /\ getDefaultTier
     THEN Become(p, [pc |-> "activation", by |-> "activation", guest |-> handler[p].guest, seen |-> Seen(handler[p].guest),
                     new |-> [status |-> StatusAfterScud(seen),
                              loyaltyTierId |-> IF seen.loyaltyTierId = Nothing THEN DefaultTier
                                                ELSE seen.loyaltyTierId]])
     ELSE Finish(p)
  /\ UNCHANGED gvars

\* The first activation of a guest is written to the history.
ActivateCommit(p) ==
  LET h == handler[p] IN
  /\ In(p, "activation")
  /\ guest' = [guest EXCEPT ![h.guest] = With(@, h.new)]
  /\ history' = IF \E row \in history : row.guest = h.guest /\ row.reason = "SCUD"
                THEN history
                ELSE history \cup {[guest |-> h.guest, from |-> h.seen.loyaltyTierId,
                                    to |-> h.new.loyaltyTierId, reason |-> "SCUD"]}
  /\ loose' = loose \cup Late(h.new.loyaltyTierId)
  /\ Finish(p)
  /\ UNCHANGED <<tier, codes>>

-----------------------------------------------------------------------------
(* refuseGuest and restoreGuest.                                             *)

refuseGuest(p, g) ==
  /\ Idle(p)
  /\ guest[g].status = "ACTIVE"
  /\ Become(p, [pc |-> "guest_update", by |-> "refuse", guest |-> g, seen |-> Seen(g),
                new |-> [status |-> "REFUSED"], activate |-> FALSE])
  /\ UNCHANGED gvars

restoreGuest(p, g) ==
  /\ Idle(p)
  /\ guest[g].status = "REFUSED"
  /\ Become(p, [pc |-> "guest_update", by |-> "restore", guest |-> g, seen |-> Seen(g), activate |-> FALSE,
                new |-> [status |-> IF guest[g].phoneVerified /\ guest[g].accessCardNumber # Nothing
                                    THEN "ACTIVE" ELSE "DRAFT"]])
  /\ UNCHANGED gvars

-----------------------------------------------------------------------------
(* LoyaltyService: updateTier, deactivateTier, changeGuestTier.              *)

updateTierRead(p, t, percent, status) ==
  /\ Idle(p)
  /\ percent # tier[t].bonusPercent => ~tier[t].locked
  /\ Become(p, [pc |-> "tier_update", tier |-> t, percent |-> percent,
                locks |-> percent # tier[t].bonusPercent, status |-> status])
  /\ UNCHANGED gvars

updateTierWrite(p) ==
  LET h == handler[p] IN
  /\ In(p, "tier_update")
  /\ tier' = [tier EXCEPT ![h.tier] =
       [isActive |-> IF h.status = Nothing THEN @.isActive ELSE h.status,
        bonusPercent |-> h.percent,
        locked |-> @.locked \/ h.locks]]
  /\ loose' = IF h.status = FALSE THEN loose \cup {h.tier} ELSE loose
  /\ Finish(p)
  /\ UNCHANGED <<guest, history, codes>>

CooldownEnds(t) ==
  /\ tier[t].locked
  /\ tier' = [tier EXCEPT ![t].locked = FALSE]
  /\ UNCHANGED <<guest, history, codes, loose, rvars>>

\* Nothing forbids to move the guests to the very tier.
deactivateTierRead(p, t, target) ==
  /\ Idle(p)
  /\ t # DefaultTier
  /\ tier[target].isActive
  /\ Become(p, [pc |-> "tier_deactivate", tier |-> t, target |-> target])
  /\ UNCHANGED gvars

deactivateTierCommit(p) ==
  LET h == handler[p] IN
  /\ In(p, "tier_deactivate")
  /\ guest' = [g \in GuestIds |-> IF guest[g].loyaltyTierId = h.tier
                                  THEN [guest[g] EXCEPT !.loyaltyTierId = h.target] ELSE guest[g]]
  /\ tier' = [tier EXCEPT ![h.tier].isActive = FALSE]
  /\ loose' = (loose \ {h.tier}) \cup (IF h.target = h.tier THEN {h.tier} ELSE Late(h.target))
  /\ Finish(p)
  /\ UNCHANGED <<history, codes>>

changeGuestTierRead(p, g, t) ==
  /\ Idle(p)
  /\ IsGuest(g) /\ tier[t].isActive
  /\ Become(p, [pc |-> "tier_change", guest |-> g, tier |-> t, from |-> guest[g].loyaltyTierId])
  /\ UNCHANGED gvars

changeGuestTierCommit(p) ==
  LET h == handler[p] IN
  /\ In(p, "tier_change")
  /\ guest' = [guest EXCEPT ![h.guest].loyaltyTierId = h.tier]
  /\ history' = history \cup {[guest |-> h.guest, from |-> h.from, to |-> h.tier, reason |-> "STAFF"]}
  /\ loose' = loose \cup Late(h.tier)
  /\ Finish(p)
  /\ UNCHANGED <<tier, codes>>

-----------------------------------------------------------------------------
GuestRequest(p) ==
  \/ \E g \in GuestIds, written \in WrittenPhones : create(p, g, written)
  \/ \E g \in GuestIds, written \in WrittenPhones \cup {Nothing}, card \in Cards \cup {Nothing} :
       \E status \in {Nothing, "DRAFT", "ACTIVE", "REFUSED"} : UpdateRead(p, g, written, card, status)
  \/ \E g \in GuestIds, code \in 1..MaxCodes : confirmPhoneVerify(p, g, code)
  \/ \E g \in GuestIds : refuseGuest(p, g) \/ restoreGuest(p, g)
  \/ \E u \in Clients : ensureGuestForUser(p, u)

TierRequest(p) ==
  \/ \E t \in Tiers, percent \in {1, 2}, status \in {Nothing, TRUE, FALSE} : updateTierRead(p, t, percent, status)
  \/ \E t \in Tiers, target \in Tiers : deactivateTierRead(p, t, target)
  \/ \E g \in GuestIds, t \in Tiers : changeGuestTierRead(p, g, t)

GuestContinue(p) ==
  \/ GuestInsert(p) \/ linkUserByPhone(p) \/ GuestWrite(p)
  \/ ActivateRead(p) \/ ActivateCommit(p)
  \/ updateTierWrite(p) \/ deactivateTierCommit(p) \/ changeGuestTierCommit(p)

GuestsNext ==
  \/ \E p \in Procs : GuestRequest(p) \/ TierRequest(p) \/ GuestContinue(p)
  \/ \E g \in GuestIds : requestPhoneVerify(g) \/ CodeExpires(g)
  \/ \E t \in Tiers : CooldownEnds(t)
  \/ \E p \in Procs : Dies(p) /\ UNCHANGED gvars

GuestsSpec == GuestsInit /\ RequestsInit /\ [][GuestsNext]_<<gvars, rvars>>
=============================================================================
