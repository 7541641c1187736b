-------------------------- MODULE GuestsProperties --------------------------
(* What Guests must guarantee.                                               *)
EXTENDS Guests

GuestsTypeOK ==
  /\ guest \in [GuestIds -> {NoGuest} \cup Guest]
  /\ tier \in [Tiers -> Tier]
  /\ history \subseteq [guest : GuestIds, from : Tiers \cup {Nothing}, to : Tiers, reason : {"SCUD", "STAFF"}]
  /\ codes \in 0..MaxCodes /\ loose \subseteq Tiers

\* deactivateTier moves the guests of a tier to an active one before it switches
\* the tier off, and every handler that gives a tier checks it: no guest is left
\* in a tier that is off, unless updateTier switched it off or a handler wrote it
\* while it was being switched off.
GuestTierIsActive ==
  \A g \in GuestIds :
    LET t == guest[g].loyaltyTierId IN t # Nothing => tier[t].isActive \/ t \in loose

\* A refusal is undone only by restoreGuest, by an update that names a status or
\* hands out a card, or by a handler that had read the guest before it: neither a
\* verified phone nor applyLoyaltyActivationAfterScud brings a refused guest back.
RefusalSticks ==
  [][\A g \in GuestIds : guest[g].status = "REFUSED" /\ guest'[g].status # "REFUSED" =>
       \E p \in Procs :
         /\ handler[p].pc \in {"guest_update", "activation"} /\ handler[p].guest = g
         /\ \/ handler[p].by = "restore"
            \/ handler[p].by = "update" /\ "status" \in DOMAIN handler[p].new
            \/ handler[p].seen.status # "REFUSED"]_<<gvars, rvars>>
=============================================================================
