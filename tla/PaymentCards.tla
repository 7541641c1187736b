---------------------------- MODULE PaymentCards ----------------------------
(* The payment cards of a user (payment-cards.service.ts) and which of them   *)
(* is the default one, over several statements.                               *)
EXTENDS Requests, Sequences

CONSTANTS MaxCards \* bound

ASSUME PaymentCardsAssumption == MaxCards \in Nat

VARIABLES
  card,      \* payment_cards of the user
  cardsRaced \* ghost: two handlers were in flight at once

cvars == <<card, cardsRaced>>

Card == [isDefault : BOOLEAN, isActive : BOOLEAN]

PaymentCardsInit == card = << >> /\ cardsRaced = FALSE

LiveCards == {i \in DOMAIN card : card[i].isActive}

\* findByUserId: the default cards first.
Foremost == {i \in LiveCards : card[i].isDefault \/ \A j \in LiveCards : ~card[j].isDefault}

BeginCard(p, h) ==
  /\ Idle(p)
  /\ Become(p, h)
  /\ cardsRaced' = (cardsRaced \/ \E q \in Procs \ {p} : ~Idle(q))
  /\ UNCHANGED card

Goes(p, h) == Become(p, h) /\ UNCHANGED cardsRaced

-----------------------------------------------------------------------------
\* Mutant: the default card is deleted, and no other takes its place.
DeleteOnly(p) ==
  LET i == handler[p].card IN
  /\ In(p, "card_delete")
  /\ card' = [card EXCEPT ![i].isActive = FALSE]
  /\ Goes(p, NoRequest)

-----------------------------------------------------------------------------
\* A card that is neither expired nor ill-formed; the first one is the default.
addCard(p) == BeginCard(p, [pc |-> "card_insert", isDefault |-> LiveCards = {}])

AddInserts(p) ==
  /\ In(p, "card_insert")
  /\ Len(card) < MaxCards
  /\ card' = Append(card, [isDefault |-> handler[p].isDefault, isActive |-> TRUE])
  /\ Goes(p, NoRequest)

setDefaultCard(p, i) == i \in LiveCards /\ BeginCard(p, [pc |-> "card_clear", card |-> i])

ClearDefaults(p) ==
  /\ In(p, "card_clear")
  /\ card' = [i \in DOMAIN card |-> IF i \in LiveCards THEN [card[i] EXCEPT !.isDefault = FALSE] ELSE card[i]]
  /\ Goes(p, [handler[p] EXCEPT !.pc = "card_set"])

SetDefault(p) ==
  /\ In(p, "card_set")
  /\ card' = [card EXCEPT ![handler[p].card].isDefault = TRUE]
  /\ Goes(p, NoRequest)

deleteCard(p, i) == i \in LiveCards /\ BeginCard(p, [pc |-> "card_delete", card |-> i, wasDefault |-> card[i].isDefault])

DeleteWrites(p) ==
  LET h == handler[p] IN
  /\ In(p, "card_delete")
  /\ card' = [card EXCEPT ![h.card].isActive = FALSE]
  /\ Goes(p, IF h.wasDefault THEN [pc |-> "card_remaining"] ELSE NoRequest)

ReadRemaining(p) ==
  /\ In(p, "card_remaining")
  /\ IF LiveCards = {} THEN Goes(p, NoRequest)
     ELSE \E i \in Foremost : Goes(p, [pc |-> "card_found", card |-> i])
  /\ UNCHANGED card

\* setDefaultCard of the card that was found; it throws if that one is gone by now.
FindAgain(p) ==
  LET i == handler[p].card IN
  /\ In(p, "card_found")
  /\ Goes(p, IF i \in LiveCards THEN [pc |-> "card_clear", card |-> i] ELSE NoRequest)
  /\ UNCHANGED card

-----------------------------------------------------------------------------
CardRequest(p) ==
  \/ addCard(p) \/ AddInserts(p)
  \/ \E i \in DOMAIN card : setDefaultCard(p, i) \/ deleteCard(p, i)
  \/ ClearDefaults(p) \/ SetDefault(p) \/ DeleteWrites(p) \/ ReadRemaining(p) \/ FindAgain(p)

PaymentCardsNext == \E p \in Procs : CardRequest(p) \/ (Dies(p) /\ UNCHANGED cvars)

PaymentCardsSpec == PaymentCardsInit /\ RequestsInit /\ [][PaymentCardsNext]_<<cvars, rvars>>

-----------------------------------------------------------------------------
PaymentCardsTypeOK ==
  /\ \A i \in DOMAIN card : card[i] \in Card
  /\ Len(card) <= MaxCards

\* addCard, setDefaultCard and deleteCard keep the default over several statements:
\* unless one was cut short or met another, a user with cards has one default card
\* whenever none of them is at work, and never two.
OneDefaultCard ==
  ~cardsRaced /\ faults = 0 =>
    LET Defaults == {i \in LiveCards : card[i].isDefault} IN
    /\ \A i, j \in Defaults : i = j
    /\ (\A p \in Procs : Idle(p)) /\ LiveCards # {} => Defaults # {}
=============================================================================
