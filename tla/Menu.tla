-------------------------------- MODULE Menu --------------------------------
(* The menu of a cafe (menu.service.ts): categories and items that are hidden  *)
(* and never deleted, edited one by one or replaced by a document, and the     *)
(* export of such a document in two reads.                                    *)
EXTENDS Requests, FiniteSetsExt

CONSTANTS
  Categories, Items, \* keys, unique in the cafe
  Prices,
  MenuNames, \* trimmed names, "" for a blank one
  MenuDocuments \* documents that were not exported from here

\* A document's entries have names, its items prices, and the keys of their categories.
ASSUME MenuAssumption ==
  /\ Categories # {} /\ Prices # {} /\ MenuNames \ {""} # {}
  /\ \A menu \in MenuDocuments :
       /\ \A k \in DOMAIN menu.categories : menu.categories[k].name \in MenuNames
       /\ \A i \in DOMAIN menu.items :
            /\ menu.items[i].categoryKey \in Categories
            /\ menu.items[i].price \in Prices /\ menu.items[i].name \in MenuNames

VARIABLES
  category, \* cafe_menu_categories
  item,     \* cafe_menu_items
  exported, \* the last export, and the menu when its items were read
  restored  \* whether the last write was a replacement by that export

mvars == <<category, item, exported, restored>>

MenuStatus == {"none", "on", "off"}
Category == [status : MenuStatus, name : MenuNames]
Item == [status : MenuStatus, category : Categories, price : Prices, name : MenuNames]
Shown(isActive) == IF isActive THEN "on" ELSE "off"

\* mapMenu of one category: its active items, with what the guest reads of them.
MenuOf(categories, items, k) ==
  [category |-> k, name |-> categories[k].name,
   items |-> {[item |-> i, name |-> items[i].name, price |-> items[i].price] :
                i \in {j \in Items : items[j].status = "on" /\ items[j].category = k}}]

\* getPublicMenu: the active categories.
getPublicMenu(categories, items) ==
  {MenuOf(categories, items, k) : k \in {c \in Categories : categories[c].status = "on"}}

NoExport == [menu |-> [categories |-> << >>, items |-> << >>], public |-> {}, whole |-> FALSE]

MenuInit ==
  LET name == CHOOSE n \in MenuNames \ {""} : TRUE IN
  /\ category = [k \in Categories |-> [status |-> "none", name |-> name]]
  /\ item = [i \in Items |-> [status |-> "none", category |-> CHOOSE k \in Categories : TRUE,
                             price |-> CHOOSE price \in Prices : TRUE, name |-> name]]
  /\ exported = NoExport /\ restored = FALSE

\* An export that has read the categories and not yet the items is torn by a write.
Tear == handler' = [p \in Procs |-> IF In(p, "export") THEN [handler[p] EXCEPT !.whole = FALSE] ELSE handler[p]]

Edit(categories, items) ==
  /\ category' = categories /\ item' = items
  /\ restored' = FALSE
  /\ Tear
  /\ UNCHANGED <<exported, faults>>

-----------------------------------------------------------------------------
(* What importMenu takes of a document: not the entries with a blank name.     *)

categoriesIn(menu) == {k \in DOMAIN menu.categories : menu.categories[k].name # ""}
itemsIn(menu) == {i \in DOMAIN menu.items : menu.items[i].name # ""}

ImportedItem(entry) ==
  [status |-> Shown(entry.isActive), category |-> entry.categoryKey, price |-> entry.price, name |-> entry.name]

-----------------------------------------------------------------------------
(* Mutants.                                                                  *)

\* What the document does not hold is hidden by its category only.
AfterImportKeepsItems(mode, menu) ==
  [i \in Items |-> IF i \in itemsIn(menu) THEN ImportedItem(menu.items[i]) ELSE item[i]]

-----------------------------------------------------------------------------
(* Categories.                                                               *)

\* Roles and cafes aside (assertAdminAccessToCafe), a key in use and a blank name are refused.
createCategory(k, isActive, name) ==
  /\ category[k].status = "none"
  /\ name # ""
  /\ Edit([category EXCEPT ![k] = [status |-> Shown(isActive), name |-> name]], item)

\* Whatever the name.
updateCategory(k, isActive, name) ==
  /\ category[k].status # "none"
  /\ Edit([category EXCEPT ![k] = [status |-> Shown(isActive), name |-> name]], item)

\* Its items are hidden with it; showing it again does not show them.
deleteCategory(k) ==
  /\ category[k].status # "none"
  /\ Edit([category EXCEPT ![k].status = "off"],
          [i \in Items |-> IF item[i].status # "none" /\ item[i].category = k
                           THEN [item[i] EXCEPT !.status = "off"] ELSE item[i]])

-----------------------------------------------------------------------------
(* Items: a category that is hidden may be given items.                       *)

EditItem(i, k, price, isActive, name) ==
  /\ category[k].status # "none"
  /\ Edit(category, [item EXCEPT ![i] = [status |-> Shown(isActive), category |-> k,
                                        price |-> price, name |-> name]])

createItem(i, k, price, isActive, name) ==
  /\ item[i].status = "none"
  /\ name # ""
  /\ EditItem(i, k, price, isActive, name)

\* Whatever the name.
updateItem(i, k, price, isActive, name) ==
  /\ item[i].status # "none"
  /\ EditItem(i, k, price, isActive, name)

deleteItem(i) ==
  /\ item[i].status # "none"
  /\ Edit(category, [item EXCEPT ![i].status = "off"])

-----------------------------------------------------------------------------
(* exportMenu: two reads.                                                     *)

exportCategories(p) ==
  /\ Idle(p)
  /\ Become(p, [pc |-> "export", whole |-> TRUE,
                categories |-> [k \in {c \in Categories : category[c].status # "none"} |->
                  [name |-> category[k].name, isActive |-> category[k].status = "on"]]])
  /\ UNCHANGED mvars

exportItems(p) ==
  /\ In(p, "export")
  /\ exported' =
       [menu |-> [categories |-> handler[p].categories,
                  items |-> [i \in {j \in Items : item[j].status # "none"} |->
                    [categoryKey |-> item[i].category, price |-> item[i].price,
                     name |-> item[i].name, isActive |-> item[i].status = "on"]]],
        public |-> getPublicMenu(category, item),
        whole |-> handler[p].whole]
  /\ restored' = FALSE
  /\ Finish(p)
  /\ UNCHANGED <<category, item>>

-----------------------------------------------------------------------------
(* importMenu: one transaction, whose statements lock what they write.        *)

AfterImport(mode, menu) ==
  [i \in Items |->
     IF i \in itemsIn(menu) THEN ImportedItem(menu.items[i])
     ELSE IF mode = "replace" /\ item[i].status # "none" THEN [item[i] EXCEPT !.status = "off"] ELSE item[i]]

CategoriesAfterImport(mode, menu) ==
  [k \in Categories |->
     IF k \in categoriesIn(menu)
     THEN [status |-> Shown(menu.categories[k].isActive), name |-> menu.categories[k].name]
     ELSE IF mode = "replace" /\ category[k].status # "none" THEN [category[k] EXCEPT !.status = "off"] ELSE category[k]]

\* An item of a category that neither the document nor the cafe has undoes it all.
importMenu(mode, menu) ==
  LET categories == CategoriesAfterImport(mode, menu) IN
  /\ \A i \in itemsIn(menu) : categories[menu.items[i].categoryKey].status # "none"
  /\ category' = categories
  /\ item' = AfterImport(mode, menu)
  /\ restored' = (mode = "replace" /\ menu = exported.menu)
  /\ Tear
  /\ UNCHANGED <<exported, faults>>

-----------------------------------------------------------------------------
MenuEdit ==
  \/ \E k \in Categories, isActive \in BOOLEAN, name \in MenuNames :
       createCategory(k, isActive, name) \/ updateCategory(k, isActive, name)
  \/ \E k \in Categories : deleteCategory(k)
  \/ \E i \in Items, k \in Categories, price \in Prices, isActive \in BOOLEAN, name \in MenuNames :
       createItem(i, k, price, isActive, name) \/ updateItem(i, k, price, isActive, name)
  \/ \E i \in Items : deleteItem(i)

MenuDocument ==
  \/ \E p \in Procs : exportCategories(p) \/ exportItems(p)
  \/ \E mode \in {"merge", "replace"}, menu \in {exported.menu} \cup MenuDocuments : importMenu(mode, menu)

MenuNext ==
  \/ MenuEdit
  \/ MenuDocument
  \/ \E p \in Procs : Dies(p) /\ UNCHANGED mvars

MenuSpec == MenuInit /\ RequestsInit /\ [][MenuNext]_<<mvars, rvars>>
=============================================================================
