--------------------------- MODULE MenuProperties ---------------------------
(* What Menu must guarantee.                                                 *)
EXTENDS Menu

MenuTypeOK ==
  /\ category \in [Categories -> Category]
  /\ item \in [Items -> Item]
  /\ \A i \in Items : item[i].status # "none" => category[item[i].category].status # "none"

\* The part of a menu whose names are not blank.
Named(public) ==
  {[shown EXCEPT !.items = {entry \in shown.items : entry.name # ""}] : shown \in {c \in public : c.name # ""}}

\* exportMenu keeps the hidden rows and importMenu hides what the document lacks:
\* whatever was created, hidden, renamed, moved or priced in between, importing an
\* export in "replace" mode shows the guests the menu of the moment of the export,
\* when no edit fell between the export's two reads, but for the entries whose
\* names are blank: updateCategory and updateItem let an entry be renamed to
\* blanks, exportMenu writes it down, and importMenu leaves it out and hides it.
ExportRestoresTheMenu ==
  restored /\ exported.whole => getPublicMenu(category, item) = Named(exported.public)
=============================================================================
