--------------------------- MODULE MCTwilioContent ---------------------------
(***************************************************************************)
(* Instances of TwilioContent: a menu, the same menu under another title   *)
(* with a button that is too long, and a list of two rows in another order. *)
(***************************************************************************)
EXTENDS TwilioContent, Sequences

Short(name) == [fits |-> name, beyond |-> Nothing]
Long(name)  == [fits |-> name, beyond |-> "more"]

Menu ==
  [title |-> "Menu", footer |-> "", body |-> "Choose", button |-> Short("Options"),
   rows |-> <<[id |-> "a", title |-> Short("Soup")], [id |-> "b", title |-> Long("Salad")]>>]

Promo == [Menu EXCEPT !.title = "Promo", !.button = Long("Options")]

Swapped == [Menu EXCEPT !.rows = <<Menu.rows[2], Menu.rows[1]>>]

MCLists == {Menu, Promo, Swapped}
=============================================================================
