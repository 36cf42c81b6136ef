------------------------- MODULE PurchaseReceivingMC -------------------------
(***************************************************************************)
(* Instances of PurchaseReceiving for TLC: an order of two lines, the      *)
(* first one in crates of two units.                                       *)
(***************************************************************************)
EXTENDS PurchaseReceiving, TLC

CONSTANTS l1, l2, x1, x2, r1, r2, v1, v2, u1, c1, k1

MCLines == {l1, l2}
MCOrdered == (l1 :> 2) @@ (l2 :> 1)

Note(lines, products, unmatched, review) ==
  [accepted |-> (l1 :> lines[1]) @@ (l2 :> lines[2]),
   entering |-> (x1 :> products[1]) @@ (x2 :> products[2]),
   unmatched |-> unmatched, review |-> review]

\* The first line, the second one with another product in place of its own,
\* everything, everything refused.
MCPlain == {Note(<<2, 0>>, <<4, 0>>, 0, FALSE), Note(<<0, 1>>, <<1, 0>>, 0, FALSE),
            Note(<<2, 1>>, <<4, 1>>, 0, FALSE), Note(<<0, 0>>, <<0, 0>>, 0, FALSE)}

\* Also a short delivery, an excess, a product that was not ordered, a line still
\* to be reviewed, an unknown article.
MCNotes ==
  MCPlain \union {Note(<<1, 0>>, <<2, 0>>, 0, FALSE), Note(<<1, 2>>, <<2, 2>>, 0, FALSE),
                 Note(<<0, 0>>, <<0, 1>>, 0, FALSE), Note(<<1, 0>>, <<2, 0>>, 0, TRUE),
                 Note(<<0, 0>>, <<0, 0>>, 1, FALSE)}

MCSymmetry == Permutations(Receipts) \union Permutations(Validations)
===============================================================================
