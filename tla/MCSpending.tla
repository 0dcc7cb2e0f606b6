----------------------------- MODULE MCSpending -----------------------------
(* Small instances of Spending for TLC.                                    *)
EXTENDS Spending, TLC

Shape(m, a, n, c, t) == [method |-> m, acc |-> a, amount |-> n, count |-> c, text |-> t]

CONSTANT a1

EditShapes == {Shape("direct", a1, 2, 1, 1), Shape("direct", a1, 2, 1, 2),
               Shape("card", None, 3, 2, 1), Shape("card", None, 1, 2, 1)}
PlanShapes == {Shape("card", None, 4, 1, 1)}

CONSTANTS k1, k2, k3, k4

Scene(old, kinds, keys, shapes, amounts, switched, server, insts) ==
  [old |-> old, kinds |-> kinds, keys |-> keys, shapes |-> shapes, amounts |-> amounts,
   switched |-> switched, server |-> server, insts |-> insts]

Edits == {"create", "update", "void"}
Edit(old, switched) == Scene(old, Edits, {k1}, EditShapes, {}, switched, 3, 4)

AllScenes ==
  "nothing" :> Edit(<<>>, {Card})
  @@ "cash" :> Edit(<<k1>>, {a1, Card})
  @@ "apart" :> Scene(<<>>, {"create", "void"}, {k1}, EditShapes, {}, {a1}, 3, 4)
  @@ "paid" :> Scene(<<k1>>, {"update", "void", "pay", "reopen"}, {k3}, PlanShapes,
                     {1}, {}, 1, 3)
  @@ "two" :> Scene(<<k1, k2>>, {"pay", "bulk", "reopen"}, {k3, k4}, {}, {1, 3}, {}, 1, 2)

Symmetry == Permutations(Workers)
=============================================================================
