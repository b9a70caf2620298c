----------------------------- MODULE MCInventory -----------------------------
(* Small instances of Inventory. *)
EXTENDS Inventory, TLC
CONSTANTS s1, s2, s3, reserve1, reserve2, confirm1, release1

MCTopic == [w \in Workers |->
              CASE w = confirm1 -> "confirm_stock"
                [] w = release1 -> "release_stock"
                [] OTHER        -> "reserve_stock"]
\* The settlements of one saga may both be asked for, every command for it
\* once more; the others compete for the stock and the lock.
MCCommands == [type : {"reserve_stock", "confirm_stock", "release_stock"},
               saga : {s1}, copy : 1..2]
       \union [type : {"reserve_stock"}, saga : Sagas, copy : {1}]
\* One saga orders two pieces, the others one each.
MCQuantity == [s \in Sagas |-> IF s = s1 THEN 2 ELSE 1]

\* Every saga may have to ask again after each mishap.
MCRepeated == [type : {"reserve_stock"}, saga : Sagas, copy : 1..3]
       \union [type : {"release_stock"}, saga : {s1}, copy : {1}]

Once(kinds) == [k \in Kinds |-> IF k \in kinds THEN 1 ELSE 0]
\* A mishap of any kind, or of any two kinds.
Singles == {Once({k}) : k \in Kinds}
Pairs == {Once(two) : two \in {T \in SUBSET Kinds : Cardinality(T) = 2}}

Symmetry == Permutations(Sagas \ {s1})
       \union Permutations(Workers \ {confirm1, release1})
=============================================================================
