------------------------------ MODULE SplitTree ------------------------------
(***************************************************************************)
(* The split layout as a tree (SplitNode of workspace-store.ts): a leaf    *)
(* shows a pane, a row or a column shows its children side by side.  Node  *)
(* ids and sizes are left out: a leaf is found by its pane.                *)
(*                                                                         *)
(* The functions that walk a tree are functions on the nodes of bounded    *)
(* depth.                                                                  *)
(***************************************************************************)
EXTENDS Integers, SequencesExt

CONSTANT MaxDepth   \* bound: splits within splits

ASSUME DepthAssumption == MaxDepth \in Nat

Leaf(p)          == [type |-> "leaf", paneId |-> p]
Split(dir, kids) == [type |-> dir, children |-> kids]

Leaves    == [type : {"leaf"}, paneId : Nat]
Splits(S) == [type : {"row", "column"}, children : Seq(S)]

\* The nodes with at most d splits above a leaf.
NodesTo[d \in 0..MaxDepth] ==
    Leaves \cup IF d = 0 THEN {} ELSE Splits(NodesTo[d - 1])

Node == NodesTo[MaxDepth]

Zones == {"left", "right", "top", "bottom"}
Direction(zone) == IF zone \in {"left", "right"} THEN "row" ELSE "column"

CollectPaneIds(root) ==
    LET ids[node \in Node] ==
            IF node.type = "leaf" THEN <<node.paneId>>
            ELSE FlattenSeq([i \in DOMAIN node.children |-> ids[node.children[i]]])
    IN  ids[root]

\* Splices a child that splits the same way into its parent, and replaces a
\* split with one child by the child.
Spliced(dir, kids) ==
    LET flat == FlattenSeq([i \in DOMAIN kids |->
                    IF kids[i].type = dir /\ kids[i].children # <<>>
                    THEN kids[i].children ELSE <<kids[i]>>])
    IN  IF Len(flat) = 1 THEN flat[1] ELSE Split(dir, flat)

CleanupTree(root) ==
    LET clean[node \in Node] ==
            IF node.type = "leaf" \/ node.children = <<>> THEN node
            ELSE Spliced(node.type,
                         [i \in DOMAIN node.children |-> clean[node.children[i]]])
    IN  clean[root]

RemoveLeaf(root, p) ==
    LET without[node \in Node] ==
            IF node.type = "leaf" THEN node
            ELSE CleanupTree(Split(node.type,
                     FlattenSeq([i \in DOMAIN node.children |->
                         IF node.children[i] = Leaf(p) THEN <<>>
                         ELSE <<without[node.children[i]]>>])))
    IN  without[root]

\* Variant: only a drop on the left edge puts the new pane first.
InsertAtLeafLeftOnly(root, target, new, zone) ==
    LET with[node \in Node] ==
            IF node = Leaf(target)
            THEN Split(Direction(zone), IF zone = "left"
                                        THEN <<Leaf(new), node>> ELSE <<node, Leaf(new)>>)
            ELSE IF node.type = "leaf" THEN node
            ELSE CleanupTree(Split(node.type,
                     [i \in DOMAIN node.children |-> with[node.children[i]]]))
    IN  with[root]

InsertAtLeaf(root, target, new, zone) ==
    LET with[node \in Node] ==
            IF node = Leaf(target)
            THEN Split(Direction(zone), IF zone \in {"left", "top"}
                                        THEN <<Leaf(new), node>> ELSE <<node, Leaf(new)>>)
            ELSE IF node.type = "leaf" THEN node
            ELSE CleanupTree(Split(node.type,
                     [i \in DOMAIN node.children |-> with[node.children[i]]]))
    IN  with[root]

\* Every split has at least two children and none that splits the same way.
NormalForm(root) ==
    LET normal[node \in Node] ==
            \/ node.type = "leaf"
            \/ /\ Len(node.children) >= 2
               /\ \A i \in DOMAIN node.children :
                     /\ node.children[i].type # node.type
                     /\ normal[node.children[i]]
    IN  normal[root]

=============================================================================
