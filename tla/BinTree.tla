------------------------------ MODULE BinTree ------------------------------
(***************************************************************************)
(* The splay trees of contrib/lub/bintree, that hold the commands of views *)
(* and the free blocks and segments of heaps.  Every operation begins by   *)
(* turning the tree round until the node looked for, or one next to where  *)
(* it would be, is its root; even a search changes the tree.               *)
(*                                                                         *)
(* A tree is its root and the links of all nodes, those of the nodes in no *)
(* tree being NIL, as lub_bintree_node_init leaves them.                   *)
(***************************************************************************)
EXTENDS Integers, FiniteSets

CONSTANTS
  TreeNode,   \* the nodes of clients
  KeyOf,      \* the key of each node
  SearchKey,  \* the keys that are searched for
  NIL,        \* a NULL pointer
  N           \* the local node of lub_bintree_splay

ASSUME BinTreeAssumption ==
  /\ IsFiniteSet(TreeNode) /\ NIL \notin TreeNode /\ N \notin TreeNode /\ N # NIL
  /\ KeyOf \in [TreeNode -> Int] /\ SearchKey \subseteq Int

Side == {"left", "right"}

Other(side) == IF side = "left" THEN "right" ELSE "left"

lub_bintree_node_init == [side \in Side |-> [n \in TreeNode \cup {N} |-> NIL]]

Tree(root, link) == [root |-> root, link |-> link]

(* What the compare function says of each node and a key: 1, 0 or -1 as the node's
   key is greater, the same or less. *)
lub_bintree_compare(key) ==
  [n \in TreeNode |-> IF KeyOf[n] > key THEN 1 ELSE IF KeyOf[n] < key THEN -1 ELSE 0]

(* What it says while the first or the last node is looked for. *)
compareleft == [n \in TreeNode |-> 1]
compareright == [n \in TreeNode |-> -1]
-----------------------------------------------------------------------------
(* The way down of lub_bintree_splay: t is where it stands, and spine[side] the node
   that has the next subtree put on that side of it. *)

(* A child on the same side of the key is turned into the place of t. *)
Rotated(comp, s, side) ==
  LET y == s.link[side][s.t] IN
  IF y # NIL /\ comp[y] = comp[s.t]
  THEN [s EXCEPT !.link[side][s.t] = s.link[Other(side)][y],
                 !.link[Other(side)][y] = s.t,
                 !.t = y]
  ELSE s

(* t and what is beyond it is put on the spine of that side, and its child is next. *)
Linked(s, side) ==
  [s EXCEPT !.link[side][s.spine[side]] = s.t,
            !.spine[side] = s.t,
            !.t = s.link[side][s.t]]

RECURSIVE Down(_, _)
Down(comp, s) ==
  IF comp[s.t] = 0 THEN s
  ELSE LET side == IF comp[s.t] > 0 THEN "left" ELSE "right"
           r    == Rotated(comp, s, side)
       IN  IF r.link[side][r.t] = NIL THEN r ELSE Down(comp, Linked(r, side))

(* What is left of t's children is put on the spines, and the spines become them. *)
Assembled(s) ==
  LET link == [s.link EXCEPT !["right"][s.spine["right"]] = s.link["left"][s.t],
                             !["left"][s.spine["left"]]   = s.link["right"][s.t]]
  IN  Tree(s.t, [link EXCEPT !["left"][s.t]  = link["right"][N],
                             !["right"][s.t] = link["left"][N],
                             !["left"][N]    = NIL,
                             !["right"][N]   = NIL])

lub_bintree_splay(link, t, comp) ==
  IF t = NIL THEN Tree(NIL, link)
  ELSE Assembled(Down(comp, [link |-> link, t |-> t, spine |-> [side \in Side |-> N]]))
-----------------------------------------------------------------------------
(* The operations.  Each returns the tree and what it was asked for. *)

Result(tree, node) == [tree |-> tree, node |-> node]

lub_bintree_find(tree, key) ==
  LET new == lub_bintree_splay(tree.link, tree.root, lub_bintree_compare(key))
  IN  Result(new, IF new.root # NIL /\ KeyOf[new.root] = key THEN new.root ELSE NIL)

(* The root is the node wanted, or the first of the subtree on that side is. *)
Beside(tree, key, side, passed) ==
  LET comp == lub_bintree_compare(key)
      new  == lub_bintree_splay(tree.link, tree.root, comp)
      sub  == lub_bintree_splay(new.link, new.link[side][new.root], comp)
  IN  IF new.root = NIL THEN Result(new, NIL)
      ELSE IF comp[new.root] \in passed
      THEN Result(Tree(new.root, [sub.link EXCEPT ![side][new.root] = sub.root]), sub.root)
      ELSE Result(new, new.root)

lub_bintree_findnext(tree, key) == Beside(tree, key, "right", {-1, 0})
lub_bintree_findprevious(tree, key) == Beside(tree, key, "left", {0, 1})

lub_bintree_findfirst(tree) ==
  LET new == lub_bintree_splay(tree.link, tree.root, compareleft) IN Result(new, new.root)

lub_bintree_findlast(tree) ==
  LET new == lub_bintree_splay(tree.link, tree.root, compareright) IN Result(new, new.root)

(* A node whose key is in the tree is not put into it. *)
lub_bintree_insert(tree, node) ==
  LET comp == lub_bintree_compare(KeyOf[node])
      new  == lub_bintree_splay(tree.link, tree.root, comp)
      side == IF comp[new.root] > 0 THEN "left" ELSE "right"
  IN  IF tree.root = NIL THEN Result(Tree(node, tree.link), node)
      ELSE IF comp[new.root] = 0 THEN Result(new, NIL)
      ELSE Result(Tree(node, [new.link EXCEPT ![side][node] = new.link[side][new.root],
                                              ![Other(side)][node] = new.root,
                                              ![side][new.root] = NIL]), node)

(* Mutant: what was to the left of a node removed keeps its root. *)
Left_unsplayed(new, key) == Tree(new.link["left"][new.root], new.link)

(* What was to the left of the root has its last node made its root. *)
Left(new, key) == lub_bintree_splay(new.link, new.link["left"][new.root],
                                    lub_bintree_compare(key))

(* The node is in the tree. *)
lub_bintree_remove(tree, node) ==
  LET key  == KeyOf[node]
      new  == lub_bintree_splay(tree.link, tree.root, lub_bintree_compare(key))
      x    == Left(new, key)
      bare(link) == [side \in Side |-> [link[side] EXCEPT ![node] = NIL]]
  IN  IF new.link["left"][new.root] = NIL
      THEN Result(Tree(new.link["right"][new.root], bare(new.link)), node)
      ELSE Result(Tree(x.root, bare([x.link EXCEPT !["right"][x.root]
                                                     = new.link["right"][new.root]])), node)
-----------------------------------------------------------------------------
(* Properties. *)

(* The search tree of a node above two others. *)
Above(node, less, more) ==
  Tree(node, [side \in Side |-> [n \in TreeNode \cup {N} |->
    CASE n = N    -> NIL
      [] n = node -> IF side = "left" THEN less.root ELSE more.root
      [] OTHER    -> IF KeyOf[n] < KeyOf[node] THEN less.link[side][n] ELSE more.link[side][n]]])

(* Every search tree of some nodes. *)
RECURSIVE SearchTrees(_)
SearchTrees(nodes) ==
  IF nodes = {} THEN {Tree(NIL, lub_bintree_node_init)}
  ELSE UNION { LET less == {m \in nodes : KeyOf[m] < KeyOf[n]}
               IN  {Above(n, l, r) : l \in SearchTrees(less),
                                     r \in SearchTrees(nodes \ (less \cup {n}))} : n \in nodes }

(* The node of some with the least or the greatest key, NIL if there is none. *)
Least(nodes) == IF nodes = {} THEN NIL ELSE CHOOSE n \in nodes : \A m \in nodes : KeyOf[n] <= KeyOf[m]
Most(nodes) == IF nodes = {} THEN NIL ELSE CHOOSE n \in nodes : \A m \in nodes : KeyOf[n] >= KeyOf[m]

(* A tree of any shape is after any operation a search tree of the nodes it should
   hold, each once and none lost, and the operation finds what a set in the order of
   the keys would give: so an iteration, that takes each time the node after the last
   key, meets every node once, whatever is inserted, removed or looked for between its
   steps (lub_bintree_iterator_next). *)
EveryTreeIsASet ==
  LET Distinct == {nodes \in SUBSET TreeNode :
                     \A m, n \in nodes : KeyOf[m] = KeyOf[n] => m = n}
      trees == [nodes \in Distinct |-> SearchTrees(nodes)]
      Is(r, nodes, node) == r.tree \in trees[nodes] /\ r.node = node
  IN  \A nodes \in Distinct : \A tree \in trees[nodes] :
        /\ Is(lub_bintree_findfirst(tree), nodes, Least(nodes))
        /\ Is(lub_bintree_findlast(tree), nodes, Most(nodes))
        /\ \A key \in SearchKey :
             /\ Is(lub_bintree_find(tree, key), nodes, Least({n \in nodes : KeyOf[n] = key}))
             /\ Is(lub_bintree_findnext(tree, key), nodes, Least({n \in nodes : KeyOf[n] > key}))
             /\ Is(lub_bintree_findprevious(tree, key), nodes, Most({n \in nodes : KeyOf[n] < key}))
        /\ \A n \in TreeNode \ nodes :
             IF nodes \cup {n} \in Distinct
             THEN Is(lub_bintree_insert(tree, n), nodes \cup {n}, n)
             ELSE Is(lub_bintree_insert(tree, n), nodes, NIL)
        /\ \A n \in nodes : Is(lub_bintree_remove(tree, n), nodes \ {n}, n)
=============================================================================
