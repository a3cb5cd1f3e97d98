---------------------------- MODULE LocalityAware ----------------------------
(***************************************************************************)
(* The weight tree of LocalityAwareLoadBalancer (brpc/policy/              *)
(* locality_aware_load_balancer.cpp).  Servers are the nodes of a complete *)
(* binary tree in an array; each position has the sum of the weights in    *)
(* its left subtree.  The array is in DoublyBufferedData: AddServer() and  *)
(* RemoveServer() change the background array, flip, wait for the readers  *)
(* of the old one and change that one too.  Weights, left sums and the     *)
(* total are shared by both arrays and change all the time: a selection or *)
(* a feedback changes one weight under its lock and then adds the          *)
(* difference to the left sums above it, one after the other.              *)
(***************************************************************************)
EXTENDS Integers, FiniteSets, SequencesExt

CONSTANTS Servers, Readers, Weights, WEIGHT_SCALE,
          Confs,       \* [initial, adds, removes, updates, readers]: what happens; servers are added with
                       \* one reader only, or an initial weight may be taken from a total still below 1
          None

VARIABLES conf,
          tree, fg,    \* the two arrays, and which one is in the foreground
          w,           \* Weight: [weight, base, old_index, old_diff, old_weight, alive]
          left, nleft, \* _left_weights and its size
          total,       \* _total
          rd,          \* readers: [pc, buf, todo]
          mod          \* the modifier: [pc, op, id, pass, rm, index, todo, free]

vars == <<conf, tree, fg, w, left, nleft, total, rd, mod>>
MaxN == Cardinality(Servers)
Positions == 0..(MaxN - 1)
Total == -1     \* stands for _total among the positions

NewWeight(weight) == [weight |-> weight, base |-> weight, old_index |-> -1, old_diff |-> 0,
                      old_weight |-> 0, alive |-> TRUE]
NoWeight == [NewWeight(0) EXCEPT !.alive = FALSE]
Parent(i) == (i - 1) \div 2
\* The positions whose left subtree has position i, and UpdateParentWeights(diff, i).
IsLeftChild_Any(i) == TRUE
IsLeftChild(i) == 2 * Parent(i) + 1 = i
LeftParents[i \in 0..MaxN] ==
  IF i = 0 THEN <<>> ELSE (IF IsLeftChild(i) THEN <<Parent(i)>> ELSE <<>>) \o LeftParents[Parent(i)]
Adds(diff, i) == IF diff = 0 THEN <<>> ELSE [k \in DOMAIN LeftParents[i] |-> <<LeftParents[i][k], diff>>]
AddTotal(diff) == IF diff = 0 THEN <<>> ELSE << <<Total, diff>> >>

Size(b) == Len(tree[b])
IdAt(b, i) == tree[b][i + 1]
IndexOf(b, id) == CHOOSE i \in 0..(Size(b) - 1) : IdAt(b, i) = id
Has(b, id) == id \in Range(tree[b])

\* What the left sums have to be: the descendants of k through its left child.
IsUnder[i \in Positions, k \in Positions] == i > k /\ (i = 2 * k + 1 \/ (Parent(i) > k /\ IsUnder[Parent(i), k]))
WeightsAt(S) == FoldFunctionOnSet(+, 0, [i \in Positions |-> IF i < Size(fg) THEN w[IdAt(fg, i)].weight ELSE 0], S)
LeftSum(k) == WeightsAt({i \in Positions : IsUnder[i, k]})

Init == /\ conf \in Confs
        /\ tree = [b \in {0, 1} |-> conf.initial] /\ fg = 0
        /\ w = [id \in Servers |-> IF id \in Range(conf.initial) THEN NewWeight(WEIGHT_SCALE) ELSE NoWeight]
        /\ nleft = Len(conf.initial)
        /\ left = [k \in Positions |-> LeftSum(k)] /\ total = WeightsAt(Positions)
        /\ rd = [r \in Readers |-> [pc |-> "out", buf |-> 0, todo |-> <<>>]]
        /\ mod = [pc |-> "idle", op |-> "none", id |-> None, pass |-> 0, rm |-> 0, index |-> 0,
                  todo |-> <<>>, free |-> FALSE]

\* One fetch_add of UpdateParentWeights() or of _total.
Added(x) == IF x[1] = Total THEN total' = total + x[2] /\ UNCHANGED left
            ELSE left' = [left EXCEPT ![x[1]] = @ + x[2]] /\ UNCHANGED total

------------------------------------------------------------------------------
(* Feedback(), and SelectServer() that reached a node: Update(), AddInflight() *)
(* and MarkFailed() set the weight anew under its lock unless it is disabled.  *)
Read(r) == /\ rd[r].pc = "out" /\ r \in conf.readers /\ conf.updates > 0
           /\ conf' = [conf EXCEPT !.updates = @ - 1] /\ rd' = [rd EXCEPT ![r].pc = "in", ![r].buf = fg]
           /\ UNCHANGED <<tree, fg, w, left, nleft, total, mod>>
RemembersDiff_Never(x, i) == FALSE
RemembersDiff(x, i) == x.old_index = i
ResetWeight(x, i, new) == [x EXCEPT !.weight = new, !.base = new,
                                    !.old_diff = IF RemembersDiff(x, i) THEN @ + new - x.weight ELSE @]
Disabled_Never(x) == FALSE
Disabled(x) == x.base < 0
Update(r, i) == /\ rd[r].pc = "in" /\ i < Size(rd[r].buf) /\ UNCHANGED <<conf, tree, fg, left, nleft, total, mod>>
                /\ LET id == IdAt(rd[r].buf, i) IN
                   IF Disabled(w[id]) THEN rd' = [rd EXCEPT ![r].pc = "adding"] /\ UNCHANGED w
                   ELSE \E new \in Weights : LET diff == new - w[id].weight IN
                          /\ w' = [w EXCEPT ![id] = ResetWeight(@, i, new)]
                          /\ rd' = [rd EXCEPT ![r].pc = "adding", ![r].todo = Adds(diff, i) \o AddTotal(diff)]
UpdateParents(r) == /\ rd[r].todo # <<>> /\ Added(Head(rd[r].todo)) /\ rd' = [rd EXCEPT ![r].todo = Tail(@)]
                    /\ UNCHANGED <<conf, tree, fg, w, nleft, mod>>
EndRead(r) == /\ rd[r].pc # "out" /\ rd[r].todo = <<>> /\ (rd[r].pc = "in" => Size(rd[r].buf) = 0)
              /\ rd' = [rd EXCEPT ![r].pc = "out"] /\ UNCHANGED <<conf, tree, fg, w, left, nleft, total, mod>>

------------------------------------------------------------------------------
(* AddServer() and RemoveServer(): DoublyBufferedData runs the function on the *)
(* background, flips, waits for the readers and runs it on the other one.      *)
bg == 1 - fg
Modify(op, id) ==
  /\ mod.pc = "idle" /\ mod' = [mod EXCEPT !.pc = op, !.op = op, !.id = id, !.pass = 1]
  /\ \/ op = "add" /\ conf.adds > 0 /\ ~Has(fg, id) /\ conf' = [conf EXCEPT !.adds = @ - 1]
     \/ op = "remove" /\ conf.removes > 0 /\ Has(fg, id) /\ conf' = [conf EXCEPT !.removes = @ - 1]
  /\ UNCHANGED <<tree, fg, w, left, nleft, total, rd>>
Goto(pc) == mod' = [mod EXCEPT !.pc = pc]
Initial == IF Size(bg) = 0 THEN WEIGHT_SCALE ELSE total \div Size(bg)
\* Add(): a new Weight and left sum in the first array, the second one copies the pointers.
Add == /\ mod.pc = "add" /\ tree' = [tree EXCEPT ![bg] = Append(@, mod.id)] /\ UNCHANGED <<conf, fg, total, rd>>
       /\ IF ~Has(fg, mod.id)
            THEN /\ w' = [w EXCEPT ![mod.id] = NewWeight(Initial)] /\ nleft' = nleft + 1
                 /\ left' = [left EXCEPT ![nleft] = 0]
                 /\ mod' = [mod EXCEPT !.pc = "adding", !.todo = Adds(Initial, Size(bg)) \o AddTotal(Initial)]
            ELSE Goto("adding") /\ UNCHANGED <<w, nleft, left>>
\* Remove(): Disable() the weight and fill its position with the last node; what the weight was
\* tells the first array from the second.
LastIndex == Size(bg) - 1
Disable == /\ mod.pc = "remove" /\ UNCHANGED <<conf, fg, left, nleft, total, rd>>
           /\ LET i == IndexOf(bg, mod.id)
                  rm == w[mod.id].weight IN
              /\ w' = [w EXCEPT ![mod.id].weight = 0, ![mod.id].base = -1]
              /\ tree' = [tree EXCEPT ![bg] = SubSeq([@ EXCEPT ![i + 1] = IdAt(bg, LastIndex)], 1, LastIndex)]
              /\ IF i # LastIndex THEN mod' = [mod EXCEPT !.pc = "move", !.rm = rm, !.index = i]
                 ELSE mod' = [mod EXCEPT !.pc = "adding", !.free = rm = 0,
                                         !.todo = Adds(-rm, i) \o AddTotal(-rm)]
\* The weight of the node that was moved counts at both positions until the second array follows;
\* _old_diff_sum is what changed meanwhile at the old one.
Moved == IdAt(bg, mod.index)
MarkOld == /\ mod.pc = "move" /\ mod.rm # 0 /\ UNCHANGED <<conf, tree, fg, left, nleft, total, rd>>
           /\ LET diff == w[Moved].weight - mod.rm IN
              /\ w' = [w EXCEPT ![Moved].old_weight = w[Moved].weight, ![Moved].old_diff = 0,
                                ![Moved].old_index = Size(bg)]
              /\ mod' = [mod EXCEPT !.pc = "adding", !.todo = Adds(diff, mod.index) \o AddTotal(diff)]
Taken_Old(x) == x.old_weight
Taken(x) == x.old_weight + x.old_diff
ClearOld == /\ mod.pc = "move" /\ mod.rm = 0 /\ UNCHANGED <<conf, tree, fg, left, nleft, total, rd>>
            /\ w' = [w EXCEPT ![Moved].old_weight = 0, ![Moved].old_diff = 0, ![Moved].old_index = -1]
            /\ mod' = [mod EXCEPT !.pc = "adding", !.free = TRUE,
                         !.todo = Adds(w[Moved].old_diff, mod.index) \o Adds(-Taken(w[Moved]), Size(bg))
                                  \o AddTotal(-w[Moved].old_weight)]
ModifyAdds == /\ mod.todo # <<>> /\ Added(Head(mod.todo)) /\ mod' = [mod EXCEPT !.todo = Tail(@)]
              /\ UNCHANGED <<conf, tree, fg, w, nleft, rd>>
\* The end of one pass, the second after all readers of the old foreground are gone.
Freed == IF mod.free THEN nleft' = nleft - 1 /\ w' = [w EXCEPT ![mod.id].alive = FALSE] ELSE UNCHANGED <<nleft, w>>
EndPass == /\ mod.pc = "adding" /\ mod.todo = <<>> /\ Freed /\ UNCHANGED <<conf, tree, left, total, rd>>
           /\ IF mod.pass = 1 THEN fg' = bg /\ mod' = [mod EXCEPT !.pc = "wait", !.free = FALSE, !.pass = 2]
              ELSE mod' = [mod EXCEPT !.pc = "idle", !.free = FALSE] /\ UNCHANGED fg
ReadersGone_NotAll == \E r \in Readers : rd[r].pc = "out"
ReadersGone == \A r \in Readers : rd[r].pc = "out" \/ rd[r].buf = fg
WaitReaders == /\ mod.pc = "wait" /\ ReadersGone /\ Goto(mod.op)
               /\ UNCHANGED <<conf, tree, fg, w, left, nleft, total, rd>>

Modifying == Add \/ Disable \/ MarkOld \/ ClearOld \/ ModifyAdds \/ EndPass \/ WaitReaders
Next == \/ \E r \in Readers : Read(r) \/ (\E i \in Positions : Update(r, i)) \/ UpdateParents(r) \/ EndRead(r)
        \/ \E op \in {"add", "remove"}, id \in Servers : Modify(op, id)
        \/ Modifying
Spec == Init /\ [][Next]_vars

------------------------------------------------------------------------------
(* SelectServer(): which position the dice leads to.                           *)
GoesLeft_AtMost(dice, l) == dice <= l
GoesLeft(dice, l) == dice < l
Walk[dice \in Int, i \in Nat] ==
  IF i >= Size(fg) THEN None
  ELSE IF GoesLeft(dice, left[i]) THEN Walk[dice, 2 * i + 1]
  ELSE IF dice < left[i] + w[IdAt(fg, i)].weight THEN IdAt(fg, i)
  ELSE Walk[dice - left[i] - w[IdAt(fg, i)].weight, 2 * i + 2]

\* Every variable has its type.
TypeOK == /\ fg \in {0, 1} /\ nleft \in 0..MaxN /\ total \in Int /\ left \in [Positions -> Int]
          /\ \A b \in {0, 1} : Len(tree[b]) <= MaxN /\ Range(tree[b]) \subseteq Servers

\* What a reader or the modifier has still to add to position k.
PendingOf(todo, k) == FoldSeq(LAMBDA x, sum : IF x[1] = k THEN sum + x[2] ELSE sum, 0, todo)
Pending(k) == FoldFunction(+, 0, [r \in Readers |-> PendingOf(rd[r].todo, k)])
\* While no server is added or removed, every left sum and the total are exact but for what the
\* readers have still to add: no change is lost or counted twice when a node moves.
SumsExact == mod.pc = "idle" => /\ total + Pending(Total) = WeightsAt(Positions)
                                /\ \A k \in 0..(Size(fg) - 1) : left[k] + Pending(k) = LeftSum(k)

\* Nobody uses the weight or the left sum of a server after they were freed; both arrays fit in
\* the left sums.
NotFreed == /\ \A b \in {fg} \cup {rd[r].buf : r \in {r \in Readers : rd[r].pc # "out"}} :
                 Size(b) <= nleft /\ \A id \in Range(tree[b]) : w[id].alive
            /\ mod.pc = "idle" => nleft = Size(fg)

\* At rest, a server is selected for as many values of the dice as its weight.
Quiet == mod.pc = "idle" /\ \A r \in Readers : rd[r].todo = <<>>
Proportional == Quiet => \A id \in Range(tree[fg]) :
                  Cardinality({dice \in 0..(total - 1) : Walk[dice, 0] = id}) = w[id].weight
==============================================================================
