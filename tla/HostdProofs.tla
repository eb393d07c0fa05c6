------------------------------- MODULE HostdProofs -------------------------------
(* Proofs about the components of choosh-hostd that keep their state in its      *)
(* process and on its disk, a section for each.                                  *)
EXTENDS Workspaces, Reauth, HostLink, SequenceTheorems, TLAPS

-------------------------------------------------------------------------------
(* The workspace registry, for every number of calls and restarts.           *)

CreateLabels == Working \cup {"releasing"}
TabLabels == {"tabbing", "tabbed"}
ItemLabels == TabLabels \cup {"itemReleasing"}
Labels == CreateLabels \cup ItemLabels \cup {"idle", "stopping", "closed", "done"}

IsList(s) == \E S : s \in Seq(S)
AreNamed(is) == \A i \in DOMAIN is : {"ws", "name"} \subseteq DOMAIN is[i]

(* The shape of the state, as far as names go.                                    *)
Shape ==
    /\ pc \in [Requests -> Labels]
    /\ DOMAIN arg = Requests
    /\ \A r \in Requests : pc[r] \in Working => "name" \in DOMAIN arg[r]
    /\ IsList(workspaces) /\ IsList(disk.workspaces)
    /\ AreNamed(items) /\ AreNamed(disk.items)

(* From its reservation to its release a create call owns its name, and until it  *)
(* registers it nobody has.                                                       *)
NamesOwned ==
    /\ \A r \in Requests : pc[r] \in CreateLabels => arg[r].name \in reservedNames
    /\ \A r, q \in Requests :
          r # q /\ pc[r] \in CreateLabels /\ pc[q] \in CreateLabels => arg[r].name # arg[q].name
    /\ \A r \in Requests : pc[r] \in Working => ~NameTaken(arg[r].name)

ItemOf(r) == <<arg[r].ws, arg[r].name>>

(* So does an item.create with the item's name in its workspace.                  *)
ItemsOwned ==
    /\ \A r \in Requests : pc[r] \in ItemLabels => ItemOf(r) \in reservedItems
    /\ \A r, q \in Requests :
          r # q /\ pc[r] \in ItemLabels /\ pc[q] \in ItemLabels => ItemOf(r) # ItemOf(q)
    /\ \A r \in Requests : pc[r] \in TabLabels => ~ItemNamed(arg[r].ws, arg[r].name)

OwnedInv == Shape /\ NamesOwned /\ ItemsOwned

(* Only request r moves.                                                          *)
Only(r) ==
    /\ pc' \in [Requests -> Labels] /\ DOMAIN arg' = Requests
    /\ \A q \in Requests \ {r} : pc'[q] = pc[q] /\ arg'[q] = arg[q]

(* Request r takes no name and gives none back.                                   *)
NoName(r) ==
    /\ UNCHANGED <<workspaces, reservedNames>>
    /\ pc'[r] \in CreateLabels => pc[r] \in CreateLabels /\ arg'[r].name = arg[r].name
    /\ pc'[r] \in Working => pc[r] \in Working

NoItem(r) ==
    /\ UNCHANGED <<items, reservedItems>>
    /\ pc'[r] \in ItemLabels => pc[r] \in ItemLabels /\ arg'[r] = arg[r]
    /\ pc'[r] \in TabLabels => pc[r] \in TabLabels

(* A step that takes no name leaves every owner what it has.                      *)
LEMMA NamesKept ==
    ASSUME Shape, NamesOwned, NEW r \in Requests, Only(r), NoName(r)
    PROVE  NamesOwned'
<1>1. \A q \in Requests : /\ pc'[q] \in CreateLabels => pc[q] \in CreateLabels /\ arg'[q].name = arg[q].name
                          /\ pc'[q] \in Working => pc[q] \in Working
  BY DEF Only, NoName
<1>2. \A q \in Requests : pc'[q] \in Working => ~NameTaken(arg[q].name)'
  BY <1>1 DEF NamesOwned, CreateLabels, NameTaken, NoName
<1> QED
  BY <1>1, <1>2 DEF NamesOwned, NoName

(* Likewise for the names of items.                                               *)
LEMMA ItemsKept ==
    ASSUME Shape, ItemsOwned, NEW r \in Requests, Only(r), NoItem(r)
    PROVE  ItemsOwned'
<1>1. \A q \in Requests : /\ pc'[q] \in ItemLabels => pc[q] \in ItemLabels /\ arg'[q] = arg[q]
                          /\ pc'[q] \in TabLabels => pc[q] \in TabLabels
  BY DEF Only, NoItem
<1>2. \A q \in Requests : pc'[q] \in TabLabels => ~ItemNamed(arg[q].ws, arg[q].name)'
  BY <1>1 DEF ItemsOwned, ItemLabels, ItemNamed, NoItem
<1> QED
  BY <1>1, <1>2 DEF ItemsOwned, NoItem, ItemOf

(* What is saved has the shape of what is in memory.                              *)
LEMMA SaveShape ==
    ASSUME Shape, NEW p, NEW w, NEW i, NEW ok, Save(p, w, i, ok), IsList(w), AreNamed(i)
    PROVE  IsList(disk'.workspaces) /\ AreNamed(disk'.items)
<1>1. disk' = disk \/ disk' = [projects |-> p, workspaces |-> w, items |-> i]
  BY DEF Save, AtomicWrite
<1> QED
  BY <1>1 DEF Shape

(* The steps that neither take nor give back a name.                              *)
LEMMA QuietWorkspaces ==
    ASSUME OwnedInv, NEW r \in Requests, Only(r), NoName(r), NoItem(r),
           pc'[r] \in Working => "name" \in DOMAIN arg'[r],
           UNCHANGED disk \/ \E p, ok : Save(p, workspaces, items, ok)
    PROVE  OwnedInv'
<1>1. IsList(disk'.workspaces) /\ AreNamed(disk'.items)
  BY SaveShape DEF OwnedInv, Shape
<1>2. IsList(workspaces') /\ AreNamed(items')
  BY DEF OwnedInv, Shape, NoName, NoItem
<1>3. Shape'
  BY <1>1, <1>2 DEF OwnedInv, Shape, Only
<1> QED
  BY <1>3, NamesKept, ItemsKept DEF OwnedInv

(* A call moves to a label: it alone does.                                        *)
LEMMA RequestMoves ==
    ASSUME Shape, NEW r \in Requests, NEW l \in Labels, pc' = [pc EXCEPT ![r] = l],
           UNCHANGED arg \/ \E a : arg' = [arg EXCEPT ![r] = a]
    PROVE  Only(r) /\ pc'[r] = l
BY DEF Shape, Only

(* The steps of a create call between its reservation and its registration, and   *)
(* of the calls that only look.                                                   *)
LEMMA CreateQuiet ==
    ASSUME OwnedInv, NEW r \in Requests,
           \/ \E n : RejectName(r, n)
           \/ CloneRepo(r) \/ ColocateRepo(r) \/ FindProject(r) \/ FindParent(r)
           \/ AddAgentWorkspace(r) \/ CreateSession(r)
           \/ \E p, w, saved : SetPrimaryWorkspace(r, p, w, saved)
    PROVE  OwnedInv'
<1> DEFINE Keeps == /\ UNCHANGED <<workspaces, items, reservedNames, reservedItems, disk>>
                    /\ \/ UNCHANGED arg
                       \/ \E root, project : arg' = [arg EXCEPT ![r].root = root, ![r].project = project]
                       \/ \E project : arg' = [arg EXCEPT ![r].project = project]
<1>1. ASSUME pc[r] \in Working, Keeps, NEW l \in Working \cup {"releasing"}, pc' = [pc EXCEPT ![r] = l]
      PROVE  OwnedInv'
  <2>1. /\ DOMAIN arg' = Requests
        /\ \A q \in Requests \ {r} : arg'[q] = arg[q]
        /\ arg'[r].name = arg[r].name /\ "name" \in DOMAIN arg'[r]
    BY <1>1 DEF OwnedInv, Shape
  <2>2. pc' \in [Requests -> Labels] /\ pc'[r] = l /\ \A q \in Requests \ {r} : pc'[q] = pc[q]
    BY <1>1 DEF OwnedInv, Shape, Labels, CreateLabels
  <2>3. Only(r)
    BY <2>1, <2>2 DEF Only
  <2>4. NoName(r)
    BY <1>1, <2>1, <2>2 DEF NoName, CreateLabels, Working
  <2>5. NoItem(r)
    BY <1>1, <2>2 DEF NoItem, ItemLabels, TabLabels, Working
  <2> QED
    BY <1>1, <2>1, <2>3, <2>4, <2>5, QuietWorkspaces
<1>2. ASSUME NEW n, RejectName(r, n) PROVE OwnedInv'
  <2>1. pc' = [pc EXCEPT ![r] = "done"]
        /\ UNCHANGED <<workspaces, items, reservedNames, reservedItems, disk, arg>>
    BY <1>2 DEF RejectName, Answer, Goto, registry, reserved
  <2>2. Only(r) /\ pc'[r] = "done"
    BY <2>1, RequestMoves DEF OwnedInv, Labels
  <2> QED
    BY <2>1, <2>2, QuietWorkspaces DEF NoName, NoItem, CreateLabels, ItemLabels, TabLabels, Working
<1>3. ASSUME NEW p, NEW w, NEW saved, SetPrimaryWorkspace(r, p, w, saved) PROVE OwnedInv'
  <2>1. /\ pc' = [pc EXCEPT ![r] = "done"]
        /\ UNCHANGED <<workspaces, items, reservedNames, reservedItems, arg>>
        /\ UNCHANGED disk \/ \E ps, ok : Save(ps, workspaces, items, ok)
    BY <1>3 DEF SetPrimaryWorkspace, Answer, Goto, reserved
  <2>2. Only(r) /\ pc'[r] = "done"
    BY <2>1, RequestMoves DEF OwnedInv, Labels
  <2> QED
    BY <2>1, <2>2, QuietWorkspaces DEF NoName, NoItem, CreateLabels, ItemLabels, TabLabels, Working
<1>4. CASE CloneRepo(r)
  <2>1. pc[r] \in Working /\ Keeps /\ \E l \in Working \cup {"releasing"} : pc' = [pc EXCEPT ![r] = l]
    BY <1>4 DEF CloneRepo, GiveUp, Made, Answer, Goto, registry, reserved, Working
  <2> QED
    BY <2>1, <1>1
<1>5. CASE ColocateRepo(r)
  <2>1. pc[r] \in Working /\ Keeps /\ \E l \in Working \cup {"releasing"} : pc' = [pc EXCEPT ![r] = l]
    BY <1>5 DEF ColocateRepo, GiveUp, Answer, Goto, registry, reserved, Working
  <2> QED
    BY <2>1, <1>1
<1>6. CASE FindProject(r)
  <2>1. pc[r] \in Working /\ Keeps /\ \E l \in Working \cup {"releasing"} : pc' = [pc EXCEPT ![r] = l]
    BY <1>6 DEF FindProject, Made, Goto, registry, reserved, Working
  <2> QED
    BY <2>1, <1>1
<1>7. CASE FindParent(r)
  <2>1. pc[r] \in Working /\ Keeps /\ \E l \in Working \cup {"releasing"} : pc' = [pc EXCEPT ![r] = l]
    BY <1>7 DEF FindParent, GiveUp, Answer, Goto, registry, reserved, Working
  <2> QED
    BY <2>1, <1>1
<1>8. CASE AddAgentWorkspace(r)
  <2>1. pc[r] \in Working /\ Keeps /\ \E l \in Working \cup {"releasing"} : pc' = [pc EXCEPT ![r] = l]
    BY <1>8 DEF AddAgentWorkspace, GiveUp, Made, Answer, Goto, registry, reserved, Working
  <2> QED
    BY <2>1, <1>1
<1>9. CASE CreateSession(r)
  <2>1. pc[r] \in Working /\ Keeps /\ \E l \in Working \cup {"releasing"} : pc' = [pc EXCEPT ![r] = l]
    BY <1>9 DEF CreateSession, Answer, Goto, registry, reserved, Working
  <2> QED
    BY <2>1, <1>1
<1> QED
  BY <1>2, <1>3, <1>4, <1>5, <1>6, <1>7, <1>8, <1>9

(* A name is reserved by one call at a time, and only while nobody has it.        *)
LEMMA NameReserved ==
    ASSUME OwnedInv, NEW r \in Requests, NEW n, NEW source, ReserveName(r, n, source)
    PROVE  OwnedInv'
<1>1. /\ pc[r] = "idle" /\ pc' = [pc EXCEPT ![r] = "making"]
      /\ arg' = [arg EXCEPT ![r] = [name |-> n, source |-> source, root |-> None, project |-> None]]
      /\ ~NameTaken(n) /\ n \notin reservedNames /\ reservedNames' = reservedNames \cup {n}
      /\ UNCHANGED <<workspaces, items, reservedItems, disk>>
  BY DEF ReserveName, Arrives, Goto, registry
<1>2. Only(r) /\ pc'[r] = "making"
  BY <1>1, RequestMoves DEF OwnedInv, Labels, CreateLabels, Working
<1>3. arg'[r].name = n /\ "name" \in DOMAIN arg'[r]
  BY <1>1 DEF OwnedInv, Shape
<1>4. NoItem(r)
  BY <1>1, <1>2 DEF NoItem, ItemLabels, TabLabels
<1>5. Shape'
  BY <1>1, <1>2, <1>3 DEF OwnedInv, Shape, Only
<1>6. \A q \in Requests : pc'[q] \in CreateLabels =>
         q = r \/ (pc[q] \in CreateLabels /\ pc'[q] = pc[q] /\ arg'[q] = arg[q] /\ arg[q].name # n)
  BY <1>1, <1>2 DEF Only, OwnedInv, NamesOwned
<1>7. \A q \in Requests : pc'[q] \in Working => ~NameTaken(arg[q].name)'
  BY <1>1, <1>2, <1>3, <1>6 DEF OwnedInv, NamesOwned, NameTaken, CreateLabels
<1>8. NamesOwned'
  BY <1>1, <1>3, <1>6, <1>7 DEF OwnedInv, NamesOwned
<1> QED
  BY <1>2, <1>4, <1>5, <1>8, ItemsKept DEF OwnedInv

(* A registration takes the caller's own name and nobody else's.                  *)
LEMMA NameRegistered ==
    ASSUME OwnedInv, NEW r \in Requests, NEW saved, RegisterWorkspace(r, saved)
    PROVE  OwnedInv'
<1> DEFINE ws == [id |-> r, name |-> arg[r].name, project |-> arg[r].project, root |-> arg[r].root]
<1>1. pc[r] = "sessioned" /\ ~NameTaken(arg[r].name)
  BY DEF RegisterWorkspace, OwnedInv, NamesOwned, Working
<1>2. /\ pc' = [pc EXCEPT ![r] = "releasing"]
      /\ workspaces' = Append(workspaces, ws)
      /\ \E ps : Save(ps, Append(workspaces, ws), items, saved)
      /\ UNCHANGED <<items, reservedNames, reservedItems, arg>>
  BY <1>1 DEF RegisterWorkspace, Answer, Goto, reserved
<1>3. Only(r) /\ pc'[r] = "releasing"
  BY <1>2, RequestMoves DEF OwnedInv, Labels, CreateLabels
<1>4. PICK S : workspaces \in Seq(S)
  BY DEF OwnedInv, Shape, IsList
<1>5. /\ Append(workspaces, ws) \in Seq(S \cup {ws})
      /\ \A k \in DOMAIN Append(workspaces, ws) :
            Append(workspaces, ws)[k] = ws \/ (k \in DOMAIN workspaces /\ Append(workspaces, ws)[k] = workspaces[k])
  BY <1>4
<1>6. IsList(Append(workspaces, ws))
  BY <1>5 DEF IsList
<1>7. IsList(disk'.workspaces) /\ AreNamed(disk'.items)
  BY <1>2, <1>6, SaveShape DEF OwnedInv, Shape
<1>8. Shape'
  BY <1>2, <1>3, <1>6, <1>7 DEF OwnedInv, Shape, Only, Working
<1>9. \A q \in Requests : pc'[q] \in CreateLabels => pc[q] \in CreateLabels
  BY <1>1, <1>3 DEF Only, CreateLabels, Working
<1>10. \A q \in Requests : pc'[q] \in Working => q # r /\ pc[q] \in Working
  BY <1>3 DEF Only, Working
<1>11. \A n : NameTaken(n)' => NameTaken(n) \/ n = arg[r].name
  BY <1>2, <1>5 DEF NameTaken
<1>12. \A q \in Requests : pc'[q] \in Working => ~NameTaken(arg[q].name) /\ arg[q].name # arg[r].name
  BY <1>1, <1>10 DEF OwnedInv, NamesOwned, CreateLabels, Working
<1>13. \A q \in Requests : pc'[q] \in Working => ~NameTaken(arg[q].name)'
  BY <1>2, <1>5, <1>12 DEF NameTaken
<1>14. NamesOwned'
  BY <1>2, <1>9, <1>13 DEF OwnedInv, NamesOwned
<1>15. NoItem(r)
  BY <1>2, <1>3 DEF NoItem, ItemLabels, TabLabels
<1> QED
  BY <1>3, <1>8, <1>14, <1>15, ItemsKept DEF OwnedInv

(* A call gives back its own name.                                                *)
LEMMA NameReleased ==
    ASSUME OwnedInv, NEW r \in Requests, ReleaseName(r)
    PROVE  OwnedInv'
<1>1. /\ pc[r] = "releasing" /\ pc' = [pc EXCEPT ![r] = "done"]
      /\ arg' = [arg EXCEPT ![r] = None]
      /\ reservedNames' = reservedNames \ {arg[r].name}
      /\ UNCHANGED <<workspaces, items, reservedItems, disk>>
  BY DEF ReleaseName, Return, Goto, registry
<1>2. Only(r) /\ pc'[r] = "done"
  BY <1>1, RequestMoves DEF OwnedInv, Labels
<1>3. Shape'
  BY <1>1, <1>2 DEF OwnedInv, Shape, Only, Working
<1>4. \A q \in Requests : pc'[q] \in CreateLabels =>
         q # r /\ pc[q] \in CreateLabels /\ pc'[q] = pc[q] /\ arg'[q] = arg[q] /\ arg[q].name # arg[r].name
  BY <1>1, <1>2 DEF Only, OwnedInv, NamesOwned, CreateLabels, Working
<1>5. \A q \in Requests : pc'[q] \in Working => ~NameTaken(arg[q].name)'
  BY <1>1, <1>4 DEF OwnedInv, NamesOwned, NameTaken, CreateLabels
<1>6. NamesOwned'
  BY <1>1, <1>4, <1>5 DEF OwnedInv, NamesOwned
<1>7. NoItem(r)
  BY <1>1, <1>2 DEF NoItem, ItemLabels, TabLabels
<1> QED
  BY <1>2, <1>3, <1>6, <1>7, ItemsKept DEF OwnedInv

(* The steps of the item calls that neither take nor give back a name.            *)
LEMMA ItemQuiet ==
    ASSUME OwnedInv, NEW r \in Requests,
           \/ \E w, n : RejectItem(r, w, n)
           \/ CreateTab(r) \/ CloseTab(r)
           \/ \E i : StopItem(r, i)
    PROVE  OwnedInv'
<1>1. /\ UNCHANGED <<workspaces, items, reservedNames, reservedItems, disk>>
      /\ UNCHANGED arg \/ \E a : arg' = [arg EXCEPT ![r] = a]
  BY DEF RejectItem, CreateTab, CloseTab, StopItem, registry, reserved, Return
<1>2. \/ \E l \in {"done", "stopping", "closed"} : pc' = [pc EXCEPT ![r] = l]
      \/ /\ pc[r] = "tabbing" /\ UNCHANGED arg
         /\ \E l \in {"tabbed", "itemReleasing"} : pc' = [pc EXCEPT ![r] = l]
  BY DEF RejectItem, CreateTab, CloseTab, StopItem, Return, Answer, Goto
<1>3. PICK l \in {"done", "stopping", "closed", "tabbed", "itemReleasing"} :
         /\ pc' = [pc EXCEPT ![r] = l]
         /\ l \in ItemLabels => pc[r] = "tabbing" /\ UNCHANGED arg
  BY <1>2 DEF ItemLabels, TabLabels
<1>4. Only(r) /\ pc'[r] = l
  BY <1>1, <1>3, RequestMoves DEF OwnedInv, Labels, ItemLabels, TabLabels
<1>5. NoItem(r)
  BY <1>1, <1>3, <1>4 DEF NoItem, ItemLabels, TabLabels
<1>6. NoName(r) /\ pc'[r] \notin Working
  BY <1>1, <1>3, <1>4 DEF NoName, CreateLabels, Working
<1> QED
  BY <1>1, <1>4, <1>5, <1>6, QuietWorkspaces

(* A step that changes the items, and not whose names they are.                   *)
LEMMA ItemsRenamed ==
    ASSUME OwnedInv, NEW r \in Requests, Only(r), NoName(r), pc'[r] \notin Working,
           pc'[r] \in ItemLabels => pc[r] \in ItemLabels /\ arg'[r] = arg[r],
           pc'[r] \in TabLabels => pc[r] \in TabLabels,
           UNCHANGED reservedItems,
           NEW i, NEW status, items' = [items EXCEPT ![i].status = status],
           UNCHANGED disk \/ \E p, ok : Save(p, workspaces, items', ok)
    PROVE  OwnedInv'
<1>1. /\ DOMAIN items' = DOMAIN items
      /\ \A j \in DOMAIN items : /\ items'[j].ws = items[j].ws /\ items'[j].name = items[j].name
                               /\ DOMAIN items'[j] = DOMAIN items[j]
  BY DEF OwnedInv, Shape, AreNamed
<1>2. AreNamed(items')
  BY <1>1 DEF OwnedInv, Shape, AreNamed
<1>3. IsList(disk'.workspaces) /\ AreNamed(disk'.items)
  BY <1>2, SaveShape DEF OwnedInv, Shape
<1>4. Shape'
  BY <1>2, <1>3 DEF OwnedInv, Shape, Only, NoName
<1>5. \A q \in Requests : /\ pc'[q] \in ItemLabels => pc[q] \in ItemLabels /\ arg'[q] = arg[q]
                          /\ pc'[q] \in TabLabels => pc[q] \in TabLabels
  BY DEF Only
<1>6. \A q \in Requests : pc'[q] \in TabLabels => ~ItemNamed(arg[q].ws, arg[q].name)'
  BY <1>1, <1>5 DEF OwnedInv, ItemsOwned, ItemLabels, ItemNamed
<1>7. ItemsOwned'
  BY <1>5, <1>6 DEF OwnedInv, ItemsOwned, ItemOf
<1> QED
  BY <1>4, <1>7, NamesKept DEF OwnedInv

(* An item's name is reserved by one call at a time, while no item has it.        *)
LEMMA ItemReserved ==
    ASSUME OwnedInv, NEW r \in Requests, NEW w, NEW n, NEW type, ReserveItem(r, w, n, type)
    PROVE  OwnedInv'
<1>1. /\ pc[r] = "idle" /\ pc' = [pc EXCEPT ![r] = "tabbing"]
      /\ arg' = [arg EXCEPT ![r] = [ws |-> w, name |-> n, type |-> type, session |-> WorkspaceOf(w).name]]
      /\ ~ItemNamed(w, n) /\ <<w, n>> \notin reservedItems
      /\ reservedItems' = reservedItems \cup {<<w, n>>}
      /\ UNCHANGED <<workspaces, items, reservedNames, disk>>
  BY DEF ReserveItem, Arrives, Goto, registry
<1>2. Only(r) /\ pc'[r] = "tabbing"
  BY <1>1, RequestMoves DEF OwnedInv, Labels, ItemLabels, TabLabels
<1>3. arg'[r].ws = w /\ arg'[r].name = n
  BY <1>1 DEF OwnedInv, Shape
<1>4. NoName(r) /\ pc'[r] \notin Working
  BY <1>1, <1>2 DEF NoName, CreateLabels, Working
<1>5. Shape'
  BY <1>1, <1>2, <1>4 DEF OwnedInv, Shape, Only
<1>6. \A q \in Requests : pc'[q] \in ItemLabels =>
         q = r \/ (pc[q] \in ItemLabels /\ pc'[q] = pc[q] /\ arg'[q] = arg[q] /\ ItemOf(q) # <<w, n>>)
  BY <1>1, <1>2 DEF Only, OwnedInv, ItemsOwned
<1>7. \A q \in Requests : pc'[q] \in TabLabels => ~ItemNamed(arg[q].ws, arg[q].name)'
  BY <1>1, <1>2, <1>3, <1>6 DEF OwnedInv, ItemsOwned, ItemNamed, ItemLabels
<1>8. ItemsOwned'
  BY <1>1, <1>3, <1>6, <1>7 DEF OwnedInv, ItemsOwned, ItemOf
<1> QED
  BY <1>2, <1>4, <1>5, <1>8, NamesKept DEF OwnedInv

(* A registered item has its call's own name.                                     *)
LEMMA ItemRegistered ==
    ASSUME OwnedInv, NEW r \in Requests, NEW saved, RegisterItem(r, saved)
    PROVE  OwnedInv'
<1> DEFINE web == arg[r].type = "WebService"
           item == [ws |-> arg[r].ws, name |-> arg[r].name, type |-> arg[r].type,
                    status |-> IF web THEN "starting" ELSE "running"]
<1>1. pc[r] = "tabbed" /\ ~ItemNamed(arg[r].ws, arg[r].name)
  BY DEF RegisterItem, OwnedInv, ItemsOwned, TabLabels
<1>2. /\ pc' = [pc EXCEPT ![r] = "itemReleasing"]
      /\ items' = Put(items, r, item)
      /\ Save(projects, workspaces, items', saved)
      /\ UNCHANGED <<workspaces, reservedNames, reservedItems, arg>>
  BY <1>1 DEF RegisterItem, Answer, Goto, reserved
<1>3. Only(r) /\ pc'[r] = "itemReleasing"
  BY <1>2, RequestMoves DEF OwnedInv, Labels, ItemLabels
<1>4. \A i \in DOMAIN items' : items'[i] = item \/ (i \in DOMAIN items /\ items'[i] = items[i])
  BY <1>2 DEF Put
<1>5. AreNamed(items')
  <2>1. {"ws", "name"} \subseteq DOMAIN item
    OBVIOUS
  <2> QED
    BY <1>4, <2>1 DEF AreNamed, OwnedInv, Shape
<1>6. IsList(disk'.workspaces) /\ AreNamed(disk'.items)
  BY <1>2, <1>5, SaveShape DEF OwnedInv, Shape
<1>7. NoName(r) /\ pc'[r] \notin Working
  BY <1>2, <1>3 DEF NoName, CreateLabels, Working
<1>8. Shape'
  BY <1>2, <1>3, <1>5, <1>6, <1>7 DEF OwnedInv, Shape, Only
<1>9. \A q \in Requests : /\ pc'[q] \in ItemLabels => pc[q] \in ItemLabels
                          /\ pc'[q] \in TabLabels => q # r /\ pc[q] \in TabLabels
  BY <1>1, <1>3 DEF Only, ItemLabels, TabLabels
<1>10. \A q \in Requests : pc'[q] \in TabLabels =>
          ~ItemNamed(arg[q].ws, arg[q].name) /\ ItemOf(q) # ItemOf(r)
  BY <1>1, <1>9 DEF OwnedInv, ItemsOwned, ItemLabels, TabLabels
<1>11. \A q \in Requests : pc'[q] \in TabLabels => ~ItemNamed(arg[q].ws, arg[q].name)'
  BY <1>2, <1>4, <1>10 DEF ItemNamed, ItemOf
<1>12. ItemsOwned'
  BY <1>2, <1>9, <1>11 DEF OwnedInv, ItemsOwned, ItemOf
<1> QED
  BY <1>3, <1>7, <1>8, <1>12, NamesKept DEF OwnedInv

(* A call gives back its own item's name.                                         *)
LEMMA ItemReleased ==
    ASSUME OwnedInv, NEW r \in Requests, ReleaseItem(r)
    PROVE  OwnedInv'
<1>1. /\ pc[r] = "itemReleasing" /\ pc' = [pc EXCEPT ![r] = "done"]
      /\ arg' = [arg EXCEPT ![r] = None]
      /\ reservedItems' = reservedItems \ {ItemOf(r)}
      /\ UNCHANGED <<workspaces, items, reservedNames, disk>>
  BY DEF ReleaseItem, Return, Goto, registry, ItemOf
<1>2. Only(r) /\ pc'[r] = "done"
  BY <1>1, RequestMoves DEF OwnedInv, Labels
<1>3. NoName(r) /\ pc'[r] \notin Working
  BY <1>1, <1>2 DEF NoName, CreateLabels, Working
<1>4. Shape'
  BY <1>1, <1>2, <1>3 DEF OwnedInv, Shape, Only
<1>5. \A q \in Requests : pc'[q] \in ItemLabels =>
         q # r /\ pc[q] \in ItemLabels /\ pc'[q] = pc[q] /\ arg'[q] = arg[q] /\ ItemOf(q) # ItemOf(r)
  BY <1>1, <1>2 DEF Only, OwnedInv, ItemsOwned, ItemLabels, TabLabels
<1>6. \A q \in Requests : pc'[q] \in TabLabels => ~ItemNamed(arg[q].ws, arg[q].name)'
  BY <1>1, <1>5 DEF OwnedInv, ItemsOwned, ItemNamed, ItemLabels
<1>7. ItemsOwned'
  BY <1>1, <1>5, <1>6 DEF OwnedInv, ItemsOwned, ItemOf
<1> QED
  BY <1>2, <1>3, <1>4, <1>7, NamesKept DEF OwnedInv

(* A stopped item and a prober's verdict change a status.                         *)
LEMMA StatusChanged ==
    ASSUME OwnedInv, NEW r \in Requests,
           \/ \E saved : MarkItemStopped(r, saved)
           \/ \E saved : FinishProbe(r, saved)
    PROVE  OwnedInv'
<1>1. ASSUME NEW saved, MarkItemStopped(r, saved) PROVE OwnedInv'
  <2>1. /\ pc' = [pc EXCEPT ![r] = "done"] /\ arg' = [arg EXCEPT ![r] = None]
        /\ items' = [items EXCEPT ![arg[r].item].status = "stopped"]
        /\ Save(projects, workspaces, items', saved)
        /\ UNCHANGED <<workspaces, reservedNames, reservedItems>>
    BY <1>1 DEF MarkItemStopped, Return, Goto, reserved
  <2>2. Only(r) /\ pc'[r] = "done"
    BY <2>1, RequestMoves DEF OwnedInv, Labels
  <2>3. NoName(r) /\ pc'[r] \notin Working \cup ItemLabels
    BY <2>1, <2>2 DEF NoName, CreateLabels, ItemLabels, TabLabels, Working
  <2> QED
    BY <2>1, <2>2, <2>3, ItemsRenamed DEF ItemLabels
<1>2. ASSUME NEW saved, FinishProbe(r, saved) PROVE OwnedInv'
  <2>1. /\ UNCHANGED <<pc, arg, workspaces, reservedNames, reservedItems>>
        /\ \/ UNCHANGED <<items, disk>>
           \/ /\ items' = [items EXCEPT ![r].status = prober[r]]
              /\ Save(projects, workspaces, items', saved)
    BY <1>2 DEF FinishProbe, reserved
  <2>2. CASE UNCHANGED <<items, disk>>
    BY <2>1, <2>2 DEF OwnedInv, Shape, NamesOwned, ItemsOwned, NameTaken, ItemNamed, ItemOf
  <2>3. CASE items' = [items EXCEPT ![r].status = prober[r]] /\ Save(projects, workspaces, items', saved)
    <3>1. /\ DOMAIN items' = DOMAIN items
          /\ \A j \in DOMAIN items : /\ items'[j].ws = items[j].ws /\ items'[j].name = items[j].name
                                   /\ DOMAIN items'[j] = DOMAIN items[j]
      BY <2>3 DEF OwnedInv, Shape, AreNamed
    <3>2. AreNamed(items')
      BY <3>1 DEF OwnedInv, Shape, AreNamed
    <3>3. IsList(disk'.workspaces) /\ AreNamed(disk'.items)
      BY <2>3, <3>2, SaveShape DEF OwnedInv, Shape
    <3>4. Shape'
      BY <2>1, <3>2, <3>3 DEF OwnedInv, Shape
    <3>5. NamesOwned'
      BY <2>1 DEF OwnedInv, NamesOwned, NameTaken
    <3>6. ItemsOwned'
      BY <2>1, <3>1 DEF OwnedInv, ItemsOwned, ItemNamed, ItemOf
    <3> QED
      BY <3>4, <3>5, <3>6 DEF OwnedInv
  <2> QED
    BY <2>1, <2>2, <2>3
<1> QED
  BY <1>1, <1>2

(* After a restart nobody holds a name, and the registry is what was saved.       *)
LEMMA Restarted ==
    ASSUME OwnedInv, RestartHost
    PROVE  OwnedInv'
<1>1. /\ pc' = [r \in Requests |-> IF pc[r] = "idle" THEN "idle" ELSE "done"]
      /\ arg' = [r \in Requests |-> None]
      /\ workspaces' = disk.workspaces /\ items' = disk.items /\ disk' = disk
  BY DEF RestartHost
<1>2. pc' \in [Requests -> Labels] /\ \A r \in Requests : pc'[r] \notin CreateLabels \cup ItemLabels
  BY <1>1 DEF Labels, CreateLabels, ItemLabels, TabLabels, Working
<1>3. Shape'
  BY <1>1, <1>2 DEF OwnedInv, Shape, CreateLabels
<1>4. NamesOwned' /\ ItemsOwned'
  BY <1>2 DEF NamesOwned, ItemsOwned, CreateLabels, ItemLabels
<1> QED
  BY <1>3, <1>4 DEF OwnedInv

(* Every step of hostd keeps the invariant.                                       *)
LEMMA OwnedStep == OwnedInv /\ [WorkspacesNext]_workspacesVars => OwnedInv'
<1> SUFFICES ASSUME OwnedInv, [WorkspacesNext]_workspacesVars PROVE OwnedInv'
  OBVIOUS
<1>1. ASSUME NEW r \in Requests, CreateStep(r) PROVE OwnedInv'
  BY <1>1, CreateQuiet, NameReserved, NameRegistered, NameReleased DEF CreateStep
<1>2. ASSUME NEW r \in Requests, ItemStep(r) PROVE OwnedInv'
  BY <1>2, ItemQuiet, ItemReserved, ItemRegistered, ItemReleased, StatusChanged DEF ItemStep
<1>3. ASSUME NEW r \in Requests, ProbeStep(r) PROVE OwnedInv'
  <2>1. CASE Probe(r)
    BY <2>1 DEF Probe, registry, reserved, OwnedInv, Shape, NamesOwned, ItemsOwned, NameTaken,
                ItemNamed, ItemOf
  <2> QED
    BY <1>3, <2>1, StatusChanged DEF ProbeStep
<1>4. CASE UNCHANGED workspacesVars
  BY <1>4 DEF workspacesVars, registry, reserved, OwnedInv, Shape, NamesOwned, ItemsOwned, NameTaken,
              ItemNamed, ItemOf
<1> QED
  BY <1>1, <1>2, <1>3, <1>4, Restarted DEF WorkspacesNext

(* At first nobody holds a name.                                                  *)
LEMMA OwnedInit == WorkspacesInit => OwnedInv
<1> SUFFICES ASSUME WorkspacesInit PROVE OwnedInv
  OBVIOUS
<1>1. /\ pc = [r \in Requests |-> "idle"] /\ arg = [r \in Requests |-> None]
      /\ workspaces = <<>> /\ items = <<>>
      /\ disk = [projects |-> <<>>, workspaces |-> <<>>, items |-> <<>>]
  BY DEF WorkspacesInit
<1>2. IsList(<<>>) /\ AreNamed(<<>>)
  BY DEF IsList, AreNamed
<1>3. \A r \in Requests : pc[r] \notin CreateLabels \cup ItemLabels
  BY <1>1 DEF CreateLabels, ItemLabels, TabLabels, Working
<1>4. Shape
  BY <1>1, <1>2, <1>3 DEF Shape, Labels, CreateLabels
<1> QED
  BY <1>3, <1>4 DEF OwnedInv, NamesOwned, ItemsOwned, CreateLabels, ItemLabels

(* However many calls create workspaces and items at once, fail halfway or are    *)
(* cut off by a restart, no two do under one name, and none under a taken one.    *)
THEOREM OneCreatorEach == WorkspacesSpec => []OneCreatorPerName
<1>1. OwnedInv => OneCreatorPerName
  BY DEF OwnedInv, NamesOwned, ItemsOwned, OneCreatorPerName, CreateLabels, ItemLabels, TabLabels, ItemOf
<1> QED
  BY <1>1, OwnedInit, OwnedStep, PTL DEF WorkspacesSpec

-------------------------------------------------------------------------------
(* What the registry keeps: its file never holds more than its memory, and a      *)
(* request that may still register an item has not done it yet.                   *)
Ids(list) == {list[k].id : k \in DOMAIN list}
HaveStatus(is) == \A i \in DOMAIN is : "status" \in DOMAIN is[i]
BeforeItem == {"idle"} \cup TabLabels

RegistryInv ==
    /\ DOMAIN reply = Requests /\ hostRestarts \in Nat
    /\ HaveStatus(items) /\ HaveStatus(disk.items)
    /\ DOMAIN disk.items \subseteq DOMAIN items /\ Ids(disk.workspaces) \subseteq Ids(workspaces)
    /\ \A r \in Requests : pc[r] \in BeforeItem => r \notin DOMAIN items
    /\ \A r \in Requests : reply[r] = "created" => r \in DOMAIN disk.items \cup Ids(disk.workspaces)

Snapshot == \E p : disk' = [projects |-> p, workspaces |-> workspaces', items |-> items']

ItemsChange(r) ==
    \/ UNCHANGED items
    \/ \E i, status : /\ items' = [items EXCEPT ![i].status = status]
                      /\ items[i].status = "stopped" => status = "stopped"
    \/ /\ pc[r] = "tabbed" /\ pc' = [pc EXCEPT ![r] = "itemReleasing"]
       /\ \E item : "status" \in DOMAIN item /\ items' = Put(items, r, item)

WorkspacesChange(r) ==
    UNCHANGED workspaces \/ \E ws : ws.id = r /\ workspaces' = Append(workspaces, ws)

ReplyChange(r) ==
    \/ UNCHANGED reply
    \/ \E a : a # "created" /\ reply' = [reply EXCEPT ![r] = a]
    \/ /\ reply' = [reply EXCEPT ![r] = "created"]
       /\ Snapshot /\ r \in DOMAIN items' \cup Ids(workspaces')

\* What a step of request r, or of its prober, does to the registry.
FileWritten(r) ==
    /\ ItemsChange(r) /\ WorkspacesChange(r)
    /\ UNCHANGED disk \/ Snapshot
    /\ ReplyChange(r) /\ UNCHANGED hostRestarts
    /\ UNCHANGED pc \/ \E l : /\ pc' = [pc EXCEPT ![r] = l]
                              /\ l \in BeforeItem => pc[r] \in BeforeItem

(* A step that writes the registry this way keeps the invariant.                  *)
LEMMA WritesKeep ==
    ASSUME OwnedInv, RegistryInv, NEW r \in Requests, FileWritten(r)
    PROVE  RegistryInv'
<1>1. HaveStatus(items') /\ DOMAIN items \subseteq DOMAIN items' /\ DOMAIN items' \subseteq DOMAIN items \cup {r}
  BY DEF RegistryInv, FileWritten, ItemsChange, HaveStatus, Put
<1>2. Ids(workspaces) \subseteq Ids(workspaces')
  <2>1. CASE UNCHANGED workspaces
    BY <2>1
  <2>2. CASE \E ws : ws.id = r /\ workspaces' = Append(workspaces, ws)
    <3>1. PICK S : workspaces \in Seq(S)
      BY DEF OwnedInv, Shape, IsList
    <3>2. \A k \in DOMAIN workspaces : k \in DOMAIN workspaces' /\ workspaces'[k] = workspaces[k]
      BY <2>2, <3>1
    <3> QED
      BY <3>2 DEF Ids
  <2> QED
    BY <2>1, <2>2 DEF FileWritten, WorkspacesChange
<1>3. \/ UNCHANGED disk
      \/ disk'.workspaces = workspaces' /\ disk'.items = items'
  BY DEF FileWritten, Snapshot
<1>4. HaveStatus(disk'.items)
  BY <1>1, <1>3 DEF RegistryInv
<1>5. DOMAIN disk'.items \subseteq DOMAIN items' /\ Ids(disk'.workspaces) \subseteq Ids(workspaces')
  BY <1>1, <1>2, <1>3 DEF RegistryInv
<1>6. DOMAIN disk.items \subseteq DOMAIN disk'.items /\ Ids(disk.workspaces) \subseteq Ids(disk'.workspaces)
  BY <1>1, <1>2, <1>3 DEF RegistryInv
<1>7. pc \in [Requests -> Labels] /\ DOMAIN reply = Requests
  BY DEF OwnedInv, Shape, RegistryInv
<1>8. ASSUME NEW q \in Requests, pc'[q] \in BeforeItem PROVE q \notin DOMAIN items'
  <2>1. pc[q] \in BeforeItem
    BY <1>7, <1>8 DEF FileWritten
  <2>2. DOMAIN items' = DOMAIN items \/ q # r
    BY <1>7, <1>8 DEF FileWritten, ItemsChange, BeforeItem, TabLabels
  <2> QED
    BY <1>1, <2>1, <2>2 DEF RegistryInv
<1>9. DOMAIN reply' = Requests /\ hostRestarts' \in Nat
  BY <1>7 DEF FileWritten, ReplyChange, RegistryInv
<1>10. ASSUME NEW q \in Requests, reply'[q] = "created"
       PROVE  q \in DOMAIN disk'.items \cup Ids(disk'.workspaces)
  <2>1. CASE reply[q] = "created"
    BY <1>6, <2>1 DEF RegistryInv
  <2>2. CASE reply[q] # "created"
    <3>1. Snapshot /\ q = r /\ r \in DOMAIN items' \cup Ids(workspaces')
      BY <1>7, <1>10, <2>2 DEF FileWritten, ReplyChange
    <3> QED
      BY <3>1 DEF Snapshot
  <2> QED
    BY <2>1, <2>2
<1> QED
  BY <1>1, <1>4, <1>5, <1>8, <1>9, <1>10 DEF RegistryInv

(* A step that leaves the registry alone and announces no creation.               *)
LEMMA QuietWrites ==
    ASSUME NEW r \in Requests, UNCHANGED <<workspaces, items, disk, hostRestarts>>,
           NEW l, pc' = [pc EXCEPT ![r] = l], l \in BeforeItem => pc[r] \in BeforeItem,
           UNCHANGED reply \/ \E a \in {"conflict", "error", "stopped"} : reply' = [reply EXCEPT ![r] = a]
    PROVE  FileWritten(r)
<1>1. ReplyChange(r)
  BY DEF ReplyChange
<1> QED
  BY <1>1 DEF FileWritten, ItemsChange, WorkspacesChange

(* A step that moves its request past what a registration waits for.              *)
LEMMA LaterWrites ==
    ASSUME NEW r \in Requests, ItemsChange(r), WorkspacesChange(r), ReplyChange(r),
           UNCHANGED disk \/ Snapshot, UNCHANGED hostRestarts,
           NEW l, pc' = [pc EXCEPT ![r] = l], l \notin BeforeItem
    PROVE  FileWritten(r)
BY DEF FileWritten

(* The steps of create calls and of set-primary write it so.                      *)
LEMMA CreateWrites ==
    ASSUME OwnedInv, RegistryInv, NEW r \in Requests, CreateStep(r)
    PROVE  FileWritten(r)
<1>1. ASSUME NEW n, NEW source, ReserveName(r, n, source) PROVE FileWritten(r)
  <2>1. /\ UNCHANGED <<workspaces, items, disk, hostRestarts>>
        /\ UNCHANGED reply \/ \E a \in {"conflict", "error", "stopped"} : reply' = [reply EXCEPT ![r] = a]
        /\ \E l \in {"making"} : pc' = [pc EXCEPT ![r] = l]
    BY <1>1 DEF ReserveName, Goto, registry
  <2> QED
    BY <2>1, QuietWrites DEF BeforeItem, TabLabels
<1>2. ASSUME NEW n, RejectName(r, n) PROVE FileWritten(r)
  <2>1. /\ UNCHANGED <<workspaces, items, disk, hostRestarts>>
        /\ UNCHANGED reply \/ \E a \in {"conflict", "error", "stopped"} : reply' = [reply EXCEPT ![r] = a]
        /\ \E l \in {"done"} : pc' = [pc EXCEPT ![r] = l]
    BY <1>2 DEF RejectName, Answer, Goto, registry
  <2> QED
    BY <2>1, QuietWrites DEF BeforeItem, TabLabels
<1>3. CASE CloneRepo(r)
  <2>1. /\ UNCHANGED <<workspaces, items, disk, hostRestarts>>
        /\ UNCHANGED reply \/ \E a \in {"conflict", "error", "stopped"} : reply' = [reply EXCEPT ![r] = a]
        /\ \E l \in {"releasing", "made"} : pc' = [pc EXCEPT ![r] = l]
    BY <1>3 DEF CloneRepo, GiveUp, Made, Answer, Goto, registry
  <2> QED
    BY <2>1, QuietWrites DEF BeforeItem, TabLabels
<1>4. CASE ColocateRepo(r)
  <2>1. /\ UNCHANGED <<workspaces, items, disk, hostRestarts>>
        /\ UNCHANGED reply \/ \E a \in {"conflict", "error", "stopped"} : reply' = [reply EXCEPT ![r] = a]
        /\ \E l \in {"releasing", "adopted"} : pc' = [pc EXCEPT ![r] = l]
    BY <1>4 DEF ColocateRepo, GiveUp, Answer, Goto, registry
  <2> QED
    BY <2>1, QuietWrites DEF BeforeItem, TabLabels
<1>5. CASE FindProject(r)
  <2>1. /\ UNCHANGED <<workspaces, items, disk, hostRestarts>>
        /\ UNCHANGED reply \/ \E a \in {"conflict", "error", "stopped"} : reply' = [reply EXCEPT ![r] = a]
        /\ \E l \in {"made"} : pc' = [pc EXCEPT ![r] = l]
    BY <1>5 DEF FindProject, Made, Goto, registry
  <2> QED
    BY <2>1, QuietWrites DEF BeforeItem, TabLabels
<1>6. CASE FindParent(r)
  <2>1. /\ UNCHANGED <<workspaces, items, disk, hostRestarts>>
        /\ UNCHANGED reply \/ \E a \in {"conflict", "error", "stopped"} : reply' = [reply EXCEPT ![r] = a]
        /\ \E l \in {"releasing", "parented"} : pc' = [pc EXCEPT ![r] = l]
    BY <1>6 DEF FindParent, GiveUp, Answer, Goto, registry
  <2> QED
    BY <2>1, QuietWrites DEF BeforeItem, TabLabels
<1>7. CASE AddAgentWorkspace(r)
  <2>1. /\ UNCHANGED <<workspaces, items, disk, hostRestarts>>
        /\ UNCHANGED reply \/ \E a \in {"conflict", "error", "stopped"} : reply' = [reply EXCEPT ![r] = a]
        /\ \E l \in {"releasing", "made"} : pc' = [pc EXCEPT ![r] = l]
    BY <1>7 DEF AddAgentWorkspace, GiveUp, Made, Answer, Goto, registry
  <2> QED
    BY <2>1, QuietWrites DEF BeforeItem, TabLabels
<1>8. CASE CreateSession(r)
  <2>1. /\ UNCHANGED <<workspaces, items, disk, hostRestarts>>
        /\ UNCHANGED reply \/ \E a \in {"conflict", "error", "stopped"} : reply' = [reply EXCEPT ![r] = a]
        /\ \E l \in {"releasing", "sessioned"} : pc' = [pc EXCEPT ![r] = l]
    BY <1>8 DEF CreateSession, Answer, Goto, registry
  <2> QED
    BY <2>1, QuietWrites DEF BeforeItem, TabLabels
<1>9. ASSUME NEW saved \in BOOLEAN, RegisterWorkspace(r, saved) PROVE FileWritten(r)
  <2> DEFINE ws == [id |-> r, name |-> arg[r].name, project |-> arg[r].project, root |-> arg[r].root]
  <2>1. pc' = [pc EXCEPT ![r] = "releasing"] /\ UNCHANGED <<items, hostRestarts>>
    BY <1>9 DEF RegisterWorkspace, Answer, Goto, registry
  <2>2. CASE NameTaken(arg[r].name)
    <3>1. UNCHANGED <<workspaces, disk>> /\ reply' = [reply EXCEPT ![r] = "conflict"]
      BY <1>9, <2>2 DEF RegisterWorkspace, Answer, registry
    <3> QED
      BY <2>1, <3>1, QuietWrites DEF BeforeItem, TabLabels
  <2>3. CASE ~NameTaken(arg[r].name)
    <3>1. /\ workspaces' = Append(workspaces, ws)
          /\ \E ps : Save(ps, workspaces', items', saved)
          /\ reply' = [reply EXCEPT ![r] = IF saved THEN "created" ELSE "error"]
      BY <1>9, <2>1, <2>3 DEF RegisterWorkspace, Answer
    <3>2. PICK S : workspaces \in Seq(S)
      BY DEF OwnedInv, Shape, IsList
    <3>3. Len(workspaces) + 1 \in DOMAIN workspaces' /\ workspaces'[Len(workspaces) + 1] = ws /\ ws.id = r
      BY <3>1, <3>2
    <3>4. r \in Ids(workspaces')
      BY <3>3 DEF Ids
    <3>5. IF saved THEN Snapshot ELSE UNCHANGED disk
      BY <3>1 DEF Save, AtomicWrite, Snapshot
    <3>6. WorkspacesChange(r)
      BY <3>1, <3>3 DEF WorkspacesChange
    <3>7. ReplyChange(r)
      BY <3>1, <3>4, <3>5 DEF ReplyChange
    <3> QED
      BY <2>1, <3>5, <3>6, <3>7, LaterWrites DEF ItemsChange, BeforeItem, TabLabels
  <2> QED
    BY <2>2, <2>3
<1>10. CASE ReleaseName(r)
  <2>1. /\ UNCHANGED <<workspaces, items, disk, hostRestarts>>
        /\ UNCHANGED reply \/ \E a \in {"conflict", "error", "stopped"} : reply' = [reply EXCEPT ![r] = a]
        /\ \E l \in {"done"} : pc' = [pc EXCEPT ![r] = l]
    BY <1>10 DEF ReleaseName, Return, Goto, registry
  <2> QED
    BY <2>1, QuietWrites DEF BeforeItem, TabLabels
<1>11. ASSUME NEW p, NEW w, NEW saved, SetPrimaryWorkspace(r, p, w, saved) PROVE FileWritten(r)
  <2>1. /\ pc' = [pc EXCEPT ![r] = "done"] /\ UNCHANGED <<workspaces, items, hostRestarts>>
        /\ \E a \in {"primary", "error"} : reply' = [reply EXCEPT ![r] = a]
        /\ UNCHANGED disk \/ \E ps : Save(ps, workspaces, items, saved)
    BY <1>11 DEF SetPrimaryWorkspace, Answer, Goto
  <2>2. UNCHANGED disk \/ Snapshot
    BY <2>1 DEF Save, AtomicWrite, Snapshot
  <2>3. ItemsChange(r) /\ WorkspacesChange(r) /\ ReplyChange(r)
    BY <2>1 DEF ItemsChange, WorkspacesChange, ReplyChange
  <2> QED
    BY <2>1, <2>2, <2>3, LaterWrites DEF BeforeItem, TabLabels
<1> QED
  BY <1>1, <1>2, <1>3, <1>4, <1>5, <1>6, <1>7, <1>8, <1>9, <1>10, <1>11 DEF CreateStep

(* So do those of item calls.                                                     *)
LEMMA ItemWrites ==
    ASSUME OwnedInv, RegistryInv, NEW r \in Requests, ItemStep(r)
    PROVE  FileWritten(r)
<1>1. ASSUME NEW w, NEW n, NEW type, ReserveItem(r, w, n, type) PROVE FileWritten(r)
  <2>1. /\ UNCHANGED <<workspaces, items, disk, hostRestarts>>
        /\ UNCHANGED reply \/ \E a \in {"conflict", "error", "stopped"} : reply' = [reply EXCEPT ![r] = a]
        /\ \E l \in {"tabbing"} : pc' = [pc EXCEPT ![r] = l] /\ pc[r] = "idle"
    BY <1>1 DEF ReserveItem, Arrives, Goto, registry
  <2> QED
    BY <2>1, QuietWrites DEF BeforeItem, TabLabels
<1>2. ASSUME NEW w, NEW n, RejectItem(r, w, n) PROVE FileWritten(r)
  <2>1. /\ UNCHANGED <<workspaces, items, disk, hostRestarts>>
        /\ UNCHANGED reply \/ \E a \in {"conflict", "error", "stopped"} : reply' = [reply EXCEPT ![r] = a]
        /\ \E l \in {"done"} : pc' = [pc EXCEPT ![r] = l]
    BY <1>2 DEF RejectItem, Answer, Goto, registry
  <2> QED
    BY <2>1, QuietWrites DEF BeforeItem, TabLabels
<1>3. CASE CreateTab(r)
  <2>1. /\ UNCHANGED <<workspaces, items, disk, hostRestarts>>
        /\ UNCHANGED reply \/ \E a \in {"conflict", "error", "stopped"} : reply' = [reply EXCEPT ![r] = a]
        /\ \E l \in {"tabbed", "itemReleasing"} : pc' = [pc EXCEPT ![r] = l] /\ pc[r] = "tabbing"
    BY <1>3 DEF CreateTab, Answer, Goto, registry
  <2> QED
    BY <2>1, QuietWrites DEF BeforeItem, TabLabels
<1>4. ASSUME NEW saved \in BOOLEAN, RegisterItem(r, saved) PROVE FileWritten(r)
  <2>1. pc[r] = "tabbed" /\ pc' = [pc EXCEPT ![r] = "itemReleasing"]
      /\ UNCHANGED <<workspaces, hostRestarts>>
    BY <1>4 DEF RegisterItem, Answer, Goto
  <2>2. CASE ItemNamed(arg[r].ws, arg[r].name)
    <3>1. UNCHANGED <<items, disk>> /\ reply' = [reply EXCEPT ![r] = "conflict"]
      BY <1>4, <2>2 DEF RegisterItem, Answer
    <3> QED
      BY <2>1, <3>1, QuietWrites DEF BeforeItem, TabLabels
  <2>3. CASE ~ItemNamed(arg[r].ws, arg[r].name)
    <3> DEFINE item == [ws |-> arg[r].ws, name |-> arg[r].name, type |-> arg[r].type,
                        status |-> IF arg[r].type = "WebService" THEN "starting" ELSE "running"]
    <3>1. /\ items' = Put(items, r, item)
          /\ Save(projects, workspaces, items', saved)
          /\ reply' = [reply EXCEPT ![r] = IF saved THEN "created" ELSE "error"]
      BY <1>4, <2>1, <2>3 DEF RegisterItem, Answer
    <3>2. r \in DOMAIN items' /\ "status" \in DOMAIN item
      BY <3>1 DEF Put
    <3>3. IF saved THEN Snapshot ELSE UNCHANGED disk
      BY <2>1, <3>1 DEF Save, AtomicWrite, Snapshot
    <3>4. ItemsChange(r)
      BY <2>1, <3>1, <3>2 DEF ItemsChange
    <3>5. ReplyChange(r)
      BY <3>1, <3>2, <3>3 DEF ReplyChange
    <3> QED
      BY <2>1, <3>3, <3>4, <3>5, LaterWrites DEF WorkspacesChange, BeforeItem, TabLabels
  <2> QED
    BY <2>2, <2>3
<1>5. CASE ReleaseItem(r)
  <2>1. /\ UNCHANGED <<workspaces, items, disk, hostRestarts>>
        /\ UNCHANGED reply \/ \E a \in {"conflict", "error", "stopped"} : reply' = [reply EXCEPT ![r] = a]
        /\ \E l \in {"done"} : pc' = [pc EXCEPT ![r] = l]
    BY <1>5 DEF ReleaseItem, Return, Goto, registry
  <2> QED
    BY <2>1, QuietWrites DEF BeforeItem, TabLabels
<1>6. ASSUME NEW i, StopItem(r, i) PROVE FileWritten(r)
  <2>1. /\ UNCHANGED <<workspaces, items, disk, hostRestarts>>
        /\ UNCHANGED reply \/ \E a \in {"conflict", "error", "stopped"} : reply' = [reply EXCEPT ![r] = a]
        /\ \E l \in {"done", "stopping"} : pc' = [pc EXCEPT ![r] = l]
    BY <1>6 DEF StopItem, Answer, Goto, registry
  <2> QED
    BY <2>1, QuietWrites DEF BeforeItem, TabLabels
<1>7. CASE CloseTab(r)
  <2>1. /\ UNCHANGED <<workspaces, items, disk, hostRestarts>>
        /\ UNCHANGED reply \/ \E a \in {"conflict", "error", "stopped"} : reply' = [reply EXCEPT ![r] = a]
        /\ \E l \in {"done", "closed"} : pc' = [pc EXCEPT ![r] = l]
    BY <1>7 DEF CloseTab, Return, Goto, registry
  <2> QED
    BY <2>1, QuietWrites DEF BeforeItem, TabLabels
<1>8. ASSUME NEW saved, MarkItemStopped(r, saved) PROVE FileWritten(r)
  <2>1. /\ pc' = [pc EXCEPT ![r] = "done"] /\ UNCHANGED <<workspaces, hostRestarts>>
        /\ items' = [items EXCEPT ![arg[r].item].status = "stopped"]
        /\ Save(projects, workspaces, items', saved)
        /\ \E a \in {"stopped", "error"} : reply' = [reply EXCEPT ![r] = a]
    BY <1>8 DEF MarkItemStopped, Return, Goto
  <2>2. UNCHANGED disk \/ Snapshot
    BY <2>1 DEF Save, AtomicWrite, Snapshot
  <2>3. ItemsChange(r) /\ WorkspacesChange(r) /\ ReplyChange(r)
    BY <2>1 DEF ItemsChange, WorkspacesChange, ReplyChange
  <2> QED
    BY <2>1, <2>2, <2>3, LaterWrites DEF BeforeItem, TabLabels
<1> QED
  BY <1>1, <1>2, <1>3, <1>4, <1>5, <1>6, <1>7, <1>8 DEF ItemStep

(* And those of probers.                                                          *)
LEMMA ProbeWrites ==
    ASSUME NEW i \in Requests, ProbeStep(i)
    PROVE  FileWritten(i)
<1>1. CASE Probe(i)
  BY <1>1 DEF Probe, registry, FileWritten, ItemsChange, WorkspacesChange, ReplyChange
<1>2. ASSUME NEW saved, FinishProbe(i, saved) PROVE FileWritten(i)
  <2>1. /\ UNCHANGED <<pc, reply, workspaces, hostRestarts>>
        /\ \/ UNCHANGED <<items, disk>>
           \/ /\ items[i].status = "starting" /\ items' = [items EXCEPT ![i].status = prober[i]]
              /\ Save(projects, workspaces, items', saved)
    BY <1>2 DEF FinishProbe
  <2>2. UNCHANGED disk \/ Snapshot
    BY <2>1 DEF Save, AtomicWrite, Snapshot
  <2>3. ItemsChange(i)
    BY <2>1 DEF ItemsChange
  <2> QED
    BY <2>1, <2>2, <2>3 DEF FileWritten, WorkspacesChange, ReplyChange
<1> QED
  BY <1>1, <1>2 DEF ProbeStep

(* A restart reads back what every acknowledged create call is in.                *)
LEMMA RegistryRestarted ==
    ASSUME RegistryInv, RestartHost
    PROVE  RegistryInv'
<1>1. /\ pc' = [r \in Requests |-> IF pc[r] = "idle" THEN "idle" ELSE "done"]
      /\ workspaces' = disk.workspaces /\ items' = disk.items
      /\ disk' = disk /\ reply' = reply /\ hostRestarts' = hostRestarts + 1
  BY DEF RestartHost
<1>2. \A r \in Requests : pc'[r] \in BeforeItem => pc[r] \in BeforeItem
  BY <1>1 DEF BeforeItem, TabLabels
<1> QED
  BY <1>1, <1>2 DEF RegistryInv

(* Every step keeps what the registry promises.                                   *)
LEMMA RegistryStep == OwnedInv /\ RegistryInv /\ [WorkspacesNext]_workspacesVars => RegistryInv'
<1> SUFFICES ASSUME OwnedInv, RegistryInv, [WorkspacesNext]_workspacesVars PROVE RegistryInv'
  OBVIOUS
<1>1. ASSUME NEW r \in Requests, CreateStep(r) \/ ItemStep(r) \/ ProbeStep(r) PROVE RegistryInv'
  BY <1>1, CreateWrites, ItemWrites, ProbeWrites, WritesKeep
<1>2. CASE UNCHANGED workspacesVars
  BY <1>2 DEF workspacesVars, registry, RegistryInv
<1> QED
  BY <1>1, <1>2, RegistryRestarted DEF WorkspacesNext

(* Nothing is registered and nothing answered at first.                           *)
LEMMA RegistryInit == WorkspacesInit => RegistryInv
<1> SUFFICES ASSUME WorkspacesInit PROVE RegistryInv
  OBVIOUS
<1>1. /\ reply = [r \in Requests |-> None] /\ None # "created"
      /\ workspaces = <<>> /\ items = <<>>
      /\ disk = [projects |-> <<>>, workspaces |-> <<>>, items |-> <<>>]
  BY WorkspacesAssumption DEF WorkspacesInit
<1>2. DOMAIN items = {} /\ DOMAIN disk.items = {} /\ Ids(disk.workspaces) = {}
  BY <1>1 DEF Ids
<1>3. hostRestarts \in Nat
  BY DEF WorkspacesInit
<1> QED
  BY <1>1, <1>2, <1>3 DEF RegistryInv, HaveStatus

(* A create call that was answered "created" is in the file and in memory, however *)
(* many later saves fail and whenever hostd restarts.                             *)
THEOREM CreatedKept == WorkspacesSpec => []CreatedSurvives
<1>1. RegistryInv => CreatedSurvives
  <2> SUFFICES ASSUME RegistryInv, NEW r \in Requests, reply[r] = "created"
               PROVE  \/ r \in DOMAIN disk.items /\ r \in DOMAIN items
                      \/ r \in Registered /\ \E k \in DOMAIN disk.workspaces : disk.workspaces[k].id = r
    BY DEF CreatedSurvives
  <2>1. CASE r \in DOMAIN disk.items
    BY <2>1 DEF RegistryInv
  <2>2. CASE r \in Ids(disk.workspaces)
    BY <2>2 DEF RegistryInv, Ids, Registered
  <2> QED
    BY <2>1, <2>2 DEF RegistryInv
<1> QED
  BY <1>1, OwnedInit, OwnedStep, RegistryInit, RegistryStep, PTL DEF WorkspacesSpec

(* Within one run of hostd a stopped item stays stopped: the id of an item is new *)
(* when it is registered, and a prober writes only over "starting".               *)
THEOREM StoppedKept == WorkspacesSpec => StoppedStays
<1> DEFINE Stays == \A i \in DOMAIN items :
              items[i].status = "stopped" /\ hostRestarts' = hostRestarts => items'[i].status = "stopped"
<1>1. OwnedInv /\ RegistryInv /\ [WorkspacesNext]_workspacesVars => [Stays]_workspacesVars
  <2> SUFFICES ASSUME OwnedInv, RegistryInv, WorkspacesNext,
                      NEW i \in DOMAIN items, items[i].status = "stopped", hostRestarts' = hostRestarts
               PROVE  items'[i].status = "stopped"
    OBVIOUS
  <2>1. PICK r \in Requests : CreateStep(r) \/ ItemStep(r) \/ ProbeStep(r)
    BY DEF WorkspacesNext, RestartHost, RegistryInv
  <2>2. ItemsChange(r)
    BY <2>1, CreateWrites, ItemWrites, ProbeWrites DEF FileWritten
  <2>3. CASE UNCHANGED items
    BY <2>3
  <2>4. ASSUME NEW j, NEW status, items' = [items EXCEPT ![j].status = status],
               items[j].status = "stopped" => status = "stopped"
        PROVE  items'[i].status = "stopped"
    <3>1. "status" \in DOMAIN items[i]
      BY DEF RegistryInv, HaveStatus
    <3>2. CASE i = j
      BY <2>4, <3>1, <3>2
    <3>3. CASE i # j
      BY <2>4, <3>3
    <3> QED
      BY <3>2, <3>3
  <2>5. ASSUME pc[r] = "tabbed", NEW item, items' = Put(items, r, item)
        PROVE  items'[i].status = "stopped"
    <3>1. i # r
      BY <2>5 DEF RegistryInv, BeforeItem, TabLabels
    <3> QED
      BY <2>5, <3>1 DEF Put
  <2> QED
    BY <2>2, <2>3, <2>4, <2>5 DEF ItemsChange
<1> QED
  BY <1>1, OwnedInit, OwnedStep, RegistryInit, RegistryStep, PTL DEF WorkspacesSpec, StoppedStays

-------------------------------------------------------------------------------
(* Resources and re-authentication, for every number of calls and restarts.  *)

(* A start that has spawned its process knows it, and every process that runs is  *)
(* somebody's.                                                                    *)
OwnerInv ==
    /\ DOMAIN child = Calls /\ DOMAIN step = Calls /\ DOMAIN held = Calls
    /\ \A c \in Calls : step[c] = "spawned" => held[c].process = c
    /\ NoOrphanProcess

Owned(p) ==
    \/ \E r \in DOMAIN attempt : attempt[r] = p
    \/ step[p] = "spawned"
    \/ \E c \in Calls : step[c] = "finishing" /\ held[c].process = p

(* Killing ends a process and touches no other.                                   *)
LEMMA Kills ==
    ASSUME NEW children, NEW p
    PROVE  /\ DOMAIN Kill(children, p) = DOMAIN children
           /\ \A q \in DOMAIN children :
                 Kill(children, p)[q] = "running" => children[q] = "running" /\ q # p
BY DEF Kill

(* Only call c moves, and it did not hold a process that still runs.              *)
LEMMA OwnersKept ==
    ASSUME OwnerInv, NEW c \in Calls, NEW l, NEW h,
           step' = [step EXCEPT ![c] = l], held' = [held EXCEPT ![c] = h],
           l = "spawned" => h.process = c,
           DOMAIN child' = Calls,
           \A p \in Calls : child'[p] = "running" => Owned(p)'
    PROVE  OwnerInv'
BY DEF OwnerInv, NoOrphanProcess, Owned

(* A call that neither spawns nor owns a process comes to its end or goes on.     *)
LEMMA Answers ==
    ASSUME OwnerInv, NEW c \in Calls, NEW answer, Finish(c, answer), step[c] = "idle",
           UNCHANGED <<child, attempt>>
    PROVE  OwnerInv'
<1>1. step' = [step EXCEPT ![c] = "done"] /\ held' = [held EXCEPT ![c] = None]
  BY DEF Finish
<1>2. \A p \in Calls : child'[p] = "running" => Owned(p)'
  BY <1>1 DEF OwnerInv, NoOrphanProcess, Owned
<1> QED
  BY <1>1, <1>2, OwnersKept DEF OwnerInv

(* A start spawns its process and holds it.                                       *)
LEMMA Starts ==
    ASSUME OwnerInv, NEW c \in Calls, NEW r, BeginStart(c, r)
    PROVE  OwnerInv'
<1>1. step[c] = "idle" /\ UNCHANGED attempt
  BY DEF BeginStart, Arrives
<1>2. CASE Await(c, "spawned", [on |-> r, process |-> c]) /\ Spawn(c)
  <2>1. /\ step' = [step EXCEPT ![c] = "spawned"]
        /\ held' = [held EXCEPT ![c] = [on |-> r, process |-> c]]
        /\ child' = [child EXCEPT ![c] = "running"]
    BY <1>2 DEF Await, Spawn
  <2>2. \A p \in Calls : child'[p] = "running" => Owned(p)'
    BY <1>1, <2>1 DEF OwnerInv, NoOrphanProcess, Owned
  <2> QED
    BY <2>1, <2>2, OwnersKept DEF OwnerInv
<1>3. CASE \E answer : Finish(c, answer) /\ UNCHANGED child
  BY <1>1, <1>3, Answers
<1> QED
  BY <1>2, <1>3 DEF BeginStart

(* The process of a start is listed, or killed if another start was faster.       *)
LEMMA Inserts ==
    ASSUME OwnerInv, NEW c \in Calls, InsertAttempt(c)
    PROVE  OwnerInv'
<1>1. step[c] = "spawned" /\ held[c].process = c
  BY DEF InsertAttempt, OwnerInv
<1>2. step' = [step EXCEPT ![c] = "done"] /\ held' = [held EXCEPT ![c] = None]
  BY DEF InsertAttempt, Finish
<1>3. CASE child' = Kill(child, c) /\ UNCHANGED attempt
  <2>1. /\ DOMAIN child' = Calls /\ child'[c] # "running"
        /\ \A p \in Calls : child'[p] = "running" => child[p] = "running"
    BY <1>3, Kills DEF OwnerInv
  <2>2. \A p \in Calls : child'[p] = "running" => Owned(p)'
    BY <1>1, <1>2, <1>3, <2>1 DEF OwnerInv, NoOrphanProcess, Owned
  <2> QED
    BY <1>2, <2>1, <2>2, OwnersKept
<1>4. CASE /\ held[c].on \notin DOMAIN attempt
           /\ attempt' = Put(attempt, held[c].on, c) /\ UNCHANGED child
  <2>1. /\ held[c].on \in DOMAIN attempt' /\ attempt'[held[c].on] = c
        /\ \A r \in DOMAIN attempt : r \in DOMAIN attempt' /\ attempt'[r] = attempt[r]
    BY <1>4 DEF Put
  <2>2. \A p \in Calls : child'[p] = "running" => Owned(p)'
    BY <1>1, <1>2, <1>4, <2>1 DEF OwnerInv, NoOrphanProcess, Owned
  <2> QED
    BY <1>2, <1>4, <2>2, OwnersKept DEF OwnerInv
<1> QED
  BY <1>1, <1>3, <1>4 DEF InsertAttempt

(* A timer that fires kills what it takes from the table.                         *)
LEMMA TimesOut ==
    ASSUME OwnerInv, NEW c \in Calls, IdleTimeout(c)
    PROVE  OwnerInv'
<1> DEFINE r == watcher[c].on
<1>1. UNCHANGED <<step, held>>
  BY DEF IdleTimeout
<1>2. CASE UNCHANGED <<child, attempt>>
  BY <1>1, <1>2 DEF OwnerInv, NoOrphanProcess
<1>3. CASE r \in DOMAIN attempt /\ child' = Kill(child, attempt[r]) /\ attempt' = Drop(attempt, {r})
  <2>1. /\ DOMAIN child' = Calls
        /\ \A p \in Calls : child'[p] = "running" => child[p] = "running" /\ p # attempt[r]
    BY <1>3, Kills DEF OwnerInv
  <2>2. \A q \in DOMAIN attempt : q # r => q \in DOMAIN attempt' /\ attempt'[q] = attempt[q]
    BY <1>3 DEF Drop
  <2> QED
    BY <1>1, <2>1, <2>2 DEF OwnerInv, NoOrphanProcess
<1> QED
  BY <1>1, <1>2, <1>3 DEF IdleTimeout

(* A completion takes over the process it finds, or kills it and spawns its own.  *)
LEMMA Completes ==
    ASSUME OwnerInv, NEW c \in Calls, NEW r, BeginComplete(c, r)
    PROVE  OwnerInv'
<1>1. step[c] = "idle"
  BY DEF BeginComplete, Arrives
<1>2. CASE \E answer : Finish(c, answer) /\ UNCHANGED <<child, attempt>>
  BY <1>1, <1>2, Answers
<1>3. ASSUME NEW p, Await(c, "finishing", [on |-> r, process |-> p]),
             DOMAIN child' = Calls,
             \A q \in Calls : child'[q] = "running" =>
                q = p \/ (child[q] = "running" /\ \A i \in DOMAIN attempt : attempt[i] = q =>
                             i \in DOMAIN attempt' /\ attempt'[i] = q)
      PROVE  OwnerInv'
  <2>1. /\ step' = [step EXCEPT ![c] = "finishing"]
        /\ held' = [held EXCEPT ![c] = [on |-> r, process |-> p]]
    BY <1>3 DEF Await
  <2>2. step'[c] = "finishing" /\ held'[c].process = p
    BY <2>1 DEF OwnerInv
  <2>3. \A q \in Calls \ {c} : step'[q] = step[q] /\ held'[q] = held[q]
    BY <2>1 DEF OwnerInv
  <2>4. \A q \in Calls : child'[q] = "running" => Owned(q)'
    BY <1>1, <1>3, <2>2, <2>3 DEF OwnerInv, NoOrphanProcess, Owned
  <2> QED
    BY <1>3, <2>1, <2>4, OwnersKept
<1>4. CASE CompleteB(c, r)
  <2>1. CASE r \in DOMAIN attempt
    <3>1. /\ attempt' = Drop(attempt, {r}) /\ UNCHANGED child
          /\ Await(c, "finishing", [on |-> r, process |-> attempt[r]])
      BY <1>4, <2>1 DEF CompleteB
    <3>2. \A i \in DOMAIN attempt : i # r => i \in DOMAIN attempt' /\ attempt'[i] = attempt[i]
      BY <3>1 DEF Drop
    <3> QED
      BY <1>3, <3>1, <3>2 DEF OwnerInv
  <2> QED
    BY <1>2, <1>4, <2>1 DEF CompleteB
<1>5. CASE CompleteC(c, r)
  <2>1. CASE Await(c, "finishing", [on |-> r, process |-> c]) /\ Spawn(c) /\ UNCHANGED attempt
    <3>1. DOMAIN child' = Calls /\ \A q \in Calls : child'[q] = "running" => q = c \/ child[q] = "running"
      BY <2>1 DEF Spawn, OwnerInv
    <3> QED
      BY <1>3, <2>1, <3>1
  <2> QED
    BY <1>2, <1>5, <2>1 DEF CompleteC
<1>6. CASE CompleteD(c, r)
  <2>1. attempt' = Drop(attempt, {r}) /\ Await(c, "finishing", [on |-> r, process |-> c])
    BY <1>6 DEF CompleteD
  <2>2. \A i \in DOMAIN attempt : i # r => i \in DOMAIN attempt' /\ attempt'[i] = attempt[i]
    BY <2>1 DEF Drop
  <2>3. /\ DOMAIN child' = Calls
        /\ \A q \in Calls : child'[q] = "running" =>
              q = c \/ (child[q] = "running" /\ (r \in DOMAIN attempt => q # attempt[r]))
    BY <1>6, Kills DEF CompleteD, OwnerInv
  <2> QED
    BY <1>3, <2>1, <2>2, <2>3
<1> QED
  BY <1>2, <1>4, <1>5, <1>6 DEF BeginComplete

(* A completion ends with its process.                                            *)
LEMMA Finishes ==
    ASSUME OwnerInv, NEW c \in Calls, NEW verified, NEW saved, FinishComplete(c, verified, saved)
    PROVE  OwnerInv'
<1>1. /\ step[c] = "finishing" /\ UNCHANGED attempt
      /\ step' = [step EXCEPT ![c] = "done"] /\ held' = [held EXCEPT ![c] = None]
  BY DEF FinishComplete, Finish
<1>2. /\ DOMAIN child' = Calls
      /\ \A p \in Calls : child'[p] = "running" => child[p] = "running" /\ p # held[c].process
  BY Kills DEF FinishComplete, OwnerInv
<1>3. \A p \in Calls : child'[p] = "running" => Owned(p)'
  BY <1>1, <1>2 DEF OwnerInv, NoOrphanProcess, Owned
<1> QED
  BY <1>1, <1>2, <1>3, OwnersKept

(* Every step of hostd keeps the invariant.                                       *)
LEMMA OwnerStep == OwnerInv /\ [ReauthNext]_reauthVars => OwnerInv'
<1> SUFFICES ASSUME OwnerInv, [ReauthNext]_reauthVars PROVE OwnerInv'
  OBVIOUS
<1>1. ASSUME NEW c \in Calls, NEW d, Propose(c, d) PROVE OwnerInv'
  <2>1. step[c] = "idle" /\ UNCHANGED <<child, attempt>> /\ \E answer : Finish(c, answer)
    BY <1>1 DEF Propose, Arrives, processes
  <2> QED
    BY <2>1, Answers
<1>2. ASSUME NEW c \in Calls, NEW p, NEW approve, NEW saved, Confirm(c, p, approve, saved)
      PROVE  OwnerInv'
  <2>1. step[c] = "idle" /\ UNCHANGED <<child, attempt>> /\ \E answer : Finish(c, answer)
    BY <1>2 DEF Confirm, Arrives, processes
  <2> QED
    BY <2>1, Answers
<1>3. ASSUME NEW c \in Calls, ReauthCall(c) PROVE OwnerInv'
  BY <1>1, <1>2, <1>3, Starts, Inserts, Completes, Finishes DEF ReauthCall
<1>4. ASSUME NEW c \in Calls, Watch(c) PROVE OwnerInv'
  <2>1. CASE WatchForUrl(c)
    BY <2>1 DEF WatchForUrl, OwnerInv, NoOrphanProcess
  <2> QED
    BY <1>4, <2>1, TimesOut DEF Watch
<1>5. ASSUME NEW c \in Calls, ChildExits(c) PROVE OwnerInv'
  BY <1>5 DEF ChildExits, OwnerInv, NoOrphanProcess
<1>6. CASE RestartReauth
  <2>1. /\ \A p \in Calls : child'[p] # "running" /\ step'[p] # "spawned"
        /\ DOMAIN child' = Calls /\ DOMAIN step' = Calls /\ DOMAIN held' = Calls
    BY <1>6 DEF RestartReauth
  <2> QED
    BY <2>1 DEF OwnerInv, NoOrphanProcess
<1>7. CASE UNCHANGED reauthVars
  BY <1>7 DEF reauthVars, processes, OwnerInv, NoOrphanProcess
<1> QED
  BY <1>3, <1>4, <1>5, <1>6, <1>7 DEF ReauthNext

(* However starts, completions, timers and restarts race, no login process is     *)
(* left running that nobody waits for or times out.                               *)
THEOREM NoOrphans == ReauthSpec => []NoOrphanProcess
<1>1. ReauthInit => OwnerInv
  BY ReauthAssumption DEF ReauthInit, OwnerInv, NoOrphanProcess
<1>2. OwnerInv => NoOrphanProcess
  BY DEF OwnerInv
<1> QED
  BY <1>1, <1>2, OwnerStep, PTL DEF ReauthSpec

(* The types.  A table is partial: its entries are of one kind, under known names. *)
IsTable(f, names, kinds) == DOMAIN f \subseteq names /\ \A x \in DOMAIN f : f[x] \in kinds

LEMMA TablePut ==
    ASSUME NEW names, NEW kinds, NEW f, IsTable(f, names, kinds), NEW x \in names, NEW v \in kinds
    PROVE  IsTable(Put(f, x, v), names, kinds) /\ DOMAIN Put(f, x, v) = DOMAIN f \cup {x}
BY DEF IsTable, Put

LEMMA TableDropped ==
    ASSUME NEW names, NEW kinds, NEW f, IsTable(f, names, kinds), NEW S
    PROVE  IsTable(Drop(f, S), names, kinds) /\ DOMAIN Drop(f, S) = DOMAIN f \ S
BY DEF IsTable, Drop

ChildStates == {None, "running", "exited", "killed", "lost"}
WatcherStates == {None} \cup [on : Calls, phase : {"reading", "waiting"}]
Outcomes == {None, "proposed", "confirmed", "refused", "started", "verified",
             "unverified", "invalid", "conflict", "not_found", "error"}

ListTypes ==
    /\ IsTable(proposals, Calls, ProposalRecords)
    /\ IsTable(resources, Calls, ResourceRecords)
    /\ IsTable(resourcesFile, DOMAIN resources, ResourceRecords)

ProcessTypes ==
    /\ IsTable(attempt, DOMAIN resources, Calls)
    /\ child \in [Calls -> ChildStates]
    /\ watcher \in [Calls -> WatcherStates]

ReauthCallTypes ==
    /\ step \in [Calls -> {"idle", "spawned", "finishing", "done"}]
    /\ DOMAIN held = Calls
    /\ \A c \in Calls :
          IF step[c] \in {"spawned", "finishing"}
          THEN held[c].on \in DOMAIN resources /\ held[c].process \in Calls
          ELSE held[c] = None
    /\ outcome \in [Calls -> Outcomes]

ReauthTypes == ListTypes /\ ProcessTypes /\ ReauthCallTypes /\ reauthRestarts \in 0 .. MaxReauthRestarts

(* Killing a process or starting one.                                             *)
LEMMA ChildTypes ==
    ASSUME NEW children \in [Calls -> ChildStates], NEW p \in Calls
    PROVE  /\ Kill(children, p) \in [Calls -> ChildStates]
           /\ [children EXCEPT ![p] = "running"] \in [Calls -> ChildStates]
           /\ [children EXCEPT ![p] = "exited"] \in [Calls -> ChildStates]
BY DEF Kill, ChildStates

(* A call that ends, and one that waits with a resource and a process.            *)
LEMMA CallFinishes ==
    ASSUME ReauthCallTypes, NEW c \in Calls, NEW answer \in Outcomes, Finish(c, answer),
           DOMAIN resources \subseteq DOMAIN resources'
    PROVE  ReauthCallTypes'
BY DEF ReauthCallTypes, Finish

LEMMA CallAwaits ==
    ASSUME ReauthCallTypes, NEW c \in Calls, NEW label \in {"spawned", "finishing"},
           NEW r \in DOMAIN resources, NEW p \in Calls, UNCHANGED resources,
           Await(c, label, [on |-> r, process |-> p])
    PROVE  ReauthCallTypes'
BY DEF ReauthCallTypes, Await

(* Declaring resources.                                                           *)
LEMMA DeclaresTypes ==
    ASSUME ReauthTypes, NEW c \in Calls,
           \/ \E declaration \in Declarations : Propose(c, declaration)
           \/ \E p \in Calls, approve, saved \in BOOLEAN : Confirm(c, p, approve, saved)
    PROVE  ReauthTypes'
<1>1. UNCHANGED <<attempt, child, watcher, reauthRestarts>>
  BY DEF Propose, Confirm, processes
<1>2. ASSUME NEW declaration \in Declarations, Propose(c, declaration) PROVE ReauthTypes'
  <2> DEFINE rec == [pattern |-> declaration.pattern, command |-> declaration.command]
  <2>1. rec \in ProposalRecords
    BY DEF Declarations, ProposalRecords, Patterns
  <2>2. UNCHANGED <<resources, resourcesFile>> /\ proposals' \in {proposals, Put(proposals, c, rec)}
    BY <1>2 DEF Propose
  <2>3. ListTypes'
    BY <2>1, <2>2 DEF ReauthTypes, ListTypes, IsTable, Put
  <2>4. Finish(c, "invalid") \/ Finish(c, "proposed")
    BY <1>2 DEF Propose
  <2>5. ReauthCallTypes'
    BY <2>2, <2>4, CallFinishes DEF ReauthTypes, Outcomes
  <2> QED
    BY <1>1, <2>2, <2>3, <2>5 DEF ReauthTypes, ProcessTypes
<1>3. ASSUME NEW p \in Calls, NEW approve \in BOOLEAN, NEW saved \in BOOLEAN,
             Confirm(c, p, approve, saved)
      PROVE  ReauthTypes'
  <2> DEFINE rec == [pattern |-> proposals[p].pattern, command |-> proposals[p].command,
                     proposal |-> p, verified |-> FALSE]
             rs == Put(resources, c, rec)
  <2>1. \E answer \in Outcomes : Finish(c, answer)
    <3>1. Finish(c, "not_found") \/ Finish(c, "confirmed") \/ Finish(c, "error") \/ Finish(c, "refused")
      BY <1>3 DEF Confirm
    <3> QED
      BY <3>1 DEF Outcomes
  <2>2. CASE p \notin DOMAIN proposals
    <3>1. UNCHANGED <<proposals, resources, resourcesFile>>
      BY <1>3, <2>2 DEF Confirm, lists
    <3>2. ReauthCallTypes'
      BY <2>1, <3>1, CallFinishes DEF ReauthTypes
    <3> QED
      BY <1>1, <3>1, <3>2 DEF ReauthTypes, ListTypes, ProcessTypes
  <2>3. CASE p \in DOMAIN proposals
    <3>1. rec \in ResourceRecords
      BY <2>3 DEF ReauthTypes, ListTypes, IsTable, ProposalRecords, ResourceRecords
    <3>2. IsTable(rs, Calls, ResourceRecords) /\ DOMAIN rs = DOMAIN resources \cup {c}
      BY <3>1 DEF ReauthTypes, ListTypes, IsTable, Put
    <3>3. IsTable(proposals', Calls, ProposalRecords)
      BY <1>3, <2>3, <1>3 DEF Confirm, ReauthTypes, ListTypes, IsTable, Drop
    <3>4. \/ resources' = resources /\ resourcesFile' = resourcesFile
          \/ resources' = rs /\ resourcesFile' \in {resourcesFile, rs}
      BY <1>3, <2>3 DEF Confirm, AtomicWrite
    <3> HIDE DEF rs
    <3>5. ListTypes' /\ DOMAIN resources \subseteq DOMAIN resources'
      BY <3>2, <3>3, <3>4 DEF ReauthTypes, ListTypes, IsTable
    <3>6. ProcessTypes'
      BY <1>1, <3>5 DEF ReauthTypes, ProcessTypes, IsTable
    <3>7. ReauthCallTypes'
      BY <2>1, <3>5, CallFinishes DEF ReauthTypes
    <3> QED
      BY <1>1, <3>5, <3>6, <3>7 DEF ReauthTypes
  <2> QED
    BY <2>2, <2>3
<1> QED
  BY <1>2, <1>3

(* What happens to processes and attempts, the resources being what they were.    *)
LEMMA ProcessesMove ==
    ASSUME ReauthTypes, UNCHANGED <<lists, reauthRestarts>>,
           IsTable(attempt', DOMAIN resources, Calls), child' \in [Calls -> ChildStates],
           watcher' \in [Calls -> WatcherStates], ReauthCallTypes'
    PROVE  ReauthTypes'
BY DEF ReauthTypes, ListTypes, ProcessTypes, lists

(* A start, its entry in the table, and its timer.                                *)
LEMMA StartsTypes ==
    ASSUME ReauthTypes, NEW c \in Calls,
           (\E r \in DOMAIN resources : BeginStart(c, r)) \/ InsertAttempt(c) \/ Watch(c)
    PROVE  ReauthTypes'
<1>1. /\ IsTable(attempt, DOMAIN resources, Calls) /\ child \in [Calls -> ChildStates]
      /\ watcher \in [Calls -> WatcherStates] /\ ReauthCallTypes /\ DOMAIN resources \subseteq Calls
  BY DEF ReauthTypes, ProcessTypes, ListTypes, IsTable
<1>2. UNCHANGED <<lists, reauthRestarts>>
  BY DEF BeginStart, InsertAttempt, Watch, WatchForUrl, IdleTimeout
<1>3. UNCHANGED resources
  BY <1>2 DEF lists
<1>4. ASSUME NEW r \in DOMAIN resources, BeginStart(c, r) PROVE ReauthTypes'
  <2>1. UNCHANGED <<attempt, watcher>> /\ child' \in {child, [child EXCEPT ![c] = "running"]}
    BY <1>4 DEF BeginStart, Spawn
  <2>2. \/ Finish(c, "started") \/ Finish(c, "invalid")
        \/ Await(c, "spawned", [on |-> r, process |-> c])
    BY <1>4 DEF BeginStart
  <2>3. ReauthCallTypes'
    BY <1>1, <1>3, <2>2, CallFinishes, CallAwaits DEF Outcomes
  <2>4. child' \in [Calls -> ChildStates]
    BY <1>1, <2>1, ChildTypes
  <2> QED
    BY <1>1, <1>2, <2>1, <2>3, <2>4, ProcessesMove
<1>5. CASE InsertAttempt(c)
  <2>1. held[c].on \in DOMAIN resources /\ held[c].process \in Calls
    BY <1>1, <1>5 DEF InsertAttempt, ReauthCallTypes
  <2>2. Finish(c, "conflict") \/ Finish(c, "started")
    BY <1>5 DEF InsertAttempt
  <2>3. ReauthCallTypes'
    BY <1>1, <1>3, <2>2, CallFinishes DEF Outcomes
  <2>4. child' \in [Calls -> ChildStates]
    BY <1>1, <1>5, ChildTypes DEF InsertAttempt
  <2>5. IsTable(attempt', DOMAIN resources, Calls)
    BY <1>1, <1>5, <2>1 DEF InsertAttempt, IsTable, Put
  <2>6. watcher' \in [Calls -> WatcherStates]
    <3>1. [on |-> held[c].on, phase |-> "reading"] \in WatcherStates
      BY <1>1, <2>1 DEF WatcherStates
    <3> QED
      BY <1>1, <1>5, <3>1 DEF InsertAttempt
  <2> QED
    BY <1>2, <2>3, <2>4, <2>5, <2>6, ProcessesMove
<1>6. ASSUME UNCHANGED <<step, held, outcome>> PROVE ReauthCallTypes'
  BY <1>1, <1>3, <1>6 DEF ReauthCallTypes
<1>7. CASE WatchForUrl(c)
  <2>1. UNCHANGED <<attempt, child, step, held, outcome>>
    BY <1>7 DEF WatchForUrl
  <2>2. watcher[c] \in [on : Calls, phase : {"reading", "waiting"}]
    BY <1>1, <1>7 DEF WatchForUrl, WatcherStates
  <2>3. [watcher[c] EXCEPT !.phase = "waiting"] \in WatcherStates
    BY <2>2 DEF WatcherStates
  <2>4. watcher' \in [Calls -> WatcherStates]
    BY <1>1, <1>7, <2>3 DEF WatchForUrl
  <2> QED
    BY <1>1, <1>2, <1>6, <2>1, <2>4, ProcessesMove
<1>8. CASE IdleTimeout(c)
  <2>1. UNCHANGED <<step, held, outcome>> /\ watcher' = [watcher EXCEPT ![c] = None]
    BY <1>8 DEF IdleTimeout
  <2>2. watcher' \in [Calls -> WatcherStates]
    BY <1>1, <2>1 DEF WatcherStates
  <2>3. IsTable(attempt', DOMAIN resources, Calls) /\ child' \in [Calls -> ChildStates]
    <3>1. CASE watcher[c].on \in DOMAIN attempt
      <4>1. attempt[watcher[c].on] \in Calls
        BY <1>1, <3>1 DEF IsTable
      <4> QED
        BY <1>1, <1>8, <3>1, <4>1, ChildTypes DEF IdleTimeout, IsTable, Drop
    <3>2. CASE watcher[c].on \notin DOMAIN attempt
      BY <1>1, <1>8, <3>2 DEF IdleTimeout
    <3> QED
      BY <3>1, <3>2
  <2> QED
    BY <1>2, <1>6, <2>1, <2>2, <2>3, ProcessesMove
<1> QED
  BY <1>4, <1>5, <1>7, <1>8 DEF Watch

(* A completion is begun.                                                         *)
LEMMA CompletesTypes ==
    ASSUME ReauthTypes, NEW c \in Calls, NEW r \in DOMAIN resources, BeginComplete(c, r)
    PROVE  ReauthTypes'
<1>1. /\ IsTable(attempt, DOMAIN resources, Calls) /\ child \in [Calls -> ChildStates]
      /\ watcher \in [Calls -> WatcherStates] /\ ReauthCallTypes
  BY DEF ReauthTypes, ProcessTypes
<1>2. UNCHANGED <<lists, watcher, reauthRestarts>> /\ UNCHANGED resources
  BY DEF BeginComplete, lists
<1>3. r \in DOMAIN attempt => attempt[r] \in Calls
  BY <1>1 DEF IsTable
<1>4. \/ Finish(c, "invalid") \/ Finish(c, "conflict")
      \/ Await(c, "finishing", [on |-> r, process |-> c])
      \/ r \in DOMAIN attempt /\ Await(c, "finishing", [on |-> r, process |-> attempt[r]])
  BY DEF BeginComplete, CompleteB, CompleteC, CompleteD
<1>5. ReauthCallTypes'
  BY <1>1, <1>2, <1>3, <1>4, CallFinishes, CallAwaits DEF Outcomes
<1>6. attempt' \in {attempt, Drop(attempt, {r})}
  BY DEF BeginComplete, CompleteB, CompleteC, CompleteD
<1>7. IsTable(attempt', DOMAIN resources, Calls)
  BY <1>1, <1>6 DEF IsTable, Drop
<1>8. child' \in [Calls -> ChildStates]
  <2>1. \/ child' = child \/ child' = [child EXCEPT ![c] = "running"]
        \/ r \in DOMAIN attempt /\ child' = [Kill(child, attempt[r]) EXCEPT ![c] = "running"]
    BY DEF BeginComplete, CompleteB, CompleteC, CompleteD, Spawn
  <2>2. CASE r \in DOMAIN attempt /\ child' = [Kill(child, attempt[r]) EXCEPT ![c] = "running"]
    <3>1. Kill(child, attempt[r]) \in [Calls -> ChildStates]
      BY <1>1, <1>3, <2>2, ChildTypes
    <3> QED
      BY <2>2, <3>1, ChildTypes
  <2> QED
    BY <1>1, <2>1, <2>2, ChildTypes
<1> QED
  BY <1>1, <1>2, <1>5, <1>7, <1>8, ProcessesMove

(* A completion ends.                                                             *)
LEMMA FinishesTypes ==
    ASSUME ReauthTypes, NEW c \in Calls, NEW verified \in BOOLEAN, NEW saved \in BOOLEAN,
           FinishComplete(c, verified, saved)
    PROVE  ReauthTypes'
<1> DEFINE r == held[c].on
           rs == [resources EXCEPT ![r].verified = TRUE]
<1>1. /\ r \in DOMAIN resources /\ held[c].process \in Calls
      /\ IsTable(resources, Calls, ResourceRecords)
      /\ UNCHANGED <<proposals, attempt, watcher, reauthRestarts>>
  BY DEF FinishComplete, ReauthTypes, ReauthCallTypes, ListTypes
<1>2. IsTable(rs, Calls, ResourceRecords) /\ DOMAIN rs = DOMAIN resources
  <2>1. resources[r] \in ResourceRecords
    BY <1>1 DEF IsTable
  <2>2. [resources[r] EXCEPT !.verified = TRUE] \in ResourceRecords
    BY <2>1 DEF ResourceRecords
  <2>3. /\ DOMAIN rs = DOMAIN resources /\ rs[r] = [resources[r] EXCEPT !.verified = TRUE]
        /\ \A q \in DOMAIN resources \ {r} : rs[q] = resources[q]
    BY <1>1
  <2> QED
    BY <1>1, <2>2, <2>3 DEF IsTable
<1>3. \/ resources' = resources /\ resourcesFile' = resourcesFile
      \/ resources' = rs /\ resourcesFile' \in {resourcesFile, rs}
  BY DEF FinishComplete, AtomicWrite
<1> HIDE DEF rs
<1>4. ListTypes' /\ DOMAIN resources' = DOMAIN resources
  BY <1>1, <1>2, <1>3 DEF ReauthTypes, ListTypes, IsTable
<1>5. child' \in [Calls -> ChildStates]
  BY <1>1, ChildTypes DEF FinishComplete, ReauthTypes, ProcessTypes
<1>6. ProcessTypes'
  BY <1>1, <1>4, <1>5 DEF ReauthTypes, ProcessTypes
<1>7. Finish(c, "verified") \/ Finish(c, "unverified")
  BY DEF FinishComplete
<1>8. ReauthCallTypes'
  BY <1>4, <1>7, CallFinishes DEF ReauthTypes, Outcomes
<1> QED
  BY <1>1, <1>4, <1>6, <1>8 DEF ReauthTypes

(* Every step keeps the types.                                                    *)
LEMMA ReauthTypesStep == ReauthTypes /\ [ReauthNext]_reauthVars => ReauthTypes'
<1> SUFFICES ASSUME ReauthTypes, [ReauthNext]_reauthVars PROVE ReauthTypes'
  OBVIOUS
<1>1. ASSUME NEW c \in Calls, ReauthCall(c) PROVE ReauthTypes'
  BY <1>1, DeclaresTypes, StartsTypes, CompletesTypes, FinishesTypes DEF ReauthCall
<1>2. ASSUME NEW c \in Calls, Watch(c) PROVE ReauthTypes'
  BY <1>2, StartsTypes
<1>3. ASSUME NEW c \in Calls, ChildExits(c) PROVE ReauthTypes'
  <2>1. child' \in [Calls -> ChildStates]
    BY <1>3, ChildTypes DEF ChildExits, ReauthTypes, ProcessTypes
  <2> QED
    BY <1>3, <2>1 DEF ChildExits, ReauthTypes, ListTypes, ProcessTypes, ReauthCallTypes, lists
<1>4. CASE RestartReauth
  <2>1. ListTypes'
    BY <1>4 DEF RestartReauth, ReauthTypes, ListTypes, IsTable
  <2>2. ProcessTypes'
    BY <1>4 DEF RestartReauth, ReauthTypes, ProcessTypes, IsTable, ChildStates, WatcherStates
  <2>3. ReauthCallTypes'
    BY <1>4 DEF RestartReauth, ReauthTypes, ReauthCallTypes
  <2>4. reauthRestarts' \in 0 .. MaxReauthRestarts
    BY <1>4, ReauthAssumption DEF RestartReauth, ReauthTypes
  <2> QED
    BY <2>1, <2>2, <2>3, <2>4 DEF ReauthTypes
<1>5. CASE UNCHANGED reauthVars
  BY <1>5 DEF reauthVars, lists, processes, ReauthTypes, ListTypes, ProcessTypes, ReauthCallTypes
<1> QED
  BY <1>1, <1>2, <1>3, <1>4, <1>5 DEF ReauthNext

(* The lists, the table of attempts and what calls and watchers hold keep their   *)
(* types: whoever waits for a process waits for that of a listed resource.        *)
THEOREM ReauthTypeCorrect == ReauthSpec => []ReauthTypeOK
<1>1. ReauthInit => ReauthTypes
  BY ReauthAssumption DEF ReauthInit, ReauthTypes, ListTypes, ProcessTypes, ReauthCallTypes, IsTable,
                          ChildStates, WatcherStates, Outcomes
<1>2. ReauthTypes => ReauthTypeOK
  BY DEF ReauthTypes, ListTypes, ProcessTypes, ReauthCallTypes, IsTable, ReauthTypeOK,
         ChildStates, WatcherStates, Outcomes
<1> QED
  BY <1>1, <1>2, ReauthTypesStep, PTL DEF ReauthSpec

-------------------------------------------------------------------------------
(* The connection to the relay and what the start-up sets up, for every number of *)
(* starts, attempts and emits.  An event is in the queue once, while its emit is  *)
(* queued; whoever has come to dial has a credential.                             *)
Served == Trying \cup {"serving", "backoff"}
EmitStates == {"idle", "ignored", "failed", "written", "queued", "taken", "lost"}

CountTypes == starts \in 0 .. MaxStarts /\ retries \in 0 .. MaxAttempts
HostFileTypes ==
    /\ credential \in {None, "whole"} /\ enrollToken \in {None, "fresh", "consumed"}
    /\ ipcSocket \in {None, "live", "stale"}
    /\ toolDirs \subseteq Tools

StageTypes ==
    /\ linkStage \in Running \cup {"off"}
    /\ linkStage \in Served \cup {"setup", "install", "merge"} => credential # None
    /\ ipcSocket = "live" => linkStage \in Running

PowerTypes == power \in BOOLEAN /\ (power => linkStage \in Served)

LinkTypes == CountTypes /\ HostFileTypes /\ StageTypes /\ PowerTypes

QueueTypes ==
    /\ emitAt \in [Emits -> EmitStates]
    /\ eventQueue \in Seq(Emits) /\ Len(eventQueue) <= EventCapacity
    /\ \A i \in 1 .. Len(eventQueue) : emitAt[eventQueue[i]] = "queued"
    /\ \A i, j \in 1 .. Len(eventQueue) : eventQueue[i] = eventQueue[j] => i = j

HostLinkInv == LinkTypes /\ QueueTypes

(* The end of the process, whatever ends it.                                      *)
LEMMA EndsTypes ==
    ASSUME HostLinkInv, Ends, UNCHANGED enrollment
    PROVE  HostLinkInv'
<1>1. CountTypes'
  BY HostLinkAssumption DEF HostLinkInv, LinkTypes, CountTypes, Ends
<1>5. HostFileTypes'
  BY DEF HostLinkInv, LinkTypes, HostFileTypes, Ends, enrollment
<1>6. StageTypes'
  BY DEF Ends, StageTypes, HostFileTypes, Served, Running, Trying
<1>7. PowerTypes'
  BY Zenon DEF Ends, PowerTypes
<1>2. emitAt' \in [Emits -> EmitStates]
  BY DEF HostLinkInv, QueueTypes, Ends, EmitStates
<1>3. eventQueue' = <<>> /\ <<>> \in Seq(Emits) /\ Len(<<>>) = 0 /\ 0 <= EventCapacity
  BY EmptySeq, HostLinkAssumption DEF Ends
<1>4. 1 .. Len(eventQueue') = {}
  BY <1>3
<1> QED
  BY <1>1, <1>2, <1>3, <1>4, <1>5, <1>6, <1>7 DEF HostLinkInv, LinkTypes, QueueTypes

(* A step of the start-up or of the connection.                                   *)
LEMMA LinkSteps ==
    ASSUME HostLinkInv,
           \/ StartHostd \/ RelayEnrolls \/ SaveCredential \/ BindSocket
           \/ ReadSettings \/ InstallHooks \/ UserEditsSettings \/ (\E tool \in Tools : CheckTool(tool))
           \/ Dial \/ ReceiveHello \/ Authenticate \/ ConnectionEnds \/ Retry \/ RelayForgets
    PROVE  HostLinkInv'
<1>1. UNCHANGED <<emitAt, eventQueue>>
  BY DEF StartHostd, RelayEnrolls, SaveCredential, BindSocket, ReadSettings, InstallHooks,
         UserEditsSettings, CheckTool, Dial, ReceiveHello, Authenticate, ConnectionEnds, Retry,
         RelayForgets, LinkRest, ipcVars
<1>2. QueueTypes'
  BY <1>1 DEF HostLinkInv, QueueTypes
<1>3. CountTypes'
  <2>1. starts' = starts \/ (starts < MaxStarts /\ starts' = starts + 1)
    BY DEF StartHostd, RelayEnrolls, SaveCredential, BindSocket, ReadSettings, InstallHooks,
           UserEditsSettings, CheckTool, Dial, ReceiveHello, Authenticate, ConnectionEnds, Retry,
           RelayForgets, LinkRest
  <2>2. retries' = retries \/ (retries < MaxAttempts /\ retries' = retries + 1)
    BY DEF StartHostd, RelayEnrolls, SaveCredential, BindSocket, ReadSettings, InstallHooks,
           UserEditsSettings, CheckTool, Dial, ReceiveHello, Authenticate, ConnectionEnds, Retry,
           RelayForgets
  <2> QED
    BY <2>1, <2>2, HostLinkAssumption DEF HostLinkInv, LinkTypes, CountTypes
<1>4. HostFileTypes'
  <2>1. credential' \in {credential, "whole"} /\ enrollToken' \in {enrollToken, "consumed"}
    BY DEF StartHostd, RelayEnrolls, SaveCredential, AtomicWrite, BindSocket, ReadSettings,
           InstallHooks, UserEditsSettings, CheckTool, Dial, ReceiveHello, Authenticate,
           ConnectionEnds, Retry, RelayForgets, LinkRest, enrollment
  <2>2. ipcSocket' \in {ipcSocket, "live", None}
    BY DEF StartHostd, RelayEnrolls, SaveCredential, BindSocket, ReadSettings,
           InstallHooks, UserEditsSettings, CheckTool, Dial, ReceiveHello, Authenticate,
           ConnectionEnds, Retry, RelayForgets, LinkRest, ipcVars
  <2>3. toolDirs' = toolDirs \/ \E tool \in Tools : toolDirs' = toolDirs \cup {tool}
    BY DEF StartHostd, RelayEnrolls, SaveCredential, BindSocket, ReadSettings,
           InstallHooks, UserEditsSettings, CheckTool, Prefers, Dial, ReceiveHello, Authenticate,
           ConnectionEnds, Retry, RelayForgets, LinkRest
  <2> QED
    BY <2>1, <2>2, <2>3 DEF HostLinkInv, LinkTypes, HostFileTypes
<1>5. StageTypes
  BY DEF HostLinkInv, LinkTypes
<1>6. ASSUME StartHostd PROVE StageTypes'
  BY <1>5, <1>6 DEF StartHostd, Reaches, StageTypes, Served, Running, Trying, enrollment, ipcVars
<1>7. ASSUME RelayEnrolls \/ SaveCredential PROVE StageTypes'
  BY <1>5, <1>7, HostLinkAssumption DEF RelayEnrolls, SaveCredential, AtomicWrite, Reaches,
     StageTypes, Served, Running, Trying, ipcVars
<1>8. ASSUME BindSocket PROVE StageTypes'
  BY <1>5, <1>8 DEF BindSocket, Reaches, StageTypes, Served, Running, Trying, enrollment
<1>9. ASSUME ReadSettings PROVE StageTypes'
  BY <1>5, <1>9 DEF ReadSettings, Reaches, StageTypes, Served, Running, Trying, enrollment, ipcVars
<1>10. ASSUME InstallHooks PROVE StageTypes'
  BY <1>5, <1>10 DEF InstallHooks, AcquirePower, Reaches, StageTypes, Served, Running, Trying,
     enrollment, ipcVars
<1>11. ASSUME UserEditsSettings \/ (\E tool \in Tools : CheckTool(tool)) \/ RelayForgets PROVE StageTypes'
  BY <1>5, <1>11 DEF UserEditsSettings, CheckTool, RelayForgets, StageTypes, enrollment, ipcVars
<1>12. ASSUME Dial \/ ReceiveHello \/ Authenticate \/ ConnectionEnds \/ Retry PROVE StageTypes'
  <2>1. linkStage \in Served /\ linkStage' \in Served /\ UNCHANGED <<credential, ipcSocket>>
    BY <1>12 DEF Dial, ReceiveHello, Authenticate, ConnectionEnds, Retry, LinkRest, Reaches, Served,
       Trying, enrollment, ipcVars
  <2> QED
    BY <1>5, <2>1 DEF StageTypes, Served, Running
<1>13. linkStage \in Served => linkStage' \in Served
  BY DEF StartHostd, RelayEnrolls, SaveCredential, BindSocket, ReadSettings, InstallHooks,
         UserEditsSettings, CheckTool, Dial, ReceiveHello, Authenticate, ConnectionEnds, Retry,
         RelayForgets, Reaches, Served, Trying
<1>14. power' = power \/ (power' \in BOOLEAN /\ linkStage' \in Served)
  BY DEF StartHostd, RelayEnrolls, SaveCredential, BindSocket, ReadSettings, InstallHooks,
         AcquirePower, UserEditsSettings, CheckTool, Dial, ReceiveHello, Authenticate,
         ConnectionEnds, Retry, RelayForgets, LinkRest, Reaches, Served, Trying
<1>15. PowerTypes'
  <2>1. PowerTypes
    BY DEF HostLinkInv, LinkTypes
  <2>2. ASSUME power' = power PROVE PowerTypes'
    BY <1>13, <2>1, <2>2, Zenon DEF PowerTypes
  <2>3. ASSUME power' \in BOOLEAN, linkStage' \in Served PROVE PowerTypes'
    BY <2>3, Zenon DEF PowerTypes
  <2> QED
    BY <1>14, <2>2, <2>3
<1> QED
  BY <1>2, <1>3, <1>4, <1>6, <1>7, <1>8, <1>9, <1>10, <1>11, <1>12, <1>15 DEF HostLinkInv, LinkTypes

(* An emit, the place of its event in the queue, and the taking of it.            *)
LEMMA EmitSteps ==
    ASSUME HostLinkInv,
           TakeEvent \/ \E c \in Emits : EmitIgnored(c) \/ EmitFails(c) \/ EmitWrites(c) \/ QueueEvent(c)
    PROVE  HostLinkInv'
<1>1. LinkTypes'
  BY DEF TakeEvent, EmitIgnored, EmitFails, EmitWrites, QueueEvent, EmitTo, HostLinkInv, LinkTypes,
         CountTypes, HostFileTypes, StageTypes, PowerTypes, enrollment
<1>2. /\ eventQueue \in Seq(Emits) /\ Len(eventQueue) \in Nat
      /\ \A i \in 1 .. Len(eventQueue) : eventQueue[i] \in Emits
  BY ElementOfSeq, LenProperties DEF HostLinkInv, QueueTypes
<1>3. ASSUME NEW c \in Emits, NEW l \in EmitStates, emitAt[c] # "queued",
             emitAt' = [emitAt EXCEPT ![c] = l], UNCHANGED eventQueue
      PROVE  QueueTypes'
  <2>1. \A i \in 1 .. Len(eventQueue) : eventQueue[i] # c
    BY <1>3 DEF HostLinkInv, QueueTypes
  <2> QED
    BY <1>2, <1>3, <2>1 DEF HostLinkInv, QueueTypes
<1>4. ASSUME NEW c \in Emits, EmitIgnored(c) \/ EmitFails(c) \/ EmitWrites(c) PROVE QueueTypes'
  <2>1. /\ emitAt[c] = "idle" /\ UNCHANGED eventQueue
        /\ \E l \in EmitStates : emitAt' = [emitAt EXCEPT ![c] = l]
    BY <1>4 DEF EmitIgnored, EmitFails, EmitWrites, EmitTo, Arrives, EmitStates
  <2> QED
    BY <1>3, <2>1
<1>5. ASSUME NEW c \in Emits, QueueEvent(c) PROVE QueueTypes'
  <2>1. /\ emitAt[c] = "written" /\ emitAt' = [emitAt EXCEPT ![c] = "queued"]
        /\ Len(eventQueue) < EventCapacity /\ eventQueue' = Append(eventQueue, c)
    BY <1>5 DEF QueueEvent, EmitTo
  <2>2. /\ eventQueue' \in Seq(Emits) /\ Len(eventQueue') = Len(eventQueue) + 1
        /\ eventQueue'[Len(eventQueue) + 1] = c
        /\ \A i \in 1 .. Len(eventQueue) : eventQueue'[i] = eventQueue[i]
    BY <1>2, <2>1, AppendProperties
  <2>3. Len(eventQueue') <= EventCapacity
    BY <1>2, <2>1, <2>2, HostLinkAssumption
  <2>4. \A i \in 1 .. Len(eventQueue') : i \in 1 .. Len(eventQueue) \/ i = Len(eventQueue) + 1
    BY <1>2, <2>2
  <2>5. \A i \in 1 .. Len(eventQueue) : eventQueue[i] # c
    BY <2>1 DEF HostLinkInv, QueueTypes
  <2>6. emitAt' \in [Emits -> EmitStates] /\ emitAt'[c] = "queued"
        /\ \A d \in Emits \ {c} : emitAt'[d] = emitAt[d]
    BY <2>1 DEF HostLinkInv, QueueTypes, EmitStates
  <2>7. \A i \in 1 .. Len(eventQueue') : emitAt'[eventQueue'[i]] = "queued"
    BY <1>2, <2>2, <2>4, <2>5, <2>6 DEF HostLinkInv, QueueTypes
  <2>8. ASSUME NEW i \in 1 .. Len(eventQueue'), NEW j \in 1 .. Len(eventQueue'),
               eventQueue'[i] = eventQueue'[j]
        PROVE  i = j
    BY <2>2, <2>4, <2>5, <2>8 DEF HostLinkInv, QueueTypes
  <2> QED
    BY <2>2, <2>3, <2>6, <2>7, <2>8 DEF QueueTypes
<1>6. ASSUME TakeEvent PROVE QueueTypes'
  <2> DEFINE c == Head(eventQueue)
  <2>1. /\ eventQueue # <<>> /\ emitAt' = [emitAt EXCEPT ![c] = "taken"]
        /\ eventQueue' = Tail(eventQueue)
    BY <1>6 DEF TakeEvent, EmitTo
  <2>2. c = eventQueue[1] /\ 1 \in 1 .. Len(eventQueue)
    BY <1>2, <2>1, EmptySeq, HeadTailProperties
  <2>3. /\ eventQueue' \in Seq(Emits) /\ Len(eventQueue') = Len(eventQueue) - 1
        /\ \A i \in 1 .. Len(eventQueue') : eventQueue'[i] = eventQueue[i + 1]
    BY <1>2, <2>1, HeadTailProperties
  <2>4. \A i \in 1 .. Len(eventQueue') : i + 1 \in 1 .. Len(eventQueue) /\ i + 1 # 1
    BY <1>2, <2>2, <2>3
  <2>5. Len(eventQueue') <= EventCapacity
    BY <1>2, <2>3, HostLinkAssumption DEF HostLinkInv, QueueTypes
  <2>6. /\ c \in Emits /\ emitAt' \in [Emits -> EmitStates]
        /\ \A d \in Emits \ {c} : emitAt'[d] = emitAt[d]
    BY <1>2, <2>1, <2>2 DEF HostLinkInv, QueueTypes, EmitStates
  <2>7. \A i \in 1 .. Len(eventQueue') : eventQueue[i + 1] \in Emits \ {c}
    BY <1>2, <2>2, <2>4 DEF HostLinkInv, QueueTypes
  <2> HIDE DEF c
  <2>8. \A i \in 1 .. Len(eventQueue') : emitAt'[eventQueue'[i]] = "queued"
    BY <2>3, <2>4, <2>6, <2>7 DEF HostLinkInv, QueueTypes
  <2>9. ASSUME NEW i \in 1 .. Len(eventQueue'), NEW j \in 1 .. Len(eventQueue'),
               eventQueue'[i] = eventQueue'[j]
        PROVE  i = j
    <3>1. eventQueue[i + 1] = eventQueue[j + 1]
      BY <2>3, <2>9
    <3>2. i + 1 \in 1 .. Len(eventQueue) /\ j + 1 \in 1 .. Len(eventQueue) /\ i \in Int /\ j \in Int
      BY <2>4
    <3>3. i + 1 = j + 1
      BY <3>1, <3>2 DEF HostLinkInv, QueueTypes
    <3> QED
      BY <3>2, <3>3
  <2> QED
    BY <2>3, <2>5, <2>6, <2>8, <2>9 DEF QueueTypes
<1> QED
  BY <1>1, <1>4, <1>5, <1>6 DEF HostLinkInv

(* What is on disk, what the process holds and who waits for what keep their      *)
(* types: nobody dials without a credential, or holds the power assertion when    *)
(* nothing runs, and the queue holds each event once, while it is queued.         *)
THEOREM HostLinkTypeCorrect == HostLinkSpec => []HostLinkTypeOK
<1>1. HostLinkInit => HostLinkInv
  <2> SUFFICES ASSUME HostLinkInit PROVE HostLinkInv
    OBVIOUS
  <2>1. CountTypes /\ HostFileTypes /\ StageTypes
    BY HostLinkAssumption DEF HostLinkInit, CountTypes, HostFileTypes, StageTypes, Served, Running, Trying
  <2>4. PowerTypes
    BY Zenon DEF HostLinkInit, PowerTypes
  <2>2. eventQueue = <<>> /\ <<>> \in Seq(Emits) /\ Len(<<>>) = 0 /\ 0 <= EventCapacity
    BY EmptySeq, HostLinkAssumption DEF HostLinkInit
  <2>3. 1 .. Len(eventQueue) = {}
    BY <2>2
  <2> QED
    BY <2>1, <2>2, <2>3, <2>4 DEF HostLinkInit, HostLinkInv, LinkTypes, QueueTypes, EmitStates
<1>2. HostLinkInv => HostLinkTypeOK
  <2> SUFFICES ASSUME HostLinkInv PROVE HostLinkTypeOK
    OBVIOUS
  <2>1. DOMAIN eventQueue = 1 .. Len(eventQueue)
    BY LenProperties DEF HostLinkInv, QueueTypes
  <2>2. power => linkStage \in Trying \cup {"serving", "backoff"}
    BY Zenon DEF HostLinkInv, LinkTypes, PowerTypes, Served
  <2> QED
    BY <2>1, <2>2 DEF HostLinkInv, LinkTypes, CountTypes, HostFileTypes, StageTypes, QueueTypes,
                      HostLinkTypeOK, Served, EmitStates
<1>3. HostLinkInv /\ [HostLinkNext]_hostLinkVars => HostLinkInv'
  <2> SUFFICES ASSUME HostLinkInv, [HostLinkNext]_hostLinkVars PROVE HostLinkInv'
    OBVIOUS
  <2>1. CASE StartFails \/ Shutdown \/ Killed
    BY <2>1, EndsTypes DEF StartFails, Shutdown, Killed
  <2>2. CASE UNCHANGED hostLinkVars
    BY <2>2 DEF hostLinkVars, enrollment, ipcVars, HostLinkInv, LinkTypes, CountTypes, HostFileTypes,
                StageTypes, PowerTypes, QueueTypes
  <2> QED
    BY <2>1, <2>2, LinkSteps, EmitSteps DEF HostLinkNext
<1> QED
  BY <1>1, <1>2, <1>3, PTL DEF HostLinkSpec

-------------------------------------------------------------------------------
(* The types of the registry and of what its calls carry, table by table.         *)
CreateArgs == [name : Names, source : Sources, root : Paths \cup {None}, project : Requests \cup {None}]
ItemArgs == [ws : Requests, name : ItemNames, type : ItemTypes, session : Names]

\* What a call carries at a label, when these items exist.
ArgFits(label, a, itemIds) ==
    /\ label \in CreateLabels => a \in CreateArgs
    /\ label \in {"adopted", "parented"} => a.source.path \in Paths
    /\ label \in {"parented", "made", "sessioned"} => a.project \in Requests
    /\ label \in {"made", "sessioned"} => a.root \in Paths
    /\ label \in ItemLabels => a \in ItemArgs
    /\ label \in {"stopping", "closed"} => a.item \in itemIds

ArgTypes == \A r \in Requests : ArgFits(pc[r], arg[r], DOMAIN items)
RegistryTypes ==
    /\ projects \in ProjectMaps /\ workspaces \in Seq(WorkspaceRecords) /\ items \in ItemMaps
    /\ disk \in [projects : ProjectMaps, workspaces : Seq(WorkspaceRecords), items : ItemMaps]
SessionTypes == DOMAIN sessions \subseteq Names /\ \A s \in DOMAIN sessions : sessions[s] \subseteq ItemNames
NameTypes == reservedNames \subseteq Names /\ reservedItems \subseteq Requests \X ItemNames /\ dirs \subseteq Paths
AnswerTypes ==
    /\ prober \in [Requests -> {None, "polling", "running", "failed", "unknown"}]
    /\ reply \in [Requests -> {None, "created", "primary", "stopped", "conflict", "error"}]
    /\ hostRestarts \in 0 .. MaxHostRestarts
WorkspacesTypes == ArgTypes /\ RegistryTypes /\ SessionTypes /\ NameTypes /\ AnswerTypes

(* A map of requests that gains or changes an entry.                              *)
Maps(kinds) == UNION {[S -> kinds] : S \in SUBSET Requests}
LEMMA MapPut ==
    ASSUME NEW kinds, NEW f \in Maps(kinds), NEW x \in Requests, NEW v \in kinds
    PROVE  Put(f, x, v) \in Maps(kinds) /\ DOMAIN f \subseteq DOMAIN Put(f, x, v)
<1>1. PICK S \in SUBSET Requests : f \in [S -> kinds]
  BY DEF Maps
<1>2. Put(f, x, v) \in [S \cup {x} -> kinds]
  BY <1>1 DEF Put
<1> QED
  BY <1>1, <1>2 DEF Maps

LEMMA MapSet ==
    ASSUME NEW kinds, NEW f \in Maps(kinds), NEW x, NEW v \in kinds
    PROVE  [f EXCEPT ![x] = v] \in Maps(kinds)
<1>1. PICK S \in SUBSET Requests : f \in [S -> kinds]
  BY DEF Maps
<1>2. [f EXCEPT ![x] = v] \in [S -> kinds]
  BY <1>1
<1> QED
  BY <1>2 DEF Maps

LEMMA StatusSet ==
    ASSUME items \in ItemMaps, NEW i, NEW s \in Statuses
    PROVE  [items EXCEPT ![i].status = s] \in ItemMaps /\ DOMAIN [items EXCEPT ![i].status = s] = DOMAIN items
<1>1. PICK S \in SUBSET Requests : items \in [S -> Items]
  BY DEF ItemMaps
<1>2. i \in S => [items[i] EXCEPT !.status = s] \in Items
  BY <1>1 DEF Items
<1>3. [items EXCEPT ![i].status = s] \in [S -> Items]
  BY <1>1, <1>2
<1> QED
  BY <1>1, <1>3 DEF ItemMaps

(* A registered workspace has a name and a project.                               *)
LEMMA RegisteredHas ==
    ASSUME RegistryTypes, NEW id \in Registered
    PROVE  WorkspaceOf(id) \in WorkspaceRecords
<1>1. DOMAIN workspaces = 1 .. Len(workspaces) /\ \A k \in 1 .. Len(workspaces) : workspaces[k] \in WorkspaceRecords
  BY LenProperties, ElementOfSeq DEF RegistryTypes
<1>2. \E k \in DOMAIN workspaces : workspaces[k].id = id
  BY DEF Registered
<1> QED
  BY <1>1, <1>2 DEF WorkspaceOf

(* One call moves; the others keep what they carry.                               *)
Others(r) == \A q \in Requests \ {r} : pc'[q] = pc[q] /\ arg'[q] = arg[q]

LEMMA ArgsMove ==
    ASSUME ArgTypes, NEW r \in Requests, Others(r), DOMAIN items \subseteq DOMAIN items',
           ArgFits(pc'[r], arg'[r], DOMAIN items')
    PROVE  ArgTypes'
BY DEF ArgTypes, ArgFits, Others

LEMMA RequestEnds ==
    ASSUME Shape, ArgTypes, NEW r \in Requests, Goto(r, "done"), DOMAIN items \subseteq DOMAIN items',
           UNCHANGED arg \/ arg' = [arg EXCEPT ![r] = None]
    PROVE  ArgTypes'
<1>1. Others(r) /\ pc'[r] = "done"
  BY DEF Shape, Goto, Others
<1>2. ArgFits("done", arg'[r], DOMAIN items')
  BY DEF ArgFits, CreateLabels, ItemLabels, TabLabels, Working
<1> QED
  BY <1>1, <1>2, ArgsMove

LEMMA CallStays ==
    ASSUME Shape, ArgTypes, NEW r \in Requests, NEW label, Goto(r, label), UNCHANGED arg,
           DOMAIN items \subseteq DOMAIN items',
           \/ pc[r] \in CreateLabels /\ label = "releasing"
           \/ pc[r] = "made" /\ label = "sessioned"
           \/ pc[r] \in ItemLabels /\ label \in ItemLabels
           \/ pc[r] \in {"stopping", "closed"} /\ label \in {"stopping", "closed"}
    PROVE  ArgTypes'
<1>1. Others(r) /\ pc'[r] = label /\ arg'[r] = arg[r]
  BY DEF Shape, Goto, Others
<1>2. ArgFits(pc[r], arg[r], DOMAIN items)
  BY DEF ArgTypes
<1>3. ArgFits(label, arg[r], DOMAIN items')
  BY <1>2 DEF ArgFits, CreateLabels, ItemLabels, TabLabels, Working
<1> QED
  BY <1>1, <1>3, ArgsMove

LEMMA CheckoutMade ==
    ASSUME Shape, ArgTypes, NEW r \in Requests, pc[r] \in CreateLabels, NEW root \in Paths,
           NEW project \in Requests, Made(r, root, project)
    PROVE  ArgTypes'
<1>1. Others(r) /\ pc'[r] = "made" /\ UNCHANGED items
  BY DEF Shape, Made, Goto, Others, registry
<1>2. arg[r] \in CreateArgs
  BY DEF ArgTypes, ArgFits
<1>3. arg'[r] = [arg[r] EXCEPT !.root = root, !.project = project]
  BY DEF Shape, Made
<1>4. arg'[r] \in CreateArgs /\ arg'[r].root = root /\ arg'[r].project = project
  BY <1>2, <1>3 DEF CreateArgs
<1>5. ArgFits("made", arg'[r], DOMAIN items')
  BY <1>4 DEF ArgFits, ItemLabels, TabLabels
<1> QED
  BY <1>1, <1>5, ArgsMove

(* What a create call carries, step by step.                                      *)
LEMMA CreateArgsStep ==
    ASSUME Shape, ArgTypes, RegistryTypes, NEW r \in Requests, CreateStep(r)
    PROVE  ArgTypes'
<1>1. ASSUME NEW n \in Names, NEW source \in Sources, ReserveName(r, n, source) PROVE ArgTypes'
  <2>1. Others(r) /\ pc'[r] = "making" /\ UNCHANGED items
        /\ arg'[r] = [name |-> n, source |-> source, root |-> None, project |-> None]
    BY <1>1 DEF Shape, ReserveName, Goto, Others, registry
  <2>2. arg'[r] \in CreateArgs
    BY <2>1 DEF CreateArgs
  <2>3. ArgFits("making", arg'[r], DOMAIN items')
    BY <2>2 DEF ArgFits, ItemLabels, TabLabels
  <2> QED
    BY <2>1, <2>3, ArgsMove
<1>2. ASSUME NEW n, RejectName(r, n) PROVE ArgTypes'
  BY <1>2, RequestEnds DEF RejectName, Answer, registry
<1>3. ASSUME pc[r] \in CreateLabels, GiveUp(r) PROVE ArgTypes'
  BY <1>3, CallStays DEF GiveUp, Answer, registry
<1>4. ASSUME pc[r] \in CreateLabels PROVE arg[r] \in CreateArgs /\ arg[r].source \in Sources
  BY <1>4 DEF ArgTypes, ArgFits, CreateArgs
<1>5. ASSUME CloneRepo(r) PROVE ArgTypes'
  <2>1. pc[r] \in CreateLabels
    BY <1>5 DEF CloneRepo, CreateLabels, Working
  <2>2. arg[r].name \in Paths
    BY <1>4, <2>1 DEF CreateArgs, Paths
  <2> QED
    BY <1>3, <1>5, <2>1, <2>2, CheckoutMade DEF CloneRepo
<1>6. ASSUME ColocateRepo(r) PROVE ArgTypes'
  <2>1. pc[r] \in CreateLabels
    BY <1>6 DEF ColocateRepo, CreateLabels, Working
  <2>2. CASE Goto(r, "adopted") /\ UNCHANGED <<registry, arg>>
    <3>1. Others(r) /\ pc'[r] = "adopted" /\ arg'[r] = arg[r] /\ UNCHANGED items
      BY <2>2 DEF Shape, Goto, Others, registry
    <3>2. arg[r].source.path \in Paths
      BY <1>4, <1>6, <2>1 DEF ColocateRepo, Sources
    <3>3. ArgFits("adopted", arg[r], DOMAIN items')
      BY <1>4, <2>1, <3>2 DEF ArgFits, ItemLabels, TabLabels
    <3> QED
      BY <3>1, <3>3, ArgsMove
  <2> QED
    BY <1>3, <1>6, <2>1, <2>2 DEF ColocateRepo
<1>7. ASSUME FindProject(r) PROVE ArgTypes'
  <2>1. pc[r] \in CreateLabels /\ arg[r].source.path \in Paths
    BY <1>7 DEF FindProject, CreateLabels, Working, ArgTypes, ArgFits
  <2>2. \A k \in DOMAIN workspaces : workspaces[k].project \in Requests
    <3>1. DOMAIN workspaces = 1 .. Len(workspaces)
          /\ \A k \in 1 .. Len(workspaces) : workspaces[k] \in WorkspaceRecords
      BY LenProperties, ElementOfSeq DEF RegistryTypes
    <3> QED
      BY <3>1 DEF WorkspaceRecords
  <2>3. \E project \in Requests : Made(r, arg[r].source.path, project)
    BY <1>7, <2>2 DEF FindProject
  <2> QED
    BY <2>1, <2>3, CheckoutMade
<1>8. ASSUME FindParent(r) PROVE ArgTypes'
  <2>1. pc[r] \in CreateLabels
    BY <1>8 DEF FindParent, CreateLabels, Working
  <2>2. ASSUME arg[r].source.parent \in Registered,
               arg' = [arg EXCEPT ![r].project = WorkspaceOf(arg[r].source.parent).project],
               Goto(r, "parented"), UNCHANGED registry
        PROVE  ArgTypes'
    <3>1. WorkspaceOf(arg[r].source.parent).project \in Requests
      BY <2>2, RegisteredHas DEF WorkspaceRecords
    <3>2. Others(r) /\ pc'[r] = "parented" /\ UNCHANGED items
          /\ arg'[r] = [arg[r] EXCEPT !.project = WorkspaceOf(arg[r].source.parent).project]
      BY <2>2 DEF Shape, Goto, Others, registry
    <3>3. arg[r].source.path \in Paths
      BY <1>4, <1>8, <2>1 DEF FindParent, Sources
    <3>4. arg'[r] \in CreateArgs /\ arg'[r].project \in Requests /\ arg'[r].source.path \in Paths
      BY <1>4, <2>1, <3>1, <3>2, <3>3 DEF CreateArgs
    <3>5. ArgFits("parented", arg'[r], DOMAIN items')
      BY <3>4 DEF ArgFits, ItemLabels, TabLabels
    <3> QED
      BY <3>2, <3>5, ArgsMove
  <2> QED
    BY <1>3, <1>8, <2>1, <2>2 DEF FindParent
<1>9. ASSUME AddAgentWorkspace(r) PROVE ArgTypes'
  <2>1. pc[r] \in CreateLabels /\ arg[r].source.path \in Paths /\ arg[r].project \in Requests
    BY <1>9 DEF AddAgentWorkspace, CreateLabels, Working, ArgTypes, ArgFits
  <2> QED
    BY <1>3, <1>9, <2>1, CheckoutMade DEF AddAgentWorkspace
<1>10. ASSUME CreateSession(r) PROVE ArgTypes'
  BY <1>10, CallStays DEF CreateSession, Answer, registry, CreateLabels, Working
<1>11. ASSUME NEW saved, RegisterWorkspace(r, saved) PROVE ArgTypes'
  <2>1. pc[r] \in CreateLabels /\ Goto(r, "releasing") /\ UNCHANGED <<arg, items>>
    BY <1>11 DEF RegisterWorkspace, Answer, registry, CreateLabels, Working
  <2> QED
    BY <2>1, CallStays
<1>12. ASSUME ReleaseName(r) PROVE ArgTypes'
  BY <1>12, RequestEnds DEF ReleaseName, Return, registry
<1>13. ASSUME NEW p, NEW w, NEW saved, SetPrimaryWorkspace(r, p, w, saved) PROVE ArgTypes'
  <2>1. Goto(r, "done") /\ UNCHANGED <<arg, items>>
    BY <1>13 DEF SetPrimaryWorkspace, Answer
  <2> QED
    BY <2>1, RequestEnds
<1> QED
  BY <1>1, <1>2, <1>5, <1>6, <1>7, <1>8, <1>9, <1>10, <1>11, <1>12, <1>13 DEF CreateStep

(* What the calls about items carry, and what the steps that leave the calls      *)
(* alone keep.                                                                    *)
LEMMA ItemArgsStep ==
    ASSUME Shape, ArgTypes, RegistryTypes, NEW r \in Requests, ItemStep(r), DOMAIN items \subseteq DOMAIN items'
    PROVE  ArgTypes'
<1>1. ASSUME NEW w \in Requests, NEW n \in ItemNames, NEW type \in ItemTypes, ReserveItem(r, w, n, type)
      PROVE  ArgTypes'
  <2>1. WorkspaceOf(w).name \in Names
    BY <1>1, RegisteredHas DEF ReserveItem, WorkspaceRecords
  <2>2. /\ Others(r) /\ pc'[r] = "tabbing"
        /\ arg'[r] = [ws |-> w, name |-> n, type |-> type, session |-> WorkspaceOf(w).name]
    BY <1>1 DEF Shape, ReserveItem, Goto, Others
  <2>3. arg'[r] \in ItemArgs
    BY <2>1, <2>2 DEF ItemArgs
  <2>4. ArgFits("tabbing", arg'[r], DOMAIN items')
    BY <2>3 DEF ArgFits, CreateLabels, Working
  <2> QED
    BY <2>2, <2>4, ArgsMove
<1>2. ASSUME NEW w, NEW n, RejectItem(r, w, n) PROVE ArgTypes'
  BY <1>2, RequestEnds DEF RejectItem, Answer
<1>3. ASSUME CreateTab(r) PROVE ArgTypes'
  <2>1. pc[r] \in ItemLabels /\ UNCHANGED arg /\ \E label \in ItemLabels : Goto(r, label)
    BY <1>3 DEF CreateTab, Answer, ItemLabels, TabLabels
  <2> QED
    BY <2>1, CallStays
<1>4. ASSUME NEW saved, RegisterItem(r, saved) PROVE ArgTypes'
  <2>1. pc[r] \in ItemLabels /\ UNCHANGED arg /\ Goto(r, "itemReleasing") /\ "itemReleasing" \in ItemLabels
    BY <1>4 DEF RegisterItem, Answer, ItemLabels, TabLabels
  <2> QED
    BY <2>1, CallStays
<1>5. ASSUME ReleaseItem(r) PROVE ArgTypes'
  BY <1>5, RequestEnds DEF ReleaseItem, Return
<1>6. ASSUME NEW i \in Requests, StopItem(r, i) PROVE ArgTypes'
  <2>1. CASE items[i].status = "stopped"
    BY <1>6, <2>1, RequestEnds DEF StopItem, Answer
  <2>2. CASE items[i].status # "stopped"
    <3>1. Others(r) /\ pc'[r] = "stopping" /\ arg'[r].item = i /\ i \in DOMAIN items
      BY <1>6, <2>2 DEF Shape, StopItem, Goto, Others
    <3>2. ArgFits("stopping", arg'[r], DOMAIN items')
      BY <3>1 DEF ArgFits, CreateLabels, ItemLabels, TabLabels, Working
    <3> QED
      BY <3>1, <3>2, ArgsMove
  <2> QED
    BY <2>1, <2>2
<1>7. ASSUME CloseTab(r) PROVE ArgTypes'
  <2>1. pc[r] \in {"stopping", "closed"}
    BY <1>7 DEF CloseTab
  <2>2. \/ Goto(r, "closed") /\ UNCHANGED arg
        \/ Goto(r, "done") /\ arg' = [arg EXCEPT ![r] = None]
    BY <1>7 DEF CloseTab, Return
  <2> QED
    BY <2>1, <2>2, CallStays, RequestEnds
<1>8. ASSUME NEW saved, MarkItemStopped(r, saved) PROVE ArgTypes'
  BY <1>8, RequestEnds DEF MarkItemStopped, Return
<1> QED
  BY <1>1, <1>2, <1>3, <1>4, <1>5, <1>6, <1>7, <1>8 DEF ItemStep

(* What is saved is what is in memory.                                            *)
LEMMA SaveTypes ==
    ASSUME RegistryTypes, NEW ok, Save(projects', workspaces', items', ok),
           projects' \in ProjectMaps, workspaces' \in Seq(WorkspaceRecords), items' \in ItemMaps
    PROVE  RegistryTypes'
<1>1. disk' = disk \/ disk' = [projects |-> projects', workspaces |-> workspaces', items |-> items']
  BY DEF Save, AtomicWrite
<1> QED
  BY <1>1 DEF RegistryTypes

LEMMA RegistryTypesStep ==
    ASSUME ArgTypes, RegistryTypes, AnswerTypes, [WorkspacesNext]_workspacesVars
    PROVE  /\ RegistryTypes'
           /\ (\E r \in Requests : CreateStep(r) \/ ItemStep(r) \/ ProbeStep(r)) => DOMAIN items \subseteq DOMAIN items'
<1> DEFINE Grows == DOMAIN items \subseteq DOMAIN items'
<1>1. UNCHANGED registry => RegistryTypes' /\ Grows
  BY DEF registry, RegistryTypes
<1>2. projects \in Maps(Requests) /\ ProjectMaps = Maps(Requests) /\ items \in Maps(Items) /\ ItemMaps = Maps(Items)
  BY DEF RegistryTypes, ProjectMaps, ItemMaps, Maps
<1>3. ASSUME NEW r \in Requests, NEW saved, RegisterWorkspace(r, saved) PROVE RegistryTypes' /\ Grows
  <2>1. CASE NameTaken(arg[r].name)
    BY <1>1, <1>3, <2>1 DEF RegisterWorkspace
  <2>2. CASE ~NameTaken(arg[r].name)
    <3>1. /\ arg[r].name \in Names /\ arg[r].project \in Requests /\ arg[r].root \in Paths
      BY <1>3 DEF RegisterWorkspace, ArgTypes, ArgFits, CreateLabels, Working, CreateArgs
    <3>2. PICK ws : ws = [id |-> r, name |-> arg[r].name, project |-> arg[r].project, root |-> arg[r].root]
      OBVIOUS
    <3>3. ws \in WorkspaceRecords
      BY <3>1, <3>2 DEF WorkspaceRecords
    <3>4. Put(projects, arg[r].project, r) \in ProjectMaps
      BY <1>2, <3>1, MapPut
    <3>5. /\ projects' \in {projects, Put(projects, arg[r].project, r)}
          /\ workspaces' = Append(workspaces, ws) /\ UNCHANGED items /\ Save(projects', workspaces', items', saved)
      BY <1>3, <2>2, <3>2 DEF RegisterWorkspace
    <3>6. projects' \in ProjectMaps /\ workspaces' \in Seq(WorkspaceRecords) /\ items' \in ItemMaps
      BY <3>3, <3>4, <3>5, AppendProperties DEF RegistryTypes
    <3> QED
      BY <3>5, <3>6, SaveTypes
  <2> QED
    BY <2>1, <2>2
<1>4. ASSUME NEW r, NEW p, NEW w \in Requests, NEW saved, SetPrimaryWorkspace(r, p, w, saved)
      PROVE  RegistryTypes' /\ Grows
  <2>1. \/ UNCHANGED registry
        \/ /\ projects' = [projects EXCEPT ![p] = w] /\ UNCHANGED <<workspaces, items>>
           /\ Save(projects', workspaces', items', saved)
    BY <1>4 DEF SetPrimaryWorkspace, registry
  <2>2. [projects EXCEPT ![p] = w] \in ProjectMaps
    BY <1>2, MapSet
  <2>3. ASSUME projects' = [projects EXCEPT ![p] = w], UNCHANGED <<workspaces, items>>,
               Save(projects', workspaces', items', saved)
        PROVE  RegistryTypes' /\ Grows
    <3>1. projects' \in ProjectMaps /\ workspaces' \in Seq(WorkspaceRecords) /\ items' \in ItemMaps
      BY <2>2, <2>3 DEF RegistryTypes
    <3> QED
      BY <2>3, <3>1, SaveTypes
  <2> QED
    BY <1>1, <2>1, <2>3
<1>5. ASSUME NEW r \in Requests, NEW saved, RegisterItem(r, saved) PROVE RegistryTypes' /\ Grows
  <2>1. CASE ItemNamed(arg[r].ws, arg[r].name)
    BY <1>1, <1>5, <2>1 DEF RegisterItem, registry
  <2>2. CASE ~ItemNamed(arg[r].ws, arg[r].name)
    <3>1. arg[r].ws \in Requests /\ arg[r].name \in ItemNames /\ arg[r].type \in ItemTypes
      BY <1>5 DEF RegisterItem, ArgTypes, ArgFits, ItemLabels, TabLabels, ItemArgs
    <3>2. PICK item : item = [ws |-> arg[r].ws, name |-> arg[r].name, type |-> arg[r].type,
                              status |-> IF arg[r].type = "WebService" THEN "starting" ELSE "running"]
      OBVIOUS
    <3>3. item \in Items
      BY <3>1, <3>2 DEF Items, Statuses
    <3>4. Put(items, r, item) \in ItemMaps /\ DOMAIN items \subseteq DOMAIN Put(items, r, item)
      BY <1>2, <3>3, MapPut
    <3>5. items' = Put(items, r, item) /\ UNCHANGED <<projects, workspaces>> /\ Save(projects', workspaces', items', saved)
      BY <1>5, <2>2, <3>2 DEF RegisterItem
    <3>6. projects' \in ProjectMaps /\ workspaces' \in Seq(WorkspaceRecords) /\ items' \in ItemMaps
      BY <3>4, <3>5 DEF RegistryTypes
    <3> QED
      BY <3>4, <3>5, <3>6, SaveTypes
  <2> QED
    BY <2>1, <2>2
<1>6. ASSUME NEW i, NEW s \in Statuses, NEW saved, items' = [items EXCEPT ![i].status = s],
             UNCHANGED <<projects, workspaces>>, Save(projects', workspaces', items', saved)
      PROVE  RegistryTypes' /\ Grows
  <2>1. items' \in ItemMaps /\ DOMAIN items' = DOMAIN items
    BY <1>6, StatusSet DEF RegistryTypes
  <2>2. projects' \in ProjectMaps /\ workspaces' \in Seq(WorkspaceRecords)
    BY <1>6 DEF RegistryTypes
  <2> QED
    BY <1>6, <2>1, <2>2, SaveTypes
<1>7. ASSUME NEW r, NEW saved, MarkItemStopped(r, saved) PROVE RegistryTypes' /\ Grows
  <2>1. /\ items' = [items EXCEPT ![arg[r].item].status = "stopped"] /\ UNCHANGED <<projects, workspaces>>
        /\ Save(projects', workspaces', items', saved) /\ "stopped" \in Statuses
    BY <1>7 DEF MarkItemStopped, Statuses
  <2> QED
    BY <1>6, <2>1
<1>8. ASSUME NEW i \in Requests, NEW saved, FinishProbe(i, saved) PROVE RegistryTypes' /\ Grows
  <2>1. prober[i] \in Statuses
    BY <1>8 DEF FinishProbe, AnswerTypes, Statuses
  <2>2. \/ UNCHANGED registry
        \/ /\ items' = [items EXCEPT ![i].status = prober[i]] /\ UNCHANGED <<projects, workspaces>>
           /\ Save(projects', workspaces', items', saved)
    BY <1>8 DEF FinishProbe, registry
  <2> QED
    BY <1>1, <1>6, <2>1, <2>2
<1>9. ASSUME NEW r \in Requests, CreateStep(r) PROVE RegistryTypes' /\ Grows
  <2>1. CASE \/ \E n, source : ReserveName(r, n, source)
             \/ \E n : RejectName(r, n)
             \/ CloneRepo(r) \/ ColocateRepo(r) \/ FindProject(r)
             \/ FindParent(r) \/ AddAgentWorkspace(r) \/ CreateSession(r) \/ ReleaseName(r)
    <3>1. UNCHANGED registry
      BY <2>1 DEF ReserveName, RejectName, CloneRepo, ColocateRepo, FindProject, FindParent, AddAgentWorkspace,
                  CreateSession, ReleaseName, GiveUp, Made
    <3> QED
      BY <1>1, <3>1
  <2> QED
    BY <1>3, <1>4, <1>9, <2>1 DEF CreateStep
<1>10. ASSUME NEW r \in Requests, ItemStep(r) PROVE RegistryTypes' /\ Grows
  <2>1. CASE \/ \E w, n, type : ReserveItem(r, w, n, type)
             \/ \E w, n : RejectItem(r, w, n)
             \/ CreateTab(r) \/ ReleaseItem(r) \/ (\E i : StopItem(r, i)) \/ CloseTab(r)
    <3>1. UNCHANGED registry
      BY <2>1 DEF ReserveItem, RejectItem, CreateTab, ReleaseItem, StopItem, CloseTab
    <3> QED
      BY <1>1, <3>1
  <2> QED
    BY <1>5, <1>7, <1>10, <2>1 DEF ItemStep
<1>11. ASSUME NEW i \in Requests, ProbeStep(i) PROVE RegistryTypes' /\ Grows
  BY <1>1, <1>8, <1>11 DEF ProbeStep, Probe
<1>12. CASE RestartHost
  <2>1. RegistryTypes'
    BY <1>12 DEF RestartHost, RegistryTypes
  <2>2. /\ ~\E r \in Requests : CreateStep(r) \/ ItemStep(r) \/ ProbeStep(r)
        \/ DOMAIN items \subseteq DOMAIN items'
    BY <1>9, <1>10, <1>11
  <2> QED
    BY <2>1, <2>2
<1>13. CASE UNCHANGED workspacesVars
  BY <1>1, <1>13 DEF workspacesVars
<1> QED
  BY <1>9, <1>10, <1>11, <1>12, <1>13 DEF WorkspacesNext

(* Zellij's sessions and their tabs, and the names that are held or taken.        *)
LEMMA SessionTypesStep ==
    ASSUME ArgTypes, SessionTypes, [WorkspacesNext]_workspacesVars
    PROVE  SessionTypes'
<1>1. UNCHANGED sessions => SessionTypes'
  BY DEF SessionTypes
<1>2. ASSUME NEW s, NEW tabs, tabs \subseteq ItemNames, sessions' = [sessions EXCEPT ![s] = tabs]
      PROVE  SessionTypes'
  BY <1>2 DEF SessionTypes
<1>3. ASSUME NEW r \in Requests, CreateStep(r) PROVE SessionTypes'
  <2>1. ASSUME CreateSession(r) PROVE SessionTypes'
    <3>1. arg[r].name \in Names
      BY <2>1 DEF CreateSession, ArgTypes, ArgFits, CreateLabels, Working, CreateArgs
    <3>2. sessions' = sessions \/ sessions' = Put(sessions, arg[r].name, {})
      BY <2>1 DEF CreateSession
    <3> QED
      BY <1>1, <3>1, <3>2 DEF SessionTypes, Put
  <2>2. ASSUME NEW saved, RegisterWorkspace(r, saved) PROVE SessionTypes'
    <3>1. sessions' = sessions \/ sessions' = Drop(sessions, {arg[r].name})
      BY <2>2 DEF RegisterWorkspace
    <3> QED
      BY <1>1, <3>1 DEF SessionTypes, Drop
  <2>3. CASE \/ \E n, source : ReserveName(r, n, source)
             \/ \E n : RejectName(r, n)
             \/ CloneRepo(r) \/ ColocateRepo(r) \/ FindProject(r)
             \/ FindParent(r) \/ AddAgentWorkspace(r) \/ ReleaseName(r)
             \/ \E p, w, saved : SetPrimaryWorkspace(r, p, w, saved)
    <3>1. UNCHANGED sessions
      BY <2>3 DEF ReserveName, RejectName, CloneRepo, ColocateRepo, FindProject, FindParent, AddAgentWorkspace,
                  ReleaseName, SetPrimaryWorkspace, GiveUp, Made
    <3> QED
      BY <1>1, <3>1
  <2> QED
    BY <1>3, <2>1, <2>2, <2>3 DEF CreateStep
<1>4. ASSUME NEW r \in Requests, ItemStep(r) PROVE SessionTypes'
  <2>1. ASSUME CreateTab(r) PROVE SessionTypes'
    <3>1. arg[r].name \in ItemNames
      BY <2>1 DEF CreateTab, ArgTypes, ArgFits, ItemLabels, TabLabels, ItemArgs
    <3>2. \/ sessions' = sessions
          \/ /\ arg[r].session \in DOMAIN sessions
             /\ sessions' = [sessions EXCEPT ![arg[r].session] = sessions[arg[r].session] \cup {arg[r].name}]
      BY <2>1 DEF CreateTab
    <3> QED
      BY <1>1, <1>2, <3>1, <3>2 DEF SessionTypes
  <2>2. ASSUME NEW saved, RegisterItem(r, saved) PROVE SessionTypes'
    <3>1. \/ sessions' = sessions
          \/ sessions' = [sessions EXCEPT ![arg[r].session] = sessions[arg[r].session] \ {arg[r].name}]
      BY <2>2 DEF RegisterItem
    <3> QED
      BY <1>1, <3>1 DEF SessionTypes
  <2>3. ASSUME CloseTab(r) PROVE SessionTypes'
    <3>1. \/ sessions' = sessions
          \/ sessions' = [sessions EXCEPT ![arg[r].session] = sessions[arg[r].session] \ {items[arg[r].item].name}]
      BY <2>3 DEF CloseTab
    <3> QED
      BY <1>1, <3>1 DEF SessionTypes
  <2>4. CASE \/ \E w, n, type : ReserveItem(r, w, n, type)
             \/ \E w, n : RejectItem(r, w, n)
             \/ ReleaseItem(r) \/ (\E i : StopItem(r, i)) \/ (\E saved : MarkItemStopped(r, saved))
    <3>1. UNCHANGED sessions
      BY <2>4 DEF ReserveItem, RejectItem, ReleaseItem, StopItem, MarkItemStopped
    <3> QED
      BY <1>1, <3>1
  <2> QED
    BY <1>4, <2>1, <2>2, <2>3, <2>4 DEF ItemStep
<1>5. CASE (\E i \in Requests : ProbeStep(i)) \/ RestartHost \/ UNCHANGED workspacesVars
  <2>1. UNCHANGED sessions
    BY <1>5 DEF ProbeStep, Probe, FinishProbe, RestartHost, workspacesVars
  <2> QED
    BY <1>1, <2>1
<1> QED
  BY <1>3, <1>4, <1>5 DEF WorkspacesNext

LEMMA NameTypesStep ==
    ASSUME ArgTypes, NameTypes, [WorkspacesNext]_workspacesVars
    PROVE  NameTypes'
<1>1. UNCHANGED <<reserved, dirs>> => NameTypes'
  BY DEF NameTypes, reserved
<1>2. ASSUME UNCHANGED reserved, NEW d \in Paths, dirs' \in {dirs, dirs \cup {d}} PROVE NameTypes'
  BY <1>2 DEF NameTypes, reserved
<1>3. ASSUME NEW r \in Requests, CreateStep(r) PROVE NameTypes'
  <2>1. ASSUME NEW n \in Names, NEW source, ReserveName(r, n, source) PROVE NameTypes'
    BY <2>1 DEF ReserveName, NameTypes
  <2>2. ASSUME CloneRepo(r) PROVE NameTypes'
    <3>1. arg[r].name \in Paths
      BY <2>2 DEF CloneRepo, ArgTypes, ArgFits, CreateLabels, Working, CreateArgs, Paths
    <3>2. UNCHANGED reserved /\ dirs' \in {dirs, dirs \cup {arg[r].name}}
      BY <2>2 DEF CloneRepo, GiveUp, Made
    <3> QED
      BY <1>2, <3>1, <3>2
  <2>3. ASSUME AddAgentWorkspace(r) PROVE NameTypes'
    <3>1. arg[r].source.path \in Paths
      BY <2>3 DEF AddAgentWorkspace, ArgTypes, ArgFits
    <3>2. UNCHANGED reserved /\ dirs' \in {dirs, dirs \cup {arg[r].source.path}}
      BY <2>3 DEF AddAgentWorkspace, GiveUp, Made
    <3> QED
      BY <1>2, <3>1, <3>2
  <2>4. ASSUME ReleaseName(r) PROVE NameTypes'
    BY <2>4 DEF ReleaseName, NameTypes
  <2>5. CASE \/ \E n : RejectName(r, n)
             \/ ColocateRepo(r) \/ FindProject(r) \/ FindParent(r) \/ CreateSession(r)
             \/ (\E saved : RegisterWorkspace(r, saved))
             \/ \E p, w, saved : SetPrimaryWorkspace(r, p, w, saved)
    <3>1. UNCHANGED <<reserved, dirs>>
      BY <2>5 DEF RejectName, ColocateRepo, FindProject, FindParent, CreateSession, RegisterWorkspace,
                  SetPrimaryWorkspace, GiveUp, Made
    <3> QED
      BY <1>1, <3>1
  <2> QED
    BY <1>3, <2>1, <2>2, <2>3, <2>4, <2>5 DEF CreateStep
<1>4. ASSUME NEW r \in Requests, ItemStep(r) PROVE NameTypes'
  <2>1. ASSUME NEW w \in Requests, NEW n \in ItemNames, NEW type, ReserveItem(r, w, n, type) PROVE NameTypes'
    BY <2>1 DEF ReserveItem, NameTypes
  <2>2. ASSUME ReleaseItem(r) PROVE NameTypes'
    BY <2>2 DEF ReleaseItem, NameTypes
  <2>3. CASE \/ \E w, n : RejectItem(r, w, n)
             \/ CreateTab(r) \/ (\E saved : RegisterItem(r, saved)) \/ (\E i : StopItem(r, i))
             \/ CloseTab(r) \/ (\E saved : MarkItemStopped(r, saved))
    <3>1. UNCHANGED <<reserved, dirs>>
      BY <2>3 DEF RejectItem, CreateTab, RegisterItem, StopItem, CloseTab, MarkItemStopped
    <3> QED
      BY <1>1, <3>1
  <2> QED
    BY <1>4, <2>1, <2>2, <2>3 DEF ItemStep
<1>5. CASE (\E i \in Requests : ProbeStep(i)) \/ UNCHANGED workspacesVars
  <2>1. UNCHANGED <<reserved, dirs>>
    BY <1>5 DEF ProbeStep, Probe, FinishProbe, workspacesVars
  <2> QED
    BY <1>1, <2>1
<1>6. CASE RestartHost
  BY <1>6 DEF RestartHost, NameTypes
<1> QED
  BY <1>3, <1>4, <1>5, <1>6 DEF WorkspacesNext

(* What the probers found and what the calls answered.                            *)
LEMMA AnswerTypesStep ==
    ASSUME AnswerTypes, [WorkspacesNext]_workspacesVars
    PROVE  AnswerTypes'
<1>1. UNCHANGED <<prober, reply, hostRestarts>> => AnswerTypes'
  BY DEF AnswerTypes
<1>2. ASSUME NEW r, NEW answer \in {"created", "primary", "stopped", "conflict", "error"},
             reply' = [reply EXCEPT ![r] = answer], UNCHANGED <<prober, hostRestarts>>
      PROVE  AnswerTypes'
  BY <1>2 DEF AnswerTypes
<1>3. ASSUME NEW i, NEW v \in {None, "polling", "running", "failed", "unknown"},
             prober' = [prober EXCEPT ![i] = v], UNCHANGED <<reply, hostRestarts>>
      PROVE  AnswerTypes'
  BY <1>3 DEF AnswerTypes
<1>4. ASSUME NEW r \in Requests, CreateStep(r) PROVE AnswerTypes'
  <2>1. /\ UNCHANGED <<prober, hostRestarts>>
        /\ \/ UNCHANGED reply
           \/ \E answer \in {"created", "primary", "stopped", "conflict", "error"} :
                 reply' = [reply EXCEPT ![r] = answer]
    BY <1>4 DEF CreateStep, ReserveName, RejectName, CloneRepo, ColocateRepo, FindProject, FindParent,
                AddAgentWorkspace, CreateSession, RegisterWorkspace, ReleaseName, SetPrimaryWorkspace,
                GiveUp, Made, Answer, Return
  <2> QED
    BY <1>1, <1>2, <2>1
<1>5. ASSUME NEW r \in Requests, ItemStep(r) PROVE AnswerTypes'
  <2>1. ASSUME NEW saved, RegisterItem(r, saved) PROVE AnswerTypes'
    <3>1. PICK v : v = (IF saved /\ arg[r].type = "WebService" THEN "polling" ELSE prober[r])
      OBVIOUS
    <3>2. /\ UNCHANGED hostRestarts
          /\ prober' = prober \/ prober' = [prober EXCEPT ![r] = v]
          /\ \E answer \in {"created", "conflict", "error"} : reply' = [reply EXCEPT ![r] = answer]
      BY <2>1, <3>1 DEF RegisterItem, Answer
    <3>3. v \in {None, "polling", "running", "failed", "unknown"}
      BY <3>1 DEF AnswerTypes
    <3> QED
      BY <3>2, <3>3 DEF AnswerTypes
  <2>2. CASE \/ \E w, n, type : ReserveItem(r, w, n, type)
             \/ \E w, n : RejectItem(r, w, n)
             \/ CreateTab(r) \/ ReleaseItem(r) \/ (\E i : StopItem(r, i)) \/ CloseTab(r)
             \/ (\E saved : MarkItemStopped(r, saved))
    <3>1. /\ UNCHANGED <<prober, hostRestarts>>
          /\ \/ UNCHANGED reply
             \/ \E answer \in {"created", "primary", "stopped", "conflict", "error"} :
                   reply' = [reply EXCEPT ![r] = answer]
      BY <2>2 DEF ReserveItem, RejectItem, CreateTab, ReleaseItem, StopItem, CloseTab, MarkItemStopped, Answer, Return
    <3> QED
      BY <1>1, <1>2, <3>1
  <2> QED
    BY <1>5, <2>1, <2>2 DEF ItemStep
<1>6. ASSUME NEW i \in Requests, ProbeStep(i) PROVE AnswerTypes'
  <2>1. /\ UNCHANGED <<reply, hostRestarts>>
        /\ \E v \in {None, "polling", "running", "failed", "unknown"} : prober' = [prober EXCEPT ![i] = v]
    BY <1>6 DEF ProbeStep, Probe, FinishProbe
  <2> QED
    BY <1>3, <2>1
<1>7. CASE RestartHost
  BY <1>7, WorkspacesAssumption DEF RestartHost, AnswerTypes
<1>8. CASE UNCHANGED workspacesVars
  BY <1>1, <1>8 DEF workspacesVars
<1> QED
  BY <1>4, <1>5, <1>6, <1>7, <1>8 DEF WorkspacesNext

(* What calls carry through the steps that are nobody's call.                     *)
LEMMA ArgTypesStep ==
    ASSUME Shape, ArgTypes, RegistryTypes, AnswerTypes, [WorkspacesNext]_workspacesVars
    PROVE  ArgTypes'
<1>1. ASSUME NEW r \in Requests, CreateStep(r) PROVE ArgTypes'
  BY <1>1, CreateArgsStep
<1>2. ASSUME NEW r \in Requests, ItemStep(r) PROVE ArgTypes'
  <2>1. DOMAIN items \subseteq DOMAIN items'
    BY <1>2, RegistryTypesStep
  <2> QED
    BY <1>2, <2>1, ItemArgsStep
<1>3. ASSUME NEW i \in Requests, ProbeStep(i) PROVE ArgTypes'
  <2>1. DOMAIN items \subseteq DOMAIN items'
    BY <1>3, RegistryTypesStep
  <2>2. UNCHANGED <<pc, arg>>
    BY <1>3 DEF ProbeStep, Probe, FinishProbe
  <2> QED
    BY <2>1, <2>2 DEF ArgTypes, ArgFits
<1>4. CASE RestartHost
  <2>1. \A r \in Requests : pc'[r] \in {"idle", "done"}
    BY <1>4 DEF RestartHost
  <2> QED
    BY <2>1 DEF ArgTypes, ArgFits, CreateLabels, ItemLabels, TabLabels, Working
<1>5. CASE UNCHANGED workspacesVars
  BY <1>5 DEF workspacesVars, registry, ArgTypes
<1> QED
  BY <1>1, <1>2, <1>3, <1>4, <1>5 DEF WorkspacesNext

LEMMA WorkspacesTypesInit == WorkspacesInit => WorkspacesTypes
<1> SUFFICES ASSUME WorkspacesInit PROVE WorkspacesTypes
  OBVIOUS
<1>1. ArgTypes
  BY DEF WorkspacesInit, ArgTypes, ArgFits, CreateLabels, ItemLabels, TabLabels, Working
<1>2. RegistryTypes
  <2>1. <<>> \in Seq(WorkspaceRecords)
    BY EmptySeq
  <2>2. <<>> \in [{} -> Requests] /\ <<>> \in [{} -> Items]
    OBVIOUS
  <2>3. <<>> \in ProjectMaps /\ <<>> \in ItemMaps
    BY <2>2 DEF ProjectMaps, ItemMaps
  <2> QED
    BY <2>1, <2>3 DEF WorkspacesInit, RegistryTypes
<1>3. SessionTypes
  BY DEF WorkspacesInit, SessionTypes
<1>4. NameTypes
  BY DEF WorkspacesInit, NameTypes, Paths
<1>5. AnswerTypes
  BY WorkspacesAssumption DEF WorkspacesInit, AnswerTypes
<1> QED
  BY <1>1, <1>2, <1>3, <1>4, <1>5 DEF WorkspacesTypes

LEMMA WorkspacesTypesFit == Shape /\ WorkspacesTypes => WorkspacesTypeOK
<1> SUFFICES ASSUME Shape, WorkspacesTypes PROVE WorkspacesTypeOK
  OBVIOUS
<1>1. pc \in [Requests -> Working \cup {"idle", "releasing", "tabbing", "tabbed",
                                        "itemReleasing", "stopping", "closed", "done"}]
  BY DEF Shape, Labels, CreateLabels, ItemLabels, TabLabels
<1> QED
  BY <1>1 DEF WorkspacesTypes, RegistryTypes, SessionTypes, NameTypes, AnswerTypes, WorkspacesTypeOK

(* The registry, its file, Zellij's sessions and the calls under way keep the     *)
(* shape registry.rs and rpc.rs give them, through calls, verdicts and restarts.  *)
THEOREM WorkspacesTypeCorrect == WorkspacesSpec => []WorkspacesTypeOK
<1>1. WorkspacesInit => OwnedInv /\ WorkspacesTypes
  BY OwnedInit, WorkspacesTypesInit
<1>2. OwnedInv /\ WorkspacesTypes /\ [WorkspacesNext]_workspacesVars => (OwnedInv /\ WorkspacesTypes)'
  <2> SUFFICES ASSUME OwnedInv, WorkspacesTypes, [WorkspacesNext]_workspacesVars
               PROVE  OwnedInv' /\ WorkspacesTypes'
    OBVIOUS
  <2>1. OwnedInv'
    BY OwnedStep
  <2>2. Shape
    BY DEF OwnedInv
  <2>3. ArgTypes /\ RegistryTypes /\ SessionTypes /\ NameTypes /\ AnswerTypes
    BY DEF WorkspacesTypes
  <2>4. ArgTypes' /\ RegistryTypes' /\ SessionTypes' /\ NameTypes' /\ AnswerTypes'
    BY <2>2, <2>3, ArgTypesStep, RegistryTypesStep, SessionTypesStep, NameTypesStep, AnswerTypesStep
  <2> QED
    BY <2>1, <2>4 DEF WorkspacesTypes
<1>3. OwnedInv /\ WorkspacesTypes => WorkspacesTypeOK
  BY WorkspacesTypesFit DEF OwnedInv
<1> QED
  BY <1>1, <1>2, <1>3, PTL DEF WorkspacesSpec
===============================================================================
