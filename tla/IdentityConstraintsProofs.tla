----------------------- MODULE IdentityConstraintsProofs -----------------------
(***************************************************************************)
(* Proofs about the streaming evaluation of identity constraints, for any  *)
(* schemas and documents: which elements turn invalid, which frame belongs *)
(* to which element, and which rows the tables get.  The lemmas on one     *)
(* axis are those of the matcher (ActiveAxisProofs).                       *)
(***************************************************************************)
EXTENDS IdentityConstraints, ActiveAxisProofs

-----------------------------------------------------------------------------
(* The inductive invariant, first what the variables hold.                 *)

Validity == {"valid", "invalid", "notKnown"}
AttributesType ==
    UNION {[S -> AttributeValue \cup {Unassessed}] : S \in SUBSET AttributeName}

NodeType ==
    [declaration : schema.declarations \cup {SkippedElement}, path : Seq(Nat),
     attributes : AttributesType, content : Content, validity : Validity]

EntryType == [node : Nat, validity : Validity]

TablesType == UNION {[S -> Seq(KeySequence)] : S \in SUBSET Constraint}

VariablesType ==
    /\ schema \in Schema
    /\ nodes \in Seq(NodeType)
    /\ finished \in Seq(1 .. Len(nodes))
    /\ validation_stack \in Seq(EntryType)
    /\ \A r \in reports : r.owner \in 1 .. Len(nodes)

-----------------------------------------------------------------------------
(* The elements form a tree: the path of an element leads to it by way of  *)
(* its ancestors, the stack is the path of the innermost open element, and *)
(* what is closed is not on it.                                            *)
Node(d) == validation_stack[d].node
Depth == Len(validation_stack)

IsTrail(n) ==
    LET path == nodes[n].path IN
    /\ Len(path) > 0 /\ path[Len(path)] = n
    /\ \A k \in 1 .. Len(path) :
          /\ path[k] \in 1 .. n
          /\ Len(nodes[path[k]].path) = k
          /\ \A j \in 1 .. k : nodes[path[k]].path[j] = path[j]

TreeOK ==
    /\ \A n \in 1 .. Len(nodes) : IsTrail(n)
    /\ \A d \in 1 .. Depth :
          /\ Node(d) \in 1 .. Len(nodes)
          /\ Len(nodes[Node(d)].path) = d
          /\ \A k \in 1 .. d : nodes[Node(d)].path[k] = Node(k)
          /\ Node(d) \notin Closed

(* The names of the open elements; below a skipped one all are skipped.    *)
Open == [d \in 1 .. Depth |-> nodes[Node(d)].declaration.name]
OpenBelow(d) == SubSeq(Open, d + 1, Depth)

-----------------------------------------------------------------------------
(* The selector of a constraint has followed the tags below its owner.     *)
IsStruct(cs) ==
    cs = [constraint |-> cs.constraint, owner_depth |-> cs.owner_depth,
          selector |-> cs.selector, collection_stack |-> cs.collection_stack,
          key_table |-> cs.key_table]

StructOK(cs) ==
    /\ IsStruct(cs)
    /\ cs.constraint \in Constraint
    /\ cs.owner_depth \in 1 .. Depth
    /\ Tracks(Compiled[cs.constraint].selector, cs.selector, OpenBelow(cs.owner_depth))

StructsOK == \A cs \in active_constraints : StructOK(cs)

-----------------------------------------------------------------------------
(* A report is to the blame of an element e that carries the constraint or *)
(* has its owner below it, by way of assessed elements.                    *)
Blamed(e, r) ==
    /\ Below(e, r.owner)
    /\ \A d \in Len(nodes[e].path) .. Len(nodes[r.owner].path) :
          nodes[nodes[r.owner].path[d]].declaration.assessed

(* An open element knows of what happened in its closed children, not of   *)
(* what happened in its open one.                                          *)
ReachesOpen(d, r) == Below(Node(d), r.owner)
BlamedOpen(d, r) == Blamed(Node(d), r)

Known(d, r) == BlamedOpen(d, r) /\ (d < Depth => ~ ReachesOpen(d + 1, r))

OpenOwnersInvalid ==
    \A d \in 1 .. Depth :
        /\ validation_stack[d].validity = "notKnown"
              <=> ~ nodes[Node(d)].declaration.assessed
        /\ validation_stack[d].validity = "invalid"
              <=> \E r \in reports : Known(d, r)

OwnersInv ==
    /\ VariablesType
    /\ TreeOK
    /\ in_attributes => Depth > 0
    /\ SkippedInside(Open)
    /\ StructsOK
    /\ OpenOwnersInvalid
    /\ OwnersInvalid

-----------------------------------------------------------------------------
(* The tree of the elements.                                               *)

(* The document so far, which only grows: paths and declarations stay.     *)
Grown ==
    /\ Len(nodes) <= Len(nodes')
    /\ \A n \in 1 .. Len(nodes) :
          nodes'[n].path = nodes[n].path /\ nodes'[n].declaration = nodes[n].declaration

LEMMA NodeTyped ==
    ASSUME VariablesType, TreeOK, NEW n \in 1 .. Len(nodes)
    PROVE  /\ nodes[n] \in NodeType
           /\ nodes[n].path \in Seq(Nat) /\ Len(nodes[n].path) \in Nat \ {0}
<1>1. nodes[n] \in NodeType
  BY DEF VariablesType
<1>2. nodes[n].path \in Seq(Nat)
  BY <1>1 DEF NodeType
<1>3. Len(nodes[n].path) > 0
  BY DEF TreeOK, IsTrail
<1> QED BY <1>1, <1>2, <1>3

LEMMA OpenNodes ==
    ASSUME VariablesType, TreeOK, NEW d \in 1 .. Depth
    PROVE  /\ Node(d) \in 1 .. Len(nodes) /\ Len(nodes[Node(d)].path) = d
           /\ \A k \in 1 .. Depth : Node(k) = Node(d) => k = d
           /\ \A e \in 1 .. Len(nodes) :
                 Below(e, Node(d)) <=> \E k \in 1 .. d : e = Node(k)
<1>1. /\ Node(d) \in 1 .. Len(nodes) /\ Len(nodes[Node(d)].path) = d
      /\ \A k \in 1 .. d : nodes[Node(d)].path[k] = Node(k)
  BY DEF TreeOK
<1>2. \A k \in 1 .. Depth : Len(nodes[Node(k)].path) = k
  BY DEF TreeOK
<1>3. Depth \in Nat /\ Len(nodes) \in Nat
  BY DEF VariablesType, Depth
<1>4. ASSUME NEW e \in 1 .. Len(nodes)
      PROVE  Below(e, Node(d)) <=> \E k \in 1 .. d : e = Node(k)
  <2>1. nodes[e].path \in Seq(Nat) /\ Len(nodes[e].path) \in Nat \ {0}
    BY NodeTyped
  <2>2. ASSUME Below(e, Node(d)) PROVE \E k \in 1 .. d : e = Node(k)
    <3>1. Len(nodes[e].path) \in 1 .. d /\ nodes[Node(d)].path[Len(nodes[e].path)] = e
      BY <1>1, <1>3, <2>1, <2>2 DEF Below
    <3> QED BY <1>1, <3>1
  <2>3. ASSUME NEW k \in 1 .. d, e = Node(k) PROVE Below(e, Node(d))
    <3>1. k \in 1 .. Depth /\ k <= d
      BY <1>3
    <3> QED BY <1>1, <1>2, <2>3, <3>1 DEF Below
  <2> QED BY <2>2, <2>3
<1> QED BY <1>1, <1>2, <1>4

LEMMA ClosedHasNoOpenBelow ==
    ASSUME VariablesType, TreeOK, NEW e \in Closed, NEW d \in 1 .. Depth
    PROVE  e \in 1 .. Len(nodes) /\ ~ Below(e, Node(d)) /\ e # Node(d)
<1>1. e \in 1 .. Len(nodes)
  BY DEF VariablesType, Closed
<1>2. \A k \in 1 .. d : e # Node(k)
  <2>1. \A k \in 1 .. d : k \in 1 .. Depth
    BY DEF VariablesType, Depth
  <2> QED BY <2>1 DEF TreeOK
<1>3. ~ Below(e, Node(d))
  BY <1>1, <1>2, OpenNodes
<1>4. d \in 1 .. d
  BY DEF VariablesType, Depth
<1> QED BY <1>1, <1>2, <1>3, <1>4

(* What is below an open element has its ancestors on its path.            *)
LEMMA BelowOpen ==
    ASSUME VariablesType, TreeOK, NEW d \in 1 .. Depth, NEW n \in 1 .. Len(nodes)
    PROVE  /\ Below(Node(d), n) <=> Len(nodes[n].path) >= d /\ nodes[n].path[d] = Node(d)
           /\ Below(Node(d), n) /\ d > 1 => Below(Node(d - 1), n)
<1>1. Depth \in Nat /\ Len(nodes) \in Nat /\ Len(nodes[n].path) \in Nat
  BY DEF VariablesType, Depth, NodeType
<1>2. Len(nodes[Node(d)].path) = d /\ \A k \in 1 .. d : nodes[Node(d)].path[k] = Node(k)
  BY DEF TreeOK
<1>3. Below(Node(d), n) <=> Len(nodes[n].path) >= d /\ nodes[n].path[d] = Node(d)
  BY <1>2 DEF Below
<1>4. ASSUME Below(Node(d), n), d > 1 PROVE Below(Node(d - 1), n)
  <2>1. d - 1 \in 1 .. Depth /\ d - 1 \in 1 .. d /\ d \in 1 .. Len(nodes[n].path)
    BY <1>1, <1>3, <1>4
  <2>2. \A j \in 1 .. d : nodes[nodes[n].path[d]].path[j] = nodes[n].path[j]
    BY <2>1 DEF TreeOK, IsTrail
  <2>3. nodes[n].path[d - 1] = Node(d - 1)
    BY <1>2, <1>3, <1>4, <2>1, <2>2
  <2>4. Len(nodes[Node(d - 1)].path) = d - 1
    BY <2>1 DEF TreeOK
  <2> QED BY <1>1, <1>3, <1>4, <2>3, <2>4 DEF Below
<1> QED BY <1>3, <1>4

LEMMA BelowGrown ==
    ASSUME Grown, NEW e \in 1 .. Len(nodes), NEW n \in 1 .. Len(nodes)
    PROVE  Below(e, n)' <=> Below(e, n)
BY DEF Grown, Below

LEMMA BlamedGrown ==
    ASSUME VariablesType, TreeOK, Grown, NEW e \in 1 .. Len(nodes),
           NEW r, r.owner \in 1 .. Len(nodes)
    PROVE  Blamed(e, r)' <=> Blamed(e, r)
<1>1. Below(e, r.owner)' <=> Below(e, r.owner)
  BY BelowGrown
<1>2. /\ nodes'[e].path = nodes[e].path /\ nodes'[r.owner].path = nodes[r.owner].path
      /\ Len(nodes[e].path) \in Nat \ {0} /\ Len(nodes[r.owner].path) \in Nat
      /\ Len(nodes) \in Nat
  <2>1. Len(nodes[e].path) \in Nat \ {0}
    BY NodeTyped
  <2>2. Len(nodes[r.owner].path) \in Nat \ {0}
    BY NodeTyped
  <2> QED BY <2>1, <2>2 DEF Grown, VariablesType
<1>3. ASSUME NEW d \in Len(nodes[e].path) .. Len(nodes[r.owner].path)
      PROVE  nodes'[nodes[r.owner].path[d]].declaration
                = nodes[nodes[r.owner].path[d]].declaration
  <2>1. d \in 1 .. Len(nodes[r.owner].path)
    BY <1>2
  <2>2. nodes[r.owner].path[d] \in 1 .. r.owner
    BY <2>1 DEF TreeOK, IsTrail
  <2>3. nodes[r.owner].path[d] \in 1 .. Len(nodes)
    BY <1>2, <2>2
  <2> QED BY <2>3 DEF Grown
<1> QED BY <1>1, <1>2, <1>3 DEF Blamed

(* The parent of an element is to blame for what the element is to blame   *)
(* for, when it is assessed itself.                                        *)
LEMMA BlamedParent ==
    ASSUME VariablesType, TreeOK, NEW d \in 2 .. Depth,
           NEW r, r.owner \in 1 .. Len(nodes), Below(Node(d), r.owner)
    PROVE  Blamed(Node(d - 1), r)
              <=> nodes[Node(d - 1)].declaration.assessed /\ Blamed(Node(d), r)
<1>1. d \in 1 .. Depth /\ d - 1 \in 1 .. Depth /\ d > 1 /\ d \in Nat
  BY DEF VariablesType, Depth
<1>2. Below(Node(d - 1), r.owner) /\ Len(nodes[r.owner].path) >= d
      /\ nodes[r.owner].path[d - 1] = Node(d - 1)
  BY <1>1, BelowOpen
<1>3. Len(nodes[Node(d)].path) = d /\ Len(nodes[Node(d - 1)].path) = d - 1
  BY <1>1 DEF TreeOK
<1>4. Len(nodes[r.owner].path) \in Nat
  BY DEF VariablesType, NodeType
<1>5. \A k : k \in d - 1 .. Len(nodes[r.owner].path)
                <=> k = d - 1 \/ k \in d .. Len(nodes[r.owner].path)
  BY <1>1, <1>2, <1>4
<1> QED BY <1>2, <1>3, <1>5 DEF Blamed

(* A report about an open element concerns that one and no other yet.      *)
LEMMA KnownOfOpen ==
    ASSUME VariablesType, TreeOK, NEW d \in 1 .. Depth, NEW k \in 1 .. Depth,
           NEW r, r.owner = Node(k)
    PROVE  Known(d, r) <=> d = k /\ nodes[Node(d)].declaration.assessed
<1>1. Depth \in Nat /\ r.owner \in 1 .. Len(nodes) /\ Node(d) \in 1 .. Len(nodes)
  BY OpenNodes DEF VariablesType, Depth
<1>2. ASSUME NEW e \in 1 .. Depth PROVE Below(Node(e), r.owner) <=> e <= k
  <2>1. Node(e) \in 1 .. Len(nodes) /\ \A j \in 1 .. Depth : Node(j) = Node(e) => j = e
    BY OpenNodes
  <2>2. Below(Node(e), r.owner) <=> \E j \in 1 .. k : Node(e) = Node(j)
    BY <2>1, OpenNodes
  <2>3. \A j \in 1 .. k : j \in 1 .. Depth
    BY <1>1
  <2>4. e <= k <=> e \in 1 .. k
    BY <1>1
  <2> QED BY <2>1, <2>2, <2>3, <2>4
<1>3. CASE d < k
  <2>1. d + 1 \in 1 .. Depth /\ d + 1 <= k /\ d < Depth
    BY <1>1, <1>3
  <2> QED BY <1>1, <1>2, <1>3, <2>1 DEF Known, BlamedOpen, ReachesOpen
<1>4. CASE d > k
  <2>1. ~ Below(Node(d), r.owner)
    BY <1>1, <1>2, <1>4
  <2> QED BY <1>1, <1>4, <2>1 DEF Known, BlamedOpen, Blamed
<1>5. CASE d = k
  <2>1. /\ Len(nodes[r.owner].path) = d /\ Len(nodes[Node(d)].path) = d
        /\ nodes[r.owner].path[d] = Node(d)
    <3>1. d \in 1 .. d
      BY <1>1
    <3> QED BY <1>5, <3>1 DEF TreeOK
  <2>2. Blamed(Node(d), r) <=> nodes[Node(d)].declaration.assessed
    <3>1. \A j : j \in d .. d <=> j = d
      BY <1>1
    <3>2. Below(Node(d), r.owner)
      BY <1>1, <1>2, <1>5
    <3> QED BY <2>1, <3>1, <3>2 DEF Blamed
  <2>3. d < Depth => ~ Below(Node(d + 1), r.owner)
    <3> SUFFICES ASSUME d < Depth PROVE ~ Below(Node(d + 1), r.owner)
      OBVIOUS
    <3>1. d + 1 \in 1 .. Depth /\ ~ (d + 1 <= k)
      BY <1>1, <1>5
    <3> QED BY <1>2, <3>1
  <2> QED BY <1>5, <2>2, <2>3 DEF Known, BlamedOpen, ReachesOpen
<1> QED BY <1>1, <1>3, <1>4, <1>5

-----------------------------------------------------------------------------
(* What a report does to the stack of the open elements.                   *)

LEMMA InvalidatedEntries ==
    ASSUME NEW stack \in Seq(EntryType), NEW depths
    PROVE  /\ InvalidateAt(stack, depths) \in Seq(EntryType)
           /\ Len(InvalidateAt(stack, depths)) = Len(stack)
           /\ \A d \in 1 .. Len(stack) :
                 LET entry == InvalidateAt(stack, depths)[d] IN
                 /\ entry.node = stack[d].node
                 /\ entry.validity = "notKnown" <=> stack[d].validity = "notKnown"
                 /\ entry.validity = "invalid" <=>
                       \/ stack[d].validity = "invalid"
                       \/ d \in depths /\ stack[d].validity = "valid"
<1> DEFINE result == InvalidateAt(stack, depths)
<1>1. result = [d \in 1 .. Len(stack) |->
                   IF d \in depths THEN Invalidate(stack[d]) ELSE stack[d]]
  BY DEF InvalidateAt
<1>2. ASSUME NEW entry \in EntryType
      PROVE  /\ Invalidate(entry) \in EntryType /\ Invalidate(entry).node = entry.node
             /\ Invalidate(entry).validity =
                   IF entry.validity = "valid" THEN "invalid" ELSE entry.validity
  BY DEF Invalidate, EntryType, Validity
<1> HIDE DEF result
<1>3. \A d \in 1 .. Len(stack) :
         /\ stack[d] \in EntryType /\ result[d] \in EntryType
         /\ result[d] = IF d \in depths THEN Invalidate(stack[d]) ELSE stack[d]
  BY <1>1, <1>2
<1>4. result \in Seq(EntryType) /\ Len(result) = Len(stack)
  BY <1>1, <1>3
<1>5. ASSUME NEW d \in 1 .. Len(stack)
      PROVE  /\ result[d].node = stack[d].node
             /\ result[d].validity = "notKnown" <=> stack[d].validity = "notKnown"
             /\ result[d].validity = "invalid" <=>
                   \/ stack[d].validity = "invalid"
                   \/ d \in depths /\ stack[d].validity = "valid"
  <2>1. stack[d].validity \in {"valid", "invalid", "notKnown"}
    BY <1>3 DEF EntryType, Validity
  <2>2. CASE d \in depths
    <3>1. result[d] = Invalidate(stack[d]) /\ stack[d] \in EntryType
      BY <1>3, <2>2
    <3>2. /\ result[d].node = stack[d].node
          /\ result[d].validity =
                IF stack[d].validity = "valid" THEN "invalid" ELSE stack[d].validity
      BY <1>2, <3>1
    <3> QED BY <2>1, <2>2, <3>2
  <2>3. CASE d \notin depths
    BY <1>3, <2>3
  <2> QED BY <2>2, <2>3
<1> QED BY <1>4, <1>5 DEF result

(* The reports `new' are about the open elements at these depths.          *)
About(new, depths) ==
    /\ \A r \in new : \E k \in depths : r.owner = Node(k)
    /\ \A k \in depths : \E r \in new : r.owner = Node(k)

LEMMA ReportsInvalidate ==
    ASSUME VariablesType, TreeOK, OpenOwnersInvalid,
           NEW new, NEW depths \in SUBSET (1 .. Depth), About(new, depths),
           NEW d \in 1 .. Depth
    PROVE  LET entry == InvalidateAt(validation_stack, depths)[d] IN
           /\ entry.validity = "notKnown" <=> ~ nodes[Node(d)].declaration.assessed
           /\ entry.validity = "invalid" <=> \E r \in reports \cup new : Known(d, r)
<1> DEFINE entry == InvalidateAt(validation_stack, depths)[d]
<1>1. /\ validation_stack \in Seq(EntryType) /\ d \in 1 .. Len(validation_stack)
  BY DEF VariablesType, Depth
<1>2. /\ entry.validity = "notKnown" <=> validation_stack[d].validity = "notKnown"
      /\ entry.validity = "invalid" <=>
            \/ validation_stack[d].validity = "invalid"
            \/ d \in depths /\ validation_stack[d].validity = "valid"
  BY <1>1, InvalidatedEntries
<1>3. /\ validation_stack[d].validity = "notKnown"
            <=> ~ nodes[Node(d)].declaration.assessed
      /\ validation_stack[d].validity = "invalid" <=> \E r \in reports : Known(d, r)
  BY DEF OpenOwnersInvalid
<1>4. validation_stack[d].validity \in {"valid", "invalid", "notKnown"}
  <2>1. validation_stack[d] \in EntryType
    BY <1>1
  <2> QED BY <2>1 DEF EntryType, Validity
<1>5. (\E r \in new : Known(d, r)) <=> d \in depths /\ nodes[Node(d)].declaration.assessed
  <2>1. ASSUME NEW r \in new, NEW k \in depths, r.owner = Node(k)
        PROVE  Known(d, r) <=> d = k /\ nodes[Node(d)].declaration.assessed
    <3>1. k \in 1 .. Depth
      OBVIOUS
    <3> QED BY <2>1, <3>1, KnownOfOpen
  <2>2. ASSUME NEW r \in new, Known(d, r)
        PROVE  d \in depths /\ nodes[Node(d)].declaration.assessed
    BY <2>1, <2>2 DEF About
  <2>3. ASSUME d \in depths, nodes[Node(d)].declaration.assessed
        PROVE  \E r \in new : Known(d, r)
    BY <2>1, <2>3 DEF About
  <2> QED BY <2>2, <2>3
<1> HIDE DEF entry
<1>6. entry.validity = "invalid" <=>
         (\E r \in reports : Known(d, r)) \/ (\E r \in new : Known(d, r))
  BY <1>2, <1>3, <1>4, <1>5
<1>7. entry.validity = "notKnown" <=> ~ nodes[Node(d)].declaration.assessed
  BY <1>2, <1>3
<1> QED BY <1>6, <1>7 DEF entry

-----------------------------------------------------------------------------
(* push_element, for the element of either start tag.                      *)

Declared == schema.declarations \cup {SkippedElement}

LEMMA DeclaredTyped ==
    ASSUME VariablesType, NEW d \in Declared
    PROVE  /\ d.name \in Name \cup {Skipped} /\ d.assessed \in BOOLEAN
           /\ d.constraints \subseteq Constraint
           /\ ~ d.assessed => d.constraints = {}
           /\ d.name = Skipped <=> d = SkippedElement
<1>1. CASE d \in schema.declarations
  <2>1. d.name \in Name /\ d.assessed \in BOOLEAN /\ d.constraints \subseteq Constraint
        /\ (~ d.assessed => d.constraints = {})
    BY <1>1, DeclarationAssumption DEF VariablesType, Constraint, Compiled
  <2>2. d.name # Skipped
    BY <2>1, SkippedAssumption
  <2>3. d # SkippedElement
    BY <2>2 DEF SkippedElement
  <2> QED BY <2>1, <2>2, <2>3
<1>2. CASE d = SkippedElement
  BY <1>2 DEF SkippedElement
<1> QED BY <1>1, <1>2 DEF Declared

LEMMA NodesDeclared ==
    ASSUME VariablesType, NEW n \in 1 .. Len(nodes)
    PROVE  nodes[n].declaration \in Declared
<1>1. nodes[n] \in NodeType
  BY DEF VariablesType
<1> QED BY <1>1 DEF NodeType, Declared

PushedNode(d) ==
    [declaration |-> d,
     path |-> Append([k \in 1 .. Depth |-> Node(k)], Len(nodes) + 1),
     attributes |-> [a \in {} |-> Absent], content |-> NoContent,
     validity |-> IF d.assessed THEN "valid" ELSE "notKnown"]

PushedEntry(d) ==
    [node |-> Len(nodes) + 1, validity |-> IF d.assessed THEN "valid" ELSE "notKnown"]

LEMMA PushedTyped ==
    ASSUME VariablesType, TreeOK, NEW d \in Declared
    PROVE  /\ PushedNode(d) \in NodeType /\ PushedEntry(d) \in EntryType
           /\ Len(PushedNode(d).path) = Depth + 1
           /\ PushedNode(d).path[Depth + 1] = Len(nodes) + 1
           /\ \A k \in 1 .. Depth : PushedNode(d).path[k] = Node(k)
<1> DEFINE outer == [k \in 1 .. Depth |-> Node(k)]
           path == Append(outer, Len(nodes) + 1)
           validity == IF d.assessed THEN "valid" ELSE "notKnown"
<1>1. Depth \in Nat /\ Len(nodes) \in Nat
  BY DEF VariablesType, Depth
<1>2. \A k \in 1 .. Depth : Node(k) \in Nat
  BY <1>1, OpenNodes
<1>3. outer \in Seq(Nat) /\ Len(outer) = Depth /\ \A k \in 1 .. Depth : outer[k] = Node(k)
  BY <1>1, <1>2
<1> HIDE DEF outer
<1>4. /\ path \in Seq(Nat) /\ Len(path) = Depth + 1 /\ path[Depth + 1] = Len(nodes) + 1
      /\ \A k \in 1 .. Depth : path[k] = Node(k)
  <2>1. Len(nodes) + 1 \in Nat
    BY <1>1
  <2> QED BY <1>1, <1>3, <2>1, TopOfAppended
<1>5. [a \in {} |-> Absent] \in AttributesType
  <2>1. [a \in {} |-> Absent] \in [{} -> AttributeValue \cup {Unassessed}]
    OBVIOUS
  <2> QED BY <2>1 DEF AttributesType
<1>6. NoContent \in Content
  BY DEF NoContent, Content
<1>7. validity \in Validity
  BY DEF Validity
<1> HIDE DEF path, validity
<1>8. PushedNode(d) = [declaration |-> d, path |-> path, attributes |-> [a \in {} |-> Absent],
                       content |-> NoContent, validity |-> validity]
  BY DEF PushedNode, path, outer, validity
<1>9. PushedEntry(d) = [node |-> Len(nodes) + 1, validity |-> validity]
  BY DEF PushedEntry, validity
<1>10. PushedNode(d) \in NodeType
  BY <1>4, <1>5, <1>6, <1>7, <1>8 DEF NodeType, Declared
<1>11. PushedEntry(d) \in EntryType
  BY <1>1, <1>7, <1>9 DEF EntryType
<1> QED BY <1>4, <1>8, <1>10, <1>11

LEMMA Appended1 ==
    ASSUME NEW S, NEW s \in Seq(S), NEW T, S \subseteq T
    PROVE  s \in Seq(T)
OBVIOUS

LEMMA PushKeepsTree ==
    ASSUME VariablesType, TreeOK, NEW d \in Declared, Push(d)
    PROVE  /\ VariablesType' /\ TreeOK' /\ Grown
           /\ Depth' = Depth + 1 /\ Len(nodes') = Len(nodes) + 1
           /\ \A k \in 1 .. Depth : validation_stack'[k] = validation_stack[k]
           /\ validation_stack'[Depth + 1] = PushedEntry(d)
           /\ \A n \in 1 .. Len(nodes) : nodes'[n] = nodes[n]
           /\ nodes'[Len(nodes) + 1] = PushedNode(d)
           /\ reports' = reports /\ finished' = finished
<1>1. /\ nodes' = Append(nodes, PushedNode(d))
      /\ validation_stack' = Append(validation_stack, PushedEntry(d))
      /\ schema' = schema /\ finished' = finished /\ reports' = reports
  BY DEF Push, PushedNode, PushedEntry, Depth, Node
<1>2. /\ nodes \in Seq(NodeType) /\ validation_stack \in Seq(EntryType)
      /\ Len(nodes) \in Nat /\ Depth \in Nat /\ Depth = Len(validation_stack)
      /\ finished \in Seq(1 .. Len(nodes)) /\ schema \in Schema
      /\ \A r \in reports : r.owner \in 1 .. Len(nodes)
  BY DEF VariablesType, Depth
<1>3. /\ PushedNode(d) \in NodeType /\ PushedEntry(d) \in EntryType
      /\ Len(PushedNode(d).path) = Depth + 1
      /\ PushedNode(d).path[Depth + 1] = Len(nodes) + 1
      /\ \A k \in 1 .. Depth : PushedNode(d).path[k] = Node(k)
  BY PushedTyped
<1>4. /\ nodes' \in Seq(NodeType) /\ Len(nodes') = Len(nodes) + 1
      /\ nodes'[Len(nodes) + 1] = PushedNode(d)
      /\ \A n \in 1 .. Len(nodes) : nodes'[n] = nodes[n]
  BY <1>1, <1>2, <1>3, TopOfAppended
<1>5. /\ validation_stack' \in Seq(EntryType) /\ Depth' = Depth + 1
      /\ validation_stack'[Depth + 1] = PushedEntry(d)
      /\ \A k \in 1 .. Depth : validation_stack'[k] = validation_stack[k]
  BY <1>1, <1>2, <1>3, TopOfAppended DEF Depth
<1>6. VariablesType'
  <2>1. finished' \in Seq(1 .. Len(nodes'))
    <3>1. 1 .. Len(nodes) \subseteq 1 .. Len(nodes')
      BY <1>2, <1>4
    <3> QED BY <1>1, <1>2, <3>1, Appended1
  <2>2. \A r \in reports' : r.owner \in 1 .. Len(nodes')
    BY <1>1, <1>2, <1>4
  <2>3. NodeType' = NodeType
    BY <1>1 DEF NodeType
  <2> QED BY <1>1, <1>2, <1>4, <1>5, <2>1, <2>2, <2>3 DEF VariablesType
<1>7. Grown
  BY <1>2, <1>4 DEF Grown
<1>8. /\ \A k \in 1 .. Depth : Node(k)' = Node(k)
      /\ \A k : k = Depth + 1 => Node(k)' = Len(nodes) + 1
  BY <1>5 DEF Node, PushedEntry
<1>9. ASSUME NEW n \in 1 .. Len(nodes') PROVE IsTrail(n)'
  <2>1. CASE n \in 1 .. Len(nodes)
    <3>1. IsTrail(n) /\ nodes[n].path \in Seq(Nat)
      BY <2>1, NodeTyped DEF TreeOK
    <3>2. \A k \in 1 .. Len(nodes[n].path) : nodes[n].path[k] \in 1 .. Len(nodes)
      BY <1>2, <2>1, <3>1 DEF IsTrail
    <3>3. nodes'[n] = nodes[n]
          /\ \A k \in 1 .. Len(nodes[n].path) : nodes'[nodes[n].path[k]] = nodes[nodes[n].path[k]]
      BY <1>4, <2>1, <3>2
    <3> DEFINE path == nodes[n].path
    <3>4. /\ Len(path) > 0 /\ path[Len(path)] = n
          /\ \A k \in 1 .. Len(path) :
                /\ path[k] \in 1 .. n /\ Len(nodes[path[k]].path) = k
                /\ \A j \in 1 .. k : nodes[path[k]].path[j] = path[j]
      BY <3>1 DEF IsTrail
    <3>5. nodes'[n].path = path
      BY <3>3
    <3> HIDE DEF path
    <3>6. \A k \in 1 .. Len(path) : nodes'[path[k]] = nodes[path[k]]
      BY <3>3 DEF path
    <3>7. \A k \in 1 .. Len(path) :
             /\ path[k] \in 1 .. n /\ Len(nodes'[path[k]].path) = k
             /\ \A j \in 1 .. k : nodes'[path[k]].path[j] = path[j]
      BY <3>4, <3>6
    <3> QED BY <3>4, <3>5, <3>7 DEF IsTrail
  <2>2. CASE n = Len(nodes) + 1
    <3>1. nodes'[n].path = PushedNode(d).path
      BY <1>4, <2>2
    <3> DEFINE path == PushedNode(d).path
    <3>2. ASSUME NEW k \in 1 .. Depth
          PROVE  /\ path[k] \in 1 .. n
                 /\ Len(nodes'[path[k]].path) = k
                 /\ \A j \in 1 .. k : nodes'[path[k]].path[j] = path[j]
      <4>1. Node(k) \in 1 .. Len(nodes) /\ Len(nodes[Node(k)].path) = k
            /\ \A j \in 1 .. k : nodes[Node(k)].path[j] = Node(j)
        BY DEF TreeOK
      <4>2. path[k] = Node(k) /\ nodes'[Node(k)] = nodes[Node(k)]
        BY <1>3, <1>4, <4>1
      <4>3. \A j \in 1 .. k : path[j] = Node(j)
        BY <1>2, <1>3
      <4> QED BY <1>2, <2>2, <4>1, <4>2, <4>3
    <3>3. /\ path[Depth + 1] = n /\ Len(path) = Depth + 1
          /\ nodes'[n].path = path /\ n \in 1 .. n
      BY <1>2, <1>3, <2>2, <3>1
    <3> HIDE DEF path
    <3>4. ASSUME NEW k \in 1 .. Len(path)
          PROVE  /\ path[k] \in 1 .. n
                 /\ Len(nodes'[path[k]].path) = k
                 /\ \A j \in 1 .. k : nodes'[path[k]].path[j] = path[j]
      <4>1. CASE k \in 1 .. Depth
        BY <3>2, <4>1
      <4>2. CASE k = Depth + 1
        BY <3>3, <4>2
      <4> QED BY <1>2, <3>3, <4>1, <4>2
    <3> QED BY <1>2, <3>3, <3>4 DEF IsTrail
  <2> QED BY <1>2, <1>4, <2>1, <2>2
<1>10. ASSUME NEW k \in 1 .. Depth'
       PROVE  /\ Node(k)' \in 1 .. Len(nodes')
              /\ Len(nodes'[Node(k)'].path) = k
              /\ \A j \in 1 .. k : nodes'[Node(k)'].path[j] = Node(j)'
              /\ Node(k)' \notin Closed'
  <2>1. Closed' = Closed /\ Closed \subseteq 1 .. Len(nodes)
    BY <1>1, <1>2 DEF Closed
  <2>2. CASE k \in 1 .. Depth
    <3>1. Node(k) \in 1 .. Len(nodes) /\ Len(nodes[Node(k)].path) = k
          /\ (\A j \in 1 .. k : nodes[Node(k)].path[j] = Node(j)) /\ Node(k) \notin Closed
      BY <2>2 DEF TreeOK
    <3>2. nodes'[Node(k)] = nodes[Node(k)] /\ Node(k)' = Node(k)
      BY <1>4, <1>8, <2>2, <3>1
    <3>3. \A j \in 1 .. k : Node(j)' = Node(j)
      BY <1>2, <1>8, <2>2
    <3> QED BY <1>2, <1>4, <2>1, <3>1, <3>2, <3>3
  <2>3. CASE k = Depth + 1
    <3>1. Node(k)' = Len(nodes) + 1 /\ nodes'[Node(k)'].path = PushedNode(d).path
      BY <1>4, <1>8, <2>3
    <3>2. Node(k)' \notin Closed'
      BY <1>2, <2>1, <3>1
    <3>3. \A j \in 1 .. k : PushedNode(d).path[j] = Node(j)'
      <4> SUFFICES ASSUME NEW j \in 1 .. k PROVE PushedNode(d).path[j] = Node(j)'
        OBVIOUS
      <4>1. CASE j \in 1 .. Depth
        BY <1>3, <1>8, <4>1
      <4>2. CASE j = Depth + 1
        BY <1>3, <1>8, <4>2
      <4> QED BY <1>2, <2>3, <4>1, <4>2
    <3> QED BY <1>2, <1>3, <1>4, <2>3, <3>1, <3>2, <3>3
  <2> QED BY <1>2, <1>5, <2>2, <2>3
<1>11. TreeOK'
  BY <1>9, <1>10 DEF TreeOK
<1> QED BY <1>1, <1>4, <1>5, <1>6, <1>7, <1>11

(* A report about an element there was is to the same blame afterwards.    *)
LEMMA OpenGrown ==
    ASSUME VariablesType, TreeOK, Grown, NEW k \in 1 .. Depth, Node(k)' = Node(k),
           NEW r, r.owner \in 1 .. Len(nodes)
    PROVE  /\ ReachesOpen(k, r)' <=> ReachesOpen(k, r)
           /\ BlamedOpen(k, r)' <=> BlamedOpen(k, r)
           /\ nodes'[Node(k)'].declaration = nodes[Node(k)].declaration
<1>1. PICK e \in 1 .. Len(nodes) : e = Node(k)
  BY OpenNodes
<1>2. (Below(e, r.owner)' <=> Below(e, r.owner)) /\ (Blamed(e, r)' <=> Blamed(e, r))
  BY BelowGrown, BlamedGrown
<1>3. ReachesOpen(k, r) <=> Below(e, r.owner)
  BY <1>1 DEF ReachesOpen
<1>4. BlamedOpen(k, r) <=> Blamed(e, r)
  BY <1>1 DEF BlamedOpen
<1>5. e = Node(k)'
  BY <1>1
<1>6. ReachesOpen(k, r)' <=> Below(e, r.owner)'
  BY <1>5 DEF ReachesOpen, Below
<1>7. BlamedOpen(k, r)' <=> Blamed(e, r)'
  BY <1>5 DEF BlamedOpen, Blamed, Below
<1>8. nodes'[e].declaration = nodes[e].declaration
  BY DEF Grown
<1> QED BY <1>1, <1>2, <1>3, <1>4, <1>5, <1>6, <1>7, <1>8

LEMMA PushKeepsOwners ==
    ASSUME VariablesType, TreeOK, OpenOwnersInvalid, OwnersInvalid,
           NEW d \in Declared, Push(d)
    PROVE  OpenOwnersInvalid' /\ OwnersInvalid'
<1>1. /\ VariablesType' /\ TreeOK' /\ Grown
      /\ Depth' = Depth + 1 /\ Len(nodes') = Len(nodes) + 1
      /\ \A k \in 1 .. Depth : validation_stack'[k] = validation_stack[k]
      /\ validation_stack'[Depth + 1] = PushedEntry(d)
      /\ \A n \in 1 .. Len(nodes) : nodes'[n] = nodes[n]
      /\ nodes'[Len(nodes) + 1] = PushedNode(d)
      /\ reports' = reports /\ finished' = finished
  BY PushKeepsTree
<1>2. /\ Depth \in Nat /\ Len(nodes) \in Nat
      /\ \A r \in reports : r.owner \in 1 .. Len(nodes)
  BY DEF VariablesType, Depth
<1>3. \A k \in 1 .. Depth : Node(k)' = Node(k)
  BY <1>1 DEF Node
<1>4. ASSUME NEW k, k = Depth + 1, NEW r \in reports PROVE ~ ReachesOpen(k, r)'
  <2>1. Node(k)' = Len(nodes) + 1 /\ nodes'[Len(nodes) + 1].path = PushedNode(d).path
    BY <1>1, <1>4 DEF Node, PushedEntry
  <2>2. Len(PushedNode(d).path) = Depth + 1
    BY PushedTyped
  <2>3. nodes'[r.owner].path = nodes[r.owner].path /\ r.owner \in 1 .. Len(nodes)
    BY <1>1, <1>2
  <2>4. \A j \in 1 .. Len(nodes[r.owner].path) : nodes[r.owner].path[j] \in 1 .. r.owner
    BY <2>3 DEF TreeOK, IsTrail
  <2>5. Len(nodes[r.owner].path) \in Nat
    BY <2>3, NodeTyped
  <2> SUFFICES ASSUME Len(nodes[r.owner].path) >= Depth + 1,
                      nodes[r.owner].path[Depth + 1] = Len(nodes) + 1
               PROVE  FALSE
    BY <2>1, <2>2, <2>3 DEF ReachesOpen, Below
  <2> QED BY <1>2, <2>3, <2>4, <2>5
<1>5. ASSUME NEW k \in 1 .. Depth'
      PROVE  /\ validation_stack'[k].validity = "notKnown"
                   <=> ~ nodes'[Node(k)'].declaration.assessed
             /\ validation_stack'[k].validity = "invalid"
                   <=> \E r \in reports' : Known(k, r)'
  <2>1. CASE k \in 1 .. Depth
    <3>1. /\ validation_stack[k].validity = "notKnown"
                <=> ~ nodes[Node(k)].declaration.assessed
          /\ validation_stack[k].validity = "invalid" <=> \E r \in reports : Known(k, r)
      BY <2>1 DEF OpenOwnersInvalid
    <3>2. nodes'[Node(k)'].declaration = nodes[Node(k)].declaration
      <4>1. Node(k) \in 1 .. Len(nodes) /\ Node(k)' = Node(k)
        BY <1>3, <2>1, OpenNodes
      <4> QED BY <1>1, <4>1
    <3>3. ASSUME NEW r \in reports PROVE Known(k, r)' <=> Known(k, r)
      <4>1. BlamedOpen(k, r)' <=> BlamedOpen(k, r)
        BY <1>1, <1>2, <1>3, <2>1, OpenGrown
      <4>2. CASE k < Depth
        <5>1. k + 1 \in 1 .. Depth
          BY <1>2, <2>1, <4>2
        <5>2. ReachesOpen(k + 1, r)' <=> ReachesOpen(k + 1, r)
          BY <1>1, <1>2, <1>3, <5>1, OpenGrown
        <5> QED BY <1>1, <1>2, <4>1, <4>2, <5>2 DEF Known
      <4>3. CASE k = Depth
        <5>1. ~ ReachesOpen(k + 1, r)'
          BY <1>2, <1>4, <4>3
        <5>2. k < Depth' /\ ~ (k < Depth)
          BY <1>1, <1>2, <4>3
        <5> QED BY <4>1, <5>1, <5>2 DEF Known
      <4> QED BY <1>2, <2>1, <4>2, <4>3
    <3> QED BY <1>1, <2>1, <3>1, <3>2, <3>3
  <2>2. CASE k = Depth + 1
    <3>1. validation_stack'[k] = PushedEntry(d) /\ Node(k)' = Len(nodes) + 1
      BY <1>1, <2>2 DEF Node, PushedEntry
    <3>2. nodes'[Node(k)'].declaration = d /\ d.assessed \in BOOLEAN
      BY <1>1, <3>1, DeclaredTyped DEF PushedNode
    <3>3. \A r \in reports : ~ Known(k, r)'
      <4> SUFFICES ASSUME NEW r \in reports PROVE ~ BlamedOpen(k, r)'
        BY DEF Known
      <4> QED BY <1>4, <2>2 DEF BlamedOpen, Blamed, ReachesOpen
    <3> QED BY <1>1, <3>1, <3>2, <3>3 DEF PushedEntry
  <2> QED BY <1>1, <1>2, <2>1, <2>2
<1>6. OwnersInvalid'
  <2> SUFFICES ASSUME NEW e \in Closed'
               PROVE  nodes'[e].validity = "invalid" <=> \E r \in reports' : Blamed(e, r)'
    BY DEF OwnersInvalid, Blamed
  <2>1. e \in Closed /\ e \in 1 .. Len(nodes)
    BY <1>1 DEF Closed, VariablesType
  <2>2. nodes[e].validity = "invalid" <=> \E r \in reports : Blamed(e, r)
    BY <2>1 DEF OwnersInvalid, Blamed
  <2>3. \A r \in reports : Blamed(e, r)' <=> Blamed(e, r)
    BY <1>1, <1>2, <2>1, BlamedGrown
  <2> QED BY <1>1, <2>1, <2>2, <2>3
<1>7. OpenOwnersInvalid'
  BY <1>5 DEF OpenOwnersInvalid
<1> QED BY <1>6, <1>7

-----------------------------------------------------------------------------
(* The names of the open elements, and of those below an open element.     *)

LEMMA OpenTyped ==
    ASSUME VariablesType, TreeOK
    PROVE  /\ Open \in Seq(OpenName) /\ Len(Open) = Depth /\ Depth \in Nat
           /\ \A k \in 1 .. Depth : Open[k] = nodes[Node(k)].declaration.name
<1>1. Depth \in Nat
  BY DEF VariablesType, Depth
<1>2. \A k \in 1 .. Depth : nodes[Node(k)].declaration.name \in OpenName
  <2> SUFFICES ASSUME NEW k \in 1 .. Depth
               PROVE  nodes[Node(k)].declaration.name \in OpenName
    OBVIOUS
  <2>1. nodes[Node(k)].declaration \in Declared
    BY OpenNodes, NodesDeclared
  <2> QED BY <2>1, DeclaredTyped DEF OpenName
<1> QED BY <1>1, <1>2 DEF Open

LEMMA PushedOpen ==
    ASSUME VariablesType, TreeOK, NEW d \in Declared, Push(d)
    PROVE  Open' = Append(Open, d.name) /\ d.name \in OpenName
<1>1. /\ VariablesType' /\ TreeOK' /\ Depth' = Depth + 1
      /\ \A k \in 1 .. Depth : validation_stack'[k] = validation_stack[k]
      /\ validation_stack'[Depth + 1] = PushedEntry(d)
      /\ \A n \in 1 .. Len(nodes) : nodes'[n] = nodes[n]
      /\ nodes'[Len(nodes) + 1] = PushedNode(d)
  BY PushKeepsTree
<1>2. Open \in Seq(OpenName) /\ Len(Open) = Depth /\ Depth \in Nat
      /\ \A k \in 1 .. Depth : Open[k] = nodes[Node(k)].declaration.name
  BY OpenTyped
<1>3. Open' = [k \in 1 .. Depth + 1 |-> nodes'[validation_stack'[k].node].declaration.name]
  BY <1>1 DEF Open, Node
<1>4. d.name \in OpenName
  BY DeclaredTyped DEF OpenName
<1> DEFINE open == Append(Open, d.name)
<1>5. /\ open \in Seq(OpenName) /\ Len(open) = Depth + 1 /\ open[Depth + 1] = d.name
      /\ \A k \in 1 .. Depth : open[k] = Open[k]
  BY <1>2, <1>4, TopOfAppended
<1> HIDE DEF open
<1>6. ASSUME NEW k \in 1 .. Depth + 1
      PROVE  nodes'[validation_stack'[k].node].declaration.name = open[k]
  <2>1. CASE k \in 1 .. Depth
    <3>1. Node(k) \in 1 .. Len(nodes)
      BY <2>1, OpenNodes
    <3>2. validation_stack'[k].node = Node(k) /\ nodes'[Node(k)] = nodes[Node(k)]
      BY <1>1, <2>1, <3>1 DEF Node
    <3>3. open[k] = nodes[Node(k)].declaration.name
      BY <1>2, <1>5, <2>1
    <3> QED BY <3>2, <3>3
  <2>2. CASE k = Depth + 1
    BY <1>1, <1>5, <2>2 DEF PushedEntry, PushedNode
  <2> QED BY <1>2, <2>1, <2>2
<1>7. open = [k \in 1 .. Depth + 1 |-> open[k]]
  BY <1>5
<1>8. Open' = open
  BY <1>3, <1>6, <1>7
<1> QED BY <1>4, <1>8 DEF open

(* What is below an element is visible when all open elements are.         *)
LEMMA OpenVisible ==
    ASSUME VariablesType, TreeOK, SkippedInside(Open), ~ InSkipped
    PROVE  Visible(Open)
<1>1. /\ Open \in Seq(OpenName) /\ Len(Open) = Depth /\ Depth \in Nat
      /\ \A k \in 1 .. Depth : Open[k] = nodes[Node(k)].declaration.name
  BY OpenTyped
<1>2. ASSUME Open # <<>> PROVE Open[Len(Open)] # Skipped
  <2>1. Depth \in 1 .. Depth /\ validation_stack # <<>>
    BY <1>1, <1>2 DEF Depth
  <2> QED BY <1>1, <2>1 DEF InSkipped, Innermost, Top, Node, Depth
<1> HIDE DEF Open
<1> QED BY <1>1, <1>2, SkippedIsLast

LEMMA SelectorOfPaths ==
    ASSUME VariablesType, NEW c \in Constraint
    PROVE  /\ OfPaths(Compiled[c].selector)
           /\ \A p \in DOMAIN Compiled[c].selector : ~ EndsInAttribute(Compiled[c].selector[p])
           /\ \A f \in Field : OfPaths(Compiled[c].fields[f])
BY ConstraintAssumption
DEF VariablesType, Constraint, Compiled, IsSelector, IsExpression, OfPaths

-----------------------------------------------------------------------------
(* What the calls of a ConstraintStruct do to its selector.                *)

SameConstraint(b, cs) ==
    IsStruct(b) /\ b.constraint = cs.constraint /\ b.owner_depth = cs.owner_depth

LEMMA StructSteps ==
    ASSUME NEW cs, IsStruct(cs)
    PROVE  /\ \A name :
                 /\ SameConstraint(Started(cs, name), cs)
                 /\ Started(cs, name).selector =
                       MoveToStartElement(Compiled[cs.constraint].selector, cs.selector, name)
           /\ SameConstraint(StartedSkipped(cs), cs)
           /\ StartedSkipped(cs).selector =
                 MoveToSkippedElement(Compiled[cs.constraint].selector, cs.selector)
           /\ \A fs, value :
                 /\ SameConstraint(Bound(cs, fs, value), cs)
                 /\ Bound(cs, fs, value).selector = cs.selector
           /\ \A content :
                 /\ SameConstraint(Ended(cs, content), cs)
                 /\ Ended(cs, content).selector =
                       EndElement(Compiled[cs.constraint].selector, cs.selector)
<1> DEFINE c == cs.constraint
           o == cs.owner_depth
           s == cs.selector
           frames == cs.collection_stack
           k == cs.key_table
<1>1. cs = [constraint |-> c, owner_depth |-> o, selector |-> s,
            collection_stack |-> frames, key_table |-> k]
  BY DEF IsStruct
<1> HIDE DEF c, o, s, frames, k
<1>2. ASSUME NEW b, NEW t, NEW fr, NEW kt,
             b = [cs EXCEPT !.selector = t, !.collection_stack = fr, !.key_table = kt]
      PROVE  SameConstraint(b, cs) /\ b.selector = t
  BY <1>1, <1>2 DEF SameConstraint, IsStruct
<1>3. ASSUME NEW b, NEW t, NEW fr,
             b = [cs EXCEPT !.selector = t, !.collection_stack = fr]
      PROVE  SameConstraint(b, cs) /\ b.selector = t
  BY <1>1, <1>3 DEF SameConstraint, IsStruct
<1>4. ASSUME NEW b, NEW fr, b = [cs EXCEPT !.collection_stack = fr]
      PROVE  SameConstraint(b, cs) /\ b.selector = cs.selector
  BY <1>1, <1>4 DEF SameConstraint, IsStruct
<1>5. SameConstraint(cs, cs)
  BY DEF SameConstraint
<1>6. ASSUME NEW name
      PROVE  /\ SameConstraint(Started(cs, name), cs)
             /\ Started(cs, name).selector =
                   MoveToStartElement(Compiled[cs.constraint].selector, cs.selector, name)
  BY <1>3 DEF Started
<1>7. /\ SameConstraint(StartedSkipped(cs), cs)
      /\ StartedSkipped(cs).selector =
            MoveToSkippedElement(Compiled[cs.constraint].selector, cs.selector)
  BY <1>3 DEF StartedSkipped
<1>8. ASSUME NEW fs, NEW value
      PROVE  /\ SameConstraint(Bound(cs, fs, value), cs)
             /\ Bound(cs, fs, value).selector = cs.selector
  BY <1>4, <1>5 DEF Bound
<1>9. ASSUME NEW content
      PROVE  /\ SameConstraint(Ended(cs, content), cs)
             /\ Ended(cs, content).selector =
                   EndElement(Compiled[cs.constraint].selector, cs.selector)
  <2> DEFINE t == EndElement(Compiled[cs.constraint].selector, cs.selector)
             all == [i \in 1 .. Len(cs.collection_stack) |->
                        EndedFrame(cs.constraint, cs.collection_stack[i], content)]
             pops == t.exited_match /\ all # <<>>
             fr == IF pops THEN Pop(all) ELSE all
             kt == IF pops THEN Append(cs.key_table, Top(all).values) ELSE cs.key_table
  <2>1. Ended(cs, content) =
           [cs EXCEPT !.selector = t, !.collection_stack = fr, !.key_table = kt]
    BY DEF Ended
  <2> HIDE DEF t, fr, kt
  <2>2. SameConstraint(Ended(cs, content), cs) /\ Ended(cs, content).selector = t
    BY <1>2, <2>1
  <2> QED BY <2>2 DEF t
<1> QED BY <1>6, <1>7, <1>8, <1>9

LEMMA NewStruct ==
    ASSUME NEW c, NEW o
    PROVE  /\ IsStruct(NewConstraint(c, o))
           /\ NewConstraint(c, o).constraint = c /\ NewConstraint(c, o).owner_depth = o
           /\ NewConstraint(c, o).selector = Activate(Compiled[c].selector)
BY DEF NewConstraint, IsStruct

-----------------------------------------------------------------------------
(* The selectors follow the start tags.                                    *)

LEMMA OpenBelowTyped ==
    ASSUME VariablesType, TreeOK, NEW o \in 1 .. Depth
    PROVE  /\ OpenBelow(o) \in Seq(OpenName) /\ Len(OpenBelow(o)) = Depth - o
           /\ OpenBelow(o) = <<>> <=> o = Depth
           /\ Visible(Open) => Visible(OpenBelow(o))
<1>1. Open \in Seq(OpenName) /\ Len(Open) = Depth /\ Depth \in Nat
  BY OpenTyped
<1>2. o \in 0 .. Len(Open) /\ Depth \in o .. Len(Open)
  BY <1>1
<1> HIDE DEF Open
<1>3. PICK s \in Seq(OpenName) : s = Open
  BY <1>1
<1>4. PICK t : t = SubSeq(s, o + 1, Len(s))
  OBVIOUS
<1>5. o \in 0 .. Len(s) /\ Len(s) \in o .. Len(s)
  BY <1>1, <1>2, <1>3
<1>6. /\ t \in Seq(OpenName) /\ Len(t) = Len(s) - o
      /\ t = <<>> <=> o = Len(s)
      /\ Visible(s) => Visible(t)
  <2>1. t \in Seq(OpenName) /\ Len(t) = Len(s) - o
        /\ \A i \in 1 .. Len(s) - o : t[i] = s[o + i]
    BY <1>4, <1>5
  <2>2. t = <<>> <=> o = Len(s)
    BY <1>5, <2>1
  <2>3. Visible(s) => Visible(t)
    BY <1>5, <2>1 DEF Visible
  <2> QED BY <2>1, <2>2, <2>3
<1>7. OpenBelow(o) = t
  BY <1>1, <1>3, <1>4 DEF OpenBelow
<1> HIDE DEF OpenBelow, Depth
<1> QED BY <1>1, <1>3, <1>6, <1>7

LEMMA PushedBelow ==
    ASSUME VariablesType, TreeOK, NEW d \in Declared, Push(d), NEW o \in 1 .. Depth
    PROVE  /\ OpenBelow(o)' = Append(OpenBelow(o), d.name)
           /\ o \in 1 .. Depth'
<1>1. Open \in Seq(OpenName) /\ Len(Open) = Depth /\ Depth \in Nat
  BY OpenTyped
<1>2. Open' = Append(Open, d.name) /\ d.name \in OpenName
  BY PushedOpen
<1>3. Depth' = Depth + 1
  BY PushKeepsTree
<1>4. o \in 0 .. Len(Open)
  BY <1>1
<1> HIDE DEF Open
<1>5. SubSeq(Append(Open, d.name), o + 1, Len(Open) + 1)
         = Append(SubSeq(Open, o + 1, Len(Open)), d.name)
  BY <1>1, <1>2, <1>4, SuffixGrows
<1> QED BY <1>1, <1>2, <1>3, <1>5 DEF OpenBelow

LEMMA StartKeepsStructs ==
    ASSUME VariablesType, TreeOK, SkippedInside(Open), StructsOK,
           NEW d \in schema.declarations, StartElement(d)
    PROVE  StructsOK' /\ SkippedInside(Open)'
<1>1. /\ ~ InSkipped /\ Push(d) /\ d \in Declared
      /\ active_constraints' =
            {Started(cs, d.name) : cs \in active_constraints}
                \cup {NewConstraint(c, Depth + 1) : c \in d.constraints}
      /\ Compiled' = Compiled /\ Constraint' = Constraint
  BY DEF StartElement, Declared, Depth, Push, Compiled, Constraint
<1>2. Visible(Open) /\ d.name # Skipped /\ d.name \in OpenName
  <2>1. d.name \in Name
    BY DeclarationAssumption DEF VariablesType
  <2> QED BY <1>1, <2>1, OpenVisible, SkippedAssumption DEF OpenName
<1>3. Depth' = Depth + 1 /\ VariablesType' /\ TreeOK' /\ Depth \in Nat
  BY <1>1, PushKeepsTree, OpenTyped
<1>4. SkippedInside(Open')
  <2>1. Open' = Append(Open, d.name) /\ Open \in Seq(OpenName)
    BY <1>1, PushedOpen, OpenTyped
  <2> QED BY <1>2, <2>1, SkippedStaysInside
<1>5. ASSUME NEW cs \in active_constraints, NEW b, b = Started(cs, d.name)
      PROVE  StructOK(b)'
  <2>1. /\ IsStruct(cs) /\ cs.constraint \in Constraint /\ cs.owner_depth \in 1 .. Depth
        /\ Tracks(Compiled[cs.constraint].selector, cs.selector, OpenBelow(cs.owner_depth))
    BY DEF StructsOK, StructOK
  <2>2. /\ IsStruct(b) /\ b.constraint = cs.constraint /\ b.owner_depth = cs.owner_depth
        /\ b.selector =
              MoveToStartElement(Compiled[cs.constraint].selector, cs.selector, d.name)
    BY <1>5, <2>1, StructSteps DEF SameConstraint
  <2>3. PICK o \in 1 .. Depth : o = cs.owner_depth
    BY <2>1
  <2>4. PICK selector : selector = Compiled[cs.constraint].selector
    OBVIOUS
  <2>5. OpenBelow(o)' = Append(OpenBelow(o), d.name) /\ o \in 1 .. Depth'
    BY <1>1, PushedBelow
  <2>6. OpenBelow(o) \in Seq(OpenName) /\ Visible(OpenBelow(o)) /\ OfPaths(selector)
    BY <1>2, <2>1, <2>4, OpenBelowTyped, SelectorOfPaths
  <2>7. Tracks(selector, b.selector, Append(OpenBelow(o), d.name))
    BY <1>2, <2>1, <2>2, <2>3, <2>4, <2>6, StartTracks
  <2>8. Tracks(selector, b.selector, OpenBelow(o)')
    BY <2>5, <2>7
  <2> QED BY <1>1, <2>1, <2>2, <2>3, <2>4, <2>5, <2>8 DEF StructOK
<1>6. ASSUME NEW c \in d.constraints, NEW b, b = NewConstraint(c, Depth + 1)
      PROVE  StructOK(b)'
  <2>1. /\ IsStruct(b) /\ b.constraint = c /\ b.owner_depth = Depth + 1
        /\ b.selector = Activate(Compiled[c].selector)
    BY <1>6, NewStruct
  <2>2. c \in Constraint
    BY <1>1, DeclaredTyped
  <2>3. PICK o : o = Depth + 1
    OBVIOUS
  <2>4. o \in 1 .. Depth' /\ o = Depth'
    BY <1>3, <2>3
  <2>5. OpenBelow(o)' = <<>>
    <3>1. Open' = Append(Open, d.name) /\ Open \in Seq(OpenName)
      BY <1>1, PushedOpen, OpenTyped
    <3>2. SubSeq(Open', Depth' + 1, Depth') = <<>>
      BY <1>2, <1>3, <3>1
    <3> QED BY <2>4, <3>2 DEF OpenBelow
  <2>6. Tracks(Compiled[c].selector, b.selector, <<>>)
    BY <2>1, <2>2, SelectorOfPaths, ActivateTracks
  <2> QED BY <1>1, <2>1, <2>2, <2>3, <2>4, <2>5, <2>6 DEF StructOK
<1>7. StructsOK'
  BY <1>1, <1>5, <1>6 DEF StructsOK
<1> QED BY <1>4, <1>7

LEMMA StartSkippedKeepsStructs ==
    ASSUME VariablesType, TreeOK, SkippedInside(Open), StructsOK, StartSkipped
    PROVE  StructsOK' /\ SkippedInside(Open)'
<1>1. /\ Push(SkippedElement) /\ SkippedElement \in Declared
      /\ SkippedElement.name = Skipped
      /\ active_constraints' = {StartedSkipped(cs) : cs \in active_constraints}
      /\ Compiled' = Compiled /\ Constraint' = Constraint
  BY DEF StartSkipped, Declared, Push, Compiled, Constraint, SkippedElement
<1>2. SkippedInside(Open')
  <2>1. Open' = Append(Open, Skipped) /\ Open \in Seq(OpenName) /\ Skipped \in OpenName
    BY <1>1, PushedOpen, OpenTyped
  <2> QED BY <2>1, SkippedStaysInside
<1>3. ASSUME NEW cs \in active_constraints, NEW b, b = StartedSkipped(cs)
      PROVE  StructOK(b)'
  <2>1. /\ IsStruct(cs) /\ cs.constraint \in Constraint /\ cs.owner_depth \in 1 .. Depth
        /\ Tracks(Compiled[cs.constraint].selector, cs.selector, OpenBelow(cs.owner_depth))
    BY DEF StructsOK, StructOK
  <2>2. /\ IsStruct(b) /\ b.constraint = cs.constraint /\ b.owner_depth = cs.owner_depth
        /\ b.selector =
              MoveToSkippedElement(Compiled[cs.constraint].selector, cs.selector)
    BY <1>3, <2>1, StructSteps DEF SameConstraint
  <2>3. PICK o \in 1 .. Depth : o = cs.owner_depth
    BY <2>1
  <2>4. PICK selector : selector = Compiled[cs.constraint].selector
    OBVIOUS
  <2>5. OpenBelow(o)' = Append(OpenBelow(o), Skipped) /\ o \in 1 .. Depth'
    BY <1>1, PushedBelow
  <2>6. OpenBelow(o) \in Seq(OpenName) /\ OfPaths(selector) /\ Skipped \in OpenName
    BY <2>1, <2>4, OpenBelowTyped, SelectorOfPaths DEF OpenName
  <2>7. Tracks(selector, b.selector, Append(OpenBelow(o), Skipped))
    BY <2>1, <2>2, <2>3, <2>4, <2>6, StartSkippedTracks
  <2>8. Tracks(selector, b.selector, OpenBelow(o)')
    BY <2>5, <2>7
  <2> QED BY <1>1, <2>1, <2>2, <2>3, <2>4, <2>5, <2>8 DEF StructOK
<1>4. StructsOK'
  BY <1>1, <1>3 DEF StructsOK
<1> QED BY <1>2, <1>4

-----------------------------------------------------------------------------
(* Steps that add no element.                                              *)

LEMMA TreeKept ==
    ASSUME VariablesType, TreeOK, Grown, Len(nodes') = Len(nodes),
           Depth' \in 0 .. Depth,
           \A k \in 1 .. Depth' : Node(k)' = Node(k) /\ Node(k) \notin Closed'
    PROVE  TreeOK'
<1>1. /\ Depth \in Nat /\ Len(nodes) \in Nat /\ Depth' \in Nat
      /\ \A k \in 1 .. Depth' : k \in 1 .. Depth
  BY DEF VariablesType, Depth
<1>2. ASSUME NEW n \in 1 .. Len(nodes') PROVE IsTrail(n)'
  <2> DEFINE path == nodes[n].path
  <2>1. nodes'[n].path = path /\ n \in 1 .. Len(nodes)
    BY DEF Grown
  <2>2. /\ Len(path) > 0 /\ path[Len(path)] = n
        /\ \A k \in 1 .. Len(path) :
              /\ path[k] \in 1 .. n /\ Len(nodes[path[k]].path) = k
              /\ \A j \in 1 .. k : nodes[path[k]].path[j] = path[j]
    BY <2>1 DEF TreeOK, IsTrail
  <2> HIDE DEF path
  <2>3. \A k \in 1 .. Len(path) : nodes'[path[k]].path = nodes[path[k]].path
    <3>1. \A k \in 1 .. Len(path) : path[k] \in 1 .. Len(nodes)
      BY <1>1, <2>1, <2>2
    <3> QED BY <3>1 DEF Grown
  <2> QED BY <2>1, <2>2, <2>3 DEF IsTrail
<1>3. ASSUME NEW k \in 1 .. Depth'
      PROVE  /\ Node(k)' \in 1 .. Len(nodes')
             /\ Len(nodes'[Node(k)'].path) = k
             /\ \A j \in 1 .. k : nodes'[Node(k)'].path[j] = Node(j)'
             /\ Node(k)' \notin Closed'
  <2>1. k \in 1 .. Depth /\ Node(k)' = Node(k) /\ Node(k) \notin Closed'
    BY <1>1
  <2>2. /\ Node(k) \in 1 .. Len(nodes) /\ Len(nodes[Node(k)].path) = k
        /\ \A j \in 1 .. k : nodes[Node(k)].path[j] = Node(j)
    BY <2>1 DEF TreeOK
  <2>3. nodes'[Node(k)].path = nodes[Node(k)].path
    BY <2>2 DEF Grown
  <2>4. \A j \in 1 .. k : Node(j)' = Node(j)
    BY <1>1
  <2> QED BY <2>1, <2>2, <2>3, <2>4
<1> QED BY <1>2, <1>3 DEF TreeOK

-----------------------------------------------------------------------------
(* The attributes of an element.                                           *)

TwiceBound(name) ==
    {cs \in active_constraints : BoundTwice(cs, MatchingFields(cs, name))}

LEMMA AttributeKeepsTree ==
    ASSUME VariablesType, TreeOK, StructsOK, in_attributes => Depth > 0,
           NEW name, NEW value \in AttributeValue \cup {Unassessed},
           Attribute(name, value)
    PROVE  /\ VariablesType' /\ TreeOK' /\ Grown
           /\ Len(nodes') = Len(nodes) /\ Depth' = Depth /\ Depth > 0
           /\ \A k \in 1 .. Depth : Node(k)' = Node(k)
           /\ \A n \in 1 .. Len(nodes) : nodes'[n].validity = nodes[n].validity
           /\ Closed' = Closed
           /\ \A cs \in TwiceBound(name) : cs.owner_depth \in 1 .. Depth
<1> DEFINE k == Depth
           attributes == [a \in DOMAIN nodes[Node(k)].attributes \cup {name} |->
                             IF a = name THEN value ELSE nodes[Node(k)].attributes[a]]
           depths == {cs.owner_depth : cs \in TwiceBound(name)}
           new == {Report(MissingField, cs) : cs \in TwiceBound(name)}
<1>1. /\ Depth > 0 /\ Depth \in Nat /\ Len(nodes) \in Nat /\ Node(k) \in 1 .. Len(nodes)
      /\ schema' = schema /\ finished' = finished
      /\ validation_stack' = InvalidateAt(validation_stack, depths)
      /\ reports' = reports \cup new
      /\ name \in nodes[Node(k)].declaration.attributes
  <2>1. Depth > 0 /\ Depth \in Nat /\ Len(nodes) \in Nat
    BY DEF Attribute, Depth, VariablesType
  <2>2. Depth \in 1 .. Depth
    BY <2>1
  <2> QED BY <2>1, <2>2, OpenNodes
      DEF Attribute, TwiceBound, Innermost, Top, Node, Depth
<1>2. nodes' = [nodes EXCEPT ![Node(k)].attributes = attributes]
  BY DEF Attribute, Top, Node, Depth
<1>3. nodes \in Seq(NodeType) /\ \A n \in 1 .. Len(nodes) : nodes[n] \in NodeType
  BY DEF VariablesType
<1>4. attributes \in AttributesType
  <2>1. nodes[Node(k)].attributes \in AttributesType
    BY <1>1, <1>3 DEF NodeType
  <2>2. PICK S \in SUBSET AttributeName :
           nodes[Node(k)].attributes \in [S -> AttributeValue \cup {Unassessed}]
    BY <2>1 DEF AttributesType
  <2>3. name \in AttributeName
    <3>1. nodes[Node(k)].declaration \in schema.declarations \cup {SkippedElement}
      BY <1>1, <1>3 DEF NodeType
    <3>2. CASE nodes[Node(k)].declaration = SkippedElement
      BY <1>1, <3>2 DEF SkippedElement
    <3>3. CASE nodes[Node(k)].declaration \in schema.declarations
      BY <1>1, <3>3, DeclarationAssumption DEF VariablesType
    <3> QED BY <3>1, <3>2, <3>3
  <2>4. attributes \in [S \cup {name} -> AttributeValue \cup {Unassessed}]
    BY <2>2
  <2>5. S \cup {name} \in SUBSET AttributeName
    BY <2>2, <2>3
  <2> HIDE DEF attributes
  <2> QED BY <2>4, <2>5 DEF AttributesType
<1> HIDE DEF attributes
<1>5. /\ [nodes[Node(k)] EXCEPT !.attributes = attributes] \in NodeType
      /\ [nodes[Node(k)] EXCEPT !.attributes = attributes].path = nodes[Node(k)].path
      /\ [nodes[Node(k)] EXCEPT !.attributes = attributes].declaration
            = nodes[Node(k)].declaration
      /\ [nodes[Node(k)] EXCEPT !.attributes = attributes].validity
            = nodes[Node(k)].validity
  BY <1>1, <1>3, <1>4 DEF NodeType
<1>6. /\ nodes' \in Seq(NodeType) /\ Len(nodes') = Len(nodes)
      /\ \A n \in 1 .. Len(nodes) : nodes'[n] =
            IF n = Node(k) THEN [nodes[Node(k)] EXCEPT !.attributes = attributes]
                           ELSE nodes[n]
  BY <1>1, <1>2, <1>3, <1>5
<1>7. Grown /\ \A n \in 1 .. Len(nodes) : nodes'[n].validity = nodes[n].validity
  <2>1. ASSUME NEW n \in 1 .. Len(nodes)
        PROVE  /\ nodes'[n].path = nodes[n].path /\ nodes'[n].validity = nodes[n].validity
               /\ nodes'[n].declaration = nodes[n].declaration
    <3>1. CASE n = Node(k)
      <4>1. nodes'[n] = [nodes[Node(k)] EXCEPT !.attributes = attributes]
        BY <1>6, <3>1
      <4> QED BY <1>5, <3>1, <4>1
    <3>2. CASE n # Node(k)
      BY <1>6, <3>2
    <3> QED BY <3>1, <3>2
  <2> QED BY <1>1, <1>6, <2>1 DEF Grown
<1>8. \A cs \in TwiceBound(name) : cs.owner_depth \in 1 .. Depth
  BY DEF TwiceBound, StructsOK, StructOK
<1>9. /\ validation_stack' \in Seq(EntryType) /\ Depth' = Depth
      /\ \A d \in 1 .. Depth : Node(d)' = Node(d)
  <2>1. validation_stack \in Seq(EntryType)
    BY DEF VariablesType
  <2> HIDE DEF depths, new
  <2>2. /\ InvalidateAt(validation_stack, depths) \in Seq(EntryType)
        /\ Len(InvalidateAt(validation_stack, depths)) = Len(validation_stack)
        /\ \A d \in 1 .. Len(validation_stack) :
              InvalidateAt(validation_stack, depths)[d].node = validation_stack[d].node
    BY <2>1, InvalidatedEntries
  <2> QED BY <1>1, <2>2 DEF Depth, Node
<1>10. VariablesType'
  <2>1. \A r \in new : r.owner \in 1 .. Len(nodes)
    <3> SUFFICES ASSUME NEW cs \in TwiceBound(name)
                 PROVE  Report(MissingField, cs).owner \in 1 .. Len(nodes)
      OBVIOUS
    <3>1. Node(cs.owner_depth) \in 1 .. Len(nodes)
      BY <1>8, OpenNodes
    <3> QED BY <3>1 DEF Report, Node
  <2>2. NodeType' = NodeType
    BY <1>1 DEF NodeType
  <2> HIDE DEF new, depths
  <2> QED BY <1>1, <1>6, <1>9, <2>1, <2>2 DEF VariablesType
<1>11. Closed' = Closed
  BY <1>1 DEF Closed
<1>12. TreeOK'
  <2>1. \A d \in 1 .. Depth' : Node(d)' = Node(d) /\ Node(d) \notin Closed'
    BY <1>9, <1>11 DEF TreeOK
  <2>2. Depth' \in 0 .. Depth
    BY <1>1, <1>9
  <2> QED BY <1>6, <1>7, <2>1, <2>2, TreeKept
<1> QED BY <1>1, <1>6, <1>7, <1>8, <1>9, <1>10, <1>11, <1>12

LEMMA KnownGrown ==
    ASSUME VariablesType, TreeOK, Grown, Depth' = Depth,
           \A k \in 1 .. Depth : Node(k)' = Node(k),
           NEW d \in 1 .. Depth, NEW r, r.owner \in 1 .. Len(nodes)
    PROVE  Known(d, r)' <=> Known(d, r)
<1>1. Depth \in Nat
  BY DEF VariablesType, Depth
<1>2. BlamedOpen(d, r)' <=> BlamedOpen(d, r)
  BY OpenGrown
<1>3. d < Depth => (ReachesOpen(d + 1, r)' <=> ReachesOpen(d + 1, r))
  <2> SUFFICES ASSUME d < Depth PROVE ReachesOpen(d + 1, r)' <=> ReachesOpen(d + 1, r)
    OBVIOUS
  <2>1. d + 1 \in 1 .. Depth
    BY <1>1
  <2> QED BY <2>1, OpenGrown
<1> QED BY <1>2, <1>3 DEF Known

LEMMA AttributeKeepsOwners ==
    ASSUME OwnersInv, NEW name, NEW value \in AttributeValue \cup {Unassessed},
           Attribute(name, value)
    PROVE  OpenOwnersInvalid' /\ OwnersInvalid'
<1> DEFINE depths == {cs.owner_depth : cs \in TwiceBound(name)}
           new == {Report(MissingField, cs) : cs \in TwiceBound(name)}
<1>1. /\ VariablesType /\ TreeOK /\ StructsOK /\ OpenOwnersInvalid /\ OwnersInvalid
      /\ in_attributes => Depth > 0
  BY DEF OwnersInv
<1>2. /\ VariablesType' /\ TreeOK' /\ Grown
      /\ Len(nodes') = Len(nodes) /\ Depth' = Depth
      /\ \A k \in 1 .. Depth : Node(k)' = Node(k)
      /\ \A n \in 1 .. Len(nodes) : nodes'[n].validity = nodes[n].validity
      /\ Closed' = Closed
      /\ \A cs \in TwiceBound(name) : cs.owner_depth \in 1 .. Depth
  BY <1>1, AttributeKeepsTree
<1>3. /\ validation_stack' = InvalidateAt(validation_stack, depths)
      /\ reports' = reports \cup new
  BY DEF Attribute, TwiceBound
<1>4. depths \in SUBSET (1 .. Depth) /\ About(new, depths)
  <2>1. depths \in SUBSET (1 .. Depth)
    BY <1>2
  <2>2. \A cs : Report(MissingField, cs).owner = Node(cs.owner_depth)
    BY DEF Report, Node
  <2>3. \A r \in new : \E k \in depths : r.owner = Node(k)
    BY <2>2
  <2>4. \A k \in depths : \E r \in new : r.owner = Node(k)
    BY <2>2
  <2> QED BY <2>1, <2>3, <2>4 DEF About
<1>5. \A r \in reports \cup new : r.owner \in 1 .. Len(nodes)
  <2>1. \A k \in 1 .. Depth : Node(k) \in 1 .. Len(nodes)
    BY <1>1, OpenNodes
  <2> HIDE DEF new, depths
  <2> QED BY <1>1, <1>4, <2>1 DEF About, VariablesType
<1> HIDE DEF new, depths
<1>6. ASSUME NEW d \in 1 .. Depth'
      PROVE  /\ validation_stack'[d].validity = "notKnown"
                   <=> ~ nodes'[Node(d)'].declaration.assessed
             /\ validation_stack'[d].validity = "invalid"
                   <=> \E r \in reports' : Known(d, r)'
  <2>1. d \in 1 .. Depth
    BY <1>2
  <2>2. LET entry == InvalidateAt(validation_stack, depths)[d] IN
        /\ entry.validity = "notKnown" <=> ~ nodes[Node(d)].declaration.assessed
        /\ entry.validity = "invalid" <=> \E r \in reports \cup new : Known(d, r)
    BY <1>1, <1>4, <2>1, ReportsInvalidate
  <2>3. \A r \in reports \cup new : Known(d, r)' <=> Known(d, r)
    BY <1>1, <1>2, <1>5, <2>1, KnownGrown
  <2>4. nodes'[Node(d)'].declaration = nodes[Node(d)].declaration
    <3>1. Node(d) \in 1 .. Len(nodes)
      BY <1>1, <2>1, OpenNodes
    <3> QED BY <1>2, <2>1, <3>1 DEF Grown
  <2> QED BY <1>3, <2>2, <2>3, <2>4
<1>7. ASSUME NEW e \in Closed'
      PROVE  nodes'[e].validity = "invalid" <=> \E r \in reports' : Blamed(e, r)'
  <2>1. e \in Closed /\ e \in 1 .. Len(nodes)
    <3>1. e \in Closed
      BY <1>2
    <3> QED BY <1>1, <3>1 DEF Closed, VariablesType
  <2>2. nodes'[e].validity = "invalid" <=> \E r \in reports : Blamed(e, r)
    BY <1>1, <1>2, <2>1 DEF OwnersInvalid, Blamed
  <2>3. \A r \in reports \cup new : Blamed(e, r)' <=> Blamed(e, r)
    BY <1>1, <1>2, <1>5, <2>1, BlamedGrown
  <2>4. \A r \in new : ~ Blamed(e, r)
    <3>1. \A k \in depths : ~ Below(e, Node(k))
      BY <1>1, <1>4, <2>1, ClosedHasNoOpenBelow
    <3> QED BY <1>4, <3>1 DEF About, Blamed
  <2> QED BY <1>3, <2>2, <2>3, <2>4
<1>8. OpenOwnersInvalid'
  BY <1>6 DEF OpenOwnersInvalid
<1>9. OwnersInvalid'
  BY <1>7 DEF OwnersInvalid, Blamed
<1> QED BY <1>8, <1>9

LEMMA AttributeKeepsStructs ==
    ASSUME OwnersInv, NEW name, NEW value \in AttributeValue \cup {Unassessed},
           Attribute(name, value)
    PROVE  StructsOK' /\ Open' = Open
<1>1. /\ VariablesType /\ TreeOK /\ StructsOK
      /\ in_attributes => Depth > 0
  BY DEF OwnersInv
<1>2. /\ Grown /\ Len(nodes') = Len(nodes) /\ Depth' = Depth
      /\ \A k \in 1 .. Depth : Node(k)' = Node(k)
  BY <1>1, AttributeKeepsTree
<1>3. Open' = Open
  <2>1. \A k \in 1 .. Depth : nodes'[Node(k)'].declaration.name
                                 = nodes[Node(k)].declaration.name
    <3> SUFFICES ASSUME NEW k \in 1 .. Depth
                 PROVE  nodes'[Node(k)'].declaration.name = nodes[Node(k)].declaration.name
      OBVIOUS
    <3>1. Node(k) \in 1 .. Len(nodes) /\ Node(k)' = Node(k)
      BY <1>1, <1>2, OpenNodes
    <3> QED BY <1>2, <3>1 DEF Grown
  <2>2. Open' = [k \in 1 .. Depth |-> nodes'[Node(k)'].declaration.name]
    BY <1>2 DEF Open
  <2> QED BY <2>1, <2>2 DEF Open
<1>4. \A o : OpenBelow(o)' = SubSeq(Open', o + 1, Depth')
  BY DEF OpenBelow
<1>5. ASSUME NEW cs \in active_constraints,
             NEW b, b = Bound(cs, MatchingFields(cs, name), value)
      PROVE  StructOK(b)'
  <2>1. /\ IsStruct(cs) /\ cs.constraint \in Constraint /\ cs.owner_depth \in 1 .. Depth
        /\ Tracks(Compiled[cs.constraint].selector, cs.selector, OpenBelow(cs.owner_depth))
    BY <1>1 DEF StructsOK, StructOK
  <2>2. /\ IsStruct(b) /\ b.constraint = cs.constraint /\ b.owner_depth = cs.owner_depth
        /\ b.selector = cs.selector
    BY <1>5, <2>1, StructSteps DEF SameConstraint
  <2>3. PICK o \in 1 .. Depth : o = cs.owner_depth
    BY <2>1
  <2>4. OpenBelow(o)' = OpenBelow(o)
    BY <1>2, <1>3, <1>4 DEF OpenBelow
  <2>5. schema' = schema
    BY DEF Attribute
  <2>6. Tracks(Compiled[b.constraint].selector, b.selector, OpenBelow(o)')
    BY <2>1, <2>2, <2>3, <2>4
  <2> QED BY <1>2, <2>1, <2>2, <2>3, <2>5, <2>6 DEF StructOK, Compiled, Constraint
<1>6. active_constraints' =
         {Bound(cs, MatchingFields(cs, name), value) : cs \in active_constraints}
  BY DEF Attribute
<1>7. StructsOK'
  BY <1>5, <1>6 DEF StructsOK
<1> QED BY <1>3, <1>7

-----------------------------------------------------------------------------
(* The end tag of an element.                                              *)

LEMMA PoppedBelow ==
    ASSUME VariablesType, TreeOK, NEW o \in 1 .. Depth, o < Depth,
           Open' = Pop(Open), Depth' = Depth - 1
    PROVE  OpenBelow(o)' = Pop(OpenBelow(o)) /\ o \in 1 .. Depth'
<1>1. Open \in Seq(OpenName) /\ Len(Open) = Depth /\ Depth \in Nat
  BY OpenTyped
<1>2. o \in 0 .. Len(Open) /\ o \in 1 .. Depth - 1
  BY <1>1
<1> HIDE DEF Open
<1>3. SubSeq(Pop(Open), o + 1, Len(Open) - 1) = Pop(SubSeq(Open, o + 1, Len(Open)))
  BY <1>1, <1>2, SuffixShrinks
<1> QED BY <1>1, <1>2, <1>3 DEF OpenBelow

(* The constraints of the closing element deactivate, and no others.       *)
LEMMA EndedStructs ==
    ASSUME VariablesType, TreeOK, StructsOK, NEW cs \in active_constraints, NEW content
    PROVE  LET b == Ended(cs, content) IN
           /\ SameConstraint(b, cs)
           /\ cs.constraint \in Constraint /\ cs.owner_depth \in 1 .. Depth
           /\ b.selector.active <=> cs.owner_depth < Depth
           /\ b.selector.active =>
                 Tracks(Compiled[cs.constraint].selector, b.selector,
                        Pop(OpenBelow(cs.owner_depth)))
<1> DEFINE b == Ended(cs, content)
<1>1. /\ IsStruct(cs) /\ cs.constraint \in Constraint /\ cs.owner_depth \in 1 .. Depth
      /\ Tracks(Compiled[cs.constraint].selector, cs.selector, OpenBelow(cs.owner_depth))
  BY DEF StructsOK, StructOK
<1>2. /\ SameConstraint(b, cs)
      /\ b.selector = EndElement(Compiled[cs.constraint].selector, cs.selector)
  BY <1>1, StructSteps
<1> HIDE DEF b
<1>3. PICK o \in 1 .. Depth : o = cs.owner_depth
  BY <1>1
<1>4. PICK selector, t :
         selector = Compiled[cs.constraint].selector /\ t = OpenBelow(o)
  OBVIOUS
<1>5. /\ OfPaths(selector) /\ t \in Seq(OpenName)
      /\ t = <<>> <=> o = Depth
      /\ Tracks(selector, cs.selector, t)
  BY <1>1, <1>3, <1>4, SelectorOfPaths, OpenBelowTyped
<1>6. LET e == EndElement(selector, cs.selector) IN
      /\ e.active <=> t # <<>>
      /\ t # <<>> => Tracks(selector, e, Pop(t))
  BY <1>5, EndTracks
<1>7. o < Depth <=> o # Depth
  BY DEF VariablesType, Depth
<1>8. /\ b.selector.active <=> o < Depth
      /\ b.selector.active => Tracks(selector, b.selector, Pop(t))
  BY <1>2, <1>3, <1>4, <1>5, <1>6, <1>7
<1> QED BY <1>1, <1>2, <1>3, <1>4, <1>8 DEF b

(* What an end tag does to the open elements and to the reports: `owners'  *)
(* and `depths' are where errors were found, without and with the keyrefs. *)
Closes(content, owners, depths, new) ==
    LET closed == InvalidateAt(validation_stack, depths)[Depth] IN
    /\ depths \in SUBSET (1 .. Depth) /\ About(new, depths)
    /\ \A d \in 1 .. Depth - 1 : d \in owners <=> d \in depths
    /\ reports' = reports \cup new
    /\ nodes' = [nodes EXCEPT ![Node(Depth)].content = content,
                              ![Node(Depth)].validity = closed.validity]
    /\ validation_stack' =
          InvalidateAt(Pop(validation_stack),
             owners \cup (IF closed.validity = "invalid" THEN {Depth - 1} ELSE {}))
    /\ finished' = Append(finished, Node(Depth))
    /\ schema' = schema

LEMMA EndCloses ==
    ASSUME VariablesType, TreeOK, StructsOK, NEW content \in Content, EndTag(content)
    PROVE  /\ Depth \in Nat \ {0}
           /\ \E owners, depths, new : Closes(content, owners, depths, new)
<1> DEFINE ended == {Ended(cs, content) : cs \in active_constraints}
           closing == {cs \in ended : ~ cs.selector.active}
           failing == FailingKeyrefs(closing, ScopeTables(closing))
           errors == UNION {{<<e, cs>> : e \in EndErrors(cs, content)} :
                               cs \in active_constraints}
           owners == {found[2].owner_depth : found \in errors}
           depths == owners \cup (IF failing = {} THEN {} ELSE {Depth})
           new == {Report(found[1], found[2]) : found \in errors}
                     \cup {Report(MissingKey, cs) : cs \in failing}
           top == validation_stack[Depth]
           invalid == Depth \in owners \/ failing # {}
           closed == IF invalid THEN Invalidate(top) ELSE top
<1>1. Depth \in Nat \ {0} /\ validation_stack \in Seq(EntryType)
  BY DEF EndTag, VariablesType, Depth
<1>2. /\ reports' = (reports \cup {Report(found[1], found[2]) : found \in errors})
                       \cup {Report(MissingKey, cs) : cs \in failing}
      /\ nodes' = [nodes EXCEPT ![top.node].content = content,
                                ![top.node].validity = closed.validity]
      /\ validation_stack' =
            InvalidateAt(Pop(validation_stack),
               owners \cup (IF closed.validity = "invalid" THEN {Depth - 1} ELSE {}))
      /\ finished' = Append(finished, top.node)
      /\ schema' = schema
  BY DEF EndTag, Top, Depth
<1>3. \A found \in errors : found[2] \in active_constraints
  OBVIOUS
<1>4. owners \in SUBSET (1 .. Depth)
  <2>1. \A cs \in active_constraints : cs.owner_depth \in 1 .. Depth
    BY DEF StructsOK, StructOK
  <2> HIDE DEF errors
  <2> QED BY <1>3, <2>1
<1>5. \A cs \in failing : cs.owner_depth = Depth
  <2>1. \A b \in failing : b \in ended /\ ~ b.selector.active
    BY DEF FailingKeyrefs
  <2>2. ASSUME NEW cs \in active_constraints, NEW b, b = Ended(cs, content),
               ~ b.selector.active
        PROVE  b.owner_depth = Depth
    <3>1. /\ SameConstraint(b, cs) /\ cs.owner_depth \in 1 .. Depth
          /\ ~ (cs.owner_depth < Depth)
      BY <2>2, EndedStructs
    <3> QED BY <1>1, <3>1 DEF SameConstraint
  <2> HIDE DEF failing
  <2> QED BY <2>1, <2>2
<1>6. About(new, depths)
  <2>1. \A e, cs : Report(e, cs).owner = Node(cs.owner_depth)
    BY DEF Report, Node
  <2> HIDE DEF errors, failing
  <2>2. \A r \in new : \E d \in depths : r.owner = Node(d)
    BY <1>5, <2>1
  <2>3. \A d \in depths : \E r \in new : r.owner = Node(d)
    BY <1>5, <2>1
  <2> QED BY <2>2, <2>3 DEF About
<1> HIDE DEF failing, errors, owners
<1>7. depths \in SUBSET (1 .. Depth)
  BY <1>1, <1>4
<1>8. \A d \in 1 .. Depth - 1 : d \in owners <=> d \in depths
  BY <1>1
<1>9. closed = InvalidateAt(validation_stack, depths)[Depth]
  BY <1>1 DEF InvalidateAt, Depth
<1>10. reports' = reports \cup new
  BY <1>2
<1> HIDE DEF depths, new, closed
<1>11. Closes(content, owners, depths, new)
  BY <1>2, <1>6, <1>7, <1>8, <1>9, <1>10 DEF Closes, Node
<1> QED BY <1>1, <1>11

LEMMA ClosesTree ==
    ASSUME VariablesType, TreeOK, Depth \in Nat \ {0}, NEW content \in Content,
           NEW owners, NEW depths, NEW new, Closes(content, owners, depths, new)
    PROVE  /\ VariablesType' /\ TreeOK' /\ Grown
           /\ Depth' = Depth - 1 /\ Len(nodes') = Len(nodes)
           /\ \A k \in 1 .. Depth' : Node(k)' = Node(k)
           /\ \A n \in 1 .. Len(nodes) : nodes'[n].validity =
                 IF n = Node(Depth) THEN InvalidateAt(validation_stack, depths)[Depth].validity
                                    ELSE nodes[n].validity
           /\ Closed' = Closed \cup {Node(Depth)}
           /\ Open' = Pop(Open)
           /\ \A r \in reports' : r.owner \in 1 .. Len(nodes)
<1>1. PICK k, node, closed, open :
         /\ k = Depth /\ node = Node(k)
         /\ closed = InvalidateAt(validation_stack, depths)[k]
         /\ open = owners \cup (IF closed.validity = "invalid" THEN {k - 1} ELSE {})
  OBVIOUS
<1>2. /\ k \in Nat \ {0} /\ k \in 1 .. Depth /\ Len(nodes) \in Nat
      /\ node \in 1 .. Len(nodes)
      /\ nodes \in Seq(NodeType) /\ validation_stack \in Seq(EntryType)
      /\ Len(validation_stack) = k /\ finished \in Seq(1 .. Len(nodes))
      /\ schema' = schema /\ schema \in Schema
      /\ reports' = reports \cup new
      /\ nodes' = [nodes EXCEPT ![node].content = content, ![node].validity = closed.validity]
      /\ validation_stack' = InvalidateAt(Pop(validation_stack), open)
      /\ finished' = Append(finished, node)
  <2>1. k \in 1 .. Depth /\ k \in Nat \ {0}
    BY <1>1
  <2>2. node \in 1 .. Len(nodes)
    BY <1>1, <2>1, OpenNodes
  <2> QED BY <1>1, <2>1, <2>2 DEF Closes, VariablesType, Depth
<1>3. closed.validity \in Validity
  <2>1. closed \in EntryType
    BY <1>1, <1>2, InvalidatedEntries
  <2> QED BY <2>1 DEF EntryType
<1>4. /\ nodes' \in Seq(NodeType) /\ Len(nodes') = Len(nodes)
      /\ \A n \in 1 .. Len(nodes) :
            /\ nodes'[n].path = nodes[n].path /\ nodes'[n].declaration = nodes[n].declaration
            /\ nodes'[n].validity = IF n = node THEN closed.validity ELSE nodes[n].validity
  <2> DEFINE changed == [nodes[node] EXCEPT !.content = content, !.validity = closed.validity]
  <2>1. nodes[node] \in NodeType /\ \A n \in 1 .. Len(nodes) : nodes[n] \in NodeType
    BY <1>2
  <2>2. /\ changed \in NodeType /\ changed.path = nodes[node].path
        /\ changed.declaration = nodes[node].declaration
        /\ changed.validity = closed.validity
    BY <1>3, <2>1 DEF NodeType
  <2>3. nodes' = [n \in 1 .. Len(nodes) |-> IF n = node THEN changed ELSE nodes[n]]
    <3> DEFINE first == [nodes[node] EXCEPT !.content = content]
               between == [nodes EXCEPT ![node] = first]
    <3>1. DOMAIN nodes = 1 .. Len(nodes)
      BY <1>2
    <3>2. nodes' = [between EXCEPT ![node] = [between[node] EXCEPT !.validity = closed.validity]]
      BY <1>2
    <3>3. /\ DOMAIN between = 1 .. Len(nodes) /\ between[node] = first
          /\ \A n \in 1 .. Len(nodes) : n # node => between[n] = nodes[n]
      BY <1>2, <3>1
    <3>4. changed = [first EXCEPT !.validity = closed.validity]
      OBVIOUS
    <3> HIDE DEF first, between, changed
    <3>5. nodes' = [n \in 1 .. Len(nodes) |-> IF n = node THEN changed ELSE between[n]]
      BY <3>2, <3>3, <3>4
    <3> QED BY <3>3, <3>5
  <2> HIDE DEF changed
  <2>4. nodes' \in Seq(NodeType) /\ Len(nodes') = Len(nodes)
    <3>1. \A n \in 1 .. Len(nodes) : nodes'[n] \in NodeType
      BY <2>1, <2>2, <2>3
    <3>2. nodes' \in [1 .. Len(nodes) -> NodeType]
      BY <2>3, <3>1
    <3>3. PICK N \in Nat : N = Len(nodes)
      BY <1>2
    <3>4. nodes' \in [1 .. N -> NodeType]
      BY <3>2, <3>3
    <3>5. nodes' \in Seq(NodeType) /\ Len(nodes') = N
      BY ONLY <3>4, N \in Nat
    <3> QED BY <3>3, <3>5
  <2>5. ASSUME NEW n \in 1 .. Len(nodes)
        PROVE  /\ nodes'[n].path = nodes[n].path
               /\ nodes'[n].declaration = nodes[n].declaration
               /\ nodes'[n].validity = IF n = node THEN closed.validity ELSE nodes[n].validity
    <3>1. CASE n = node
      BY <2>2, <2>3, <3>1
    <3>2. CASE n # node
      BY <2>3, <3>2
    <3> QED BY <3>1, <3>2
  <2> QED BY <2>4, <2>5
<1>5. Grown
  BY <1>2, <1>4 DEF Grown
<1>6. /\ validation_stack' \in Seq(EntryType) /\ Depth' = k - 1
      /\ \A d \in 1 .. k - 1 : Node(d)' = Node(d)
  <2> DEFINE outer == Pop(validation_stack)
  <2>1. /\ outer \in Seq(EntryType) /\ Len(outer) = k - 1
        /\ \A d \in 1 .. k - 1 : outer[d] = validation_stack[d]
    <3>1. validation_stack # <<>>
      BY <1>2
    <3> QED BY <1>2, <3>1, Prefixes
  <2> HIDE DEF outer
  <2>2. /\ InvalidateAt(outer, open) \in Seq(EntryType)
        /\ Len(InvalidateAt(outer, open)) = k - 1
        /\ \A d \in 1 .. k - 1 : InvalidateAt(outer, open)[d].node = outer[d].node
    BY <2>1, InvalidatedEntries
  <2>3. validation_stack' = InvalidateAt(outer, open)
    BY <1>2 DEF outer
  <2> QED BY <2>1, <2>2, <2>3 DEF Depth, Node
<1>7. Closed' = Closed \cup {node} /\ finished' \in Seq(1 .. Len(nodes'))
  <2>1. /\ finished' \in Seq(1 .. Len(nodes)) /\ Len(finished') = Len(finished) + 1
        /\ finished'[Len(finished) + 1] = node
        /\ \A i \in 1 .. Len(finished) : finished'[i] = finished[i]
    BY <1>2, TopOfAppended
  <2>2. Closed' = {finished'[i] : i \in 1 .. Len(finished) + 1}
    BY <2>1 DEF Closed
  <2>3. Closed' = {finished[i] : i \in 1 .. Len(finished)} \cup {node}
    <3>1. Len(finished) \in Nat
      BY <1>2
    <3> QED BY <2>1, <2>2, <3>1
  <2> QED BY <1>4, <2>1, <2>3 DEF Closed
<1>8. \A r \in reports' : r.owner \in 1 .. Len(nodes)
  <2>1. \A d \in depths : Node(d) \in 1 .. Len(nodes)
    <3>1. depths \subseteq 1 .. Depth
      BY DEF Closes
    <3> QED BY <3>1, OpenNodes
  <2>2. \A r \in new : r.owner \in 1 .. Len(nodes)
    BY <2>1 DEF Closes, About
  <2> QED BY <1>2, <2>2 DEF VariablesType
<1>9. VariablesType'
  <2>1. NodeType' = NodeType
    BY <1>2 DEF NodeType
  <2> QED BY <1>2, <1>4, <1>6, <1>7, <1>8, <2>1 DEF VariablesType
<1>10. TreeOK'
  <2>1. ASSUME NEW d \in 1 .. Depth' PROVE Node(d)' = Node(d) /\ Node(d) \notin Closed'
    <3>1. d \in 1 .. Depth /\ d # k /\ d \in 1 .. k - 1
      BY <1>1, <1>2, <1>6
    <3>2. Node(d) # node
      BY <1>1, <1>2, <3>1, OpenNodes
    <3> QED BY <1>6, <1>7, <3>1, <3>2 DEF TreeOK
  <2>2. Depth' \in 0 .. Depth
    BY <1>1, <1>2, <1>6
  <2> QED BY <1>4, <1>5, <2>1, <2>2, TreeKept
<1>11. Open' = Pop(Open)
  <2>1. Open \in Seq(OpenName) /\ Len(Open) = k
        /\ \A d \in 1 .. k : Open[d] = nodes[Node(d)].declaration.name
    BY <1>1, OpenTyped
  <2>2. Open' = [d \in 1 .. k - 1 |-> nodes'[Node(d)'].declaration.name]
    BY <1>6 DEF Open
  <2>3. ASSUME NEW d \in 1 .. k - 1
        PROVE  nodes'[Node(d)'].declaration.name = Open[d]
    <3>1. d \in 1 .. Depth /\ d \in 1 .. k
      BY <1>1, <1>2
    <3>2. Node(d) \in 1 .. Len(nodes)
      BY <3>1, OpenNodes
    <3> QED BY <1>4, <1>6, <2>1, <3>1, <3>2
  <2> HIDE DEF Open
  <2>4. Pop(Open) = [d \in 1 .. k - 1 |-> Open[d]]
    <3>1. Open # <<>>
      BY <1>2, <2>1
    <3>2. Pop(Open) \in Seq(OpenName) /\ Len(Pop(Open)) = k - 1
          /\ \A d \in 1 .. k - 1 : Pop(Open)[d] = Open[d]
      BY <2>1, <3>1, Prefixes
    <3>3. Pop(Open) = [d \in 1 .. k - 1 |-> Pop(Open)[d]]
      BY <3>2
    <3> QED BY <3>2, <3>3
  <2> QED BY <2>2, <2>3, <2>4
<1> QED BY <1>1, <1>4, <1>5, <1>6, <1>7, <1>8, <1>9, <1>10, <1>11

LEMMA EndKeepsStructs ==
    ASSUME OwnersInv, NEW content \in Content, EndTag(content)
    PROVE  StructsOK' /\ SkippedInside(Open)'
<1>1. /\ VariablesType /\ TreeOK /\ StructsOK /\ SkippedInside(Open)
  BY DEF OwnersInv
<1>2. Depth \in Nat \ {0} /\ Open' = Pop(Open) /\ Depth' = Depth - 1
  BY <1>1, EndCloses, ClosesTree
<1>3. SkippedInside(Open')
  <2>1. Open \in Seq(OpenName) /\ Len(Open) = Depth /\ Skipped \in OpenName
    BY <1>1, OpenTyped DEF OpenName
  <2>2. Open # <<>>
    BY <1>2, <2>1
  <2> QED BY <1>1, <1>2, <2>1, <2>2, SkippedStaysInside
<1>4. ASSUME NEW cs \in active_constraints, NEW b, b = Ended(cs, content),
             b.selector.active
      PROVE  StructOK(b)'
  <2>1. /\ SameConstraint(b, cs)
        /\ cs.constraint \in Constraint /\ cs.owner_depth \in 1 .. Depth
        /\ cs.owner_depth < Depth
        /\ Tracks(Compiled[cs.constraint].selector, b.selector,
                  Pop(OpenBelow(cs.owner_depth)))
    BY <1>1, <1>4, EndedStructs
  <2>2. PICK o \in 1 .. Depth : o = cs.owner_depth
    BY <2>1
  <2>3. OpenBelow(o)' = Pop(OpenBelow(o)) /\ o \in 1 .. Depth'
    BY <1>1, <1>2, <2>1, <2>2, PoppedBelow
  <2>4. schema' = schema
    BY DEF EndTag
  <2>5. Tracks(Compiled[cs.constraint].selector, b.selector, OpenBelow(o)')
    BY <2>1, <2>2, <2>3
  <2> QED BY <2>1, <2>2, <2>3, <2>4, <2>5
      DEF StructOK, SameConstraint, Compiled, Constraint
<1>5. \A b \in active_constraints' :
         \E cs \in active_constraints : b = Ended(cs, content) /\ b.selector.active
  BY DEF EndTag
<1>6. StructsOK'
  BY <1>4, <1>5 DEF StructsOK
<1> QED BY <1>3, <1>6

LEMMA EndKeepsOwners ==
    ASSUME OwnersInv, NEW content \in Content, EndTag(content)
    PROVE  OpenOwnersInvalid' /\ OwnersInvalid'
<1>1. /\ VariablesType /\ TreeOK /\ StructsOK /\ OpenOwnersInvalid /\ OwnersInvalid
  BY DEF OwnersInv
<1>2. PICK owners, depths, new : Closes(content, owners, depths, new)
  BY <1>1, EndCloses
<1>3. PICK k, node, closed, open :
         /\ k = Depth /\ node = Node(k)
         /\ closed = InvalidateAt(validation_stack, depths)[k]
         /\ open = owners \cup (IF closed.validity = "invalid" THEN {k - 1} ELSE {})
  OBVIOUS
<1>4. /\ k \in Nat \ {0} /\ k \in 1 .. Depth
      /\ depths \in SUBSET (1 .. Depth) /\ About(new, depths)
      /\ \A d \in 1 .. k - 1 : d \in owners <=> d \in depths
      /\ validation_stack' = InvalidateAt(Pop(validation_stack), open)
      /\ reports' = reports \cup new
  BY <1>1, <1>2, <1>3, EndCloses DEF Closes
<1>5. /\ Grown /\ Depth' = k - 1
      /\ \A d \in 1 .. k - 1 : Node(d)' = Node(d)
      /\ \A n \in 1 .. Len(nodes) : nodes'[n].validity =
            IF n = node THEN closed.validity ELSE nodes[n].validity
      /\ Closed' = Closed \cup {node}
      /\ \A r \in reports' : r.owner \in 1 .. Len(nodes)
  BY <1>1, <1>2, <1>3, <1>4, ClosesTree
<1>6. ASSUME NEW d \in 1 .. k
      PROVE  LET entry == InvalidateAt(validation_stack, depths)[d] IN
             /\ entry.validity = "notKnown" <=> ~ nodes[Node(d)].declaration.assessed
             /\ entry.validity = "invalid" <=> \E r \in reports' : Known(d, r)
  BY <1>1, <1>3, <1>4, ReportsInvalidate
<1>7. closed.validity = "invalid" <=> \E r \in reports' : BlamedOpen(k, r)
  <2>1. \A r : Known(k, r) <=> BlamedOpen(k, r)
    BY <1>3, <1>4 DEF Known
  <2>2. k \in 1 .. k
    BY <1>4
  <2> QED BY <1>3, <1>6, <2>1, <2>2
<1>8. ASSUME NEW d \in 1 .. k - 1, NEW r \in reports'
      PROVE  /\ d < k - 1 => (Known(d, r)' <=> Known(d, r))
             /\ d = k - 1 =>
                   (Known(d, r)' <=>
                       \/ Known(d, r)
                       \/ nodes[Node(d)].declaration.assessed /\ BlamedOpen(k, r))
  <2>1. d \in 1 .. Depth /\ r.owner \in 1 .. Len(nodes)
    BY <1>3, <1>4, <1>5
  <2>2. BlamedOpen(d, r)' <=> BlamedOpen(d, r)
    BY <1>1, <1>5, <2>1, OpenGrown
  <2>3. CASE d < k - 1
    <3>1. d + 1 \in 1 .. Depth /\ d + 1 \in 1 .. k - 1
      BY <1>3, <1>4, <2>3
    <3>2. ReachesOpen(d + 1, r)' <=> ReachesOpen(d + 1, r)
      BY <1>1, <1>5, <2>1, <3>1, OpenGrown
    <3>3. d < Depth /\ d < Depth' /\ d # k - 1
      BY <1>3, <1>4, <1>5, <2>3
    <3> QED BY <2>2, <3>2, <3>3 DEF Known
  <2>4. CASE d = k - 1
    <3>1. ~ (d < Depth') /\ d < Depth /\ d + 1 = k /\ k \in 2 .. Depth
      BY <1>3, <1>4, <1>5, <2>4
    <3>2. Known(d, r)' <=> BlamedOpen(d, r)
      BY <2>2, <3>1 DEF Known
    <3>3. Known(d, r) <=> BlamedOpen(d, r) /\ ~ ReachesOpen(k, r)
      BY <3>1 DEF Known
    <3>4. ReachesOpen(k, r) =>
             (BlamedOpen(d, r) <=> nodes[Node(d)].declaration.assessed /\ BlamedOpen(k, r))
      <4> SUFFICES ASSUME Below(Node(k), r.owner)
                   PROVE  Blamed(Node(k - 1), r) <=>
                             nodes[Node(k - 1)].declaration.assessed /\ Blamed(Node(k), r)
        BY <2>4 DEF ReachesOpen, BlamedOpen
      <4> QED BY <1>1, <2>1, <3>1, BlamedParent
    <3>5. BlamedOpen(k, r) => ReachesOpen(k, r)
      BY DEF BlamedOpen, Blamed, ReachesOpen
    <3> QED BY <2>4, <3>2, <3>3, <3>4, <3>5
  <2> QED BY <1>4, <2>3, <2>4
<1>9. ASSUME NEW d \in 1 .. Depth'
      PROVE  /\ validation_stack'[d].validity = "notKnown"
                   <=> ~ nodes'[Node(d)'].declaration.assessed
             /\ validation_stack'[d].validity = "invalid"
                   <=> \E r \in reports' : Known(d, r)'
  <2> DEFINE entry == InvalidateAt(validation_stack, depths)[d]
             outer == Pop(validation_stack)
  <2>1. d \in 1 .. k - 1 /\ d \in 1 .. k /\ d \in 1 .. Len(validation_stack)
        /\ validation_stack \in Seq(EntryType) /\ Len(validation_stack) = k
    BY <1>1, <1>3, <1>4, <1>5 DEF VariablesType, Depth
  <2>2. /\ outer \in Seq(EntryType) /\ d \in 1 .. Len(outer)
        /\ outer[d] = validation_stack[d]
    <3>1. validation_stack # <<>>
      BY <1>4, <2>1
    <3> QED BY <2>1, <3>1, Prefixes
  <2> HIDE DEF entry, outer
  <2>3. /\ entry.validity = "notKnown" <=> validation_stack[d].validity = "notKnown"
        /\ entry.validity = "invalid" <=>
              \/ validation_stack[d].validity = "invalid"
              \/ d \in depths /\ validation_stack[d].validity = "valid"
    BY <2>1, InvalidatedEntries DEF entry
  <2>4. /\ validation_stack'[d].validity = "notKnown"
              <=> validation_stack[d].validity = "notKnown"
        /\ validation_stack'[d].validity = "invalid" <=>
              \/ validation_stack[d].validity = "invalid"
              \/ d \in open /\ validation_stack[d].validity = "valid"
    BY <1>4, <2>2, InvalidatedEntries DEF outer
  <2>5. validation_stack[d].validity \in {"valid", "invalid", "notKnown"}
    <3>1. validation_stack[d] \in EntryType
      BY <2>1
    <3> QED BY <3>1 DEF EntryType, Validity
  <2>6. d \in open <=> d \in depths \/ (d = k - 1 /\ closed.validity = "invalid")
    BY <1>3, <1>4, <2>1
  <2>7. /\ entry.validity = "notKnown" <=> ~ nodes[Node(d)].declaration.assessed
        /\ entry.validity = "invalid" <=> \E r \in reports' : Known(d, r)
    BY <1>6, <2>1 DEF entry
  <2>8. nodes'[Node(d)'].declaration = nodes[Node(d)].declaration
    <3>1. Node(d) \in 1 .. Len(nodes)
      BY <1>1, <1>3, <2>1, OpenNodes
    <3> QED BY <1>5, <2>1, <3>1 DEF Grown
  <2>9. validation_stack'[d].validity = "invalid" <=> \E r \in reports' : Known(d, r)'
    <3>1. CASE d = k - 1
      <4>1. validation_stack'[d].validity = "invalid" <=>
               \/ entry.validity = "invalid"
               \/ /\ closed.validity = "invalid"
                  /\ nodes[Node(d)].declaration.assessed
        BY <2>3, <2>4, <2>5, <2>6, <2>7, <3>1
      <4>2. (\E r \in reports' : Known(d, r)') <=>
               \/ \E r \in reports' : Known(d, r)
               \/ /\ nodes[Node(d)].declaration.assessed
                  /\ \E r \in reports' : BlamedOpen(k, r)
        BY <1>8, <2>1, <3>1
      <4> QED BY <1>7, <2>7, <4>1, <4>2
    <3>2. CASE d # k - 1
      <4>1. d < k - 1
        BY <1>4, <2>1, <3>2
      <4>2. \A r \in reports' : Known(d, r)' <=> Known(d, r)
        BY <1>8, <2>1, <4>1
      <4>3. validation_stack'[d].validity = "invalid" <=> entry.validity = "invalid"
        BY <2>3, <2>4, <2>6, <3>2
      <4> QED BY <2>7, <4>2, <4>3
    <3> QED BY <3>1, <3>2
  <2> QED BY <2>3, <2>4, <2>7, <2>8, <2>9
<1>10. ASSUME NEW e \in Closed'
       PROVE  nodes'[e].validity = "invalid" <=> \E r \in reports' : Blamed(e, r)'
  <2>1. e \in Closed \/ e = node
    BY <1>5
  <2>2. CASE e \in Closed
    <3>1. e \in 1 .. Len(nodes) /\ e # node
      BY <1>1, <1>3, <1>4, <2>2, ClosedHasNoOpenBelow
    <3>2. nodes'[e].validity = "invalid" <=> \E r \in reports : Blamed(e, r)
      BY <1>1, <1>5, <2>2, <3>1 DEF OwnersInvalid, Blamed
    <3>3. \A r \in reports' : Blamed(e, r)' <=> Blamed(e, r)
      BY <1>1, <1>5, <3>1, BlamedGrown
    <3>4. \A r \in new : ~ Blamed(e, r)
      <4>1. \A d \in depths : ~ Below(e, Node(d))
        BY <1>1, <1>4, <2>2, ClosedHasNoOpenBelow
      <4> QED BY <1>4, <4>1 DEF About, Blamed
    <3> QED BY <1>4, <3>2, <3>3, <3>4
  <2>3. CASE e = node
    <3>1. e \in 1 .. Len(nodes)
      BY <1>1, <1>3, <1>4, <2>3, OpenNodes
    <3>2. \A r \in reports' : Blamed(e, r)' <=> Blamed(e, r)
      BY <1>1, <1>5, <3>1, BlamedGrown
    <3>3. \A r \in reports' : Blamed(e, r) <=> BlamedOpen(k, r)
      BY <1>3, <2>3 DEF BlamedOpen
    <3> QED BY <1>5, <1>7, <2>3, <3>1, <3>2, <3>3
  <2> QED BY <2>1, <2>2, <2>3
<1>11. OpenOwnersInvalid'
  BY <1>9 DEF OpenOwnersInvalid
<1>12. OwnersInvalid'
  BY <1>10 DEF OwnersInvalid, Blamed
<1> QED BY <1>11, <1>12

-----------------------------------------------------------------------------
(* The inductive invariant, over all the steps.                            *)

LEMMA InitOwners ==
    Init => OwnersInv
<1> SUFFICES ASSUME Init PROVE OwnersInv
  OBVIOUS
<1>1. /\ schema \in Schema /\ nodes = <<>> /\ finished = <<>>
      /\ validation_stack = <<>> /\ active_constraints = {} /\ reports = {}
      /\ in_attributes = FALSE
  BY DEF Init
<1>2. Depth = 0 /\ Len(nodes) = 0 /\ Len(finished) = 0
  BY <1>1 DEF Depth
<1>3. VariablesType
  BY <1>1 DEF VariablesType
<1>4. Closed = {}
  BY <1>2 DEF Closed
<1>5. TreeOK
  BY <1>2 DEF TreeOK
<1>6. SkippedInside(Open)
  <2>1. Len(Open) = 0
    BY <1>2 DEF Open
  <2> QED BY <2>1 DEF SkippedInside
<1> QED BY <1>1, <1>2, <1>3, <1>4, <1>5, <1>6
    DEF OwnersInv, StructsOK, OpenOwnersInvalid, OwnersInvalid

LEMMA StutterOwners ==
    OwnersInv /\ UNCHANGED vars => OwnersInv'
<1> SUFFICES ASSUME OwnersInv, UNCHANGED vars PROVE OwnersInv'
  OBVIOUS
<1>1. /\ schema' = schema /\ nodes' = nodes /\ finished' = finished
      /\ validation_stack' = validation_stack /\ reports' = reports
      /\ active_constraints' = active_constraints /\ in_attributes' = in_attributes
  BY DEF vars
<1>2. VariablesType'
  BY <1>1 DEF OwnersInv, VariablesType, NodeType
<1>3. TreeOK'
  <2>1. \A n : IsTrail(n)' <=> IsTrail(n)
    BY <1>1 DEF IsTrail
  <2>2. Depth' = Depth /\ Closed' = Closed /\ \A d : Node(d)' = Node(d)
    BY <1>1 DEF Depth, Closed, Node
  <2> QED BY <1>1, <2>1, <2>2 DEF OwnersInv, TreeOK
<1>4. Depth' = Depth /\ Open' = Open
  BY <1>1 DEF Depth, Open, Node
<1>5. \A cs : StructOK(cs)' <=> StructOK(cs)
  BY <1>1, <1>4 DEF StructOK, Constraint, Compiled, OpenBelow
<1>6. StructsOK'
  BY <1>1, <1>5 DEF OwnersInv, StructsOK
<1>7. \A d, r : Known(d, r)' <=> Known(d, r)
  BY <1>1 DEF Known, BlamedOpen, ReachesOpen, Blamed, Below, Node, Depth
<1>8. OpenOwnersInvalid'
  BY <1>1, <1>4, <1>7 DEF OwnersInv, OpenOwnersInvalid, Node
<1>9. OwnersInvalid'
  BY <1>1 DEF OwnersInv, OwnersInvalid, Closed, Below
<1> QED BY <1>1, <1>2, <1>3, <1>4, <1>6, <1>8, <1>9 DEF OwnersInv

LEMMA StepOwners ==
    OwnersInv /\ Next => OwnersInv'
<1> SUFFICES ASSUME OwnersInv, Next PROVE OwnersInv'
  OBVIOUS
<1>1. /\ VariablesType /\ TreeOK /\ SkippedInside(Open) /\ StructsOK
      /\ OpenOwnersInvalid /\ OwnersInvalid
      /\ in_attributes => Depth > 0
  BY DEF OwnersInv
<1>2. ASSUME NEW d \in Declared, Push(d), StructsOK' /\ SkippedInside(Open)'
      PROVE  OwnersInv'
  <2>1. VariablesType' /\ TreeOK' /\ Depth' = Depth + 1 /\ Depth \in Nat
    BY <1>1, <1>2, PushKeepsTree, OpenTyped
  <2>2. OpenOwnersInvalid' /\ OwnersInvalid'
    BY <1>1, <1>2, PushKeepsOwners
  <2> QED BY <1>2, <2>1, <2>2 DEF OwnersInv
<1>3. ASSUME NEW d \in schema.declarations, StartElement(d) PROVE OwnersInv'
  <2>1. d \in Declared /\ Push(d)
    BY <1>3 DEF StartElement, Declared
  <2>2. StructsOK' /\ SkippedInside(Open)'
    BY <1>1, <1>3, StartKeepsStructs
  <2> QED BY <1>2, <2>1, <2>2
<1>4. ASSUME StartSkipped PROVE OwnersInv'
  <2>1. SkippedElement \in Declared /\ Push(SkippedElement)
    BY <1>4 DEF StartSkipped, Declared
  <2>2. StructsOK' /\ SkippedInside(Open)'
    BY <1>1, <1>4, StartSkippedKeepsStructs
  <2> QED BY <1>2, <2>1, <2>2
<1>5. ASSUME NEW name, NEW value \in AttributeValue \cup {Unassessed}, Attribute(name, value)
      PROVE  OwnersInv'
  <2>1. VariablesType' /\ TreeOK' /\ Depth' = Depth /\ Depth > 0
    BY <1>1, <1>5, AttributeKeepsTree
  <2>2. OpenOwnersInvalid' /\ OwnersInvalid'
    BY <1>5, AttributeKeepsOwners
  <2>3. StructsOK' /\ Open' = Open
    BY <1>5, AttributeKeepsStructs
  <2> QED BY <1>1, <2>1, <2>2, <2>3 DEF OwnersInv
<1>6. ASSUME NEW content \in Content, EndTag(content) PROVE OwnersInv'
  <2>1. PICK owners, depths, new : Closes(content, owners, depths, new)
    BY <1>1, <1>6, EndCloses
  <2>2. VariablesType' /\ TreeOK'
    BY <1>1, <1>6, <2>1, EndCloses, ClosesTree
  <2>3. OpenOwnersInvalid' /\ OwnersInvalid'
    BY <1>6, EndKeepsOwners
  <2>4. StructsOK' /\ SkippedInside(Open)'
    BY <1>6, EndKeepsStructs
  <2>5. in_attributes' = FALSE
    BY <1>6 DEF EndTag
  <2> QED BY <2>2, <2>3, <2>4, <2>5 DEF OwnersInv
<1> QED BY <1>3, <1>4, <1>5, <1>6 DEF Next

(* However deep the violations are noticed and however many open elements  *)
(* own them: the elements marked invalid when they close are exactly those *)
(* that a report is to the blame of (invalidate_open_ic_owner and          *)
(* finalize_element of runtime.rs).                                        *)
THEOREM OwnersAreInvalid ==
    Spec => []OwnersInvalid
<1>1. Init => OwnersInv
  BY InitOwners
<1>2. OwnersInv /\ [Next]_vars => OwnersInv'
  BY StepOwners, StutterOwners
<1>3. OwnersInv => OwnersInvalid
  BY DEF OwnersInv
<1> QED BY <1>1, <1>2, <1>3, PTL DEF Spec

-----------------------------------------------------------------------------
(* The frames of a constraint (FramesOK): those of its open targets.       *)

(* The fields are any expressions, the selectors are regular.              *)
RegularSelectors ==
    \A s \in Schema : \A c \in DOMAIN s.compiled : OfRegularPaths(s.compiled[c].selector)

-----------------------------------------------------------------------------
(* What the calls do to a frame.                                           *)

LEMMA NewFrameFollows ==
    ASSUME NEW E, NEW open \in Seq(E), NEW c,
           \A f \in Field : OfPaths(Compiled[c].fields[f])
    PROVE  Follows(Compiled[c], NewFrame(c), open, Len(open))
<1> DEFINE fields == [f \in Field |-> Activate(Compiled[c].fields[f])]
           values == [f \in Field |-> Absent]
           matched == [f \in Field |-> FALSE]
<1>1. SubSeq(open, Len(open) + 1, Len(open)) = <<>>
  OBVIOUS
<1>2. \A f \in Field : Tracks(Compiled[c].fields[f], fields[f], <<>>)
  BY ActivateTracks
<1>3. values \in KeySequence /\ matched \in [Field -> BOOLEAN]
  BY DEF KeySequence
<1>4. fields = [f \in Field |-> fields[f]]
  OBVIOUS
<1>5. NewFrame(c) = [fields |-> fields, values |-> values, matched |-> matched]
  BY DEF NewFrame
<1> HIDE DEF fields, values, matched
<1>6. PICK comp, d : comp = Compiled[c] /\ d = Len(open)
  OBVIOUS
<1>7. \A f \in Field : Tracks(comp.fields[f], fields[f], SubSeq(open, d + 1, Len(open)))
  BY <1>1, <1>2, <1>6
<1>8. Follows(comp, [fields |-> fields, values |-> values, matched |-> matched], open, d)
  BY <1>3, <1>4, <1>7, FrameFollows
<1> QED BY <1>5, <1>6, <1>8

(* The content of an element gives a value or none.                        *)
LEMMA FieldValueTyped ==
    ASSUME NEW content \in Content
    PROVE  FieldValue(content) \in KeyFieldValue \cup {Absent}
BY DocumentAssumption DEF FieldValue, Content

LEMMA FrameEnds ==
    ASSUME NEW E, NEW open \in Seq(E), NEW d \in 0 .. Len(open), NEW c, NEW frame,
           \A f \in Field : OfPaths(Compiled[c].fields[f]),
           Follows(Compiled[c], frame, open, d), NEW content \in Content
    PROVE  /\ EndedFrame(c, frame, content) \in FrameType(Compiled[c])
           /\ d < Len(open) => Follows(Compiled[c], EndedFrame(c, frame, content), Pop(open), d)
<1>0. PICK comp, b, below, taking :
         /\ comp = Compiled[c] /\ b = EndedFrame(c, frame, content)
         /\ below = SubSeq(open, d + 1, Len(open))
         /\ taking = {f \in Field : TakesContent(c, frame, f)}
  OBVIOUS
<1>1. PICK fields, values, matched :
         /\ fields = [f \in Field |-> EndElement(comp.fields[f], frame.fields[f])]
         /\ values = [f \in Field |-> IF f \in taking THEN FieldValue(content)
                                                      ELSE frame.values[f]]
         /\ matched = [f \in Field |-> f \in taking \/ frame.matched[f]]
  OBVIOUS
<1>2. b = [fields |-> fields, values |-> values, matched |-> matched]
  BY <1>0, <1>1 DEF EndedFrame
<1>3. /\ frame.values \in KeySequence /\ frame.matched \in [Field -> BOOLEAN]
      /\ \A f \in Field : Tracks(comp.fields[f], frame.fields[f], below)
      /\ \A f \in Field : OfPaths(comp.fields[f])
  BY <1>0 DEF Follows, FrameType
<1>4. values \in KeySequence
  BY <1>1, <1>3, FieldValueTyped DEF KeySequence
<1>5. matched \in [Field -> BOOLEAN]
  <2>1. \A f \in Field : (f \in taking \/ frame.matched[f]) \in BOOLEAN
    OBVIOUS
  <2> QED BY <1>1, <2>1
<1>6. below \in Seq(E) /\ Len(below) = Len(open) - d
  BY <1>0
<1>7. ASSUME NEW f \in Field
      PROVE  /\ fields[f] \in AxisType(comp.fields[f])
             /\ below # <<>> => Tracks(comp.fields[f], fields[f], Pop(below))
  <2>1. PICK expression, a : expression = comp.fields[f] /\ a = frame.fields[f]
    OBVIOUS
  <2>2. OfPaths(expression) /\ Tracks(expression, a, below)
    BY <1>3, <2>1
  <2>3. /\ EndElement(expression, a) \in AxisType(expression)
        /\ below # <<>> => Tracks(expression, EndElement(expression, a), Pop(below))
    BY <1>6, <2>2, EndTracks
  <2>4. fields[f] = EndElement(expression, a)
    BY <1>1, <2>1
  <2> QED BY <2>1, <2>3, <2>4
<1>8. fields = [f \in Field |-> fields[f]]
  BY <1>1
<1>9. b \in FrameType(comp)
  <2>1. \A f \in Field : fields[f] \in FieldAxes(comp)
    BY <1>7 DEF FieldAxes
  <2>2. fields \in [Field -> FieldAxes(comp)]
    BY <1>8, <2>1
  <2> QED BY <1>2, <1>4, <1>5, <2>2 DEF FrameType
<1>10. ASSUME d < Len(open) PROVE Follows(comp, b, Pop(open), d)
  <2>1. PICK outer : outer = Pop(open)
    OBVIOUS
  <2>2. below # <<>> /\ open # <<>> /\ Len(outer) = Len(open) - 1
    BY <1>6, <1>10, <2>1, Prefixes
  <2>3. SubSeq(outer, d + 1, Len(outer)) = Pop(below)
    BY <1>0, <1>10, <2>1, <2>2, SuffixShrinks
  <2>4. \A f \in Field : Tracks(comp.fields[f], fields[f], SubSeq(outer, d + 1, Len(outer)))
    BY <1>7, <2>2, <2>3
  <2>5. Follows(comp, b, outer, d)
    BY <1>2, <1>4, <1>5, <1>8, <2>4, FrameFollows
  <2> QED BY <2>1, <2>5
<1> QED BY <1>0, <1>9, <1>10

-----------------------------------------------------------------------------
(* What the calls of a ConstraintStruct do to its frames and its table.    *)

StartedFrames(cs, name) ==
    [i \in 1 .. Len(cs.collection_stack) |->
        [cs.collection_stack[i] EXCEPT !.fields =
            [f \in Field |->
                MoveToStartElement(Compiled[cs.constraint].fields[f], @[f], name)]]]

SkippedFrames(cs) ==
    [i \in 1 .. Len(cs.collection_stack) |->
        [cs.collection_stack[i] EXCEPT !.fields =
            [f \in Field |->
                MoveToSkippedElement(Compiled[cs.constraint].fields[f], @[f])]]]

EndedFrames(cs, content) ==
    [i \in 1 .. Len(cs.collection_stack) |->
        EndedFrame(cs.constraint, cs.collection_stack[i], content)]

LEMMA FrameSteps ==
    ASSUME NEW cs, IsStruct(cs)
    PROVE  /\ \A name : LET b == Started(cs, name) IN
                 /\ b.key_table = cs.key_table
                 /\ b.collection_stack =
                       IF b.selector.entered_match
                       THEN Append(StartedFrames(cs, name), NewFrame(cs.constraint))
                       ELSE StartedFrames(cs, name)
           /\ StartedSkipped(cs).key_table = cs.key_table
           /\ StartedSkipped(cs).collection_stack = SkippedFrames(cs)
           /\ \A content : LET b == Ended(cs, content)
                               frames == EndedFrames(cs, content)
                               pops == b.selector.exited_match /\ frames # <<>> IN
                 /\ b.key_table = IF pops THEN Append(cs.key_table, Top(frames).values)
                                          ELSE cs.key_table
                 /\ b.collection_stack = IF pops THEN Pop(frames) ELSE frames
<1> DEFINE c == cs.constraint
           o == cs.owner_depth
           s == cs.selector
           frames == cs.collection_stack
           k == cs.key_table
<1>1. cs = [constraint |-> c, owner_depth |-> o, selector |-> s,
            collection_stack |-> frames, key_table |-> k]
  BY DEF IsStruct
<1> HIDE DEF c, o, s, frames, k
<1>3. ASSUME NEW b, NEW t, NEW fr,
             b = [cs EXCEPT !.selector = t, !.collection_stack = fr]
      PROVE  b.selector = t /\ b.collection_stack = fr /\ b.key_table = cs.key_table
  BY <1>1, <1>3
<1>4. ASSUME NEW name
      PROVE  LET b == Started(cs, name) IN
             /\ b.key_table = cs.key_table
             /\ b.collection_stack =
                   IF b.selector.entered_match
                   THEN Append(StartedFrames(cs, name), NewFrame(cs.constraint))
                   ELSE StartedFrames(cs, name)
  <2>1. PICK b, t, fr :
           /\ b = Started(cs, name)
           /\ t = MoveToStartElement(Compiled[cs.constraint].selector, cs.selector, name)
           /\ fr = IF t.entered_match
                   THEN Append(StartedFrames(cs, name), NewFrame(cs.constraint))
                   ELSE StartedFrames(cs, name)
    OBVIOUS
  <2>2. b = [cs EXCEPT !.selector = t, !.collection_stack = fr]
    BY <2>1 DEF Started, StartedFrames, MoveFrames
  <2>3. b.selector = t /\ b.collection_stack = fr /\ b.key_table = cs.key_table
    BY <1>3, <2>2
  <2> QED BY <2>1, <2>3
<1>5. /\ StartedSkipped(cs).key_table = cs.key_table
      /\ StartedSkipped(cs).collection_stack = SkippedFrames(cs)
  <2>1. PICK b, t, fr :
           /\ b = StartedSkipped(cs)
           /\ t = MoveToSkippedElement(Compiled[cs.constraint].selector, cs.selector)
           /\ fr = SkippedFrames(cs)
    OBVIOUS
  <2>2. b = [cs EXCEPT !.selector = t, !.collection_stack = fr]
    BY <1>1, <2>1 DEF StartedSkipped, SkippedFrames, MoveFrames
  <2>3. b.collection_stack = fr /\ b.key_table = cs.key_table
    BY <1>3, <2>2
  <2> QED BY <2>1, <2>3
<1>6. ASSUME NEW content
      PROVE  LET b == Ended(cs, content)
                 all == EndedFrames(cs, content)
                 pops == b.selector.exited_match /\ all # <<>> IN
             /\ b.key_table = IF pops THEN Append(cs.key_table, Top(all).values)
                                      ELSE cs.key_table
             /\ b.collection_stack = IF pops THEN Pop(all) ELSE all
  <2>1. PICK b, t, all :
           /\ b = Ended(cs, content)
           /\ t = EndElement(Compiled[cs.constraint].selector, cs.selector)
           /\ all = EndedFrames(cs, content)
    OBVIOUS
  <2>2. PICK fr, kt :
           /\ fr = IF t.exited_match /\ all # <<>> THEN Pop(all) ELSE all
           /\ kt = IF t.exited_match /\ all # <<>>
                   THEN Append(cs.key_table, Top(all).values) ELSE cs.key_table
    OBVIOUS
  <2>3. b = [cs EXCEPT !.selector = t, !.collection_stack = fr, !.key_table = kt]
    BY <2>1, <2>2 DEF Ended, EndedFrames
  <2>4. b.selector = t /\ b.collection_stack = fr /\ b.key_table = kt
    BY <1>1, <2>3
  <2> QED BY <2>1, <2>2, <2>4
<1> QED BY <1>4, <1>5, <1>6

-----------------------------------------------------------------------------
(* The inductive invariant: the constraints evaluated are those that the   *)
(* open elements carry, and their frames those of the open targets.        *)

Carried(d) == nodes[Node(d)].declaration.constraints

FramesStruct(cs) ==
    /\ cs.constraint \in Carried(cs.owner_depth)
    /\ cs.key_table \in Seq(KeySequence)
    /\ FramesOK(Compiled[cs.constraint], cs.collection_stack, Open, cs.owner_depth)

FramesInv ==
    /\ ic_scope_tables \in Seq(TablesType) /\ Len(ic_scope_tables) = Depth
    /\ \A cs \in active_constraints : FramesStruct(cs)
    /\ \A d \in 1 .. Depth : \A c \in Carried(d) :
          \E cs \in active_constraints : cs.constraint = c /\ cs.owner_depth = d

(* The constraint of a struct, and that its selector is regular.           *)
LEMMA CompiledRegular ==
    ASSUME RegularSelectors, VariablesType, NEW c \in Constraint
    PROVE  OfRegularPaths(Compiled[c].selector)
BY DEF RegularSelectors, VariablesType, Constraint, Compiled

(* A selector selects no owner of attributes.                              *)
LEMMA SelectorSelects ==
    ASSUME VariablesType, NEW c \in Constraint, NEW open
    PROVE  SelectedOrOwner(Compiled[c].selector, open) <=> Selected(Compiled[c].selector, open)
<1>1. PICK selector : selector = Compiled[c].selector
  OBVIOUS
<1>2. \A p \in DOMAIN selector : ~ EndsInAttribute(selector[p])
  BY <1>1, SelectorOfPaths
<1>3. \A p \in DOMAIN selector : ~ SelectsOwner(selector[p], open)
  BY <1>2 DEF SelectsOwner
<1>4. SelectedOrOwner(selector, open) <=> Selected(selector, open)
  BY <1>3 DEF SelectedOrOwner, Selected
<1> QED BY <1>1, <1>4

LEMMA StructStarts ==
    ASSUME RegularSelectors, VariablesType, TreeOK, NEW cs, StructOK(cs), FramesStruct(cs),
           NEW x \in OpenName, NEW b,
           \/ x # Skipped /\ Visible(Open) /\ b = Started(cs, x)
           \/ x = Skipped /\ b = StartedSkipped(cs)
    PROVE  /\ FramesOK(Compiled[cs.constraint], b.collection_stack,
                       Append(Open, x), cs.owner_depth)
           /\ b.key_table \in Seq(KeySequence)
<1>1. PICK c, comp, o, open, frames, moved, entered, new :
         /\ c = cs.constraint /\ comp = Compiled[c] /\ o = cs.owner_depth /\ open = Open
         /\ frames = cs.collection_stack
         /\ moved = IF x # Skipped THEN StartedFrames(cs, x) ELSE SkippedFrames(cs)
         /\ entered = IF x # Skipped THEN b.selector.entered_match ELSE FALSE
         /\ new = NewFrame(c)
  OBVIOUS
<1>2. /\ IsStruct(cs) /\ c \in Constraint /\ o \in 1 .. Depth /\ Depth \in Nat
      /\ open \in Seq(OpenName) /\ Len(open) = Depth /\ o \in 0 .. Len(open)
      /\ Tracks(comp.selector, cs.selector, SubSeq(open, o + 1, Len(open)))
      /\ FramesOK(comp, frames, open, o) /\ cs.key_table \in Seq(KeySequence)
  BY <1>1, OpenTyped DEF StructOK, FramesStruct, OpenBelow
<1>3. /\ OfPaths(comp.selector) /\ OfRegularPaths(comp.selector)
      /\ \A f \in Field : OfPaths(comp.fields[f])
  BY <1>1, <1>2, SelectorOfPaths, CompiledRegular
<1>4. /\ b.key_table = cs.key_table
      /\ b.collection_stack = IF entered THEN Append(moved, new) ELSE moved
      /\ b.selector = IF x # Skipped THEN MoveToStartElement(comp.selector, cs.selector, x)
                                     ELSE MoveToSkippedElement(comp.selector, cs.selector)
  <2>1. CASE x # Skipped
    BY <1>1, <1>2, <2>1, FrameSteps, StructSteps
  <2>2. CASE x = Skipped
    BY <1>1, <1>2, <2>2, FrameSteps, StructSteps
  <2> QED BY <2>1, <2>2
<1>5. /\ moved = [i \in 1 .. Len(frames) |-> moved[i]]
      /\ \A i \in 1 .. Len(frames), d \in 0 .. Len(open) :
            Follows(comp, frames[i], open, d) => Follows(comp, moved[i], Append(open, x), d)
  <2>1. ASSUME NEW i \in 1 .. Len(frames), NEW d \in 0 .. Len(open),
               Follows(comp, frames[i], open, d)
        PROVE  Follows(comp, moved[i], Append(open, x), d)
    <3>1. PICK frame, m : frame = frames[i] /\ m = moved[i]
      OBVIOUS
    <3>2. \/ /\ x # Skipped /\ Visible(open)
             /\ m = [frame EXCEPT !.fields =
                        [f \in Field |-> MoveToStartElement(comp.fields[f], @[f], x)]]
          \/ /\ x = Skipped
             /\ m = [frame EXCEPT !.fields =
                        [f \in Field |-> MoveToSkippedElement(comp.fields[f], @[f])]]
      BY <1>1, <3>1 DEF StartedFrames, SkippedFrames
    <3>3. Follows(comp, frame, open, d) /\ d \in 0 .. Len(open)
      BY <2>1, <3>1
    <3>4. /\ open \in Seq(OpenName) /\ x \in OpenName
          /\ \A f \in Field : OfPaths(comp.fields[f])
      BY <1>2, <1>3
    <3>5. Follows(comp, m, Append(open, x), d)
      BY <3>2, <3>3, <3>4, FrameStarts
    <3> QED BY <3>1, <3>5
  <2>2. moved = [i \in 1 .. Len(frames) |-> moved[i]]
    BY <1>1 DEF StartedFrames, SkippedFrames
  <2> QED BY <2>1, <2>2
<1>6. Follows(comp, new, Append(open, x), Len(open) + 1)
  <2>1. PICK inner : inner = Append(open, x)
    OBVIOUS
  <2>2. inner \in Seq(OpenName) /\ Len(inner) = Len(open) + 1
    BY <1>2, <2>1, TopOfAppended
  <2>3. \A f \in Field : OfPaths(Compiled[c].fields[f])
    BY <1>1, <1>3
  <2>4. Follows(Compiled[c], NewFrame(c), inner, Len(inner))
    BY <2>2, <2>3, NewFrameFollows
  <2> QED BY <1>1, <2>1, <2>2, <2>4
<1>7. entered <=> IsTarget(comp, Append(open, x), o, Len(open) + 1)
  <2>1. PICK below : below = SubSeq(open, o + 1, Len(open))
    OBVIOUS
  <2>2. below \in Seq(OpenName)
    BY <1>2, <2>1
  <2>3. IsTarget(comp, Append(open, x), o, Len(open) + 1)
           <=> Selected(comp.selector, Append(below, x))
    <3>1. SubSeq(Append(open, x), o + 1, Len(open) + 1) = Append(below, x)
      BY <1>2, <2>1, SuffixGrows
    <3> QED BY <3>1 DEF IsTarget
  <2>4. Tracks(comp.selector, cs.selector, below)
    BY <1>2, <2>1
  <2>5. CASE x # Skipped
    <3>1. Visible(below)
      <4>1. Visible(open)
        BY <1>1, <2>5
      <4>2. \A i \in 1 .. Len(below) : o + i \in 1 .. Len(open) /\ below[i] = open[o + i]
        BY <1>2, <2>1
      <4> QED BY <4>1, <4>2 DEF Visible
    <3>2. entered <=> SelectedOrOwner(comp.selector, Append(below, x))
      BY <1>1, <1>3, <1>4, <2>2, <2>4, <2>5, <3>1, StartTracks
    <3>3. SelectedOrOwner(comp.selector, Append(below, x))
             <=> Selected(comp.selector, Append(below, x))
      BY <1>1, <1>2, SelectorSelects
    <3> QED BY <2>3, <3>2, <3>3
  <2>6. CASE x = Skipped
    <3>1. ~ Visible(Append(below, Skipped))
      BY <1>3, <2>2, <2>4, <2>6, StartSkippedTracks
    <3> QED BY <1>1, <2>3, <2>6, <3>1 DEF Selected
  <2> QED BY <2>5, <2>6
<1>8. FramesOK(comp, IF entered THEN Append(moved, new) ELSE moved, Append(open, x), o)
  BY <1>2, <1>5, <1>6, <1>7, FramesPushed
<1> QED BY <1>1, <1>2, <1>4, <1>8

LEMMA StructEnds ==
    ASSUME RegularSelectors, VariablesType, TreeOK, NEW cs, StructOK(cs), FramesStruct(cs),
           NEW content \in Content, NEW b, b = Ended(cs, content)
    PROVE  /\ b.key_table \in Seq(KeySequence)
           /\ cs.owner_depth < Depth =>
                 FramesOK(Compiled[cs.constraint], b.collection_stack,
                          Pop(Open), cs.owner_depth)
<1>1. PICK c, comp, o, open, frames, moved, exited :
         /\ c = cs.constraint /\ comp = Compiled[c] /\ o = cs.owner_depth /\ open = Open
         /\ frames = cs.collection_stack /\ moved = EndedFrames(cs, content)
         /\ exited = b.selector.exited_match
  OBVIOUS
<1>2. /\ IsStruct(cs) /\ c \in Constraint /\ o \in 1 .. Depth /\ Depth \in Nat
      /\ open \in Seq(OpenName) /\ Len(open) = Depth /\ o \in 0 .. Len(open)
      /\ Tracks(comp.selector, cs.selector, SubSeq(open, o + 1, Len(open)))
      /\ FramesOK(comp, frames, open, o) /\ cs.key_table \in Seq(KeySequence)
  BY <1>1, OpenTyped DEF StructOK, FramesStruct, OpenBelow
<1>3. /\ OfPaths(comp.selector) /\ OfRegularPaths(comp.selector)
      /\ \A f \in Field : OfPaths(comp.fields[f])
  BY <1>1, <1>2, SelectorOfPaths, CompiledRegular
<1>4. /\ b.key_table = IF exited /\ moved # <<>> THEN Append(cs.key_table, Top(moved).values)
                                                 ELSE cs.key_table
      /\ b.collection_stack = IF exited /\ moved # <<>> THEN Pop(moved) ELSE moved
      /\ b.selector = EndElement(comp.selector, cs.selector)
  BY <1>1, <1>2, FrameSteps, StructSteps
<1>5. /\ moved = [i \in 1 .. Len(frames) |-> moved[i]]
      /\ \A i \in 1 .. Len(frames), d \in 0 .. Len(open) :
            Follows(comp, frames[i], open, d) =>
               /\ moved[i] \in FrameType(comp)
               /\ d < Len(open) => Follows(comp, moved[i], Pop(open), d)
  <2>1. ASSUME NEW i \in 1 .. Len(frames), NEW d \in 0 .. Len(open),
               Follows(comp, frames[i], open, d)
        PROVE  /\ moved[i] \in FrameType(comp)
               /\ d < Len(open) => Follows(comp, moved[i], Pop(open), d)
    <3>1. PICK frame : frame = frames[i]
      OBVIOUS
    <3>2. moved[i] = EndedFrame(c, frame, content)
      BY <1>1, <3>1 DEF EndedFrames
    <3>3. Follows(Compiled[c], frame, open, d) /\ \A f \in Field : OfPaths(Compiled[c].fields[f])
      BY <1>1, <1>3, <2>1, <3>1
    <3>4. /\ EndedFrame(c, frame, content) \in FrameType(Compiled[c])
          /\ d < Len(open) => Follows(Compiled[c], EndedFrame(c, frame, content), Pop(open), d)
      BY <1>2, <3>3, FrameEnds
    <3> QED BY <1>1, <3>2, <3>4
  <2>2. moved = [i \in 1 .. Len(frames) |-> moved[i]]
    BY <1>1 DEF EndedFrames
  <2> QED BY <2>1, <2>2
<1>6. exited <=> IsTarget(comp, open, o, Len(open))
  <2>1. PICK below : below = SubSeq(open, o + 1, Len(open))
    OBVIOUS
  <2>2. below \in Seq(OpenName) /\ Tracks(comp.selector, cs.selector, below)
    BY <1>2, <2>1
  <2>3. exited <=> Selected(comp.selector, below)
    BY <1>1, <1>3, <1>4, <2>2, EndTracks
  <2> QED BY <2>1, <2>3 DEF IsTarget
<1>7. ASSUME o < Depth PROVE FramesOK(comp, b.collection_stack, Pop(open), o)
  <2>1. o < Len(open)
    BY <1>2, <1>7
  <2>2. FramesOK(comp, IF exited /\ moved # <<>> THEN Pop(moved) ELSE moved, Pop(open), o)
    BY <1>2, <1>5, <1>6, <2>1, FramesPopped
  <2> QED BY <1>4, <2>2
<1>8. b.key_table \in Seq(KeySequence)
  <2>1. CASE ~ (exited /\ moved # <<>>)
    BY <1>2, <1>4, <2>1
  <2>2. CASE exited /\ moved # <<>>
    <3>1. PICK at, m : FramesAt(comp, frames, open, o, at) /\ m = Len(frames)
      BY <1>2 DEF FramesOK
    <3>2. /\ m \in Nat /\ at \in [1 .. m -> o .. Len(open)]
          /\ \A i \in 1 .. m : Follows(comp, frames[i], open, at[i])
      BY <3>1 DEF FramesAt
    <3>3. ASSUME NEW i \in 1 .. m PROVE moved[i] \in FrameType(comp)
      <4>1. at[i] \in 0 .. Len(open)
        BY <1>2, <3>2
      <4> QED BY <1>5, <3>1, <3>2, <4>1
    <3>4. moved \in Seq(FrameType(comp)) /\ Len(moved) = m
      <4>1. moved \in [1 .. m -> FrameType(comp)]
        BY <1>5, <3>1, <3>3
      <4> QED BY <3>2, <4>1
    <3>5. Top(moved) \in FrameType(comp)
      BY <2>2, <3>4 DEF Top
    <3>6. Top(moved).values \in KeySequence
      BY <3>5 DEF FrameType
    <3>7. Append(cs.key_table, Top(moved).values) \in Seq(KeySequence)
      BY <1>2, <3>6, TopOfAppended
    <3> QED BY <1>4, <2>2, <3>7
  <2> QED BY <2>1, <2>2
<1> QED BY <1>1, <1>7, <1>8

(* set_field_value and increment_field_match_count.                        *)
LEMMA StructBinds ==
    ASSUME NEW cs, IsStruct(cs), FramesStruct(cs), NEW name,
           NEW value \in AttributeValue \cup {Unassessed}
    PROVE  LET b == Bound(cs, MatchingFields(cs, name), value) IN
           /\ FramesOK(Compiled[cs.constraint], b.collection_stack, Open, cs.owner_depth)
           /\ b.key_table \in Seq(KeySequence)
<1>1. PICK comp, o, open, frames, n, fs, b :
         /\ comp = Compiled[cs.constraint] /\ o = cs.owner_depth /\ open = Open
         /\ frames = cs.collection_stack /\ n = Len(frames)
         /\ fs = MatchingFields(cs, name) /\ b = Bound(cs, fs, value)
  OBVIOUS
<1>2. FramesOK(comp, frames, open, o) /\ cs.key_table \in Seq(KeySequence)
  BY <1>1 DEF FramesStruct
<1>3. CASE fs = {}
  BY <1>1, <1>2, <1>3 DEF Bound
<1>4. CASE fs # {}
  <2>1. frames \in Seq(FrameType(comp)) /\ frames # <<>>
    <3>1. frames \in Seq(FrameType(comp))
      BY <1>2 DEF FramesOK, FramesAt
    <3> QED BY <1>1, <1>4, <3>1 DEF MatchingFields
  <2>2. n \in 1 .. Len(frames)
    BY <1>1, <2>1
  <2>3. PICK frame, new, bound :
           /\ frame = frames[n] /\ new = BoundFrame(frame, fs, value)
           /\ bound = [frames EXCEPT ![n] = new]
    OBVIOUS
  <2>4. PICK values, matched :
           /\ values = [f \in Field |-> IF f \in fs /\ value # Unassessed THEN value
                                                                     ELSE frame.values[f]]
           /\ matched = [f \in Field |-> f \in fs \/ frame.matched[f]]
    OBVIOUS
  <2>5. b = [cs EXCEPT !.collection_stack = bound]
    BY <1>1, <1>4, <2>3 DEF Bound
  <2>6. b.collection_stack = bound /\ b.key_table = cs.key_table
    BY <1>1, <2>5 DEF IsStruct
  <2>7. frame \in FrameType(comp)
    BY <2>1, <2>2, <2>3
  <2>8. values \in KeySequence /\ matched \in [Field -> BOOLEAN]
    <3>1. \A f \in Field : frame.values[f] \in KeyFieldValue \cup {Absent}
      BY <2>7 DEF FrameType, KeySequence
    <3>2. value # Unassessed => value \in KeyFieldValue
      BY DocumentAssumption
    <3>3. values \in KeySequence
      BY <2>4, <3>1, <3>2 DEF KeySequence
    <3>4. matched \in [Field -> BOOLEAN]
      <4>1. \A f \in Field : (f \in fs \/ frame.matched[f]) \in BOOLEAN
        OBVIOUS
      <4> QED BY <2>4, <4>1
    <3> QED BY <3>3, <3>4
  <2>9. new \in FrameType(comp) /\ new.fields = frame.fields
    <3>1. new = [frame EXCEPT !.values = values, !.matched = matched]
      BY <2>3, <2>4 DEF BoundFrame
    <3> QED BY <2>7, <2>8, <3>1 DEF FrameType
  <2>10. /\ bound = [i \in 1 .. Len(frames) |-> bound[i]]
         /\ \A i \in 1 .. Len(frames) : frames[i] \in FrameType(comp) =>
               bound[i] \in FrameType(comp) /\ bound[i].fields = frames[i].fields
    <3>1. bound = [i \in 1 .. Len(frames) |-> bound[i]]
      <4>1. frames = [i \in 1 .. Len(frames) |-> frames[i]]
        BY <2>1
      <4>2. DOMAIN bound = 1 .. Len(frames)
        BY <2>3, <4>1
      <4> QED BY <2>3, <4>1, <4>2
    <3>2. \A i \in 1 .. Len(frames) : bound[i] = IF i = n THEN new ELSE frames[i]
      BY <2>1, <2>2, <2>3
    <3> QED BY <2>3, <2>9, <3>1, <3>2
  <2>11. FramesOK(comp, bound, open, o)
    BY <1>2, <2>10, FramesKept
  <2> QED BY <1>1, <1>2, <2>6, <2>11
<1> QED BY <1>3, <1>4

(* new and activate: a selector of `.' selects the scope element itself.   *)
LEMMA NewStructFrames ==
    ASSUME RegularSelectors, VariablesType, NEW c \in Constraint,
           NEW E, NEW open \in Seq(E), NEW o, o = Len(open), NEW b, b = NewConstraint(c, o)
    PROVE  /\ FramesOK(Compiled[c], b.collection_stack, open, o)
           /\ b.key_table \in Seq(KeySequence)
<1>1. PICK comp, selector, new, match :
         /\ comp = Compiled[c] /\ selector = comp.selector /\ new = NewFrame(c)
         /\ match = Activate(selector).scope_match
  OBVIOUS
<1>2. /\ OfPaths(selector) /\ OfRegularPaths(selector)
      /\ \A f \in Field : OfPaths(Compiled[c].fields[f])
  BY <1>1, SelectorOfPaths, CompiledRegular
<1>3. b.collection_stack = IF match THEN <<new>> ELSE <<>>
  BY <1>1 DEF NewConstraint
<1>4. IsTarget(comp, open, o, o) <=> match
  <2>1. SubSeq(open, o + 1, o) = <<>>
    OBVIOUS
  <2>2. match <=> \E p \in DOMAIN selector : FirstReal(selector[p]) > Len(selector[p].steps)
    BY <1>1 DEF Activate
  <2>3. \A p \in DOMAIN selector : FirstReal(selector[p]) > Len(selector[p].steps)
                                     <=> SelectsElement(selector[p], <<>>)
    BY <1>2, ScopeDescribes DEF OfPaths, OfRegularPaths
  <2>4. Visible(<<>>)
    BY DEF Visible
  <2> QED BY <1>1, <2>1, <2>2, <2>3, <2>4 DEF IsTarget, Selected
<1>5. new \in FrameType(comp) /\ Follows(comp, new, open, o)
  <2>1. Follows(Compiled[c], NewFrame(c), open, Len(open))
    BY <1>2, NewFrameFollows
  <2> QED BY <1>1, <2>1 DEF Follows
<1>6. CASE match
  <2>1. PICK frames, at : frames = <<new>> /\ at = [i \in 1 .. 1 |-> o]
    OBVIOUS
  <2>2. frames \in Seq(FrameType(comp)) /\ Len(frames) = 1 /\ frames[1] = new
    BY <1>5, <2>1
  <2>3. at \in [1 .. 1 -> o .. Len(open)] /\ at[1] = o
    BY <2>1
  <2>4. \A d \in o .. Len(open) : d = o
    OBVIOUS
  <2>5. \A d \in o .. Len(open) :
           IsTarget(comp, open, o, d) <=> \E i \in 1 .. Len(frames) : at[i] = d
    BY <1>4, <1>6, <2>2, <2>3, <2>4
  <2>6. \A i \in 1 .. Len(frames) : i = 1
    BY <2>2
  <2>7. FramesAt(comp, frames, open, o, at)
    BY <1>5, <2>2, <2>3, <2>5, <2>6 DEF FramesAt
  <2> QED BY <1>1, <1>3, <1>6, <2>1, <2>7 DEF FramesOK, NewConstraint
<1>7. CASE ~ match
  <2>1. PICK frames, at : frames = <<>> /\ at = [i \in 1 .. 0 |-> o]
    OBVIOUS
  <2>2. frames \in Seq(FrameType(comp)) /\ Len(frames) = 0
    BY <2>1
  <2>3. at \in [1 .. 0 -> o .. Len(open)] /\ 1 .. 0 = {}
    BY <2>1
  <2>4. \A d \in o .. Len(open) : ~ IsTarget(comp, open, o, d)
    <3>1. \A d \in o .. Len(open) : d = o
      OBVIOUS
    <3> QED BY <1>4, <1>7, <3>1
  <2>5. FramesAt(comp, frames, open, o, at)
    BY <2>2, <2>3, <2>4 DEF FramesAt
  <2> QED BY <1>1, <1>3, <1>7, <2>1, <2>5 DEF FramesOK, NewConstraint
<1> QED BY <1>6, <1>7

-----------------------------------------------------------------------------
(* The steps keep it.                                                      *)

PushedStructs(d) ==
    \/ /\ d.name # Skipped /\ Visible(Open)
       /\ active_constraints' =
             {Started(cs, d.name) : cs \in active_constraints}
                 \cup {NewConstraint(c, Depth + 1) : c \in d.constraints}
    \/ /\ d.name = Skipped
       /\ active_constraints' = {StartedSkipped(cs) : cs \in active_constraints}

LEMMA PushKeepsFrames ==
    ASSUME RegularSelectors, OwnersInv, FramesInv,
           NEW d \in Declared, Push(d), PushedStructs(d)
    PROVE  FramesInv'
<1>1. /\ VariablesType /\ TreeOK /\ StructsOK
  BY DEF OwnersInv
<1>2. /\ VariablesType' /\ TreeOK' /\ Depth' = Depth + 1 /\ Depth \in Nat
      /\ \A k \in 1 .. Depth : validation_stack'[k] = validation_stack[k]
      /\ validation_stack'[Depth + 1] = PushedEntry(d)
      /\ \A n \in 1 .. Len(nodes) : nodes'[n] = nodes[n]
      /\ nodes'[Len(nodes) + 1] = PushedNode(d)
  BY <1>1, PushKeepsTree, OpenTyped
<1>3. /\ Open' = Append(Open, d.name) /\ d.name \in OpenName
      /\ Open \in Seq(OpenName) /\ Len(Open) = Depth
  BY <1>1, PushedOpen, OpenTyped
<1>4. Compiled' = Compiled /\ Constraint' = Constraint
  BY DEF Push, Compiled, Constraint
<1>5. \A k \in 1 .. Depth : Carried(k)' = Carried(k)
  <2> SUFFICES ASSUME NEW k \in 1 .. Depth PROVE Carried(k)' = Carried(k)
    OBVIOUS
  <2>1. Node(k) \in 1 .. Len(nodes) /\ Node(k)' = Node(k)
    BY <1>1, <1>2, OpenNodes DEF Node
  <2> QED BY <1>2, <2>1 DEF Carried
<1>6. ASSUME NEW k, k = Depth + 1 PROVE Carried(k)' = d.constraints
  <2>1. Carried(k)' = nodes'[validation_stack'[k].node].declaration.constraints
    BY DEF Carried, Node
  <2> QED BY <1>2, <1>6, <2>1 DEF PushedEntry, PushedNode
<1>7. (ic_scope_tables \in Seq(TablesType) /\ Len(ic_scope_tables) = Depth)'
  <2>1. NoTables \in TablesType
    <3>1. NoTables \in [{} -> Seq(KeySequence)]
      BY DEF NoTables
    <3> QED BY <3>1 DEF TablesType
  <2>2. ic_scope_tables' = Append(ic_scope_tables, NoTables) /\ TablesType' = TablesType
    BY <1>4 DEF Push, TablesType
  <2>3. ic_scope_tables \in Seq(TablesType) /\ Len(ic_scope_tables) = Depth
    BY DEF FramesInv
  <2> QED BY <1>2, <2>1, <2>2, <2>3, TopOfAppended
<1>8. ASSUME NEW cs \in active_constraints, NEW b,
             \/ d.name # Skipped /\ Visible(Open) /\ b = Started(cs, d.name)
             \/ d.name = Skipped /\ b = StartedSkipped(cs)
      PROVE  /\ FramesStruct(b)'
             /\ b.constraint = cs.constraint /\ b.owner_depth = cs.owner_depth
  <2>1. /\ StructOK(cs) /\ FramesStruct(cs) /\ IsStruct(cs)
        /\ cs.owner_depth \in 1 .. Depth
    BY <1>1 DEF StructsOK, FramesInv, StructOK
  <2>2. b.constraint = cs.constraint /\ b.owner_depth = cs.owner_depth
    BY <1>8, <2>1, StructSteps DEF SameConstraint
  <2>3. PICK x \in OpenName : x = d.name
    BY <1>3
  <2>4. \/ x # Skipped /\ Visible(Open) /\ b = Started(cs, x)
        \/ x = Skipped /\ b = StartedSkipped(cs)
    BY <1>8, <2>3
  <2>5. /\ FramesOK(Compiled[cs.constraint], b.collection_stack,
                    Append(Open, x), cs.owner_depth)
        /\ b.key_table \in Seq(KeySequence)
    BY <1>1, <2>1, <2>4, StructStarts
  <2>6. PICK o \in 1 .. Depth : o = cs.owner_depth
    BY <2>1
  <2>7. cs.constraint \in Carried(o)'
    BY <1>5, <2>1, <2>6 DEF FramesStruct
  <2> QED BY <1>3, <1>4, <2>2, <2>3, <2>5, <2>6, <2>7 DEF FramesStruct
<1>9. ASSUME NEW c \in d.constraints, NEW b, b = NewConstraint(c, Depth + 1)
      PROVE  FramesStruct(b)' /\ b.constraint = c /\ b.owner_depth = Depth + 1
  <2>1. b.constraint = c /\ b.owner_depth = Depth + 1
    BY <1>9, NewStruct
  <2>2. c \in Constraint
    BY <1>1, DeclaredTyped
  <2>3. PICK o, open : o = Depth + 1 /\ open = Append(Open, d.name)
    OBVIOUS
  <2>4. open \in Seq(OpenName) /\ o = Len(open)
    BY <1>2, <1>3, <2>3, TopOfAppended
  <2>5. FramesOK(Compiled[c], b.collection_stack, open, o) /\ b.key_table \in Seq(KeySequence)
    BY <1>1, <1>9, <2>2, <2>3, <2>4, NewStructFrames
  <2>6. Carried(o)' = d.constraints
    BY <1>6, <2>3
  <2> QED BY <1>3, <1>4, <2>1, <2>3, <2>5, <2>6 DEF FramesStruct
<1>10. \A b \in active_constraints' : FramesStruct(b)'
  BY <1>8, <1>9 DEF PushedStructs
<1>11. ASSUME NEW k \in 1 .. Depth + 1, NEW c, c \in Carried(k)'
       PROVE  \E b \in active_constraints' : b.constraint = c /\ b.owner_depth = k
  <2>1. CASE k \in 1 .. Depth
    <3>1. PICK cs \in active_constraints : cs.constraint = c /\ cs.owner_depth = k
      BY <1>5, <1>11, <2>1 DEF FramesInv
    <3>2. PICK b : b = IF d.name # Skipped THEN Started(cs, d.name) ELSE StartedSkipped(cs)
      OBVIOUS
    <3>3. b \in active_constraints'
      BY <3>2 DEF PushedStructs
    <3>4. b.constraint = cs.constraint /\ b.owner_depth = cs.owner_depth
      BY <1>8, <3>2 DEF PushedStructs
    <3> QED BY <3>1, <3>3, <3>4
  <2>2. CASE k = Depth + 1
    <3>1. c \in d.constraints
      BY <1>6, <1>11, <2>2
    <3>2. d.name # Skipped
      <4>1. d = SkippedElement => d.constraints = {}
        BY DEF SkippedElement
      <4> QED BY <1>1, <3>1, <4>1, DeclaredTyped
    <3>3. PICK b : b = NewConstraint(c, Depth + 1)
      OBVIOUS
    <3>4. b \in active_constraints'
      BY <3>1, <3>2, <3>3 DEF PushedStructs
    <3> QED BY <1>9, <2>2, <3>1, <3>3, <3>4
  <2> QED BY <1>2, <2>1, <2>2
<1>12. \A k \in 1 .. Depth' : \A c \in Carried(k)' :
          \E b \in active_constraints' : b.constraint = c /\ b.owner_depth = k
  BY <1>2, <1>11
<1> QED BY <1>7, <1>10, <1>12 DEF FramesInv

LEMMA AttributeKeepsFrames ==
    ASSUME OwnersInv, FramesInv, NEW name, NEW value \in AttributeValue \cup {Unassessed},
           Attribute(name, value)
    PROVE  FramesInv'
<1>1. /\ VariablesType /\ TreeOK /\ StructsOK
      /\ in_attributes => Depth > 0
  BY DEF OwnersInv
<1>2. /\ Grown /\ Depth' = Depth
      /\ \A k \in 1 .. Depth : Node(k)' = Node(k)
  BY <1>1, AttributeKeepsTree
<1>3. Open' = Open
  BY AttributeKeepsStructs
<1>4. /\ Compiled' = Compiled /\ Constraint' = Constraint
      /\ ic_scope_tables' = ic_scope_tables
      /\ active_constraints' =
            {Bound(cs, MatchingFields(cs, name), value) : cs \in active_constraints}
  BY DEF Attribute, Compiled, Constraint
<1>5. \A k \in 1 .. Depth : Carried(k)' = Carried(k)
  <2> SUFFICES ASSUME NEW k \in 1 .. Depth PROVE Carried(k)' = Carried(k)
    OBVIOUS
  <2>1. Node(k) \in 1 .. Len(nodes) /\ Node(k)' = Node(k)
    BY <1>1, <1>2, OpenNodes
  <2> QED BY <1>2, <2>1 DEF Carried, Grown
<1>6. ASSUME NEW cs \in active_constraints,
             NEW b, b = Bound(cs, MatchingFields(cs, name), value)
      PROVE  /\ FramesStruct(b)'
             /\ b.constraint = cs.constraint /\ b.owner_depth = cs.owner_depth
  <2>1. FramesStruct(cs) /\ IsStruct(cs) /\ cs.owner_depth \in 1 .. Depth
    BY <1>1 DEF StructsOK, FramesInv, StructOK
  <2>2. b.constraint = cs.constraint /\ b.owner_depth = cs.owner_depth
    BY <1>6, <2>1, StructSteps DEF SameConstraint
  <2>3. /\ FramesOK(Compiled[cs.constraint], b.collection_stack, Open, cs.owner_depth)
        /\ b.key_table \in Seq(KeySequence)
    BY <1>6, <2>1, StructBinds
  <2>4. PICK o \in 1 .. Depth : o = cs.owner_depth
    BY <2>1
  <2>5. cs.constraint \in Carried(o)'
    BY <1>5, <2>1, <2>4 DEF FramesStruct
  <2> QED BY <1>3, <1>4, <2>2, <2>3, <2>4, <2>5 DEF FramesStruct
<1>7. \A b \in active_constraints' : FramesStruct(b)'
  BY <1>4, <1>6
<1>8. ASSUME NEW k \in 1 .. Depth, NEW c, c \in Carried(k)'
      PROVE  \E b \in active_constraints' : b.constraint = c /\ b.owner_depth = k
  <2>1. PICK cs \in active_constraints : cs.constraint = c /\ cs.owner_depth = k
    BY <1>5, <1>8 DEF FramesInv
  <2>2. PICK b : b = Bound(cs, MatchingFields(cs, name), value)
    OBVIOUS
  <2> QED BY <1>4, <1>6, <2>1, <2>2
<1>9. (ic_scope_tables \in Seq(TablesType) /\ Len(ic_scope_tables) = Depth)'
  <2>1. TablesType' = TablesType
    BY <1>4 DEF TablesType
  <2> QED BY <1>2, <1>4, <2>1 DEF FramesInv
<1>10. \A k \in 1 .. Depth' : \A c \in Carried(k)' :
          \E b \in active_constraints' : b.constraint = c /\ b.owner_depth = k
  BY <1>2, <1>8
<1> QED BY <1>7, <1>9, <1>10 DEF FramesInv

(* The scope tables hold key sequences.                                    *)
LEMMA TablesTyped ==
    ASSUME NEW S, S \subseteq Constraint, NEW tables,
           tables = [c \in S |-> tables[c]], \A c \in S : tables[c] \in Seq(KeySequence)
    PROVE  tables \in TablesType
<1>1. tables \in [S -> Seq(KeySequence)]
  OBVIOUS
<1> QED BY <1>1 DEF TablesType

LEMMA AppendedTyped ==
    ASSUME NEW tables \in TablesType, NEW c, NEW table \in Seq(KeySequence)
    PROVE  Appended(tables, c, table)[c] \in Seq(KeySequence)
<1>1. PICK S \in SUBSET Constraint : tables \in [S -> Seq(KeySequence)]
  BY DEF TablesType
<1>2. Appended(tables, c, table)[c] = IF c \in S THEN tables[c] \o table ELSE table
  BY <1>1 DEF Appended
<1>3. ASSUME c \in S PROVE tables[c] \o table \in Seq(KeySequence)
  <2>1. tables[c] \in Seq(KeySequence)
    BY <1>1, <1>3
  <2> QED BY <2>1
<1> QED BY <1>2, <1>3

LEMMA ScopeTablesTyped ==
    ASSUME ic_scope_tables \in Seq(TablesType), ic_scope_tables # <<>>, NEW closing,
           \A cs \in closing : cs.constraint \in Constraint /\ cs.key_table \in Seq(KeySequence)
    PROVE  ScopeTables(closing) \in TablesType
<1> DEFINE own == {cs \in closing : Compiled[cs.constraint].kind # "keyref"}
           TableOf(c) == (CHOOSE cs \in own : cs.constraint = c).key_table
           below == Top(ic_scope_tables)
           mine == {cs.constraint : cs \in own}
           tables == ScopeTables(closing)
<1>1. below \in TablesType
  BY DEF Top
<1>2. PICK S \in SUBSET Constraint : below \in [S -> Seq(KeySequence)]
  BY <1>1 DEF TablesType
<1>3. tables = [c \in DOMAIN below \cup mine |->
                   IF c \notin mine THEN below[c]
                   ELSE Appended(below, c, TableOf(c))[c]]
  BY DEF ScopeTables
<1>4. \A c \in mine : TableOf(c) \in Seq(KeySequence)
  <2> SUFFICES ASSUME NEW c \in mine PROVE TableOf(c) \in Seq(KeySequence)
    OBVIOUS
  <2>1. \E cs \in own : cs.constraint = c
    OBVIOUS
  <2>2. (CHOOSE cs \in own : cs.constraint = c) \in own
    BY <2>1
  <2>3. \A cs \in own : cs.key_table \in Seq(KeySequence)
    OBVIOUS
  <2> QED BY <2>2, <2>3
<1>5. DOMAIN below = S /\ mine \subseteq Constraint
  BY <1>2
<1> HIDE DEF below, mine, TableOf, tables
<1>6. \A c \in S \cup mine : tables[c] \in Seq(KeySequence)
  BY <1>1, <1>2, <1>3, <1>4, <1>5, AppendedTyped
<1>7. tables = [c \in S \cup mine |-> tables[c]]
  BY <1>3, <1>5
<1>8. S \cup mine \subseteq Constraint
  BY <1>2, <1>5
<1>9. tables \in TablesType
  BY <1>6, <1>7, <1>8, TablesTyped
<1> QED BY <1>9 DEF tables

LEMMA PropagatedTyped ==
    ASSUME NEW stack \in Seq(TablesType), NEW tables \in TablesType
    PROVE  /\ Propagated(stack, tables) \in Seq(TablesType)
           /\ Len(Propagated(stack, tables)) = Len(stack)
<1>1. CASE stack = <<>>
  BY <1>1 DEF Propagated
<1>2. CASE stack # <<>>
  <2>1. PICK n, top, new :
           /\ n = Len(stack) /\ top = stack[n]
           /\ new = [c \in DOMAIN top \cup DOMAIN tables |->
                        IF c \in DOMAIN tables THEN Appended(top, c, tables[c])[c] ELSE top[c]]
    OBVIOUS
  <2>2. n \in 1 .. Len(stack) /\ top \in TablesType
    BY <1>2, <2>1
  <2>3. PICK S \in SUBSET Constraint : top \in [S -> Seq(KeySequence)]
    BY <2>2 DEF TablesType
  <2>4. PICK T \in SUBSET Constraint : tables \in [T -> Seq(KeySequence)]
    BY DEF TablesType
  <2>5. \A c \in T : Appended(top, c, tables[c])[c] \in Seq(KeySequence)
    BY <2>2, <2>4, AppendedTyped
  <2>6. \A c \in S \cup T : new[c] \in Seq(KeySequence)
    BY <2>1, <2>3, <2>4, <2>5
  <2>7. new = [c \in S \cup T |-> new[c]]
    BY <2>1, <2>3, <2>4
  <2>8. new \in TablesType
    <3>1. S \cup T \subseteq Constraint
      OBVIOUS
    <3> QED BY <2>6, <2>7, <3>1, TablesTyped
  <2>9. Propagated(stack, tables) = [stack EXCEPT ![n] = new]
    BY <1>2, <2>1 DEF Propagated
  <2> QED BY <2>2, <2>8, <2>9
<1> QED BY <1>1, <1>2

LEMMA EndKeepsFrames ==
    ASSUME RegularSelectors, OwnersInv, FramesInv, NEW content \in Content, EndTag(content)
    PROVE  FramesInv'
<1>1. /\ VariablesType /\ TreeOK /\ StructsOK
  BY DEF OwnersInv
<1>2. /\ Depth \in Nat \ {0} /\ Grown /\ Depth' = Depth - 1 /\ Open' = Pop(Open)
      /\ \A k \in 1 .. Depth' : Node(k)' = Node(k)
  BY <1>1, EndCloses, ClosesTree
<1>3. Compiled' = Compiled /\ Constraint' = Constraint
  BY DEF EndTag, Compiled, Constraint
<1>4. \A k \in 1 .. Depth - 1 : Carried(k)' = Carried(k)
  <2> SUFFICES ASSUME NEW k \in 1 .. Depth - 1 PROVE Carried(k)' = Carried(k)
    OBVIOUS
  <2>1. k \in 1 .. Depth /\ k \in 1 .. Depth'
    BY <1>2
  <2>2. Node(k) \in 1 .. Len(nodes) /\ Node(k)' = Node(k)
    BY <1>1, <1>2, <2>1, OpenNodes
  <2> QED BY <1>2, <2>2 DEF Carried, Grown
<1>5. ASSUME NEW cs \in active_constraints, NEW b, b = Ended(cs, content)
      PROVE  /\ b.constraint = cs.constraint /\ b.owner_depth = cs.owner_depth
             /\ b.constraint \in Constraint /\ b.key_table \in Seq(KeySequence)
             /\ b.selector.active <=> cs.owner_depth < Depth
             /\ b.selector.active => FramesStruct(b)'
  <2>1. StructOK(cs) /\ FramesStruct(cs) /\ cs.owner_depth \in 1 .. Depth
    BY <1>1 DEF StructsOK, FramesInv, StructOK
  <2>2. /\ b.constraint = cs.constraint /\ b.owner_depth = cs.owner_depth
        /\ cs.constraint \in Constraint
        /\ b.selector.active <=> cs.owner_depth < Depth
    BY <1>1, <1>5, EndedStructs DEF SameConstraint
  <2>3. /\ b.key_table \in Seq(KeySequence)
        /\ cs.owner_depth < Depth =>
              FramesOK(Compiled[cs.constraint], b.collection_stack, Pop(Open), cs.owner_depth)
    BY <1>1, <1>5, <2>1, StructEnds
  <2>4. ASSUME b.selector.active PROVE FramesStruct(b)'
    <3>1. PICK o \in 1 .. Depth - 1 : o = cs.owner_depth
      BY <1>2, <2>1, <2>2, <2>4
    <3>2. cs.constraint \in Carried(o)'
      BY <1>4, <2>1, <3>1 DEF FramesStruct
    <3>3. FramesOK(Compiled[cs.constraint], b.collection_stack, Pop(Open), cs.owner_depth)
      BY <2>2, <2>3, <2>4
    <3> QED BY <1>2, <1>3, <2>2, <2>3, <3>1, <3>2, <3>3 DEF FramesStruct
  <2> QED BY <2>2, <2>3, <2>4
<1> DEFINE ended == {Ended(cs, content) : cs \in active_constraints}
           closing == {cs \in ended : ~ cs.selector.active}
<1>6. /\ active_constraints' = ended \ closing
      /\ ic_scope_tables' = Propagated(Pop(ic_scope_tables), ScopeTables(closing))
  BY DEF EndTag
<1>7. \A b \in active_constraints' : FramesStruct(b)'
  BY <1>5, <1>6
<1>8. (ic_scope_tables \in Seq(TablesType) /\ Len(ic_scope_tables) = Depth)'
  <2>1. /\ ic_scope_tables \in Seq(TablesType) /\ Len(ic_scope_tables) = Depth
        /\ ic_scope_tables # <<>>
    BY <1>2 DEF FramesInv
  <2>2. \A b \in closing : b.constraint \in Constraint /\ b.key_table \in Seq(KeySequence)
    BY <1>5
  <2> HIDE DEF closing
  <2>3. ScopeTables(closing) \in TablesType
    BY <2>1, <2>2, ScopeTablesTyped
  <2>4. PICK stack, tables :
           stack = Pop(ic_scope_tables) /\ tables = ScopeTables(closing)
    OBVIOUS
  <2>5. stack \in Seq(TablesType) /\ Len(stack) = Depth - 1
    BY <2>1, <2>4, Prefixes
  <2>6. /\ Propagated(stack, tables) \in Seq(TablesType)
        /\ Len(Propagated(stack, tables)) = Depth - 1
    BY <2>3, <2>4, <2>5, PropagatedTyped
  <2>7. TablesType' = TablesType
    BY <1>3 DEF TablesType
  <2> QED BY <1>2, <1>6, <2>4, <2>6, <2>7
<1>9. ASSUME NEW k \in 1 .. Depth - 1, NEW c, c \in Carried(k)'
      PROVE  \E b \in active_constraints' : b.constraint = c /\ b.owner_depth = k
  <2>1. k \in 1 .. Depth /\ k < Depth /\ c \in Carried(k)
    BY <1>2, <1>4, <1>9
  <2>2. PICK cs \in active_constraints : cs.constraint = c /\ cs.owner_depth = k
    BY <2>1 DEF FramesInv
  <2>3. PICK b : b = Ended(cs, content)
    OBVIOUS
  <2>4. b \in ended /\ b.selector.active
    BY <1>5, <2>1, <2>2, <2>3
  <2> QED BY <1>5, <1>6, <2>2, <2>3, <2>4
<1>10. \A k \in 1 .. Depth' : \A c \in Carried(k)' :
          \E b \in active_constraints' : b.constraint = c /\ b.owner_depth = k
  BY <1>2, <1>9
<1> QED BY <1>7, <1>8, <1>10 DEF FramesInv

LEMMA InitFrames ==
    Init => FramesInv
<1> SUFFICES ASSUME Init PROVE FramesInv
  OBVIOUS
<1>1. /\ ic_scope_tables = <<>> /\ active_constraints = {} /\ validation_stack = <<>>
      /\ Depth = 0
  BY DEF Init, Depth
<1> QED BY <1>1 DEF FramesInv

LEMMA StutterFrames ==
    FramesInv /\ UNCHANGED vars => FramesInv'
<1> SUFFICES ASSUME FramesInv, UNCHANGED vars PROVE FramesInv'
  OBVIOUS
<1>1. /\ schema' = schema /\ nodes' = nodes /\ validation_stack' = validation_stack
      /\ active_constraints' = active_constraints /\ ic_scope_tables' = ic_scope_tables
  BY DEF vars
<1>2. Depth' = Depth /\ \A d : Node(d)' = Node(d)
  BY <1>1 DEF Depth, Node
<1>3. Open' = Open /\ \A d : Carried(d)' = Carried(d)
  BY <1>1, <1>2 DEF Open, Carried
<1>4. \A cs : FramesStruct(cs)' <=> FramesStruct(cs)
  BY <1>1, <1>3 DEF FramesStruct, Compiled
<1>5. TablesType' = TablesType
  BY <1>1 DEF TablesType, Constraint, Compiled
<1> QED BY <1>1, <1>2, <1>3, <1>4, <1>5 DEF FramesInv

LEMMA StepFrames ==
    ASSUME RegularSelectors, OwnersInv, FramesInv, Next
    PROVE  FramesInv'
<1>1. /\ VariablesType /\ TreeOK /\ SkippedInside(Open)
  BY DEF OwnersInv
<1>2. ASSUME NEW d \in schema.declarations, StartElement(d) PROVE FramesInv'
  <2>1. d \in Declared /\ Push(d) /\ ~ InSkipped
    BY <1>2 DEF StartElement, Declared
  <2>2. d.name # Skipped /\ Visible(Open)
    <3>1. d.name \in Name
      BY <1>1, DeclarationAssumption DEF VariablesType
    <3> QED BY <1>1, <2>1, <3>1, OpenVisible, SkippedAssumption
  <2>3. PushedStructs(d)
    BY <1>2, <2>2 DEF StartElement, PushedStructs, Depth
  <2> QED BY <2>1, <2>3, PushKeepsFrames
<1>3. ASSUME StartSkipped PROVE FramesInv'
  <2>1. SkippedElement \in Declared /\ Push(SkippedElement)
    BY <1>3 DEF StartSkipped, Declared
  <2>2. PushedStructs(SkippedElement)
    BY <1>3 DEF StartSkipped, PushedStructs, SkippedElement
  <2> QED BY <2>1, <2>2, PushKeepsFrames
<1>4. ASSUME NEW name, NEW value \in AttributeValue \cup {Unassessed}, Attribute(name, value)
      PROVE  FramesInv'
  BY <1>4, AttributeKeepsFrames
<1>5. ASSUME NEW content \in Content, EndTag(content) PROVE FramesInv'
  BY <1>5, EndKeepsFrames
<1> QED BY <1>2, <1>3, <1>4, <1>5 DEF Next

-----------------------------------------------------------------------------
(* What it says of the frames.                                             *)

(* The targets of the definition among the open elements.                  *)
LEMMA OpenTargets ==
    ASSUME VariablesType, TreeOK, NEW c \in Constraint,
           NEW o \in 1 .. Depth, NEW d \in o .. Depth
    PROVE  Node(d) \in Targets(c, Node(o)) <=> IsTarget(Compiled[c], Open, o, d)
<1>1. /\ Open \in Seq(OpenName) /\ Len(Open) = Depth /\ Depth \in Nat
      /\ \A k \in 1 .. Depth : Open[k] = nodes[Node(k)].declaration.name
  BY OpenTyped
<1>2. PICK e, n, selector, below :
         /\ e = Node(o) /\ n = Node(d) /\ selector = Compiled[c].selector
         /\ below = SubSeq(Open, o + 1, d)
  OBVIOUS
<1>3. d \in 1 .. Depth /\ o \in 1 .. d /\ d - o \in Nat
  BY <1>1
<1>4. /\ n \in 1 .. Len(nodes) /\ Len(nodes[n].path) = d
      /\ e \in 1 .. Len(nodes) /\ Len(nodes[e].path) = o
      /\ Below(e, n)
  BY <1>2, <1>3, OpenNodes
<1>5. \A k \in 1 .. d : nodes[n].path[k] = Node(k)
  BY <1>2, <1>3 DEF TreeOK
<1>6. Trail(e, n) = below
  <2>1. Trail(e, n) = [k \in 1 .. d - o |-> nodes[nodes[n].path[o + k]].declaration.name]
    BY <1>4 DEF Trail
  <2>2. ASSUME NEW k \in 1 .. d - o
        PROVE  nodes[nodes[n].path[o + k]].declaration.name = Open[o + k]
    <3>1. o + k \in 1 .. d /\ o + k \in 1 .. Depth
      BY <1>1, <1>3
    <3> QED BY <1>1, <1>5, <3>1
  <2>3. Trail(e, n) = [k \in 1 .. d - o |-> Open[o + k]]
    BY <2>1, <2>2
  <2>4. below = [k \in 1 .. d - o |-> below[k]] /\ \A k \in 1 .. d - o : below[k] = Open[o + k]
    <3> HIDE DEF Open
    <3>1. below \in Seq(OpenName) /\ Len(below) = d - o
          /\ \A k \in 1 .. d - o : below[k] = Open[o + k]
      BY <1>1, <1>2, <1>3
    <3> QED BY <3>1
  <2> QED BY <2>3, <2>4
<1>7. n \in Targets(c, e) <=> Selected(selector, below)
  <2>1. n \in DOMAIN nodes
    BY <1>4 DEF VariablesType
  <2> QED BY <1>2, <1>4, <1>6, <2>1 DEF Targets, Selects, Selected
<1> QED BY <1>2, <1>7 DEF IsTarget

LEMMA FramesTypeOK ==
    ASSUME OwnersInv, FramesInv
    PROVE  TypeOK
<1>1. /\ VariablesType /\ TreeOK /\ StructsOK
      /\ ic_scope_tables \in Seq(TablesType) /\ Len(ic_scope_tables) = Depth
  BY DEF OwnersInv, FramesInv
<1>2. ASSUME NEW d \in 1 .. Depth
      PROVE  /\ validation_stack[d].node \in DOMAIN nodes
             /\ validation_stack[d].validity \in {"valid", "invalid", "notKnown"}
             /\ \A c \in DOMAIN ic_scope_tables[d] :
                   c \in Constraint /\ ic_scope_tables[d][c] \in Seq(KeySequence)
  <2>1. Node(d) \in 1 .. Len(nodes) /\ DOMAIN nodes = 1 .. Len(nodes)
    BY <1>1 DEF TreeOK, VariablesType
  <2>2. validation_stack[d] \in EntryType
    BY <1>1 DEF VariablesType, Depth
  <2>3. ic_scope_tables[d] \in TablesType
    BY <1>1
  <2>4. PICK S \in SUBSET Constraint : ic_scope_tables[d] \in [S -> Seq(KeySequence)]
    BY <2>3 DEF TablesType
  <2> QED BY <2>1, <2>2, <2>4 DEF Node, EntryType, Validity
<1>3. ASSUME NEW cs \in active_constraints
      PROVE  /\ cs.constraint \in Constraint
             /\ cs.owner_depth \in 1 .. Depth
             /\ cs.key_table \in Seq(KeySequence)
             /\ \A i \in 1 .. Len(cs.collection_stack) :
                   cs.collection_stack[i].values \in KeySequence
  <2>1. StructOK(cs) /\ FramesStruct(cs)
    BY <1>1 DEF StructsOK, FramesInv
  <2>2. PICK comp : cs.collection_stack \in Seq(FrameType(comp))
    BY <2>1 DEF FramesStruct, FramesOK, FramesAt
  <2>3. \A i \in 1 .. Len(cs.collection_stack) : cs.collection_stack[i] \in FrameType(comp)
    BY <2>2
  <2> QED BY <2>1, <2>3 DEF StructOK, FramesStruct, FrameType
<1> QED BY <1>1, <1>2, <1>3 DEF TypeOK, Depth

(* The frames of one constraint.                                           *)
FramesOfTargets(cs) ==
    LET open(d) == validation_stack[d].node
        targets == {d \in cs.owner_depth .. Len(validation_stack) :
                       open(d) \in Targets(cs.constraint, open(cs.owner_depth))}
        Place(d) == Cardinality({k \in targets : k <= d})
    IN  /\ Len(cs.collection_stack) = Cardinality(targets)
        /\ \A d \in targets, f \in Field :
              LET field == cs.collection_stack[Place(d)].fields[f] IN
              field.active
              /\ field.current_depth = Len(validation_stack) - d

LEMMA FramesRanked ==
    ASSUME OwnersInv, FramesInv, NEW cs \in active_constraints
    PROVE  FramesOfTargets(cs)
<1>1. /\ VariablesType /\ TreeOK /\ StructOK(cs) /\ FramesStruct(cs)
  BY DEF OwnersInv, StructsOK, FramesInv
<1>2. PICK c, comp, o, n, open, frames, m :
         /\ c = cs.constraint /\ comp = Compiled[c] /\ o = cs.owner_depth
         /\ n = Depth /\ open = Open
         /\ frames = cs.collection_stack /\ m = Len(frames)
  OBVIOUS
<1>3. /\ c \in Constraint /\ o \in 1 .. n /\ n \in Nat
      /\ open \in Seq(OpenName) /\ Len(open) = n
  BY <1>1, <1>2, OpenTyped DEF StructOK
<1>4. PICK at : FramesAt(comp, frames, open, o, at)
  BY <1>1, <1>2 DEF FramesStruct, FramesOK
<1>5. /\ m \in Nat /\ at \in [1 .. m -> o .. n]
      /\ \A i \in 1 .. m : Follows(comp, frames[i], open, at[i])
      /\ \A i, j \in 1 .. m : i < j => at[i] < at[j]
      /\ \A d \in o .. n : IsTarget(comp, open, o, d) <=> \E i \in 1 .. m : at[i] = d
  BY <1>2, <1>3, <1>4 DEF FramesAt
<1> DEFINE targets == {d \in o .. n : Node(d) \in Targets(c, Node(o))}
<1>6. \A d \in o .. n : Node(d) \in Targets(c, Node(o)) <=> IsTarget(comp, open, o, d)
  BY <1>1, <1>2, <1>3, OpenTargets
<1>7. /\ targets \subseteq Nat /\ targets \subseteq o .. n
      /\ \A d \in Nat : d \in targets <=> \E i \in 1 .. m : at[i] = d
  <2>1. targets \subseteq Nat
    BY <1>3
  <2>2. \A i \in 1 .. m : at[i] \in o .. n
    BY <1>5
  <2> QED BY <1>5, <1>6, <2>1, <2>2
<1> HIDE DEF targets
<1>8. /\ Cardinality(targets) = m
      /\ \A i \in 1 .. m : Cardinality({d \in targets : d <= at[i]}) = i
  <2>1. \A i \in 1 .. m : at[i] \in Nat
    BY <1>3, <1>5
  <2>2. m \in Nat /\ \A i, j \in 1 .. m : i < j => at[i] < at[j]
    BY <1>5
  <2>3. Climbs(targets, m, at)
    BY <1>7, <2>1, <2>2 DEF Climbs
  <2>4. m \in Nat
    BY <1>5
  <2> HIDE DEF targets
  <2> QED BY <2>3, <2>4, CountIncreasing
<1>9. ASSUME NEW d \in targets, NEW f \in Field
      PROVE  LET field == frames[Cardinality({k \in targets : k <= d})].fields[f] IN
             field.active /\ field.current_depth = n - d
  <2>1. PICK i \in 1 .. m : at[i] = d
    BY <1>7
  <2>2. Cardinality({k \in targets : k <= d}) = i
    BY <1>8, <2>1
  <2>3. Tracks(comp.fields[f], frames[i].fields[f], SubSeq(open, d + 1, Len(open)))
    BY <1>5, <2>1 DEF Follows
  <2>4. Len(SubSeq(open, d + 1, Len(open))) = n - d
    <3>1. d \in o .. n
      BY <1>7
    <3> QED BY <1>3, <3>1
  <2> QED BY <2>2, <2>3, <2>4 DEF Tracks
<1>10. targets = {d \in cs.owner_depth .. Len(validation_stack) :
                    validation_stack[d].node
                       \in Targets(cs.constraint, validation_stack[cs.owner_depth].node)}
  BY <1>2 DEF targets, Node, Depth
<1> QED BY <1>2, <1>8, <1>9, <1>10 DEF FramesOfTargets, Depth

(* However deep the matches of a selector nest, and whatever else is       *)
(* evaluated at the same time: every open target has one frame, in the     *)
(* order they were opened, whose fields have followed the tags since its   *)
(* target started, so that the frame popped at an end tag is that of the   *)
(* element that ends (ConstraintStruct::start_element,                     *)
(* end_element_with_text, skip_element of identity.rs).  A bare `.//.',    *)
(* which the matcher treats as `.', is the only selector left out.         *)
THEOREM FramesAreOfTargets ==
    ASSUME RegularSelectors
    PROVE  Spec => []FramesFollowTargets
<1>1. Init => OwnersInv /\ FramesInv
  BY InitOwners, InitFrames
<1>2. (OwnersInv /\ FramesInv) /\ [Next]_vars => (OwnersInv /\ FramesInv)'
  BY StepOwners, StutterOwners, StepFrames, StutterFrames
<1>3. OwnersInv /\ FramesInv => FramesFollowTargets
  <2> SUFFICES ASSUME OwnersInv, FramesInv PROVE FramesFollowTargets
    OBVIOUS
  <2>1. TypeOK
    BY FramesTypeOK
  <2>2. {<<cs.constraint, cs.owner_depth>> : cs \in active_constraints}
           = UNION {{<<c, d>> :
                        c \in nodes[validation_stack[d].node].declaration.constraints} :
                      d \in 1 .. Len(validation_stack)}
    <3>1. ASSUME NEW cs \in active_constraints
          PROVE  \E d \in 1 .. Depth : \E c \in Carried(d) :
                    <<cs.constraint, cs.owner_depth>> = <<c, d>>
      BY DEF OwnersInv, StructsOK, StructOK, FramesInv, FramesStruct
    <3>2. ASSUME NEW d \in 1 .. Depth, NEW c \in Carried(d)
          PROVE  \E cs \in active_constraints :
                    <<c, d>> = <<cs.constraint, cs.owner_depth>>
      BY DEF FramesInv
    <3>3. {<<cs.constraint, cs.owner_depth>> : cs \in active_constraints}
             = UNION {{<<c, d>> : c \in Carried(d)} : d \in 1 .. Depth}
      BY <3>1, <3>2
    <3> QED BY <3>3 DEF Carried, Node, Depth
  <2>3. \A cs \in active_constraints : FramesOfTargets(cs)
    BY FramesRanked
  <2> QED BY <2>1, <2>2, <2>3 DEF FramesFollowTargets, FramesOfTargets
<1> QED BY <1>1, <1>2, <1>3, PTL DEF Spec

-----------------------------------------------------------------------------
(* What the frames and the tables hold.  The attributes of the elements so *)
(* far that an expression selects from n, and the nodes that its frame has *)
(* met: these, and the elements it selects that are closed.                *)
TakesAttribute(expression, n, m, a) ==
    /\ Below(n, m) /\ Visible(Trail(n, m))
    /\ a \in DOMAIN nodes[m].attributes
    /\ \E p \in DOMAIN expression : SelectsAttribute(expression[p], Trail(n, m), a)

AttributesTaken(expression, n) ==
    {x \in (DOMAIN nodes) \X AttributeName : TakesAttribute(expression, n, x[1], x[2])}

Gathered(expression, n) ==
    {<<m>> : m \in {k \in Closed : Selects(expression, n, k)}}
        \cup AttributesTaken(expression, n)

(* A frame knows whether a field has met nodes, and the value of a single  *)
(* one.                                                                    *)
FieldExact(frame, f, met) ==
    /\ frame.matched[f] <=> met # {}
    /\ ~ frame.matched[f] => frame.values[f] = Absent
    /\ \A x \in met : met = {x} => frame.values[f] = ValueAt(x)

FrameExact(comp, frame, n) ==
    \A f \in Field : FieldExact(frame, f, Gathered(comp.fields[f], n))

FramesExact(comp, o, frames) ==
    \A d \in o .. Depth, n \in 1 .. Len(nodes), i \in 1 .. Len(frames) :
        IsTarget(comp, Open, o, d) /\ n = Node(d) /\ i = Rank(comp, Open, o, d) =>
            FrameExact(comp, frames[i], n)

(* The closed targets of c at e, and the row of each in the table.         *)
EndedTargets(c, e) == {i \in 1 .. Len(finished) : finished[i] \in Targets(c, e)}

RowsExact(c, e, table) ==
    \A i \in EndedTargets(c, e), n \in Closed :
        n = finished[i] =>
            SelectsMany(c, n) \/ table[Row(EndedTargets(c, e), i)] = KeySequenceAt(c, n)

TableExact(c, e, table) ==
    /\ Len(table) = Cardinality(EndedTargets(c, e))
    /\ ~ Shadowed(c, e) => RowsExact(c, e, table)

TablesOf(c, comp, o, e, frames, table) ==
    /\ TableExact(c, e, table)
    /\ ~ Shadowed(c, e) => FramesExact(comp, o, frames)

TablesStruct(cs) ==
    \A e \in 1 .. Len(nodes) :
        e = Node(cs.owner_depth) =>
            TablesOf(cs.constraint, Compiled[cs.constraint], cs.owner_depth, e,
                     cs.collection_stack, cs.key_table)

EveryTagged == \A n \in 1 .. Len(nodes) : n \in Closed \/ \E d \in 1 .. Depth : n = Node(d)

TablesInv ==
    /\ EveryTagged
    /\ \A cs \in active_constraints : TablesStruct(cs)

(* The fields, like the selectors, are regular.                            *)
RegularFields ==
    \A s \in Schema : \A c \in DOMAIN s.compiled : \A f \in Field :
        OfRegularPaths(s.compiled[c].fields[f])

-----------------------------------------------------------------------------
(* What is there stays: the steps only add.                                *)
Kept ==
    /\ Grown /\ Closed \subseteq Closed' /\ schema' = schema
    /\ \A n \in 1 .. Len(nodes) : \A a \in DOMAIN nodes[n].attributes :
          /\ a \in DOMAIN nodes'[n].attributes
          /\ nodes'[n].attributes[a] = nodes[n].attributes[a]
    /\ \A n \in Closed : nodes'[n].content = nodes[n].content

LEMMA TrailGrown ==
    ASSUME VariablesType, TreeOK, Grown,
           NEW e \in 1 .. Len(nodes), NEW n \in 1 .. Len(nodes)
    PROVE  /\ Below(e, n)' <=> Below(e, n)
           /\ Trail(e, n)' = Trail(e, n)
<1>1. Below(e, n)' <=> Below(e, n)
  BY BelowGrown
<1>2. PICK d, m, path : d = Len(nodes[e].path) /\ m = Len(nodes[n].path) /\ path = nodes[n].path
  OBVIOUS
<1>3. /\ d \in Nat /\ m \in Nat /\ nodes'[n].path = path /\ nodes'[e].path = nodes[e].path
      /\ Len(nodes) \in Nat
  <2>1. Len(nodes[e].path) \in Nat /\ Len(nodes[n].path) \in Nat
    BY NodeTyped
  <2> QED BY <1>2, <2>1 DEF Grown, VariablesType
<1>4. ASSUME NEW k \in 1 .. m - d
      PROVE  nodes'[path[d + k]].declaration.name = nodes[path[d + k]].declaration.name
  <2>1. d + k \in 1 .. m
    BY <1>3
  <2>2. path[d + k] \in 1 .. n
    BY <1>2, <2>1 DEF TreeOK, IsTrail
  <2>3. path[d + k] \in 1 .. Len(nodes)
    BY <1>3, <2>2
  <2> QED BY <2>3 DEF Grown
<1>5. Trail(e, n) = [k \in 1 .. m - d |-> nodes[path[d + k]].declaration.name]
  BY <1>2 DEF Trail
<1>6. Trail(e, n)' = [k \in 1 .. m - d |-> nodes'[path[d + k]].declaration.name]
  BY <1>2, <1>3 DEF Trail
<1> QED BY <1>1, <1>4, <1>5, <1>6

LEMMA SelectsGrown ==
    ASSUME VariablesType, TreeOK, Grown, NEW expression,
           NEW e \in 1 .. Len(nodes), NEW n \in 1 .. Len(nodes)
    PROVE  /\ Selects(expression, e, n)' <=> Selects(expression, e, n)
           /\ \A a : a \in DOMAIN nodes'[n].attributes /\ a \in DOMAIN nodes[n].attributes =>
                 (TakesAttribute(expression, e, n, a)' <=> TakesAttribute(expression, e, n, a))
BY TrailGrown DEF Selects, TakesAttribute

LEMMA TargetsGrown ==
    ASSUME VariablesType, TreeOK, VariablesType', Grown, schema' = schema, NEW c,
           NEW e \in 1 .. Len(nodes), NEW n \in 1 .. Len(nodes)
    PROVE  n \in Targets(c, e)' <=> n \in Targets(c, e)
<1>1. n \in DOMAIN nodes /\ n \in DOMAIN nodes'
  <2>1. nodes \in Seq(NodeType)
    BY DEF VariablesType
  <2>2. DOMAIN nodes = 1 .. Len(nodes)
    BY <2>1
  <2>3. DOMAIN nodes' = 1 .. Len(nodes')
    BY DEF VariablesType
  <2>4. Len(nodes) \in Nat
    BY DEF VariablesType
  <2> QED BY <2>2, <2>3, <2>4 DEF Grown
<1>2. PICK selector : selector = Compiled[c].selector
  OBVIOUS
<1>3. Compiled'[c].selector = selector
  BY <1>2 DEF Compiled
<1>4. Selects(selector, e, n)' <=> Selects(selector, e, n)
  BY SelectsGrown
<1>5. n \in Targets(c, e) <=> Selects(selector, e, n)
  BY <1>1, <1>2 DEF Targets
<1>6. n \in Targets(c, e)' <=> Selects(selector, e, n)'
  BY <1>1, <1>3 DEF Targets
<1> QED BY <1>4, <1>5, <1>6

(* What an element has met, one by one.                                    *)
GatheredOne ==
    \A expression, n, x :
        x \in Gathered(expression, n) <=>
            \/ \E m \in Closed : x = <<m>> /\ Selects(expression, n, m)
            \/ \E m \in 1 .. Len(nodes), a \in AttributeName :
                  x = <<m, a>> /\ TakesAttribute(expression, n, m, a)

LEMMA GatheredNodes ==
    VariablesType => GatheredOne
<1> SUFFICES ASSUME VariablesType, NEW expression, NEW n, NEW x
             PROVE  x \in Gathered(expression, n) <=>
                       \/ \E m \in Closed : x = <<m>> /\ Selects(expression, n, m)
                       \/ \E m \in 1 .. Len(nodes), a \in AttributeName :
                             x = <<m, a>> /\ TakesAttribute(expression, n, m, a)
  BY DEF GatheredOne
<1>1. DOMAIN nodes = 1 .. Len(nodes)
  BY DEF VariablesType
<1>2. x \in AttributesTaken(expression, n) <=>
         \E m \in 1 .. Len(nodes), a \in AttributeName :
            x = <<m, a>> /\ TakesAttribute(expression, n, m, a)
  BY <1>1 DEF AttributesTaken
<1> QED BY <1>2 DEF Gathered

LEMMA GatheredKept ==
    ASSUME VariablesType, TreeOK, VariablesType', Kept,
           NEW expression, NEW n \in 1 .. Len(nodes), NEW x \in Gathered(expression, n)
    PROVE  x \in Gathered(expression, n)' /\ ValueAt(x)' = ValueAt(x)
<1>1. GatheredOne /\ GatheredOne'
  BY GatheredNodes, PTL
<1>2. Len(nodes) \in Nat /\ Len(nodes') \in Nat /\ Grown /\ Closed \subseteq 1 .. Len(nodes)
  BY DEF VariablesType, Kept, Closed
<1>3. CASE \E m \in Closed : x = <<m>> /\ Selects(expression, n, m)
  <2>1. PICK m \in Closed : x = <<m>> /\ Selects(expression, n, m)
    BY <1>3
  <2>2. m \in 1 .. Len(nodes) /\ m \in Closed' /\ nodes'[m].content = nodes[m].content
    BY <1>2 DEF Kept
  <2>3. Selects(expression, n, m)'
    BY <1>2, <2>1, <2>2, SelectsGrown
  <2>4. x \in Gathered(expression, n)'
    BY <1>1, <2>1, <2>2, <2>3 DEF GatheredOne
  <2>5. Len(x) = 1 /\ x[1] = m
    BY <2>1
  <2> QED BY <2>2, <2>4, <2>5 DEF ValueAt
<1>4. CASE \E m \in 1 .. Len(nodes), a \in AttributeName :
              x = <<m, a>> /\ TakesAttribute(expression, n, m, a)
  <2>1. PICK m \in 1 .. Len(nodes), a \in AttributeName :
           x = <<m, a>> /\ TakesAttribute(expression, n, m, a)
    BY <1>4
  <2>2. a \in DOMAIN nodes[m].attributes
    BY <2>1 DEF TakesAttribute
  <2>3. /\ m \in 1 .. Len(nodes') /\ a \in DOMAIN nodes'[m].attributes
        /\ nodes'[m].attributes[a] = nodes[m].attributes[a]
    BY <1>2, <2>2 DEF Kept, Grown
  <2>4. TakesAttribute(expression, n, m, a)'
    BY <1>2, <2>1, <2>2, <2>3, SelectsGrown
  <2>5. x \in Gathered(expression, n)'
    BY <1>1, <2>1, <2>3, <2>4 DEF GatheredOne
  <2>6. Len(x) = 2 /\ x[1] = m /\ x[2] = a
    BY <2>1
  <2> QED BY <2>3, <2>5, <2>6 DEF ValueAt
<1> QED BY <1>1, <1>3, <1>4 DEF GatheredOne

LEMMA FieldNodesOne ==
    ASSUME NEW c, NEW f, NEW n
    PROVE  FieldNodes(c, f, n) =
              {<<m>> : m \in {k \in DOMAIN nodes : Selects(Compiled[c].fields[f], n, k)}}
                  \cup AttributesTaken(Compiled[c].fields[f], n)
BY DEF FieldNodes, AttributesTaken, TakesAttribute

(* The attributes among the nodes of a field.                              *)
AttributesOfField(c, f, n) == {x \in FieldNodes(c, f, n) : Len(x) = 2}

FieldAttributes ==
    \A c, f, n : AttributesOfField(c, f, n) = AttributesTaken(Compiled[c].fields[f], n)

LEMMA FieldAttributesTaken ==
    FieldAttributes
<1> SUFFICES ASSUME NEW c, NEW f, NEW n
             PROVE  AttributesOfField(c, f, n) = AttributesTaken(Compiled[c].fields[f], n)
  BY DEF FieldAttributes
<1>1. \A x \in AttributesTaken(Compiled[c].fields[f], n) : Len(x) = 2
  BY DEF AttributesTaken
<1>2. \A m : Len(<<m>>) # 2
  OBVIOUS
<1> QED BY <1>1, <1>2, FieldNodesOne DEF AttributesOfField

LEMMA ShadowedKept ==
    ASSUME VariablesType, TreeOK, VariablesType', Kept, NEW c,
           NEW e \in 1 .. Len(nodes), Shadowed(c, e)
    PROVE  Shadowed(c, e)'
<1>a. PICK n \in Targets(c, e), m \in Targets(c, e), f \in Field :
         /\ n # m /\ Below(n, m)
         /\ \E x \in FieldNodes(c, f, n) : Len(x) = 2 /\ Below(m, x[1])
  BY DEF Shadowed
<1>b. PICK x \in FieldNodes(c, f, n) : Len(x) = 2 /\ Below(m, x[1])
  BY <1>a
<1>1. n # m /\ Below(n, m) /\ Len(x) = 2 /\ Below(m, x[1])
  BY <1>a, <1>b
<1>2. /\ Grown /\ schema' = schema /\ Len(nodes) \in Nat /\ DOMAIN nodes = 1 .. Len(nodes)
      /\ DOMAIN nodes' = 1 .. Len(nodes') /\ Compiled' = Compiled
  BY DEF Kept, VariablesType, Compiled
<1>3. n \in 1 .. Len(nodes) /\ m \in 1 .. Len(nodes)
  BY <1>2 DEF Targets
<1>4. n \in Targets(c, e)' /\ m \in Targets(c, e)' /\ Below(n, m)'
  BY <1>1, <1>2, <1>3, TargetsGrown, TrailGrown
<1>5. PICK expression : expression = Compiled[c].fields[f]
  OBVIOUS
<1>6. x \in AttributesTaken(expression, n)
  BY <1>1, <1>5, FieldAttributesTaken DEF FieldAttributes, AttributesOfField
<1>7. /\ x[1] \in 1 .. Len(nodes) /\ x[2] \in AttributeName /\ x = <<x[1], x[2]>>
      /\ TakesAttribute(expression, n, x[1], x[2])
  BY <1>2, <1>6 DEF AttributesTaken
<1>8. x[2] \in DOMAIN nodes[x[1]].attributes
  BY <1>7 DEF TakesAttribute
<1>9. x[1] \in 1 .. Len(nodes') /\ x[2] \in DOMAIN nodes'[x[1]].attributes
  BY <1>2, <1>7, <1>8 DEF Kept, Grown
<1>10. TakesAttribute(expression, n, x[1], x[2])' /\ Below(m, x[1])'
  BY <1>1, <1>2, <1>3, <1>7, <1>8, <1>9, SelectsGrown, TrailGrown
<1>11. x \in AttributesTaken(expression, n)'
  BY <1>2, <1>7, <1>9, <1>10 DEF AttributesTaken
<1>12. FieldAttributes'
  BY FieldAttributesTaken, PTL
<1>13. Compiled'[c].fields[f] = expression
  BY <1>2, <1>5
<1>14. x \in FieldNodes(c, f, n)'
  BY <1>11, <1>12, <1>13 DEF FieldAttributes, AttributesOfField
<1> QED BY <1>1, <1>4, <1>10, <1>14 DEF Shadowed

-----------------------------------------------------------------------------
(* What is closed has met all its nodes.                                   *)
ClosedFields ==
    \A c, f : \A n \in Closed : FieldNodes(c, f, n) = Gathered(Compiled[c].fields[f], n)

LEMMA ClosedGathered ==
    VariablesType /\ TreeOK /\ EveryTagged => ClosedFields
<1> SUFFICES ASSUME VariablesType, TreeOK, EveryTagged, NEW c, NEW f, NEW n \in Closed
             PROVE  FieldNodes(c, f, n) = Gathered(Compiled[c].fields[f], n)
  BY DEF ClosedFields
<1>1. PICK expression : expression = Compiled[c].fields[f]
  OBVIOUS
<1>2. DOMAIN nodes = 1 .. Len(nodes) /\ Closed \subseteq 1 .. Len(nodes)
  BY DEF VariablesType, Closed
<1>3. ASSUME NEW k \in DOMAIN nodes, Selects(expression, n, k) PROVE k \in Closed
  <2> SUFFICES ASSUME NEW d \in 1 .. Depth, k = Node(d) PROVE FALSE
    BY <1>2 DEF EveryTagged
  <2>1. ~ Below(n, Node(d))
    BY ClosedHasNoOpenBelow
  <2> QED BY <1>3, <2>1 DEF Selects
<1>4. {k \in DOMAIN nodes : Selects(expression, n, k)} = {k \in Closed : Selects(expression, n, k)}
  BY <1>2, <1>3
<1> QED BY <1>1, <1>4, FieldNodesOne DEF Gathered

(* A step adds nodes only to what has the innermost open element below.    *)
MeetsInnermost ==
    \A expression : \A n \in 1 .. Len(nodes) : \A x \in Gathered(expression, n)' :
        \/ x \in Gathered(expression, n)
        \/ Depth \in 1 .. Depth /\ Below(n, Node(Depth))

Continues ==
    /\ VariablesType /\ TreeOK /\ EveryTagged
    /\ VariablesType' /\ TreeOK' /\ EveryTagged'
    /\ Kept /\ MeetsInnermost
    /\ Len(finished) <= Len(finished')
    /\ \A i \in 1 .. Len(finished) : finished'[i] = finished[i]

LEMMA RowKept ==
    ASSUME Continues, NEW c, NEW n \in Closed
    PROVE  /\ SelectsMany(c, n)' <=> SelectsMany(c, n)
           /\ KeySequenceAt(c, n)' = KeySequenceAt(c, n)
<1>1. /\ VariablesType /\ TreeOK /\ EveryTagged
      /\ VariablesType' /\ TreeOK' /\ EveryTagged'
      /\ Kept /\ MeetsInnermost
  BY DEF Continues
<1>2. ClosedFields
  BY <1>1, ClosedGathered
<1>3. ClosedFields'
  BY <1>1, ClosedGathered, PTL
<1>4. Compiled' = Compiled /\ n \in Closed'
  BY <1>1 DEF Kept, Compiled
<1>5. ASSUME NEW expression
      PROVE  /\ Gathered(expression, n)' = Gathered(expression, n)
             /\ \A x \in Gathered(expression, n) : ValueAt(x)' = ValueAt(x)
  <2>1. n \in 1 .. Len(nodes)
    BY <1>1 DEF VariablesType, Closed
  <2>2. ~ (Depth \in 1 .. Depth /\ Below(n, Node(Depth)))
    BY <1>1, ClosedHasNoOpenBelow
  <2>3. \A x \in Gathered(expression, n)' : x \in Gathered(expression, n)
    BY <1>1, <2>1, <2>2 DEF MeetsInnermost
  <2>4. \A x \in Gathered(expression, n) :
           x \in Gathered(expression, n)' /\ ValueAt(x)' = ValueAt(x)
    BY <1>1, <2>1, GatheredKept
  <2> QED BY <2>3, <2>4
<1>6. ASSUME NEW f \in Field
      PROVE  /\ FieldNodes(c, f, n)' = FieldNodes(c, f, n)
             /\ \A x \in FieldNodes(c, f, n) : ValueAt(x)' = ValueAt(x)
  <2>1. PICK expression : expression = Compiled[c].fields[f]
    OBVIOUS
  <2>2. FieldNodes(c, f, n) = Gathered(expression, n)
    BY <1>2, <2>1 DEF ClosedFields
  <2>3. FieldNodes(c, f, n)' = Gathered(expression, n)'
    BY <1>3, <1>4, <2>1 DEF ClosedFields
  <2> QED BY <1>5, <2>2, <2>3
<1>7. SelectsMany(c, n)' <=> SelectsMany(c, n)
  BY <1>6 DEF SelectsMany
<1>8. KeySequenceAt(c, n)' = KeySequenceAt(c, n)
  <2>1. ASSUME NEW f \in Field, NEW xs, xs = FieldNodes(c, f, n)
        PROVE  /\ FieldNodes(c, f, n)' = xs
               /\ xs # {} => ValueAt(CHOOSE x \in xs : TRUE)' = ValueAt(CHOOSE x \in xs : TRUE)
    <3>1. FieldNodes(c, f, n)' = xs /\ \A x \in xs : ValueAt(x)' = ValueAt(x)
      BY <1>6, <2>1
    <3>2. PICK y : y = CHOOSE x \in xs : TRUE
      OBVIOUS
    <3>3. xs # {} => y \in xs
      BY <3>2
    <3> QED BY <3>1, <3>2, <3>3
  <2> QED BY <2>1 DEF KeySequenceAt
<1> QED BY <1>7, <1>8

LEMMA EndedKept ==
    ASSUME Continues, NEW c, NEW e \in 1 .. Len(nodes)
    PROVE  /\ EndedTargets(c, e)' \cap (1 .. Len(finished)) = EndedTargets(c, e)
           /\ \A i \in 1 .. Len(finished) :
                 Row(EndedTargets(c, e)', i) = Row(EndedTargets(c, e), i)
<1>1. /\ VariablesType /\ TreeOK /\ VariablesType' /\ Kept
      /\ Len(finished) \in Nat /\ Len(finished') \in Nat /\ Len(finished) <= Len(finished')
      /\ \A i \in 1 .. Len(finished) : finished'[i] = finished[i] /\ finished[i] \in 1 .. Len(nodes)
  <2>1. VariablesType /\ VariablesType'
    BY DEF Continues
  <2>2. finished \in Seq(1 .. Len(nodes)) /\ Len(finished) \in Nat /\ Len(finished') \in Nat
    BY <2>1 DEF VariablesType
  <2> QED BY <2>2 DEF Continues
<1>2. ASSUME NEW i \in 1 .. Len(finished)
      PROVE  finished'[i] \in Targets(c, e)' <=> finished[i] \in Targets(c, e)
  <2>1. PICK n \in 1 .. Len(nodes) : n = finished[i] /\ n = finished'[i]
    BY <1>1
  <2>2. n \in Targets(c, e)' <=> n \in Targets(c, e)
    BY <1>1, TargetsGrown DEF Kept
  <2> QED BY <2>1, <2>2
<1>3. EndedTargets(c, e)' \cap (1 .. Len(finished)) = EndedTargets(c, e)
  BY <1>1, <1>2 DEF EndedTargets
<1>4. PICK old, new : old = EndedTargets(c, e) /\ new = EndedTargets(c, e)'
  OBVIOUS
<1>5. /\ old = new \cap (1 .. Len(finished)) /\ new \subseteq 1 .. Len(finished')
  BY <1>3, <1>4 DEF EndedTargets
<1>6. ASSUME NEW i \in 1 .. Len(finished) PROVE Row(new, i) = Row(old, i)
  <2>1. ASSUME NEW k \in new, k <= i PROVE k \in 1 .. Len(finished)
    <3>1. k \in 1 .. Len(finished') /\ i \in 1 .. Len(finished)
      BY <1>5
    <3> QED BY <1>1, <2>1, <3>1
  <2>2. {k \in new : k <= i} = {k \in old : k <= i}
    BY <1>5, <2>1
  <2> QED BY <2>2 DEF Row
<1> QED BY <1>3, <1>4, <1>6

(* The rows of the table stay while no other target ends.                  *)
LEMMA TableKept ==
    ASSUME Continues, NEW c, NEW e \in 1 .. Len(nodes), NEW table,
           TableExact(c, e, table), EndedTargets(c, e)' = EndedTargets(c, e)
    PROVE  TableExact(c, e, table)'
<1>1. /\ VariablesType /\ TreeOK /\ VariablesType' /\ Kept /\ Closed \subseteq Closed'
      /\ \A i \in 1 .. Len(finished) : finished'[i] = finished[i] /\ finished[i] \in Closed
  BY DEF Continues, Kept, Closed
<1>2. PICK ended : ended = EndedTargets(c, e)
  OBVIOUS
<1>3. ended \subseteq 1 .. Len(finished) /\ EndedTargets(c, e)' = ended
  BY <1>2 DEF EndedTargets
<1>4. Shadowed(c, e) => Shadowed(c, e)'
  BY <1>1, ShadowedKept
<1>5. ASSUME RowsExact(c, e, table), NEW i \in ended, NEW n \in Closed', n = finished'[i]
      PROVE  SelectsMany(c, n)' \/ table[Row(ended, i)] = KeySequenceAt(c, n)'
  <2>1. n \in Closed /\ n = finished[i]
    BY <1>1, <1>3, <1>5
  <2>2. SelectsMany(c, n) \/ table[Row(ended, i)] = KeySequenceAt(c, n)
    BY <1>2, <1>5, <2>1 DEF RowsExact
  <2> QED BY <2>1, <2>2, RowKept
<1>6. ASSUME ~ Shadowed(c, e)' PROVE RowsExact(c, e, table)'
  <2>1. RowsExact(c, e, table)
    BY <1>4, <1>6 DEF TableExact
  <2> QED BY <1>3, <1>5, <2>1 DEF RowsExact
<1>7. Len(table) = Cardinality(ended)
  BY <1>2 DEF TableExact
<1> QED BY <1>3, <1>6, <1>7 DEF TableExact

-----------------------------------------------------------------------------
(* The trails between open elements.                                       *)
LEMMA OpenTrail ==
    ASSUME VariablesType, TreeOK, NEW o \in 1 .. Depth, NEW d \in o .. Depth
    PROVE  /\ Below(Node(o), Node(d))
           /\ Trail(Node(o), Node(d)) = SubSeq(Open, o + 1, d)
<1>1. /\ Open \in Seq(OpenName) /\ Len(Open) = Depth /\ Depth \in Nat
      /\ \A k \in 1 .. Depth : Open[k] = nodes[Node(k)].declaration.name
  BY OpenTyped
<1>2. PICK e, n, below :
         /\ e = Node(o) /\ n = Node(d) /\ below = SubSeq(Open, o + 1, d)
  OBVIOUS
<1>3. d \in 1 .. Depth /\ o \in 1 .. d /\ d - o \in Nat
  BY <1>1
<1>4. /\ n \in 1 .. Len(nodes) /\ Len(nodes[n].path) = d
      /\ e \in 1 .. Len(nodes) /\ Len(nodes[e].path) = o
      /\ Below(e, n)
  BY <1>2, <1>3, OpenNodes
<1>5. \A k \in 1 .. d : nodes[n].path[k] = Node(k)
  BY <1>2, <1>3 DEF TreeOK
<1>6. Trail(e, n) = below
  <2>1. Trail(e, n) = [k \in 1 .. d - o |-> nodes[nodes[n].path[o + k]].declaration.name]
    BY <1>4 DEF Trail
  <2>2. ASSUME NEW k \in 1 .. d - o
        PROVE  nodes[nodes[n].path[o + k]].declaration.name = Open[o + k]
    <3>1. o + k \in 1 .. d /\ o + k \in 1 .. Depth
      BY <1>1, <1>3
    <3> QED BY <1>1, <1>5, <3>1
  <2>3. Trail(e, n) = [k \in 1 .. d - o |-> Open[o + k]]
    BY <2>1, <2>2
  <2>4. below = [k \in 1 .. d - o |-> below[k]] /\ \A k \in 1 .. d - o : below[k] = Open[o + k]
    <3> HIDE DEF Open
    <3>1. below \in Seq(OpenName) /\ Len(below) = d - o
          /\ \A k \in 1 .. d - o : below[k] = Open[o + k]
      BY <1>1, <1>2, <1>3
    <3> QED BY <3>1
  <2> QED BY <2>3, <2>4
<1> QED BY <1>2, <1>4, <1>6

LEMMA OpenSelects ==
    ASSUME VariablesType, TreeOK, NEW o \in 1 .. Depth, NEW d \in o .. Depth, NEW expression
    PROVE  /\ Selects(expression, Node(o), Node(d))
                 <=> Selected(expression, SubSeq(Open, o + 1, d))
           /\ \A a : TakesAttribute(expression, Node(o), Node(d), a) <=>
                 /\ a \in DOMAIN nodes[Node(d)].attributes
                 /\ Visible(SubSeq(Open, o + 1, d))
                 /\ \E p \in DOMAIN expression :
                       SelectsAttribute(expression[p], SubSeq(Open, o + 1, d), a)
BY OpenTrail DEF Selects, Selected, TakesAttribute

-----------------------------------------------------------------------------
(* Start tags: no node is met, and a new element has none.                 *)
LEMMA PushContinues ==
    ASSUME VariablesType, TreeOK, EveryTagged, NEW d \in Declared, Push(d)
    PROVE  /\ Continues
           /\ \A expression : \A n \in 1 .. Len(nodes) :
                 Gathered(expression, n)' = Gathered(expression, n)
           /\ \A new : new = Len(nodes) + 1 =>
                 /\ \A expression : Gathered(expression, new)' = {}
                 /\ \A m \in 1 .. Len(nodes) : ~ Below(new, m)'
<1>1. /\ VariablesType' /\ TreeOK' /\ Grown
      /\ Depth' = Depth + 1 /\ Len(nodes') = Len(nodes) + 1
      /\ \A k \in 1 .. Depth : validation_stack'[k] = validation_stack[k]
      /\ validation_stack'[Depth + 1] = PushedEntry(d)
      /\ \A n \in 1 .. Len(nodes) : nodes'[n] = nodes[n]
      /\ nodes'[Len(nodes) + 1] = PushedNode(d)
      /\ finished' = finished
  BY PushKeepsTree
<1>2. schema' = schema
  BY DEF Push
<1>3. /\ Closed' = Closed /\ Closed \subseteq 1 .. Len(nodes)
      /\ Len(nodes) \in Nat /\ Depth \in Nat
  <2>1. Closed' = Closed
    BY <1>1 DEF Closed
  <2>2. Closed \subseteq 1 .. Len(nodes)
    BY DEF Closed, VariablesType
  <2>3. Len(nodes) \in Nat /\ Depth \in Nat
    BY DEF VariablesType, Depth
  <2> QED BY <2>1, <2>2, <2>3
<1>4. Kept
  BY <1>1, <1>2, <1>3 DEF Kept
<1>5. EveryTagged'
  <2>1. ASSUME NEW n \in 1 .. Len(nodes) + 1
        PROVE  n \in Closed' \/ \E k \in 1 .. Depth + 1 : n = Node(k)'
    <3>1. CASE n = Len(nodes) + 1
      <4>1. Depth + 1 \in 1 .. Depth + 1
        BY <1>3
      <4>2. validation_stack'[Depth + 1].node = n
        BY <1>1, <3>1 DEF PushedEntry
      <4> QED BY <4>1, <4>2 DEF Node
    <3>2. CASE n \in 1 .. Len(nodes)
      <4>1. CASE n \in Closed
        BY <1>3, <4>1
      <4>2. CASE \E k \in 1 .. Depth : n = Node(k)
        <5>1. PICK k \in 1 .. Depth : n = Node(k)
          BY <4>2
        <5>2. k \in 1 .. Depth + 1 /\ validation_stack'[k] = validation_stack[k]
          BY <1>1, <1>3
        <5> QED BY <5>1, <5>2 DEF Node
      <4> QED BY <3>2, <4>1, <4>2 DEF EveryTagged
    <3> QED BY <1>3, <3>1, <3>2
  <2> QED BY <1>1, <2>1 DEF EveryTagged
<1>6. PICK new : new = Len(nodes) + 1
  OBVIOUS
<1>7. new \in 1 .. Len(nodes') /\ DOMAIN nodes'[new].attributes = {}
  BY <1>1, <1>3, <1>6 DEF PushedNode
<1>8. ASSUME NEW m \in 1 .. Len(nodes) PROVE ~ Below(new, m)'
  <2> SUFFICES ASSUME Below(new, m)' PROVE FALSE
    OBVIOUS
  <2>1. PICK k : k = Len(nodes'[new].path)
    OBVIOUS
  <2>2. Len(nodes'[m].path) >= k /\ nodes'[m].path[k] = new
    BY <2>1 DEF Below
  <2>3. m \in 1 .. Len(nodes')
    BY <1>1, <1>3
  <2>4. \A n \in 1 .. Len(nodes') :
           /\ Len(nodes'[n].path) > 0 /\ Len(nodes'[n].path) \in Nat
           /\ \A j \in 1 .. Len(nodes'[n].path) : nodes'[n].path[j] \in 1 .. n
    <3> SUFFICES ASSUME NEW n \in 1 .. Len(nodes')
                 PROVE  /\ Len(nodes'[n].path) > 0 /\ Len(nodes'[n].path) \in Nat
                        /\ \A j \in 1 .. Len(nodes'[n].path) : nodes'[n].path[j] \in 1 .. n
      OBVIOUS
    <3>1. IsTrail(n)'
      BY <1>1 DEF TreeOK
    <3>2. nodes'[n] \in NodeType'
      BY <1>1 DEF VariablesType
    <3>3. nodes'[n].path \in Seq(Nat)
      BY <3>2 DEF NodeType
    <3>4. Len(nodes'[n].path) \in Nat
      BY <3>3
    <3> QED BY <3>1, <3>4 DEF IsTrail
  <2>5. k \in 1 .. Len(nodes'[m].path)
    BY <1>7, <2>1, <2>2, <2>3, <2>4
  <2>6. nodes'[m].path[k] \in 1 .. m
    BY <2>3, <2>4, <2>5
  <2> QED BY <1>3, <1>6, <2>2, <2>6
<1>9. GatheredOne /\ GatheredOne'
  BY <1>1, GatheredNodes, PTL
<1>10. ASSUME NEW expression, NEW n \in 1 .. Len(nodes)
       PROVE  Gathered(expression, n)' = Gathered(expression, n)
  <2>1. ASSUME NEW x \in Gathered(expression, n)' PROVE x \in Gathered(expression, n)
    <3>1. \/ \E m \in Closed : x = <<m>> /\ Selects(expression, n, m)'
          \/ \E m \in 1 .. Len(nodes'), a \in AttributeName :
                x = <<m, a>> /\ TakesAttribute(expression, n, m, a)'
      BY <1>3, <1>9, <2>1 DEF GatheredOne
    <3>2. CASE \E m \in Closed : x = <<m>> /\ Selects(expression, n, m)'
      <4>1. PICK m \in Closed : x = <<m>> /\ Selects(expression, n, m)'
        BY <3>2
      <4>2. m \in 1 .. Len(nodes)
        BY <1>3
      <4>3. Selects(expression, n, m)
        BY <1>1, <4>1, <4>2, SelectsGrown
      <4> QED BY <1>9, <4>1, <4>3 DEF GatheredOne
    <3>3. CASE \E m \in 1 .. Len(nodes'), a \in AttributeName :
                  x = <<m, a>> /\ TakesAttribute(expression, n, m, a)'
      <4>1. PICK m \in 1 .. Len(nodes'), a \in AttributeName :
               x = <<m, a>> /\ TakesAttribute(expression, n, m, a)'
        BY <3>3
      <4>2. a \in DOMAIN nodes'[m].attributes
        BY <4>1 DEF TakesAttribute
      <4>3. m \in 1 .. Len(nodes)
        BY <1>1, <1>3, <1>6, <1>7, <4>2
      <4>4. a \in DOMAIN nodes[m].attributes
        BY <1>1, <4>2, <4>3
      <4>5. TakesAttribute(expression, n, m, a)
        BY <1>1, <4>1, <4>2, <4>3, <4>4, SelectsGrown
      <4> QED BY <1>9, <4>1, <4>3, <4>5 DEF GatheredOne
    <3> QED BY <3>1, <3>2, <3>3
  <2>2. \A x \in Gathered(expression, n) : x \in Gathered(expression, n)'
    BY <1>1, <1>4, GatheredKept
  <2> QED BY <2>1, <2>2
<1>11. ASSUME NEW expression PROVE Gathered(expression, new)' = {}
  <2> SUFFICES ASSUME NEW x \in Gathered(expression, new)' PROVE FALSE
    OBVIOUS
  <2>1. \/ \E m \in Closed : Selects(expression, new, m)'
        \/ \E m \in 1 .. Len(nodes'), a \in AttributeName :
              TakesAttribute(expression, new, m, a)'
    BY <1>3, <1>9 DEF GatheredOne
  <2>2. \E m \in 1 .. Len(nodes') : Below(new, m)' /\
           (m \in 1 .. Len(nodes) \/ \E a : a \in DOMAIN nodes'[m].attributes)
    <3>1. \A m \in Closed : m \in 1 .. Len(nodes') /\ m \in 1 .. Len(nodes)
      BY <1>1, <1>3
    <3> QED BY <2>1, <3>1 DEF Selects, TakesAttribute
  <2>3. \A m \in 1 .. Len(nodes') : m = new \/ m \in 1 .. Len(nodes)
    BY <1>1, <1>3, <1>6
  <2> QED BY <1>7, <1>8, <2>2, <2>3
<1>12. MeetsInnermost
  BY <1>10 DEF MeetsInnermost
<1>13. Len(finished) <= Len(finished') /\ \A i \in 1 .. Len(finished) : finished'[i] = finished[i]
  <2>1. Len(finished) \in Nat
    BY DEF VariablesType
  <2> QED BY <1>1, <2>1
<1>14. Continues
  BY <1>1, <1>4, <1>5, <1>12, <1>13 DEF Continues
<1> QED BY <1>6, <1>8, <1>10, <1>11, <1>14

(* What a frame knows stays what its target has met.                       *)
LEMMA FrameStays ==
    ASSUME Continues, NEW comp, NEW n \in 1 .. Len(nodes), NEW frame, NEW b,
           FrameExact(comp, frame, n), b.values = frame.values, b.matched = frame.matched,
           \A f \in Field : Gathered(comp.fields[f], n)' = Gathered(comp.fields[f], n)
    PROVE  FrameExact(comp, b, n)'
<1>1. VariablesType /\ TreeOK /\ VariablesType' /\ Kept
  BY DEF Continues
<1>2. ASSUME NEW f \in Field PROVE FieldExact(b, f, Gathered(comp.fields[f], n))'
  <2>1. PICK expression, met : expression = comp.fields[f] /\ met = Gathered(expression, n)
    OBVIOUS
  <2>2. Gathered(comp.fields[f], n)' = met /\ FieldExact(frame, f, met)
    BY <2>1 DEF FrameExact
  <2>3. \A x \in met : ValueAt(x)' = ValueAt(x)
    BY <1>1, <2>1, GatheredKept
  <2>4. FieldExact(b, f, met)'
    BY <2>2, <2>3 DEF FieldExact
  <2> QED BY <2>2, <2>4
<1> QED BY <1>2 DEF FrameExact

LEMMA StartKeepsTables ==
    ASSUME RegularSelectors, VariablesType, TreeOK, EveryTagged,
           NEW cs, StructOK(cs), FramesStruct(cs), TablesStruct(cs),
           NEW d \in Declared, Push(d), NEW b,
           \/ d.name # Skipped /\ Visible(Open) /\ b = Started(cs, d.name)
           \/ d.name = Skipped /\ b = StartedSkipped(cs)
    PROVE  TablesStruct(b)'
<1>1. /\ Continues
      /\ \A expression : \A n \in 1 .. Len(nodes) :
            Gathered(expression, n)' = Gathered(expression, n)
      /\ \A new : new = Len(nodes) + 1 => \A expression : Gathered(expression, new)' = {}
  BY PushContinues
<1>2. PICK x, c, comp, o, e, open, inner, frames, moved, entered, new, next :
         /\ x = d.name /\ c = cs.constraint /\ comp = Compiled[c] /\ o = cs.owner_depth
         /\ e = Node(o) /\ open = Open /\ inner = Append(open, x)
         /\ frames = cs.collection_stack
         /\ moved = IF x # Skipped THEN StartedFrames(cs, x) ELSE SkippedFrames(cs)
         /\ entered = IF x # Skipped THEN b.selector.entered_match ELSE FALSE
         /\ new = NewFrame(c) /\ next = b.collection_stack
  OBVIOUS
<1>3. /\ x \in OpenName /\ Open' = inner /\ open \in Seq(OpenName) /\ Len(open) = Depth
      /\ Depth \in Nat /\ Depth' = Depth + 1 /\ Len(inner) = Depth + 1
      /\ VariablesType' /\ Kept /\ Len(nodes') = Len(nodes) + 1 /\ finished' = finished
      /\ \A k \in 1 .. Depth : validation_stack'[k] = validation_stack[k]
      /\ validation_stack'[Depth + 1] = PushedEntry(d) /\ Len(nodes) \in Nat
  <2>1. x \in OpenName /\ Open' = inner /\ open \in Seq(OpenName) /\ Len(open) = Depth
        /\ Depth \in Nat
    BY <1>2, PushedOpen, OpenTyped
  <2>2. Len(inner) = Depth + 1
    BY <1>2, <2>1, TopOfAppended
  <2>3. /\ Depth' = Depth + 1 /\ Len(nodes') = Len(nodes) + 1 /\ finished' = finished
        /\ \A k \in 1 .. Depth : validation_stack'[k] = validation_stack[k]
        /\ validation_stack'[Depth + 1] = PushedEntry(d)
    BY PushKeepsTree
  <2>4. Len(nodes) \in Nat
    BY DEF VariablesType
  <2> QED BY <1>1, <2>1, <2>2, <2>3, <2>4 DEF Continues
<1>4. /\ IsStruct(cs) /\ c \in Constraint /\ o \in 1 .. Depth /\ e \in 1 .. Len(nodes)
      /\ FramesOK(comp, frames, open, o) /\ TablesOf(c, comp, o, e, frames, cs.key_table)
  <2>1. IsStruct(cs) /\ c \in Constraint /\ o \in 1 .. Depth /\ FramesOK(comp, frames, open, o)
    BY <1>2 DEF StructOK, FramesStruct
  <2>2. e \in 1 .. Len(nodes)
    BY <1>2, <2>1, OpenNodes
  <2> QED BY <1>2, <2>1, <2>2 DEF TablesStruct
<1>5. /\ b.constraint = c /\ b.owner_depth = o /\ b.key_table = cs.key_table
      /\ next = IF entered THEN Append(moved, new) ELSE moved
      /\ FramesOK(comp, next, inner, o)
  <2>1. b.constraint = c /\ b.owner_depth = o
    BY <1>2, <1>4, StructSteps DEF SameConstraint
  <2>2. \/ x # Skipped /\ Visible(Open) /\ b = Started(cs, x)
        \/ x = Skipped /\ b = StartedSkipped(cs)
    BY <1>2
  <2>3. /\ b.key_table = cs.key_table
        /\ next = IF entered THEN Append(moved, new) ELSE moved
    <3>1. CASE x # Skipped
      BY <1>2, <1>4, <2>2, <3>1, FrameSteps
    <3>2. CASE x = Skipped
      BY <1>2, <1>4, <2>2, <3>2, FrameSteps
    <3> QED BY <3>1, <3>2
  <2>4. FramesOK(Compiled[cs.constraint], b.collection_stack, Append(Open, x), cs.owner_depth)
    BY <1>3, <2>2, StructStarts
  <2> QED BY <1>2, <2>1, <2>3, <2>4
<1>6. /\ frames \in Seq(FrameType(comp)) /\ Len(frames) \in Nat
      /\ \A k \in o .. Depth : IsTarget(comp, open, o, k) =>
            Rank(comp, open, o, k) \in 1 .. Len(frames)
      /\ \A i \in 1 .. Len(frames) : \E k \in o .. Depth :
            IsTarget(comp, open, o, k) /\ Rank(comp, open, o, k) = i
  <2>1. Len(open) \in Nat /\ o \in Nat
    BY <1>3, <1>4
  <2>2. ByRank(comp, frames, open, o, Len(open))
    BY <1>4, <2>1, Ranked
  <2> QED BY <1>3, <2>2 DEF ByRank
<1>7. /\ next \in Seq(FrameType(comp)) /\ Rank(comp, inner, o, Depth + 1) = Len(next)
      /\ \A k \in o .. Depth + 1 : IsTarget(comp, inner, o, k) =>
            Rank(comp, inner, o, k) \in 1 .. Len(next)
      /\ \A k, j \in o .. Depth + 1 :
            IsTarget(comp, inner, o, k) /\ IsTarget(comp, inner, o, j) /\ k < j =>
               Rank(comp, inner, o, k) < Rank(comp, inner, o, j)
  <2>1. Len(inner) \in Nat /\ o \in Nat /\ Len(inner) \in o .. Len(inner)
    BY <1>3, <1>4
  <2>2. ByRank(comp, next, inner, o, Len(inner))
    BY <1>5, <2>1, Ranked
  <2> QED BY <1>3, <2>1, <2>2 DEF ByRank
<1>8. \A k \in o .. Depth :
         /\ IsTarget(comp, inner, o, k) <=> IsTarget(comp, open, o, k)
         /\ Rank(comp, inner, o, k) = Rank(comp, open, o, k)
  <2>1. SameBelow(open, inner, o, Depth)
    <3>1. o \in 0 .. Len(open)
      BY <1>3, <1>4
    <3>2. \A k \in o .. Len(open) : SubSeq(Append(open, x), o + 1, k) = SubSeq(open, o + 1, k)
      BY <1>3, <3>1, SuffixGrows
    <3> QED BY <1>2, <1>3, <3>2 DEF SameBelow
  <2>2. o \in Nat /\ Depth \in Nat
    BY <1>3, <1>4
  <2> QED BY <2>1, <2>2, RanksKept
<1>9. /\ Len(moved) = Len(frames)
      /\ \A i \in 1 .. Len(frames) :
            moved[i].values = frames[i].values /\ moved[i].matched = frames[i].matched
  <2>1. Len(moved) = Len(frames)
    BY <1>2, <1>6 DEF StartedFrames, SkippedFrames
  <2>2. ASSUME NEW i \in 1 .. Len(frames)
        PROVE  moved[i].values = frames[i].values /\ moved[i].matched = frames[i].matched
    <3>1. PICK frame \in FrameType(comp) : frame = frames[i]
      BY <1>6
    <3>2. \E fields : moved[i] = [frame EXCEPT !.fields = fields]
      BY <1>2, <3>1 DEF StartedFrames, SkippedFrames
    <3> QED BY <3>1, <3>2 DEF FrameType
  <2> QED BY <2>1, <2>2
<1>10. ASSUME NEW k \in o .. Depth, NEW n, NEW i,
              IsTarget(comp, inner, o, k), n = Node(k), i = Rank(comp, inner, o, k),
              FramesExact(comp, o, frames)
       PROVE  FrameExact(comp, next[i], n)'
  <2>1. i \in 1 .. Len(frames) /\ IsTarget(comp, open, o, k) /\ i = Rank(comp, open, o, k)
    BY <1>6, <1>8, <1>10
  <2>2. n \in 1 .. Len(nodes)
    <3>1. k \in 1 .. Depth
      BY <1>3, <1>4
    <3> QED BY <1>10, <3>1, OpenNodes
  <2>3. FrameExact(comp, frames[i], n)
    BY <1>2, <1>10, <2>1, <2>2 DEF FramesExact
  <2>4. next[i] = moved[i]
    <3>1. i \in 1 .. Len(moved)
      BY <1>9, <2>1
    <3> QED BY <1>5, <3>1
  <2>5. PICK frame, after : frame = frames[i] /\ after = next[i]
    OBVIOUS
  <2>6. after.values = frame.values /\ after.matched = frame.matched
    BY <1>9, <2>1, <2>4, <2>5
  <2>7. \A f \in Field : Gathered(comp.fields[f], n)' = Gathered(comp.fields[f], n)
    <3> SUFFICES ASSUME NEW f \in Field
                 PROVE  Gathered(comp.fields[f], n)' = Gathered(comp.fields[f], n)
      OBVIOUS
    <3>1. PICK expression : expression = comp.fields[f]
      OBVIOUS
    <3> QED BY <1>1, <2>2, <3>1
  <2>8. FrameExact(comp, after, n)'
    BY <1>1, <2>2, <2>3, <2>5, <2>6, <2>7, FrameStays
  <2> QED BY <2>5, <2>8
<1>11. ASSUME NEW n, NEW i, IsTarget(comp, inner, o, Depth + 1), n = Len(nodes) + 1,
              i = Rank(comp, inner, o, Depth + 1)
       PROVE  FrameExact(comp, next[i], n)'
  <2>1. Depth + 1 \in o .. Depth + 1
    BY <1>3, <1>4
  <2>2. i \in 1 .. Len(next) /\ i = Len(next)
    BY <1>7, <1>11, <2>1
  <2>3. entered
    <3> SUFFICES ASSUME ~ entered PROVE FALSE
      OBVIOUS
    <3>1. i = Len(frames) /\ i \in 1 .. Len(frames)
      BY <1>5, <1>9, <2>2
    <3>2. PICK k \in o .. Depth : IsTarget(comp, open, o, k) /\ Rank(comp, open, o, k) = i
      BY <1>6, <3>1
    <3>3. k \in o .. Depth + 1 /\ k < Depth + 1
      BY <1>3, <1>4
    <3>4. Rank(comp, inner, o, k) < Rank(comp, inner, o, Depth + 1)
      BY <1>7, <1>8, <1>11, <2>1, <3>2, <3>3
    <3> QED BY <1>8, <1>11, <3>1, <3>2, <3>4
  <2>4. next = Append(moved, new) /\ Len(moved) \in Nat /\ i = Len(moved) + 1
    <3>1. next = Append(moved, new)
      BY <1>5, <2>3
    <3>2. moved = [j \in 1 .. Len(frames) |-> moved[j]]
      BY <1>2 DEF StartedFrames, SkippedFrames
    <3> QED BY <1>6, <1>9, <2>2, <3>1, <3>2
  <2>5. next[i] = new
    <3>1. moved = [j \in 1 .. Len(frames) |-> moved[j]]
      BY <1>2 DEF StartedFrames, SkippedFrames
    <3> QED BY <1>6, <2>4, <3>1
  <2>6. \A f \in Field : new.matched[f] = FALSE /\ new.values[f] = Absent
    BY <1>2 DEF NewFrame
  <2>7. ASSUME NEW f \in Field PROVE FieldExact(new, f, Gathered(comp.fields[f], n))'
    <3>1. PICK expression : expression = comp.fields[f]
      OBVIOUS
    <3>2. Gathered(expression, n)' = {}
      BY <1>1, <1>11
    <3>3. FieldExact(new, f, {})'
      BY <2>6 DEF FieldExact
    <3> QED BY <3>1, <3>2, <3>3
  <2>8. FrameExact(comp, new, n)'
    BY <2>7 DEF FrameExact
  <2> QED BY <2>5, <2>8
<1>12. ASSUME FramesExact(comp, o, frames) PROVE FramesExact(comp, o, next)'
  <2>1. ASSUME NEW k \in o .. Depth + 1, NEW n, NEW i,
               IsTarget(comp, inner, o, k), n = Node(k)', i = Rank(comp, inner, o, k)
        PROVE  FrameExact(comp, next[i], n)'
    <3>1. CASE k \in o .. Depth
      <4>1. n = Node(k)
        <5>1. k \in 1 .. Depth
          BY <1>3, <1>4, <3>1
        <5> QED BY <1>3, <2>1, <5>1 DEF Node
      <4> QED BY <1>10, <1>12, <2>1, <3>1, <4>1
    <3>2. CASE k = Depth + 1
      <4>1. n = Len(nodes) + 1
        BY <1>3, <2>1, <3>2 DEF Node, PushedEntry
      <4> QED BY <1>11, <2>1, <3>2, <4>1
    <3> QED BY <1>3, <1>4, <3>1, <3>2
  <2> QED BY <1>3, <2>1 DEF FramesExact, Rank, TargetsUpTo
<1>13. /\ TableExact(c, e, cs.key_table)'
       /\ Shadowed(c, e) => Shadowed(c, e)'
  <2>1. EndedTargets(c, e)' = EndedTargets(c, e)
    <3>1. EndedTargets(c, e)' \cap (1 .. Len(finished)) = EndedTargets(c, e)
      BY <1>1, <1>4, EndedKept
    <3>2. EndedTargets(c, e)' \subseteq 1 .. Len(finished)
      BY <1>3 DEF EndedTargets
    <3> QED BY <3>1, <3>2
  <2>2. TableExact(c, e, cs.key_table)
    BY <1>4 DEF TablesOf
  <2>3. PICK table : table = cs.key_table
    OBVIOUS
  <2>4. TableExact(c, e, table)'
    BY <1>1, <1>4, <2>1, <2>2, <2>3, TableKept
  <2> QED BY <1>3, <1>4, <2>3, <2>4, ShadowedKept
<1>14. TablesOf(c, comp, o, e, next, cs.key_table)'
  BY <1>4, <1>12, <1>13 DEF TablesOf
<1>15. e = Node(o)' /\ Compiled'[c] = comp
  BY <1>2, <1>3, <1>4 DEF Node, Kept, Compiled
<1> QED BY <1>2, <1>5, <1>14, <1>15 DEF TablesStruct

(* A new constraint has met nothing yet.                                   *)
LEMMA NewKeepsTables ==
    ASSUME RegularSelectors, VariablesType, TreeOK, EveryTagged,
           NEW d \in Declared, Push(d), NEW c \in Constraint,
           NEW b, b = NewConstraint(c, Depth + 1)
    PROVE  TablesStruct(b)'
<1>1. /\ Continues
      /\ \A new : new = Len(nodes) + 1 =>
            /\ \A expression : Gathered(expression, new)' = {}
            /\ \A m \in 1 .. Len(nodes) : ~ Below(new, m)'
  BY PushContinues
<1>2. PICK comp, o, e, inner, frames :
         /\ comp = Compiled[c] /\ o = Depth + 1 /\ e = Len(nodes) + 1
         /\ inner = Append(Open, d.name) /\ frames = b.collection_stack
  OBVIOUS
<1>3. /\ Open' = inner /\ inner \in Seq(OpenName) /\ Len(inner) = o /\ o \in Nat
      /\ Depth' = o /\ Kept /\ Len(nodes') = e /\ finished' = finished
      /\ validation_stack'[o] = PushedEntry(d)
  <2>1. Open' = inner /\ d.name \in OpenName /\ Open \in Seq(OpenName) /\ Len(Open) = Depth
        /\ Depth \in Nat
    BY <1>2, PushedOpen, OpenTyped
  <2>2. inner \in Seq(OpenName) /\ Len(inner) = o
    BY <1>2, <2>1, TopOfAppended
  <2>3. /\ Depth' = o /\ Len(nodes') = e /\ finished' = finished
        /\ validation_stack'[o] = PushedEntry(d)
    BY <1>2, PushKeepsTree
  <2> QED BY <1>1, <1>2, <2>1, <2>2, <2>3 DEF Continues
<1>4. /\ b.constraint = c /\ b.owner_depth = o /\ b.key_table = <<>>
      /\ Len(frames) > 0 => frames = <<NewFrame(c)>>
      /\ FramesOK(comp, frames, inner, o)
  <2>1. b.constraint = c /\ b.owner_depth = o
    BY <1>2, NewStruct
  <2>2. b.key_table = <<>> /\ (Len(frames) > 0 => frames = <<NewFrame(c)>>)
    BY <1>2 DEF NewConstraint
  <2>3. FramesOK(Compiled[c], b.collection_stack, inner, o)
    BY <1>2, <1>3, NewStructFrames
  <2> QED BY <1>2, <2>1, <2>2, <2>3
<1>5. Compiled'[c] = comp /\ e = Node(o)'
  BY <1>2, <1>3 DEF Kept, Compiled, Node, PushedEntry
<1>6. EndedTargets(c, e)' = {}
  <2> SUFFICES ASSUME NEW i \in 1 .. Len(finished'), finished'[i] \in Targets(c, e)'
               PROVE  FALSE
    BY DEF EndedTargets
  <2>1. finished \in Seq(1 .. Len(nodes))
    BY DEF VariablesType
  <2>2. PICK m \in 1 .. Len(nodes) : m = finished'[i]
    BY <1>3, <2>1
  <2>3. Below(e, m)'
    BY <2>2 DEF Targets, Selects
  <2> QED BY <1>1, <1>2, <2>3
<1>7. TableExact(c, e, <<>>)'
  <2>1. Len(<<>>) = Cardinality({})
    BY FS_EmptySet
  <2> QED BY <1>6, <2>1 DEF TableExact, RowsExact
<1>8. FramesExact(comp, o, frames)'
  <2>1. ASSUME NEW k \in o .. Depth', NEW n, NEW i,
               IsTarget(comp, inner, o, k), n = Node(k)', i = Rank(comp, inner, o, k)
        PROVE  FrameExact(comp, frames[i], n)'
    <3>1. k = o /\ n = e
      BY <1>3, <1>5, <2>1
    <3>2. ByRank(comp, frames, inner, o, Len(inner))
      BY <1>3, <1>4, Ranked
    <3>3. i \in 1 .. Len(frames) /\ Len(frames) \in Nat
      BY <1>3, <2>1, <3>2 DEF ByRank
    <3>4. frames[i] = NewFrame(c)
      BY <1>4, <3>3
    <3>5. PICK new : new = NewFrame(c)
      OBVIOUS
    <3>6. \A f \in Field : new.matched[f] = FALSE /\ new.values[f] = Absent
      BY <3>5 DEF NewFrame
    <3>7. ASSUME NEW f \in Field PROVE FieldExact(new, f, Gathered(comp.fields[f], n))'
      <4>1. PICK expression : expression = comp.fields[f]
        OBVIOUS
      <4>2. Gathered(expression, n)' = {}
        BY <1>1, <1>2, <3>1
      <4>3. FieldExact(new, f, {})'
        BY <3>6 DEF FieldExact
      <4> QED BY <4>1, <4>2, <4>3
    <3>8. FrameExact(comp, new, n)'
      BY <3>7 DEF FrameExact
    <3>9. frames[i] = new
      BY <3>4, <3>5
    <3> QED BY <3>8, <3>9
  <2> QED BY <1>3, <2>1 DEF FramesExact, Rank, TargetsUpTo
<1>9. TablesOf(c, comp, o, e, frames, <<>>)'
  BY <1>7, <1>8 DEF TablesOf
<1> QED BY <1>2, <1>4, <1>5, <1>9 DEF TablesStruct

LEMMA PushKeepsTables ==
    ASSUME RegularSelectors, OwnersInv, FramesInv, TablesInv,
           NEW d \in Declared, Push(d), PushedStructs(d)
    PROVE  TablesInv'
<1>1. /\ VariablesType /\ TreeOK /\ StructsOK /\ EveryTagged
      /\ \A cs \in active_constraints : StructOK(cs) /\ FramesStruct(cs) /\ TablesStruct(cs)
  BY DEF OwnersInv, StructsOK, FramesInv, TablesInv
<1>2. EveryTagged'
  BY <1>1, PushContinues DEF Continues
<1>3. ASSUME NEW b \in active_constraints' PROVE TablesStruct(b)'
  <2>1. CASE \E cs \in active_constraints :
                \/ d.name # Skipped /\ Visible(Open) /\ b = Started(cs, d.name)
                \/ d.name = Skipped /\ b = StartedSkipped(cs)
    BY <1>1, <2>1, StartKeepsTables
  <2>2. CASE \E c \in d.constraints : b = NewConstraint(c, Depth + 1)
    <3>1. PICK c \in d.constraints : b = NewConstraint(c, Depth + 1)
      BY <2>2
    <3>2. c \in Constraint
      BY <1>1, DeclaredTyped
    <3> QED BY <1>1, <3>1, <3>2, NewKeepsTables
  <2> QED BY <1>3, <2>1, <2>2 DEF PushedStructs
<1> QED BY <1>2, <1>3 DEF TablesInv

-----------------------------------------------------------------------------
(* An attribute is met by the expressions that select it.                  *)
LEMMA AttributeSets ==
    ASSUME VariablesType, TreeOK, in_attributes => Depth > 0, NEW name, NEW value,
           Attribute(name, value), NEW top, top = Node(Depth)
    PROVE  /\ Depth \in 1 .. Depth /\ top \in 1 .. Len(nodes)
           /\ name \in AttributeName /\ name \notin DOMAIN nodes[top].attributes
           /\ DOMAIN nodes'[top].attributes = DOMAIN nodes[top].attributes \cup {name}
           /\ nodes'[top].attributes[name] = value
           /\ \A a \in DOMAIN nodes[top].attributes :
                 nodes'[top].attributes[a] = nodes[top].attributes[a]
           /\ \A n \in 1 .. Len(nodes) :
                 nodes'[n].content = nodes[n].content /\ (n # top => nodes'[n] = nodes[n])
           /\ finished' = finished /\ schema' = schema
<1> DEFINE attributes == [a \in DOMAIN nodes[top].attributes \cup {name} |->
                             IF a = name THEN value ELSE nodes[top].attributes[a]]
<1>1. Depth \in 1 .. Depth /\ top \in 1 .. Len(nodes)
  <2>1. Depth > 0 /\ Depth \in Nat
    BY DEF Attribute, Depth, VariablesType
  <2> QED BY <2>1, OpenNodes
<1>2. /\ nodes' = [nodes EXCEPT ![top].attributes = attributes]
      /\ name \in nodes[top].declaration.attributes
      /\ name \notin DOMAIN nodes[top].attributes
      /\ finished' = finished /\ schema' = schema
  BY DEF Attribute, Innermost, Top, Node, Depth
<1>3. nodes \in Seq(NodeType) /\ \A n \in 1 .. Len(nodes) : nodes[n] \in NodeType
  BY DEF VariablesType
<1>4. name \in AttributeName
  <2>1. nodes[top].declaration \in schema.declarations \cup {SkippedElement}
    BY <1>1, <1>3 DEF NodeType
  <2>2. CASE nodes[top].declaration = SkippedElement
    BY <1>2, <2>2 DEF SkippedElement
  <2>3. CASE nodes[top].declaration \in schema.declarations
    BY <1>2, <2>3, DeclarationAssumption DEF VariablesType
  <2> QED BY <2>1, <2>2, <2>3
<1>5. /\ DOMAIN attributes = DOMAIN nodes[top].attributes \cup {name}
      /\ attributes[name] = value
      /\ \A a \in DOMAIN nodes[top].attributes : attributes[a] = nodes[top].attributes[a]
  BY <1>2
<1> HIDE DEF attributes
<1>6. \A n \in 1 .. Len(nodes) : nodes'[n] =
         IF n = top THEN [nodes[top] EXCEPT !.attributes = attributes] ELSE nodes[n]
  BY <1>1, <1>2, <1>3
<1>7. /\ [nodes[top] EXCEPT !.attributes = attributes].attributes = attributes
      /\ [nodes[top] EXCEPT !.attributes = attributes].content = nodes[top].content
  <2>1. nodes[top] \in NodeType
    BY <1>1, <1>3
  <2> QED BY <2>1 DEF NodeType
<1>8. nodes'[top].attributes = attributes
  BY <1>1, <1>6, <1>7
<1>9. \A n \in 1 .. Len(nodes) :
         nodes'[n].content = nodes[n].content /\ (n # top => nodes'[n] = nodes[n])
  BY <1>6, <1>7
<1> QED BY <1>1, <1>2, <1>4, <1>5, <1>8, <1>9

LEMMA TagsStay ==
    ASSUME EveryTagged, Len(nodes') = Len(nodes), Closed \subseteq Closed',
           \A k \in 1 .. Depth : (k \in 1 .. Depth' /\ Node(k)' = Node(k)) \/ Node(k) \in Closed'
    PROVE  EveryTagged'
<1>1. ASSUME NEW n \in 1 .. Len(nodes)
      PROVE  n \in Closed' \/ \E k \in 1 .. Depth' : n = Node(k)'
  <2>1. CASE n \in Closed
    BY <2>1
  <2>2. CASE \E k \in 1 .. Depth : n = Node(k)
    <3>1. PICK k \in 1 .. Depth : n = Node(k)
      BY <2>2
    <3> QED BY <3>1
  <2> QED BY <2>1, <2>2 DEF EveryTagged
<1> QED BY <1>1 DEF EveryTagged

LEMMA AttributeContinues ==
    ASSUME OwnersInv, EveryTagged,
           NEW name, NEW value \in AttributeValue \cup {Unassessed}, Attribute(name, value),
           NEW top, top = Node(Depth)
    PROVE  /\ Continues
           /\ \A expression : \A n \in 1 .. Len(nodes) :
                 /\ Gathered(expression, n)' =
                       Gathered(expression, n) \cup
                          {x \in {<<top, name>>} : TakesAttribute(expression, n, top, name)'}
                 /\ <<top, name>> \notin Gathered(expression, n)
           /\ ValueAt(<<top, name>>)' = IF value = Unassessed THEN Absent ELSE value
<1>1. VariablesType /\ TreeOK /\ StructsOK /\ (in_attributes => Depth > 0)
  BY DEF OwnersInv
<1>2. /\ VariablesType' /\ TreeOK' /\ Grown
      /\ Len(nodes') = Len(nodes) /\ Depth' = Depth
      /\ \A k \in 1 .. Depth : Node(k)' = Node(k)
      /\ Closed' = Closed
  BY <1>1, AttributeKeepsTree
<1>3. /\ Depth \in 1 .. Depth /\ top \in 1 .. Len(nodes)
      /\ name \in AttributeName /\ name \notin DOMAIN nodes[top].attributes
      /\ DOMAIN nodes'[top].attributes = DOMAIN nodes[top].attributes \cup {name}
      /\ nodes'[top].attributes[name] = value
      /\ \A a \in DOMAIN nodes[top].attributes :
            nodes'[top].attributes[a] = nodes[top].attributes[a]
      /\ \A n \in 1 .. Len(nodes) :
            nodes'[n].content = nodes[n].content /\ (n # top => nodes'[n] = nodes[n])
      /\ finished' = finished /\ schema' = schema
  BY <1>1, AttributeSets
<1>4. Closed \subseteq 1 .. Len(nodes) /\ Len(nodes) \in Nat
  BY <1>1 DEF Closed, VariablesType
<1>5. Kept
  <2>1. \A n \in 1 .. Len(nodes) : \A a \in DOMAIN nodes[n].attributes :
           /\ a \in DOMAIN nodes'[n].attributes
           /\ nodes'[n].attributes[a] = nodes[n].attributes[a]
    BY <1>3
  <2> QED BY <1>2, <1>3, <1>4, <2>1 DEF Kept
<1>6. EveryTagged'
  BY <1>2, TagsStay
<1>7. GatheredOne /\ GatheredOne'
  BY <1>1, <1>2, GatheredNodes, PTL
<1>8. ASSUME NEW expression, NEW n \in 1 .. Len(nodes)
      PROVE  /\ Gathered(expression, n)' =
                   Gathered(expression, n) \cup
                      {x \in {<<top, name>>} : TakesAttribute(expression, n, top, name)'}
             /\ <<top, name>> \notin Gathered(expression, n)
  <2>1. ASSUME NEW x \in Gathered(expression, n)'
        PROVE  \/ x \in Gathered(expression, n)
               \/ x = <<top, name>> /\ TakesAttribute(expression, n, top, name)'
    <3>1. \/ \E m \in Closed : x = <<m>> /\ Selects(expression, n, m)'
          \/ \E m \in 1 .. Len(nodes), a \in AttributeName :
                x = <<m, a>> /\ TakesAttribute(expression, n, m, a)'
      BY <1>2, <1>7, <2>1 DEF GatheredOne
    <3>2. CASE \E m \in Closed : x = <<m>> /\ Selects(expression, n, m)'
      <4>1. PICK m \in Closed : x = <<m>> /\ Selects(expression, n, m)'
        BY <3>2
      <4>2. m \in 1 .. Len(nodes)
        BY <1>4
      <4>3. Selects(expression, n, m)
        BY <1>1, <1>2, <4>1, <4>2, SelectsGrown
      <4> QED BY <1>7, <4>1, <4>3 DEF GatheredOne
    <3>3. CASE \E m \in 1 .. Len(nodes), a \in AttributeName :
                  x = <<m, a>> /\ TakesAttribute(expression, n, m, a)'
      <4>1. PICK m \in 1 .. Len(nodes), a \in AttributeName :
               x = <<m, a>> /\ TakesAttribute(expression, n, m, a)'
        BY <3>3
      <4>2. a \in DOMAIN nodes'[m].attributes
        BY <4>1 DEF TakesAttribute
      <4>3. CASE m = top /\ a = name
        BY <4>1, <4>3
      <4>4. CASE ~ (m = top /\ a = name)
        <5>1. a \in DOMAIN nodes[m].attributes
          BY <1>3, <4>2, <4>4
        <5>2. TakesAttribute(expression, n, m, a)
          BY <1>1, <1>2, <4>1, <4>2, <5>1, SelectsGrown
        <5> QED BY <1>7, <4>1, <5>2 DEF GatheredOne
      <4> QED BY <4>3, <4>4
    <3> QED BY <3>1, <3>2, <3>3
  <2>2. \A x \in Gathered(expression, n) : x \in Gathered(expression, n)'
    BY <1>1, <1>2, <1>5, GatheredKept
  <2>3. TakesAttribute(expression, n, top, name)' => <<top, name>> \in Gathered(expression, n)'
    BY <1>2, <1>3, <1>7 DEF GatheredOne
  <2>4. <<top, name>> \notin Gathered(expression, n)
    <3> SUFFICES ASSUME <<top, name>> \in Gathered(expression, n) PROVE FALSE
      OBVIOUS
    <3>1. PICK m \in 1 .. Len(nodes), a \in AttributeName :
             <<top, name>> = <<m, a>> /\ TakesAttribute(expression, n, m, a)
      <4>1. \A m : <<top, name>> # <<m>>
        OBVIOUS
      <4> QED BY <1>7, <4>1 DEF GatheredOne
    <3>2. m = top /\ a = name
      BY <3>1
    <3> QED BY <1>3, <3>1, <3>2 DEF TakesAttribute
  <2> QED BY <2>1, <2>2, <2>3, <2>4
<1>9. MeetsInnermost
  <2>1. ASSUME NEW expression, NEW n \in 1 .. Len(nodes),
               TakesAttribute(expression, n, top, name)'
        PROVE  Below(n, top)
    <3>1. Below(n, top)'
      BY <2>1 DEF TakesAttribute
    <3> QED BY <1>1, <1>2, <1>3, <3>1, TrailGrown
  <2>2. ASSUME NEW expression, NEW n \in 1 .. Len(nodes), NEW x \in Gathered(expression, n)'
        PROVE  x \in Gathered(expression, n) \/ Below(n, top)
    BY <1>8, <2>1
  <2> QED BY <1>3, <2>2 DEF MeetsInnermost
<1>10. ValueAt(<<top, name>>)' = IF value = Unassessed THEN Absent ELSE value
  <2>1. Len(<<top, name>>) = 2 /\ <<top, name>>[1] = top /\ <<top, name>>[2] = name
    OBVIOUS
  <2> QED BY <1>3, <2>1 DEF ValueAt
<1>11. Len(finished) <= Len(finished') /\ \A i \in 1 .. Len(finished) : finished'[i] = finished[i]
  <2>1. Len(finished) \in Nat
    BY <1>1 DEF VariablesType
  <2> QED BY <1>3, <2>1
<1>12. Continues
  BY <1>1, <1>2, <1>5, <1>6, <1>9, <1>11 DEF Continues
<1> QED BY <1>8, <1>10, <1>12

LEMMA FieldsRegular ==
    ASSUME RegularFields, VariablesType, NEW c \in Constraint
    PROVE  \A f \in Field : OfRegularPaths(Compiled[c].fields[f])
BY DEF RegularFields, VariablesType, Constraint, Compiled

LEMMA BoundFrames ==
    ASSUME NEW cs, IsStruct(cs), NEW frames, frames = cs.collection_stack,
           NEW T, frames \in Seq(T), \A frame \in T : \A g, h :
              LET b == [frame EXCEPT !.values = g, !.matched = h] IN
              b.values = g /\ b.matched = h,
           NEW name, NEW value, NEW b, b = Bound(cs, MatchingFields(cs, name), value)
    PROVE  LET m == Len(frames)
               next == b.collection_stack
           IN  /\ b.constraint = cs.constraint /\ b.owner_depth = cs.owner_depth
               /\ b.key_table = cs.key_table /\ Len(next) = m
               /\ \A i \in 1 .. m : i # m => next[i] = frames[i]
               /\ m > 0 => \A f \in Field :
                     LET bound == MatchesAttribute(Compiled[cs.constraint].fields[f],
                                                   frames[m].fields[f], name)
                     IN  /\ next[m].matched[f] <=> bound \/ frames[m].matched[f]
                         /\ next[m].values[f] = IF bound /\ value # Unassessed THEN value
                                                ELSE frames[m].values[f]
<1>1. PICK fs, m, next :
         fs = MatchingFields(cs, name) /\ m = Len(frames) /\ next = b.collection_stack
  OBVIOUS
<1>2. b.constraint = cs.constraint /\ b.owner_depth = cs.owner_depth
  BY StructSteps DEF SameConstraint
<1>3. m \in Nat /\ (m = 0 <=> frames = <<>>)
  BY <1>1
<1>4. m > 0 => fs = {f \in Field : MatchesAttribute(Compiled[cs.constraint].fields[f],
                                                    frames[m].fields[f], name)}
  BY <1>1, <1>3 DEF MatchingFields, Top
<1>5. CASE fs = {}
  <2>1. b = cs
    BY <1>1, <1>5 DEF Bound
  <2>2. m > 0 => \A f \in Field : ~ MatchesAttribute(Compiled[cs.constraint].fields[f],
                                                     frames[m].fields[f], name)
    BY <1>4, <1>5
  <2> QED BY <1>1, <1>2, <2>1, <2>2
<1>6. CASE fs # {}
  <2>1. m > 0
    BY <1>1, <1>3, <1>6 DEF MatchingFields
  <2>2. PICK frame, new, bound :
           /\ frame = frames[m] /\ new = BoundFrame(frame, fs, value)
           /\ bound = [frames EXCEPT ![m] = new]
    OBVIOUS
  <2>3. PICK values, matched :
           /\ values = [f \in Field |-> IF f \in fs /\ value # Unassessed THEN value
                                                                     ELSE frame.values[f]]
           /\ matched = [f \in Field |-> f \in fs \/ frame.matched[f]]
    OBVIOUS
  <2>4. b = [cs EXCEPT !.collection_stack = bound]
    BY <1>1, <1>6, <2>2 DEF Bound
  <2>5. next = bound /\ b.key_table = cs.key_table
    BY <1>1, <2>4 DEF IsStruct
  <2>6. frame \in T
    BY <1>1, <1>3, <2>1, <2>2
  <2>7. new = [frame EXCEPT !.values = values, !.matched = matched]
    BY <2>2, <2>3 DEF BoundFrame
  <2>8. new.values = values /\ new.matched = matched
    BY <2>6, <2>7
  <2>9. Len(next) = m /\ next[m] = new /\ \A i \in 1 .. m : i # m => next[i] = frames[i]
    BY <1>1, <1>3, <2>1, <2>2, <2>5
  <2>10. ASSUME NEW f \in Field
         PROVE  /\ next[m].matched[f] <=> (f \in fs \/ frames[m].matched[f])
                /\ next[m].values[f] = IF f \in fs /\ value # Unassessed THEN value
                                       ELSE frames[m].values[f]
    <3>1. next[m].matched = matched /\ next[m].values = values
      BY <2>8, <2>9
    <3>2. matched[f] = (f \in fs \/ frame.matched[f])
      BY <2>3
    <3>3. matched[f] <=> (f \in fs \/ frame.matched[f])
      BY <3>2
    <3> QED BY <2>2, <2>3, <3>1, <3>3
  <2>11. \A f \in Field : f \in fs <=> MatchesAttribute(Compiled[cs.constraint].fields[f],
                                                        frames[m].fields[f], name)
    BY <1>4, <2>1
  <2> QED BY <1>1, <1>2, <2>5, <2>9, <2>10, <2>11
<1> QED BY <1>5, <1>6

(* A node more: what a frame that takes it knows.                          *)
TakesNode(comp, n, frame, b, y, taking) ==
    \A f \in Field :
        /\ Gathered(comp.fields[f], n)' =
              Gathered(comp.fields[f], n) \cup {x \in {y} : f \in taking}
        /\ y \notin Gathered(comp.fields[f], n)
        /\ b.matched[f] <=> f \in taking \/ frame.matched[f]
        /\ f \notin taking => b.values[f] = frame.values[f]
        /\ f \in taking /\ ~ frame.matched[f] => b.values[f] = ValueAt(y)'

LEMMA FrameMeets ==
    ASSUME Continues, NEW comp, NEW n \in 1 .. Len(nodes), NEW frame, NEW b, NEW y, NEW taking,
           FrameExact(comp, frame, n), TakesNode(comp, n, frame, b, y, taking)
    PROVE  FrameExact(comp, b, n)'
<1>1. VariablesType /\ TreeOK /\ VariablesType' /\ Kept
  BY DEF Continues
<1>2. ASSUME NEW f \in Field PROVE FieldExact(b, f, Gathered(comp.fields[f], n))'
  <2>1. PICK expression, met, after :
           /\ expression = comp.fields[f] /\ met = Gathered(expression, n)
           /\ after = Gathered(expression, n)'
    OBVIOUS
  <2>2. /\ after = met \cup {x \in {y} : f \in taking} /\ y \notin met
        /\ b.matched[f] <=> f \in taking \/ frame.matched[f]
        /\ f \notin taking => b.values[f] = frame.values[f]
        /\ f \in taking /\ ~ frame.matched[f] => b.values[f] = ValueAt(y)'
    BY <2>1 DEF TakesNode
  <2>3. FieldExact(frame, f, met)
    BY <2>1 DEF FrameExact
  <2>4. \A x \in met : ValueAt(x)' = ValueAt(x)
    BY <1>1, <2>1, GatheredKept
  <2>5. CASE f \notin taking
    <3>1. after = met
      BY <2>2, <2>5
    <3>2. FieldExact(b, f, met)'
      BY <2>2, <2>3, <2>4, <2>5 DEF FieldExact
    <3> QED BY <2>1, <3>1, <3>2
  <2>6. CASE f \in taking
    <3>1. after = met \cup {y} /\ b.matched[f]
      BY <2>2, <2>6
    <3>2. ASSUME NEW x \in after, after = {x} PROVE b.values[f] = ValueAt(x)'
      <4>1. x = y /\ met = {}
        BY <2>2, <3>1, <3>2
      <4>2. ~ frame.matched[f]
        BY <2>3, <4>1 DEF FieldExact
      <4> QED BY <2>2, <2>6, <4>1, <4>2
    <3>3. FieldExact(b, f, after)'
      BY <3>1, <3>2 DEF FieldExact
    <3> QED BY <2>1, <3>3
  <2> QED BY <2>5, <2>6
<1> QED BY <1>2 DEF FrameExact

(* The frames of a nested target take it from the outer one's, which is    *)
(* then shadowed.                                                          *)
LEMMA NestedShadows ==
    ASSUME VariablesType, TreeOK, VariablesType', Kept, NEW c \in Constraint,
           NEW o \in 1 .. Depth, NEW k \in o .. Depth, NEW j \in o .. Depth, k < j,
           IsTarget(Compiled[c], Open, o, k), IsTarget(Compiled[c], Open, o, j),
           NEW top, top = Node(Depth), NEW n, n = Node(k), NEW e, e = Node(o),
           NEW expression, NEW f \in Field, expression = Compiled[c].fields[f],
           NEW a \in AttributeName, TakesAttribute(expression, n, top, a)'
    PROVE  Shadowed(c, e)'
<1>1. PICK m : m = Node(j)
  OBVIOUS
<1>2. /\ Grown /\ schema' = schema /\ Compiled' = Compiled /\ Len(nodes) \in Nat
      /\ DOMAIN nodes' = 1 .. Len(nodes') /\ Depth \in Nat
  BY DEF Kept, VariablesType, Compiled, Depth
<1>3. k \in 1 .. Depth /\ j \in 1 .. Depth /\ Depth \in 1 .. Depth /\ Depth \in j .. Depth
      /\ j \in k .. Depth /\ j # k
  BY <1>2
<1>4. /\ e \in 1 .. Len(nodes) /\ n \in 1 .. Len(nodes) /\ m \in 1 .. Len(nodes)
      /\ top \in 1 .. Len(nodes) /\ n # m
  BY <1>1, <1>3, OpenNodes
<1>5. Below(n, m)' /\ Below(m, top)'
  <2>1. Below(n, m) /\ Below(m, top)
    BY <1>1, <1>3, OpenTrail
  <2> QED BY <1>2, <1>4, <2>1, TrailGrown
<1>6. n \in Targets(c, e)' /\ m \in Targets(c, e)'
  <2>1. n \in Targets(c, e) /\ m \in Targets(c, e)
    BY <1>1, OpenTargets
  <2> QED BY <1>2, <1>4, <2>1, TargetsGrown
<1>7. <<top, a>> \in AttributesTaken(expression, n)'
  <2>1. top \in 1 .. Len(nodes')
    BY <1>2, <1>4 DEF Grown
  <2>2. <<top, a>> \in (1 .. Len(nodes')) \X AttributeName
        /\ <<top, a>>[1] = top /\ <<top, a>>[2] = a
    BY <2>1
  <2> QED BY <1>2, <2>2 DEF AttributesTaken
<1>8. <<top, a>> \in FieldNodes(c, f, n)'
  <2>1. FieldAttributes'
    BY FieldAttributesTaken, PTL
  <2>2. Compiled'[c].fields[f] = expression
    BY <1>2
  <2> QED BY <1>7, <2>1, <2>2 DEF FieldAttributes, AttributesOfField
<1>9. Len(<<top, a>>) = 2 /\ <<top, a>>[1] = top
  OBVIOUS
<1> QED BY <1>4, <1>5, <1>6, <1>8, <1>9 DEF Shadowed

(* The attribute is bound by the fields that select it in the innermost    *)
(* target, and not selected by those of the targets around it.             *)
LEMMA BindKeepsFrames ==
    ASSUME RegularFields, OwnersInv, EveryTagged,
           NEW name, NEW value \in AttributeValue \cup {Unassessed}, Attribute(name, value),
           NEW cs, StructOK(cs), FramesStruct(cs), NEW c, c = cs.constraint,
           NEW comp, comp = Compiled[c], NEW o, o = cs.owner_depth, NEW e, e = Node(o),
           NEW b, b = Bound(cs, MatchingFields(cs, name), value), ~ Shadowed(c, e)',
           FramesExact(comp, o, cs.collection_stack)
    PROVE  FramesExact(comp, o, b.collection_stack)'
<1>1. /\ VariablesType /\ TreeOK /\ StructsOK /\ (in_attributes => Depth > 0)
  BY DEF OwnersInv
<1>2. PICK top, open, frames, next, m, y :
         /\ top = Node(Depth) /\ open = Open /\ frames = cs.collection_stack
         /\ next = b.collection_stack /\ m = Len(frames) /\ y = <<top, name>>
  OBVIOUS
<1>3. /\ VariablesType' /\ Kept /\ Depth' = Depth /\ Open' = open /\ Grown
      /\ \A k \in 1 .. Depth : Node(k)' = Node(k)
      /\ Len(nodes') = Len(nodes) /\ Continues
  BY <1>1, <1>2, AttributeKeepsTree, AttributeKeepsStructs, AttributeContinues DEF Continues
<1>4. /\ Depth \in 1 .. Depth /\ top \in 1 .. Len(nodes) /\ name \in AttributeName
      /\ name \in DOMAIN nodes'[top].attributes
  BY <1>1, <1>2, AttributeSets
<1>5. /\ IsStruct(cs) /\ c \in Constraint /\ o \in 1 .. Depth /\ Depth \in Nat
      /\ open \in Seq(OpenName) /\ Len(open) = Depth
      /\ FramesOK(comp, frames, open, o)
  BY <1>1, <1>2, OpenTyped DEF StructOK, FramesStruct
<1>6. ByRank(comp, frames, open, o, Depth)
  <2>1. Len(open) \in Nat /\ o \in Nat
    BY <1>5
  <2> QED BY <1>5, <2>1, Ranked
<1>7. /\ frames \in Seq(FrameType(comp)) /\ m \in Nat
  BY <1>2, <1>6 DEF ByRank
<1>8. /\ Len(next) = m
      /\ \A i \in 1 .. m : i # m => next[i] = frames[i]
      /\ m > 0 => \A f \in Field :
            LET bound == MatchesAttribute(comp.fields[f], frames[m].fields[f], name)
            IN  /\ next[m].matched[f] <=> bound \/ frames[m].matched[f]
                /\ next[m].values[f] = IF bound /\ value # Unassessed THEN value
                                       ELSE frames[m].values[f]
  <2>1. \A frame \in FrameType(comp) : \A g, h :
           LET d == [frame EXCEPT !.values = g, !.matched = h] IN
           d.values = g /\ d.matched = h
    BY DEF FrameType
  <2> QED BY <1>2, <1>5, <1>7, <2>1, BoundFrames
<1>9. ASSUME NEW k \in o .. Depth, IsTarget(comp, open, o, k), NEW n, n = Node(k),
             NEW i, i = Rank(comp, open, o, k)
      PROVE  FrameExact(comp, next[i], n)'
  <2>1. i \in 1 .. m /\ Follows(comp, frames[i], open, k)
    BY <1>2, <1>6, <1>9 DEF ByRank
  <2>2. k \in 1 .. Depth /\ n \in 1 .. Len(nodes)
    <3>1. k \in 1 .. Depth
      BY <1>5
    <3> QED BY <1>1, <1>9, <3>1, OpenNodes
  <2>3. FrameExact(comp, frames[i], n)
    BY <1>2, <1>9, <2>1, <2>2 DEF FramesExact
  <2>4. ASSUME NEW expression
        PROVE  /\ Gathered(expression, n)' =
                     Gathered(expression, n) \cup
                        {x \in {y} : TakesAttribute(expression, n, top, name)'}
               /\ y \notin Gathered(expression, n)
               /\ ValueAt(y)' = IF value = Unassessed THEN Absent ELSE value
    BY <1>2, <2>2, AttributeContinues
  <2>5. CASE i = m
    <3>1. PICK frame, after : frame = frames[m] /\ after = next[m]
      OBVIOUS
    <3> DEFINE taking == {f \in Field : TakesAttribute(comp.fields[f], n, top, name)'}
    <3>2. ASSUME NEW f \in Field
          PROVE  MatchesAttribute(comp.fields[f], frame.fields[f], name) <=> f \in taking
      <4>1. PICK expression, a, below :
               /\ expression = comp.fields[f] /\ a = frame.fields[f]
               /\ below = SubSeq(open, k + 1, Len(open))
        OBVIOUS
      <4>2. Tracks(expression, a, below) /\ OfPaths(expression) /\ OfRegularPaths(expression)
        <5>1. Tracks(expression, a, below)
          BY <2>1, <2>5, <3>1, <4>1 DEF Follows
        <5> QED BY <1>1, <1>5, <4>1, <5>1, SelectorOfPaths, FieldsRegular
      <4>3. below \in Seq(OpenName)
        BY <1>5, <2>2, <4>1
      <4>4. MatchesAttribute(expression, a, name) <=>
               /\ Visible(below)
               /\ \E p \in DOMAIN expression : SelectsAttribute(expression[p], below, name)
        BY <4>2, <4>3, AttributesTracked
      <4>5. Below(n, top) /\ Trail(n, top) = below
        <5>1. Depth \in k .. Depth
          BY <1>5, <2>2
        <5> QED BY <1>1, <1>2, <1>5, <1>9, <2>2, <4>1, <5>1, OpenTrail
      <4>6. Below(n, top)' /\ Trail(n, top)' = below
        BY <1>1, <1>3, <1>4, <2>2, <4>5, TrailGrown
      <4>7. TakesAttribute(expression, n, top, name)' <=>
               /\ Visible(below)
               /\ \E p \in DOMAIN expression : SelectsAttribute(expression[p], below, name)
        BY <1>4, <4>6 DEF TakesAttribute
      <4> QED BY <4>1, <4>4, <4>7
    <3>3. ASSUME NEW f \in Field
          PROVE  /\ Gathered(comp.fields[f], n)' =
                       Gathered(comp.fields[f], n) \cup {x \in {y} : f \in taking}
                 /\ y \notin Gathered(comp.fields[f], n)
      <4>1. PICK expression : expression = comp.fields[f]
        OBVIOUS
      <4> QED BY <2>4, <4>1
    <3>4. ASSUME NEW f \in Field
          PROVE  /\ after.matched[f] <=> f \in taking \/ frame.matched[f]
                 /\ f \notin taking => after.values[f] = frame.values[f]
                 /\ f \in taking /\ ~ frame.matched[f] => after.values[f] = ValueAt(y)'
      <4>1. PICK bound \in BOOLEAN : bound <=> f \in taking
        OBVIOUS
      <4>2. after.matched[f] <=> bound \/ frame.matched[f]
        BY <1>8, <2>1, <2>5, <3>1, <3>2, <4>1
      <4>3. after.values[f] = IF bound /\ value # Unassessed THEN value ELSE frame.values[f]
        BY <1>8, <2>1, <2>5, <3>1, <3>2, <4>1
      <4>4. ~ frame.matched[f] => frame.values[f] = Absent
        BY <2>3, <2>5, <3>1 DEF FrameExact, FieldExact
      <4>5. ValueAt(y)' = IF value = Unassessed THEN Absent ELSE value
        BY <2>4
      <4> HIDE DEF taking
      <4> QED BY <4>1, <4>2, <4>3, <4>4, <4>5
    <3> HIDE DEF taking
    <3>5. TakesNode(comp, n, frame, after, y, taking)
      BY <3>3, <3>4 DEF TakesNode
    <3>6. FrameExact(comp, frame, n)
      BY <2>3, <2>5, <3>1
    <3>7. FrameExact(comp, after, n)'
      BY <1>3, <2>2, <3>5, <3>6, FrameMeets
    <3> QED BY <2>5, <3>1, <3>7
  <2>6. CASE i # m
    <3>1. next[i] = frames[i] /\ i < m /\ m \in 1 .. m
      BY <1>7, <1>8, <2>1, <2>6
    <3>2. PICK j \in o .. Depth : IsTarget(comp, open, o, j) /\ Rank(comp, open, o, j) = m
      BY <1>2, <1>6, <3>1 DEF ByRank
    <3>3. k < j
      <4> SUFFICES ASSUME ~ (k < j) PROVE FALSE
        OBVIOUS
      <4>1. j < k \/ j = k
        BY <1>5
      <4>2. j < k => Rank(comp, open, o, j) < Rank(comp, open, o, k)
        BY <1>6, <1>9, <3>2 DEF ByRank
      <4> QED BY <1>7, <1>9, <2>1, <3>1, <3>2, <4>1, <4>2
    <3>4. ASSUME NEW f \in Field
          PROVE  Gathered(comp.fields[f], n)' = Gathered(comp.fields[f], n)
      <4>1. PICK expression : expression = comp.fields[f]
        OBVIOUS
      <4>2. ~ TakesAttribute(expression, n, top, name)'
        <5> SUFFICES ASSUME TakesAttribute(expression, n, top, name)' PROVE FALSE
          OBVIOUS
        <5>1. IsTarget(Compiled[c], Open, o, k) /\ IsTarget(Compiled[c], Open, o, j)
          BY <1>2, <1>9, <3>2
        <5>2. expression = Compiled[c].fields[f]
          BY <4>1
        <5>3. Shadowed(c, e)'
          BY <1>1, <1>2, <1>3, <1>4, <1>5, <1>9, <3>3, <5>1, <5>2, NestedShadows
        <5> QED BY <5>3
      <4>3. Gathered(expression, n)' = Gathered(expression, n)
        BY <2>4, <4>2
      <4> QED BY <4>1, <4>3
    <3>5. PICK frame : frame = frames[i]
      OBVIOUS
    <3>6. FrameExact(comp, frame, n)'
      BY <1>3, <2>2, <2>3, <3>4, <3>5, FrameStays
    <3> QED BY <3>1, <3>5, <3>6
  <2> QED BY <2>5, <2>6
<1>10. ASSUME NEW k \in o .. Depth', NEW n, NEW i,
              IsTarget(comp, open, o, k), n = Node(k)', i = Rank(comp, open, o, k)
       PROVE  FrameExact(comp, next[i], n)'
  <2>1. k \in o .. Depth /\ n = Node(k)
    <3>1. k \in 1 .. Depth
      BY <1>3, <1>5
    <3> QED BY <1>3, <1>10, <3>1
  <2> QED BY <1>9, <1>10, <2>1
<1>11. FramesExact(comp, o, next)'
  BY <1>3, <1>10 DEF FramesExact, Rank, TargetsUpTo
<1> QED BY <1>2, <1>11

LEMMA AttributeKeepsTables ==
    ASSUME RegularFields, OwnersInv, FramesInv, TablesInv,
           NEW name, NEW value \in AttributeValue \cup {Unassessed}, Attribute(name, value)
    PROVE  TablesInv'
<1>1. /\ VariablesType /\ TreeOK /\ StructsOK /\ (in_attributes => Depth > 0) /\ EveryTagged
      /\ \A cs \in active_constraints : StructOK(cs) /\ FramesStruct(cs) /\ TablesStruct(cs)
  BY DEF OwnersInv, StructsOK, FramesInv, TablesInv
<1>2. /\ Continues /\ EveryTagged' /\ Kept /\ VariablesType' /\ Depth' = Depth
      /\ \A k \in 1 .. Depth : Node(k)' = Node(k)
  BY <1>1, AttributeContinues, AttributeKeepsTree DEF Continues
<1>3. /\ Compiled' = Compiled /\ finished' = finished
      /\ active_constraints' =
            {Bound(cs, MatchingFields(cs, name), value) : cs \in active_constraints}
  BY DEF Attribute, Compiled
<1>4. ASSUME NEW cs \in active_constraints,
             NEW b, b = Bound(cs, MatchingFields(cs, name), value)
      PROVE  TablesStruct(b)'
  <2>1. PICK c, comp, o, e, frames, next, table :
           /\ c = cs.constraint /\ comp = Compiled[c] /\ o = cs.owner_depth /\ e = Node(o)
           /\ frames = cs.collection_stack /\ next = b.collection_stack
           /\ table = cs.key_table
    OBVIOUS
  <2>2. /\ IsStruct(cs) /\ o \in 1 .. Depth /\ c \in Constraint
        /\ FramesOK(comp, frames, Open, o) /\ TablesStruct(cs)
    BY <1>1, <2>1 DEF StructOK, FramesStruct
  <2>3. /\ b.constraint = c /\ b.owner_depth = o /\ b.key_table = table
    <3>1. frames \in Seq(FrameType(comp))
      BY <2>2 DEF FramesOK, FramesAt
    <3>2. \A frame \in FrameType(comp) : \A g, h :
             LET d == [frame EXCEPT !.values = g, !.matched = h] IN
             d.values = g /\ d.matched = h
      BY DEF FrameType
    <3> QED BY <1>4, <2>1, <2>2, <3>1, <3>2, BoundFrames
  <2>4. e \in 1 .. Len(nodes) /\ TablesOf(c, comp, o, e, frames, table)
    <3>1. e \in 1 .. Len(nodes)
      BY <1>1, <2>1, <2>2, OpenNodes
    <3> QED BY <2>1, <2>2, <3>1 DEF TablesStruct
  <2>5. TableExact(c, e, table)'
    <3>1. EndedTargets(c, e)' = EndedTargets(c, e)
      <4>1. EndedTargets(c, e)' \cap (1 .. Len(finished)) = EndedTargets(c, e)
        BY <1>2, <2>4, EndedKept
      <4>2. EndedTargets(c, e)' \subseteq 1 .. Len(finished)
        BY <1>3 DEF EndedTargets
      <4> QED BY <4>1, <4>2
    <3> QED BY <1>2, <2>4, <3>1, TableKept DEF TablesOf
  <2>6. ASSUME ~ Shadowed(c, e)' PROVE FramesExact(comp, o, next)'
    <3>1. ~ Shadowed(c, e)
      BY <1>1, <1>2, <2>4, <2>6, ShadowedKept
    <3>2. FramesExact(comp, o, cs.collection_stack)
      BY <2>1, <2>4, <3>1 DEF TablesOf
    <3>3. StructOK(cs) /\ FramesStruct(cs)
      BY <1>1
    <3>4. FramesExact(comp, o, b.collection_stack)'
      BY <1>1, <1>4, <2>1, <2>6, <3>2, <3>3, BindKeepsFrames
    <3> QED BY <2>1, <3>4
  <2>7. TablesOf(c, comp, o, e, next, table)'
    BY <2>5, <2>6 DEF TablesOf
  <2>8. e = Node(o)' /\ Compiled'[c] = comp
    BY <1>2, <1>3, <2>1, <2>2
  <2> QED BY <2>1, <2>3, <2>7, <2>8 DEF TablesStruct
<1> QED BY <1>2, <1>3, <1>4 DEF TablesInv

-----------------------------------------------------------------------------
(* An element is met by the expressions that select it when it ends.       *)
LEMMA EndSets ==
    ASSUME VariablesType, TreeOK, StructsOK, NEW content \in Content, EndTag(content),
           NEW top, top = Node(Depth)
    PROVE  /\ Depth \in 1 .. Depth /\ top \in 1 .. Len(nodes) /\ top \notin Closed
           /\ nodes'[top].content = content
           /\ \A n \in 1 .. Len(nodes) :
                 /\ nodes'[n].attributes = nodes[n].attributes
                 /\ n # top => nodes'[n].content = nodes[n].content
           /\ finished' = Append(finished, top) /\ schema' = schema
<1>1. PICK owners, depths, new :
         Depth \in Nat \ {0} /\ Closes(content, owners, depths, new)
  BY EndCloses
<1>2. PICK validity :
         /\ nodes' = [nodes EXCEPT ![top].content = content, ![top].validity = validity]
         /\ finished' = Append(finished, top) /\ schema' = schema
  BY <1>1 DEF Closes
<1>3. Depth \in 1 .. Depth /\ top \in 1 .. Len(nodes) /\ top \notin Closed
  <2>1. Depth \in 1 .. Depth
    BY <1>1
  <2> QED BY <2>1, OpenNodes DEF TreeOK
<1> DEFINE first == [nodes[top] EXCEPT !.content = content]
           changed == [first EXCEPT !.validity = validity]
           between == [nodes EXCEPT ![top] = first]
<1>4. nodes \in Seq(NodeType) /\ DOMAIN nodes = 1 .. Len(nodes)
  BY DEF VariablesType
<1>5. nodes' = [between EXCEPT ![top] = [between[top] EXCEPT !.validity = validity]]
  BY <1>2
<1>6. changed.content = content /\ changed.attributes = nodes[top].attributes
  <2>1. nodes[top] \in NodeType
    BY <1>3, <1>4
  <2> QED BY <2>1 DEF NodeType
<1>7. /\ DOMAIN between = 1 .. Len(nodes) /\ between[top] = first
      /\ \A n \in 1 .. Len(nodes) : n # top => between[n] = nodes[n]
  BY <1>3, <1>4
<1> HIDE DEF first, between
<1>8. nodes'[top] = changed /\ \A n \in 1 .. Len(nodes) : n # top => nodes'[n] = nodes[n]
  BY <1>3, <1>5, <1>7
<1> HIDE DEF changed
<1> QED BY <1>2, <1>3, <1>6, <1>8

LEMMA EndContinues ==
    ASSUME VariablesType, TreeOK, StructsOK, EveryTagged,
           NEW content \in Content, EndTag(content), NEW top, top = Node(Depth)
    PROVE  /\ Continues
           /\ \A expression : \A n \in 1 .. Len(nodes) :
                 /\ Gathered(expression, n)' =
                       Gathered(expression, n) \cup
                          {x \in {<<top>>} : Selects(expression, n, top)}
                 /\ <<top>> \notin Gathered(expression, n)
           /\ ValueAt(<<top>>)' = FieldValue(content)
<1>1. /\ VariablesType' /\ TreeOK' /\ Grown
      /\ Depth' = Depth - 1 /\ Len(nodes') = Len(nodes) /\ Depth \in Nat \ {0}
      /\ \A k \in 1 .. Depth' : Node(k)' = Node(k)
      /\ Closed' = Closed \cup {top}
  BY EndCloses, ClosesTree
<1>2. /\ Depth \in 1 .. Depth /\ top \in 1 .. Len(nodes) /\ top \notin Closed
      /\ nodes'[top].content = content
      /\ \A n \in 1 .. Len(nodes) :
            /\ nodes'[n].attributes = nodes[n].attributes
            /\ n # top => nodes'[n].content = nodes[n].content
      /\ finished' = Append(finished, top) /\ schema' = schema
  BY EndSets
<1>3. Closed \subseteq 1 .. Len(nodes) /\ Len(nodes) \in Nat
  BY DEF Closed, VariablesType
<1>4. Kept
  <2>1. \A n \in 1 .. Len(nodes) : \A a \in DOMAIN nodes[n].attributes :
           /\ a \in DOMAIN nodes'[n].attributes
           /\ nodes'[n].attributes[a] = nodes[n].attributes[a]
    BY <1>2
  <2>2. \A n \in Closed : nodes'[n].content = nodes[n].content
    BY <1>2, <1>3
  <2> QED BY <1>1, <1>2, <2>1, <2>2 DEF Kept
<1>5. EveryTagged'
  <2>1. ASSUME NEW k \in 1 .. Depth
        PROVE  (k \in 1 .. Depth' /\ Node(k)' = Node(k)) \/ Node(k) \in Closed'
    <3>1. k \in 1 .. Depth' \/ k = Depth
      BY <1>1
    <3> QED BY <1>1, <3>1
  <2> QED BY <1>1, <2>1, TagsStay
<1>6. GatheredOne /\ GatheredOne'
  BY <1>1, GatheredNodes, PTL
<1>7. ASSUME NEW expression, NEW n \in 1 .. Len(nodes)
      PROVE  /\ Gathered(expression, n)' =
                   Gathered(expression, n) \cup
                      {x \in {<<top>>} : Selects(expression, n, top)}
             /\ <<top>> \notin Gathered(expression, n)
  <2>1. ASSUME NEW x \in Gathered(expression, n)'
        PROVE  \/ x \in Gathered(expression, n)
               \/ x = <<top>> /\ Selects(expression, n, top)
    <3>1. \/ \E m \in Closed' : x = <<m>> /\ Selects(expression, n, m)'
          \/ \E m \in 1 .. Len(nodes), a \in AttributeName :
                x = <<m, a>> /\ TakesAttribute(expression, n, m, a)'
      BY <1>1, <1>6, <2>1 DEF GatheredOne
    <3>2. CASE \E m \in Closed' : x = <<m>> /\ Selects(expression, n, m)'
      <4>1. PICK m \in Closed' : x = <<m>> /\ Selects(expression, n, m)'
        BY <3>2
      <4>2. m \in 1 .. Len(nodes) /\ (m \in Closed \/ m = top)
        BY <1>1, <1>2, <1>3
      <4>3. Selects(expression, n, m)
        BY <1>1, <4>1, <4>2, SelectsGrown
      <4> QED BY <1>6, <4>1, <4>2, <4>3 DEF GatheredOne
    <3>3. CASE \E m \in 1 .. Len(nodes), a \in AttributeName :
                  x = <<m, a>> /\ TakesAttribute(expression, n, m, a)'
      <4>1. PICK m \in 1 .. Len(nodes), a \in AttributeName :
               x = <<m, a>> /\ TakesAttribute(expression, n, m, a)'
        BY <3>3
      <4>2. a \in DOMAIN nodes'[m].attributes /\ a \in DOMAIN nodes[m].attributes
        BY <1>2, <4>1 DEF TakesAttribute
      <4>3. TakesAttribute(expression, n, m, a)
        BY <1>1, <4>1, <4>2, SelectsGrown
      <4> QED BY <1>6, <4>1, <4>3 DEF GatheredOne
    <3> QED BY <3>1, <3>2, <3>3
  <2>2. \A x \in Gathered(expression, n) : x \in Gathered(expression, n)'
    BY <1>1, <1>4, GatheredKept
  <2>3. Selects(expression, n, top) => <<top>> \in Gathered(expression, n)'
    <3>1. Selects(expression, n, top)' <=> Selects(expression, n, top)
      BY <1>1, <1>2, SelectsGrown
    <3>2. top \in Closed'
      BY <1>1
    <3> QED BY <1>6, <3>1, <3>2 DEF GatheredOne
  <2>4. <<top>> \notin Gathered(expression, n)
    <3> SUFFICES ASSUME <<top>> \in Gathered(expression, n) PROVE FALSE
      OBVIOUS
    <3>1. \A m, a : <<top>> # <<m, a>>
      OBVIOUS
    <3>2. PICK m \in Closed : <<top>> = <<m>>
      BY <1>6, <3>1 DEF GatheredOne
    <3> QED BY <1>2, <3>2
  <2> QED BY <2>1, <2>2, <2>3, <2>4
<1>8. MeetsInnermost
  <2>1. ASSUME NEW expression, NEW n \in 1 .. Len(nodes), NEW x \in Gathered(expression, n)'
        PROVE  x \in Gathered(expression, n) \/ Below(n, top)
    BY <1>7, <2>1 DEF Selects
  <2> QED BY <1>2, <2>1 DEF MeetsInnermost
<1>9. ValueAt(<<top>>)' = FieldValue(content)
  <2>1. Len(<<top>>) = 1 /\ <<top>>[1] = top
    OBVIOUS
  <2> QED BY <1>2, <2>1 DEF ValueAt
<1>10. Len(finished) <= Len(finished') /\ \A i \in 1 .. Len(finished) : finished'[i] = finished[i]
  <2>1. finished \in Seq(1 .. Len(nodes)) /\ Len(finished) \in Nat
    BY DEF VariablesType
  <2> QED BY <1>2, <2>1, TopOfAppended
<1>11. Continues
  BY <1>1, <1>4, <1>5, <1>8, <1>10 DEF Continues
<1> QED BY <1>7, <1>9, <1>11

(* The content of the element is taken by the fields of all the frames     *)
(* that select it.                                                         *)
LEMMA EndFrames ==
    ASSUME RegularFields, OwnersInv, EveryTagged, NEW content \in Content, EndTag(content),
           NEW cs, StructOK(cs), FramesStruct(cs), NEW c, c = cs.constraint,
           NEW comp, comp = Compiled[c], NEW o, o = cs.owner_depth,
           NEW moved, moved = EndedFrames(cs, content),
           FramesExact(comp, o, cs.collection_stack),
           NEW k \in o .. Depth, IsTarget(comp, Open, o, k), NEW n, n = Node(k),
           NEW i, i = Rank(comp, Open, o, k)
    PROVE  FrameExact(comp, moved[i], n)'
<1>1. /\ VariablesType /\ TreeOK /\ StructsOK
  BY DEF OwnersInv
<1>2. PICK top, open, frames, frame, after, y :
         /\ top = Node(Depth) /\ open = Open /\ frames = cs.collection_stack
         /\ frame = frames[i] /\ after = moved[i] /\ y = <<top>>
  OBVIOUS
<1>3. /\ Continues
      /\ \A expression : \A m \in 1 .. Len(nodes) :
            /\ Gathered(expression, m)' =
                  Gathered(expression, m) \cup {x \in {y} : Selects(expression, m, top)}
            /\ y \notin Gathered(expression, m)
      /\ ValueAt(y)' = FieldValue(content)
  BY <1>1, <1>2, EndContinues
<1>4. /\ IsStruct(cs) /\ c \in Constraint /\ o \in 1 .. Depth /\ Depth \in Nat
      /\ open \in Seq(OpenName) /\ Len(open) = Depth
      /\ FramesOK(comp, frames, open, o)
  BY <1>1, <1>2, OpenTyped DEF StructOK, FramesStruct
<1>5. i \in 1 .. Len(frames) /\ Follows(comp, frame, open, k)
  <2>1. Len(open) \in Nat /\ o \in Nat
    BY <1>4
  <2>2. ByRank(comp, frames, open, o, Depth)
    BY <1>4, <2>1, Ranked
  <2> QED BY <1>2, <2>2 DEF ByRank
<1>6. k \in 1 .. Depth /\ n \in 1 .. Len(nodes) /\ Depth \in k .. Depth
  <2>1. k \in 1 .. Depth /\ Depth \in k .. Depth
    BY <1>4
  <2> QED BY <1>1, <2>1, OpenNodes
<1>7. FrameExact(comp, frame, n)
  BY <1>2, <1>5, <1>6 DEF FramesExact
<1>8. after = EndedFrame(c, frame, content)
  BY <1>2, <1>5 DEF EndedFrames
<1> DEFINE taking == {f \in Field : Selects(comp.fields[f], n, top)}
<1>9. ASSUME NEW f \in Field PROVE Exits(c, frame, f) <=> f \in taking
  <2>1. PICK expression, a, below :
           /\ expression = comp.fields[f] /\ a = frame.fields[f]
           /\ below = SubSeq(open, k + 1, Len(open))
    OBVIOUS
  <2>2. Tracks(expression, a, below) /\ OfPaths(expression) /\ OfRegularPaths(expression)
    <3>1. Tracks(expression, a, below)
      BY <1>5, <2>1 DEF Follows
    <3> QED BY <1>1, <1>4, <2>1, <3>1, SelectorOfPaths, FieldsRegular
  <2>3. below \in Seq(OpenName)
    BY <1>4, <1>6, <2>1
  <2>4. EndElement(expression, a).exited_match <=> Selected(expression, below)
    BY <2>2, <2>3, EndTracks
  <2>5. Selects(expression, n, top) <=> Selected(expression, below)
    BY <1>1, <1>2, <1>4, <1>6, <2>1, OpenSelects
  <2> QED BY <2>1, <2>4, <2>5 DEF Exits
<1>10. ASSUME NEW f \in Field
       PROVE  /\ after.matched[f] <=> f \in taking \/ frame.matched[f]
              /\ f \notin taking => after.values[f] = frame.values[f]
              /\ f \in taking /\ ~ frame.matched[f] => after.values[f] = ValueAt(y)'
  <2>1. PICK takes \in BOOLEAN : takes <=> TakesContent(c, frame, f)
    OBVIOUS
  <2>2. after.matched[f] = (takes \/ frame.matched[f])
    BY <1>8, <2>1 DEF EndedFrame
  <2>3. after.values[f] = IF takes THEN FieldValue(content) ELSE frame.values[f]
    BY <1>8, <2>1 DEF EndedFrame
  <2>4. ~ frame.matched[f] => frame.values[f] = Absent
    BY <1>7 DEF FrameExact, FieldExact
  <2>5. takes <=> f \in taking /\ ~ frame.matched[f]
    BY <1>9, <2>1, <2>4 DEF TakesContent
  <2>6. after.matched[f] <=> takes \/ frame.matched[f]
    BY <2>2
  <2> HIDE DEF taking
  <2> QED BY <1>3, <2>3, <2>5, <2>6
<1>11. ASSUME NEW f \in Field
       PROVE  /\ Gathered(comp.fields[f], n)' =
                    Gathered(comp.fields[f], n) \cup {x \in {y} : f \in taking}
              /\ y \notin Gathered(comp.fields[f], n)
  <2>1. PICK expression : expression = comp.fields[f]
    OBVIOUS
  <2> QED BY <1>3, <1>6, <2>1
<1> HIDE DEF taking
<1>12. TakesNode(comp, n, frame, after, y, taking)
  BY <1>10, <1>11 DEF TakesNode
<1>13. FrameExact(comp, after, n)'
  BY <1>3, <1>6, <1>7, <1>12, FrameMeets
<1> QED BY <1>2, <1>13

(* The row of a target that is closed.                                     *)
ExactRows ==
    \A c, comp, frame : \A n \in Closed :
        comp = Compiled[c] /\ frame \in FrameType(comp) /\ FrameExact(comp, frame, n) =>
            SelectsMany(c, n) \/ frame.values = KeySequenceAt(c, n)

LEMMA FrameRow ==
    VariablesType /\ TreeOK /\ EveryTagged => ExactRows
<1> SUFFICES ASSUME VariablesType, TreeOK, EveryTagged, NEW c, NEW comp, NEW frame,
                    NEW n \in Closed, comp = Compiled[c], frame \in FrameType(comp),
                    FrameExact(comp, frame, n), ~ SelectsMany(c, n)
             PROVE  frame.values = KeySequenceAt(c, n)
  BY DEF ExactRows
<1>1. ASSUME NEW f \in Field
      PROVE  frame.values[f] = LET xs == FieldNodes(c, f, n) IN
                               IF xs = {} THEN Absent ELSE ValueAt(CHOOSE x \in xs : TRUE)
  <2>1. PICK met : met = FieldNodes(c, f, n)
    OBVIOUS
  <2>2. met = Gathered(comp.fields[f], n)
    BY <2>1, ClosedGathered DEF ClosedFields
  <2>3. FieldExact(frame, f, met)
    BY <2>2 DEF FrameExact
  <2>4. CASE met = {}
    BY <2>1, <2>3, <2>4 DEF FieldExact
  <2>5. CASE met # {}
    <3>1. PICK x \in met : x = CHOOSE z \in met : TRUE
      BY <2>5
    <3>2. \A z \in met : z = x
      BY <2>1 DEF SelectsMany
    <3>3. met = {x}
      BY <3>2
    <3>4. frame.values[f] = ValueAt(x)
      BY <2>3, <3>3 DEF FieldExact
    <3> QED BY <2>1, <2>5, <3>1, <3>4
  <2> QED BY <2>4, <2>5
<1>2. frame.values = [f \in Field |-> frame.values[f]]
  BY DEF FrameType, KeySequence
<1> QED BY <1>1, <1>2 DEF KeySequenceAt

-----------------------------------------------------------------------------
(* The frames at an end tag: the one of the target that ends is popped.    *)
EndsTarget(cs, content, moved, exited) ==
    LET b == Ended(cs, content)
        m == Len(cs.collection_stack)
        comp == Compiled[cs.constraint]
    IN  /\ moved = EndedFrames(cs, content) /\ m \in Nat
        /\ moved \in Seq(FrameType(comp)) /\ Len(moved) = m
        /\ exited <=> IsTarget(comp, Open, cs.owner_depth, Depth)
        /\ exited => Rank(comp, Open, cs.owner_depth, Depth) = m /\ m > 0
        /\ b.key_table = IF exited THEN Append(cs.key_table, moved[m].values)
                         ELSE cs.key_table
        /\ b.collection_stack = IF exited THEN Pop(moved) ELSE moved

LEMMA EndPops ==
    ASSUME RegularSelectors, VariablesType, TreeOK, NEW cs, StructOK(cs), FramesStruct(cs),
           NEW content \in Content
    PROVE  \E moved, exited : EndsTarget(cs, content, moved, exited)
<1>1. PICK c, comp, o, open, frames, moved, m, b :
         /\ c = cs.constraint /\ comp = Compiled[c] /\ o = cs.owner_depth /\ open = Open
         /\ frames = cs.collection_stack /\ moved = EndedFrames(cs, content)
         /\ m = Len(frames) /\ b = Ended(cs, content)
  OBVIOUS
<1>2. PICK exited : exited = b.selector.exited_match
  OBVIOUS
<1>3. /\ IsStruct(cs) /\ c \in Constraint /\ o \in 1 .. Depth /\ Depth \in Nat
      /\ open \in Seq(OpenName) /\ Len(open) = Depth
      /\ Tracks(comp.selector, cs.selector, SubSeq(open, o + 1, Len(open)))
      /\ FramesOK(comp, frames, open, o)
  BY <1>1, OpenTyped DEF StructOK, FramesStruct, OpenBelow
<1>4. /\ OfPaths(comp.selector) /\ OfRegularPaths(comp.selector)
      /\ \A f \in Field : OfPaths(Compiled[c].fields[f])
  BY <1>1, <1>3, SelectorOfPaths, CompiledRegular
<1>5. /\ b.key_table = IF exited /\ moved # <<>> THEN Append(cs.key_table, Top(moved).values)
                                                 ELSE cs.key_table
      /\ b.collection_stack = IF exited /\ moved # <<>> THEN Pop(moved) ELSE moved
      /\ b.selector = EndElement(comp.selector, cs.selector)
  BY <1>1, <1>2, <1>3, FrameSteps, StructSteps
<1>6. exited <=> IsTarget(comp, open, o, Depth)
  <2>1. PICK below : below = SubSeq(open, o + 1, Len(open))
    OBVIOUS
  <2>2. below \in Seq(OpenName) /\ Tracks(comp.selector, cs.selector, below)
    BY <1>3, <2>1
  <2>3. exited <=> Selected(comp.selector, below)
    BY <1>2, <1>4, <1>5, <2>2, EndTracks
  <2> QED BY <1>3, <2>1, <2>3 DEF IsTarget
<1>7. ByRank(comp, frames, open, o, Depth)
  <2>1. Len(open) \in Nat /\ o \in Nat
    BY <1>3
  <2> QED BY <1>3, <2>1, Ranked
<1>8. /\ m \in Nat /\ Depth \in o .. Depth
      /\ Rank(comp, open, o, Depth) = m
      /\ exited => m > 0
  <2>1. m \in Nat /\ Depth \in o .. Depth
    BY <1>1, <1>3, <1>7 DEF ByRank
  <2>2. Rank(comp, open, o, Depth) = m
    BY <1>1, <2>1, <1>7 DEF ByRank
  <2>3. exited => m \in 1 .. m
    BY <1>1, <1>6, <1>7, <2>1, <2>2 DEF ByRank
  <2> QED BY <2>1, <2>2, <2>3
<1>9. ASSUME NEW i \in 1 .. m PROVE moved[i] \in FrameType(comp)
  <2>1. PICK frame : frame = frames[i]
    OBVIOUS
  <2>2. PICK d \in o .. Depth : Follows(comp, frame, open, d)
    BY <1>1, <1>7, <2>1 DEF ByRank
  <2>3. d \in 0 .. Len(open) /\ Follows(Compiled[c], frame, open, d)
    BY <1>1, <1>3, <2>2
  <2>4. EndedFrame(c, frame, content) \in FrameType(Compiled[c])
    BY <1>3, <1>4, <2>3, FrameEnds
  <2>5. moved[i] = EndedFrame(c, frame, content)
    BY <1>1, <2>1 DEF EndedFrames
  <2> QED BY <1>1, <2>4, <2>5
<1>10. moved \in Seq(FrameType(comp)) /\ Len(moved) = m
  <2>1. moved = [i \in 1 .. m |-> moved[i]]
    BY <1>1 DEF EndedFrames
  <2>2. moved \in [1 .. m -> FrameType(comp)]
    BY <1>9, <2>1
  <2> QED BY <1>8, <2>2
<1>11. exited => moved # <<>> /\ Top(moved) = moved[m]
  BY <1>8, <1>10 DEF Top
<1>12. EndsTarget(cs, content, moved, exited)
  BY <1>1, <1>5, <1>6, <1>8, <1>10, <1>11 DEF EndsTarget
<1> QED BY <1>12

(* The other frames keep their ranks.                                      *)
LEMMA EndKeepsRanks ==
    ASSUME RegularSelectors, RegularFields, OwnersInv, EveryTagged,
           NEW content \in Content, EndTag(content),
           NEW cs, StructOK(cs), FramesStruct(cs), NEW comp, comp = Compiled[cs.constraint],
           NEW o, o = cs.owner_depth, o < Depth, NEW b, b = Ended(cs, content),
           FramesExact(comp, o, cs.collection_stack)
    PROVE  FramesExact(comp, o, b.collection_stack)'
<1>1. /\ VariablesType /\ TreeOK /\ StructsOK
  BY DEF OwnersInv
<1>2. PICK c, open, outer, frames, next, m :
         /\ c = cs.constraint /\ open = Open /\ outer = Pop(open)
         /\ frames = cs.collection_stack /\ next = b.collection_stack /\ m = Len(frames)
  OBVIOUS
<1>3. /\ Depth' = Depth - 1 /\ Open' = outer
      /\ \A k \in 1 .. Depth' : Node(k)' = Node(k)
  BY <1>1, <1>2, EndCloses, ClosesTree
<1>4. /\ IsStruct(cs) /\ c \in Constraint /\ o \in 1 .. Depth /\ Depth \in Nat
      /\ open \in Seq(OpenName) /\ Len(open) = Depth /\ FramesOK(comp, frames, open, o)
  BY <1>1, <1>2, OpenTyped DEF StructOK, FramesStruct
<1>5. PICK moved, exited : EndsTarget(cs, content, moved, exited)
  BY <1>1, EndPops
<1>6. /\ moved = EndedFrames(cs, content) /\ m \in Nat
      /\ moved \in Seq(FrameType(comp)) /\ Len(moved) = m
      /\ exited <=> IsTarget(comp, open, o, Depth)
      /\ exited => Rank(comp, open, o, Depth) = m /\ m > 0
      /\ next = IF exited THEN Pop(moved) ELSE moved
  BY <1>2, <1>5 DEF EndsTarget
<1>7. ByRank(comp, frames, open, o, Depth)
  <2>1. Len(open) \in Nat /\ o \in Nat
    BY <1>4
  <2> QED BY <1>4, <2>1, Ranked
<1>8. \A k \in o .. Depth - 1 :
         /\ IsTarget(comp, outer, o, k) <=> IsTarget(comp, open, o, k)
         /\ Rank(comp, outer, o, k) = Rank(comp, open, o, k)
  <2>1. SameBelow(open, outer, o, Depth - 1)
    <3>1. o \in 0 .. Len(open) /\ open # <<>>
      BY <1>4
    <3>2. \A k \in o .. Len(open) - 1 : SubSeq(Pop(open), o + 1, k) = SubSeq(open, o + 1, k)
      BY <1>4, <3>1, SuffixShrinks
    <3> QED BY <1>2, <1>4, <3>2 DEF SameBelow
  <2>2. o \in Nat /\ Depth - 1 \in Nat
    BY <1>4
  <2> QED BY <2>1, <2>2, RanksKept
<1>9. ASSUME NEW k \in o .. Depth', NEW n, NEW i,
             IsTarget(comp, outer, o, k), n = Node(k)', i = Rank(comp, outer, o, k)
      PROVE  FrameExact(comp, next[i], n)'
  <2>1. k \in o .. Depth /\ k \in o .. Depth - 1 /\ k \in 1 .. Depth' /\ k < Depth
        /\ Depth \in o .. Depth
    BY <1>3, <1>4
  <2>2. IsTarget(comp, open, o, k) /\ i = Rank(comp, open, o, k) /\ n = Node(k)
    BY <1>3, <1>8, <1>9, <2>1
  <2>3. FrameExact(comp, moved[i], n)'
    BY <1>2, <1>6, <2>1, <2>2, EndFrames
  <2>4. next[i] = moved[i]
    <3>1. i \in 1 .. m
      BY <1>2, <1>7, <2>1, <2>2 DEF ByRank
    <3>2. CASE ~ exited
      BY <1>6, <3>2
    <3>3. CASE exited
      <4>1. i < m
        BY <1>6, <1>7, <2>1, <2>2, <3>3 DEF ByRank
      <4>2. i \in 1 .. Len(moved) - 1 /\ moved # <<>>
        BY <1>6, <3>1, <4>1
      <4>3. Pop(moved)[i] = moved[i]
        BY <1>6, <4>2, Prefixes
      <4> QED BY <1>6, <3>3, <4>3
    <3> QED BY <3>2, <3>3
  <2> QED BY <2>3, <2>4
<1>10. FramesExact(comp, o, next)'
  BY <1>3, <1>9 DEF FramesExact, Rank, TargetsUpTo
<1> QED BY <1>2, <1>10

LEMMA EndKeepsTable ==
    ASSUME RegularSelectors, RegularFields, OwnersInv, EveryTagged,
           NEW content \in Content, EndTag(content),
           NEW cs, StructOK(cs), FramesStruct(cs), NEW c, c = cs.constraint,
           NEW comp, comp = Compiled[c], NEW o, o = cs.owner_depth, NEW e, e = Node(o),
           NEW table, table = Ended(cs, content).key_table,
           TablesOf(c, comp, o, e, cs.collection_stack, cs.key_table)
    PROVE  TableExact(c, e, table)'
<1>1. /\ VariablesType /\ TreeOK /\ StructsOK
  BY DEF OwnersInv
<1>2. PICK top, open, frames, rows, m, old :
         /\ top = Node(Depth) /\ open = Open /\ frames = cs.collection_stack
         /\ rows = cs.key_table /\ m = Len(frames) /\ old = EndedTargets(c, e)
  OBVIOUS
<1>3. /\ Continues /\ VariablesType' /\ TreeOK' /\ EveryTagged' /\ Kept
      /\ finished' = Append(finished, top) /\ Compiled' = Compiled
      /\ Closed' = Closed \cup {top} /\ top \in 1 .. Len(nodes)
      /\ finished \in Seq(1 .. Len(nodes)) /\ Len(finished) \in Nat
  <2>1. Closed' = Closed \cup {top}
    BY <1>1, <1>2, EndCloses, ClosesTree
  <2>2. Continues /\ VariablesType' /\ TreeOK' /\ EveryTagged' /\ Kept
    BY <1>1, <1>2, EndContinues DEF Continues
  <2>3. finished' = Append(finished, top) /\ top \in 1 .. Len(nodes) /\ Compiled' = Compiled
    BY <1>1, <1>2, EndSets DEF Compiled
  <2> QED BY <1>1, <2>1, <2>2, <2>3 DEF VariablesType
<1>4. /\ c \in Constraint /\ o \in 1 .. Depth /\ Depth \in o .. Depth /\ Depth \in 1 .. Depth
      /\ e \in 1 .. Len(nodes) /\ rows \in Seq(KeySequence)
  <2>1. c \in Constraint /\ o \in 1 .. Depth /\ rows \in Seq(KeySequence)
    BY <1>2 DEF StructOK, FramesStruct
  <2> QED BY <1>1, <2>1, OpenNodes, OpenTyped
<1>5. PICK moved, exited : EndsTarget(cs, content, moved, exited)
  BY <1>1, EndPops
<1>6. /\ moved = EndedFrames(cs, content) /\ m \in Nat
      /\ moved \in Seq(FrameType(comp)) /\ Len(moved) = m
      /\ exited <=> IsTarget(comp, open, o, Depth)
      /\ exited => Rank(comp, open, o, Depth) = m /\ m > 0
      /\ table = IF exited THEN Append(rows, moved[m].values) ELSE rows
  BY <1>2, <1>5 DEF EndsTarget
<1>7. exited <=> top \in Targets(c, e)'
  <2>1. exited <=> top \in Targets(c, e)
    BY <1>1, <1>2, <1>4, <1>6, OpenTargets
  <2> QED BY <1>1, <1>3, <1>4, <2>1, TargetsGrown DEF Kept
<1>8. PICK n : n = Len(finished)
  OBVIOUS
<1>9. /\ n \in Nat /\ Len(finished') = n + 1 /\ finished'[n + 1] = top
      /\ \A i \in 1 .. n : finished'[i] = finished[i]
  BY <1>3, <1>8, TopOfAppended
<1>10. EndedTargets(c, e)' = IF exited THEN old \cup {n + 1} ELSE old
  <2>1. EndedTargets(c, e)' \cap (1 .. n) = old
    BY <1>2, <1>3, <1>4, <1>8, EndedKept
  <2>2. EndedTargets(c, e)' \subseteq 1 .. n + 1
    BY <1>9 DEF EndedTargets
  <2>3. n + 1 \in EndedTargets(c, e)' <=> exited
    BY <1>7, <1>9 DEF EndedTargets
  <2>4. \A i \in 1 .. n + 1 : i \in 1 .. n \/ i = n + 1
    BY <1>9
  <2> QED BY <2>1, <2>2, <2>3, <2>4
<1>11. TableExact(c, e, rows)
  BY <1>2 DEF TablesOf
<1>12. CASE ~ exited
  BY <1>2, <1>3, <1>4, <1>6, <1>10, <1>11, <1>12, TableKept
<1>13. CASE exited
  <2>1. PICK next : next = EndedTargets(c, e)' /\ next = old \cup {n + 1}
    BY <1>10, <1>13
  <2>2. /\ old \in SUBSET (1 .. n) /\ Len(rows) = Cardinality(old)
        /\ Cardinality(old) \in Nat
        /\ \A i \in old : Row(old, i) \in 1 .. Cardinality(old) /\ Row(next, i) = Row(old, i)
        /\ Cardinality(next) = Cardinality(old) + 1
        /\ Row(next, n + 1) = Cardinality(old) + 1
    <3>1. old \in SUBSET (1 .. n) /\ Len(rows) = Cardinality(old)
      BY <1>2, <1>8, <1>11 DEF EndedTargets, TableExact
    <3>2. ASSUME NEW i \in 1 .. n PROVE Row(next, i) = Row(old, i)
      <4>1. Row(EndedTargets(c, e)', i) = Row(EndedTargets(c, e), i)
        BY <1>3, <1>4, <1>8, EndedKept
      <4>2. EndedTargets(c, e)' = next /\ EndedTargets(c, e) = old
        BY <1>2, <2>1
      <4> QED BY <4>1, <4>2
    <3> QED BY <1>9, <2>1, <3>1, <3>2, CountUpTo
  <2>3. PICK row : row = moved[m].values
    OBVIOUS
  <2>4. /\ row \in KeySequence /\ table = Append(rows, row) /\ moved[m] \in FrameType(comp)
        /\ m \in 1 .. m
    <3>1. m \in 1 .. m
      BY <1>6, <1>13
    <3>2. moved[m] \in FrameType(comp)
      BY <1>6, <3>1
    <3> QED BY <1>6, <1>13, <2>3, <3>1, <3>2 DEF FrameType
  <2>5. /\ Len(table) = Len(rows) + 1 /\ table[Len(rows) + 1] = row
        /\ \A i \in 1 .. Len(rows) : table[i] = rows[i]
    BY <1>4, <2>4, TopOfAppended
  <2>6. ASSUME ~ Shadowed(c, e)', NEW i \in next, NEW k \in Closed', k = finished'[i]
        PROVE  SelectsMany(c, k)' \/ table[Row(next, i)] = KeySequenceAt(c, k)'
    <3>1. ~ Shadowed(c, e)
      BY <1>1, <1>3, <1>4, <2>6, ShadowedKept
    <3>2. CASE i \in old
      <4>1. i \in 1 .. n /\ k = finished[i] /\ k \in Closed
        BY <1>8, <1>9, <2>2, <2>6, <3>2 DEF Closed
      <4>2. RowsExact(c, e, rows)
        BY <1>11, <3>1 DEF TableExact
      <4>3. SelectsMany(c, k) \/ rows[Row(old, i)] = KeySequenceAt(c, k)
        BY <1>2, <3>2, <4>1, <4>2 DEF RowsExact
      <4>4. table[Row(next, i)] = rows[Row(old, i)]
        BY <2>2, <2>5, <3>2
      <4>5. /\ SelectsMany(c, k)' <=> SelectsMany(c, k)
            /\ KeySequenceAt(c, k)' = KeySequenceAt(c, k)
        BY <1>3, <4>1, RowKept
      <4> QED BY <4>3, <4>4, <4>5
    <3>3. CASE i = n + 1
      <4>1. k = top
        BY <1>9, <2>6, <3>3
      <4>2. PICK frame : frame = moved[m]
        OBVIOUS
      <4>3. FramesExact(comp, o, cs.collection_stack)
        BY <1>2, <3>1 DEF TablesOf
      <4>4. IsTarget(comp, Open, o, Depth) /\ m = Rank(comp, Open, o, Depth)
        BY <1>2, <1>6, <1>13
      <4>5. FrameExact(comp, moved[m], k)'
        BY <1>2, <1>4, <1>6, <4>1, <4>3, <4>4, EndFrames
      <4>6. comp = Compiled'[c] /\ frame \in FrameType(comp) /\ k \in Closed'
        BY <1>3, <2>4, <2>6, <4>2
      <4>7. ExactRows'
        BY <1>3, FrameRow, PTL
      <4>8. FrameExact(comp, frame, k)'
        BY <4>2, <4>5
      <4>9. SelectsMany(c, k)' \/ frame.values = KeySequenceAt(c, k)'
        BY <4>6, <4>7, <4>8 DEF ExactRows
      <4> QED BY <2>2, <2>3, <2>5, <3>3, <4>2, <4>9
    <3> QED BY <2>1, <2>6, <3>2, <3>3
  <2>7. ~ Shadowed(c, e)' => RowsExact(c, e, table)'
    BY <2>1, <2>6 DEF RowsExact
  <2>8. Len(table) = Cardinality(next)
    BY <2>2, <2>5
  <2> QED BY <2>1, <2>7, <2>8 DEF TableExact
<1> QED BY <1>12, <1>13

LEMMA EndKeepsTables ==
    ASSUME RegularSelectors, RegularFields, OwnersInv, FramesInv, TablesInv,
           NEW content \in Content, EndTag(content)
    PROVE  TablesInv'
<1>1. /\ VariablesType /\ TreeOK /\ StructsOK /\ EveryTagged
      /\ \A cs \in active_constraints : StructOK(cs) /\ FramesStruct(cs) /\ TablesStruct(cs)
  BY DEF OwnersInv, StructsOK, FramesInv, TablesInv
<1>2. PICK top : top = Node(Depth)
  OBVIOUS
<1>3. /\ Continues /\ EveryTagged' /\ Kept /\ VariablesType'
      /\ \A k \in 1 .. Depth' : Node(k)' = Node(k)
      /\ Depth' = Depth - 1 /\ Depth \in Nat \ {0} /\ Compiled' = Compiled
  <2>1. Continues /\ EveryTagged' /\ Kept /\ VariablesType'
    BY <1>1, <1>2, EndContinues DEF Continues
  <2>2. (\A k \in 1 .. Depth' : Node(k)' = Node(k)) /\ Depth' = Depth - 1 /\ Depth \in Nat \ {0}
    BY <1>1, EndCloses, ClosesTree
  <2> QED BY <2>1, <2>2 DEF EndTag, Compiled
<1>4. ASSUME NEW cs \in active_constraints, NEW b, b = Ended(cs, content), b.selector.active
      PROVE  TablesStruct(b)'
  <2>1. PICK c, comp, o, e, next, table :
           /\ c = cs.constraint /\ comp = Compiled[c] /\ o = cs.owner_depth /\ e = Node(o)
           /\ next = b.collection_stack /\ table = b.key_table
    OBVIOUS
  <2>2. /\ b.constraint = c /\ b.owner_depth = o /\ o < Depth /\ o \in 1 .. Depth
        /\ StructOK(cs) /\ FramesStruct(cs) /\ TablesStruct(cs)
    BY <1>1, <1>4, <2>1, EndedStructs DEF SameConstraint
  <2>3. e \in 1 .. Len(nodes) /\ TablesOf(c, comp, o, e, cs.collection_stack, cs.key_table)
    <3>1. e \in 1 .. Len(nodes)
      BY <1>1, <2>1, <2>2, OpenNodes
    <3> QED BY <2>1, <2>2, <3>1 DEF TablesStruct
  <2>4. TableExact(c, e, table)'
    BY <1>1, <1>4, <2>1, <2>2, <2>3, EndKeepsTable
  <2>5. ASSUME ~ Shadowed(c, e)' PROVE FramesExact(comp, o, next)'
    <3>1. ~ Shadowed(c, e)
      BY <1>1, <1>3, <2>3, <2>5, ShadowedKept
    <3>2. FramesExact(comp, o, cs.collection_stack)
      BY <2>3, <3>1 DEF TablesOf
    <3>3. FramesExact(comp, o, b.collection_stack)'
      BY <1>1, <1>4, <2>1, <2>2, <3>2, EndKeepsRanks
    <3> QED BY <2>1, <3>3
  <2>6. TablesOf(c, comp, o, e, next, table)'
    BY <2>4, <2>5 DEF TablesOf
  <2>7. e = Node(o)' /\ Compiled'[c] = comp
    <3>1. o \in 1 .. Depth'
      BY <1>3, <2>2
    <3> QED BY <1>3, <2>1, <3>1
  <2> QED BY <2>1, <2>2, <2>6, <2>7 DEF TablesStruct
<1>5. ASSUME NEW b \in active_constraints' PROVE TablesStruct(b)'
  <2> DEFINE ended == {Ended(cs, content) : cs \in active_constraints}
             closing == {cs \in ended : ~ cs.selector.active}
  <2>1. active_constraints' = ended \ closing
    BY DEF EndTag
  <2>2. \E cs \in active_constraints : b = Ended(cs, content) /\ b.selector.active
    BY <1>5, <2>1
  <2> QED BY <1>4, <2>2
<1> QED BY <1>3, <1>5 DEF TablesInv

-----------------------------------------------------------------------------
(* The inductive invariant.                                                *)
LEMMA InitTables ==
    Init => TablesInv
<1> SUFFICES ASSUME Init PROVE TablesInv
  OBVIOUS
<1>1. nodes = <<>> /\ active_constraints = {}
  BY DEF Init
<1> QED BY <1>1 DEF TablesInv, EveryTagged

LEMMA StutterTables ==
    TablesInv /\ UNCHANGED vars => TablesInv'
<1> SUFFICES ASSUME TablesInv, UNCHANGED vars PROVE TablesInv'
  OBVIOUS
<1>1. /\ schema' = schema /\ nodes' = nodes /\ finished' = finished
      /\ validation_stack' = validation_stack /\ active_constraints' = active_constraints
  BY DEF vars
<1>2. /\ Compiled' = Compiled /\ Depth' = Depth /\ Closed' = Closed
      /\ \A d : Node(d)' = Node(d)
  BY <1>1 DEF Compiled, Depth, Closed, Node
<1>3. EveryTagged'
  BY <1>1, <1>2 DEF TablesInv, EveryTagged
<1>4. \A cs : TablesStruct(cs)' <=> TablesStruct(cs)
  BY <1>1 DEF TablesStruct, TablesOf, TableExact, RowsExact, FramesExact, FrameExact, FieldExact,
       Gathered, AttributesTaken, TakesAttribute, EndedTargets, Targets, Shadowed, SelectsMany,
       KeySequenceAt, FieldNodes, ValueAt, Selects, Below, Trail, Compiled, Closed, Node, Depth,
       Open
<1> QED BY <1>1, <1>3, <1>4 DEF TablesInv

LEMMA StepTables ==
    ASSUME RegularSelectors, RegularFields, OwnersInv, FramesInv, TablesInv, Next
    PROVE  TablesInv'
<1>1. /\ VariablesType /\ TreeOK /\ SkippedInside(Open)
  BY DEF OwnersInv
<1>2. ASSUME NEW d \in schema.declarations, StartElement(d) PROVE TablesInv'
  <2>1. d \in Declared /\ Push(d) /\ ~ InSkipped
    BY <1>2 DEF StartElement, Declared
  <2>2. d.name # Skipped /\ Visible(Open)
    <3>1. d.name \in Name
      BY <1>1, DeclarationAssumption DEF VariablesType
    <3> QED BY <1>1, <2>1, <3>1, OpenVisible, SkippedAssumption
  <2>3. PushedStructs(d)
    BY <1>2, <2>2 DEF StartElement, PushedStructs, Depth
  <2> QED BY <2>1, <2>3, PushKeepsTables
<1>3. ASSUME StartSkipped PROVE TablesInv'
  <2>1. SkippedElement \in Declared /\ Push(SkippedElement)
    BY <1>3 DEF StartSkipped, Declared
  <2>2. PushedStructs(SkippedElement)
    BY <1>3 DEF StartSkipped, PushedStructs, SkippedElement
  <2> QED BY <2>1, <2>2, PushKeepsTables
<1>4. ASSUME NEW name, NEW value \in AttributeValue \cup {Unassessed}, Attribute(name, value)
      PROVE  TablesInv'
  BY <1>4, AttributeKeepsTables
<1>5. ASSUME NEW content \in Content, EndTag(content) PROVE TablesInv'
  BY <1>5, EndKeepsTables
<1> QED BY <1>2, <1>3, <1>4, <1>5 DEF Next

(* However the targets of a constraint nest, and whatever else is matched  *)
(* in between: while it is evaluated, its table has one row for every      *)
(* closed target, in the order of their end tags, and unless the target    *)
(* shadows an attribute of another, or a field of it selects two nodes,    *)
(* the row is its key sequence (start_element, set_field_value and         *)
(* end_element_with_text of ConstraintStruct, identity.rs, from the        *)
(* handlers of runtime.rs).  Fields and selectors are regular: a bare      *)
(* `.//.' is left out.                                                     *)
THEOREM TablesAreOfTargets ==
    ASSUME RegularSelectors, RegularFields
    PROVE  Spec => []TablesFollowDocument
<1>1. Init => OwnersInv /\ FramesInv /\ TablesInv
  BY InitOwners, InitFrames, InitTables
<1>2. (OwnersInv /\ FramesInv /\ TablesInv) /\ [Next]_vars
         => (OwnersInv /\ FramesInv /\ TablesInv)'
  BY StepOwners, StutterOwners, StepFrames, StutterFrames, StepTables, StutterTables
<1>3. OwnersInv /\ FramesInv /\ TablesInv => TablesFollowDocument
  <2> SUFFICES ASSUME OwnersInv, FramesInv, TablesInv, NEW cs \in active_constraints,
                      NEW c, c = cs.constraint, NEW e, e = Node(cs.owner_depth)
               PROVE  /\ Len(cs.key_table) = Cardinality(EndedTargets(c, e))
                      /\ ~ Shadowed(c, e) =>
                            \A i \in EndedTargets(c, e) :
                               SelectsMany(c, finished[i])
                                  \/ cs.key_table[Row(EndedTargets(c, e), i)]
                                        = KeySequenceAt(c, finished[i])
    BY DEF TablesFollowDocument, EndedTargets, Row, Node
  <2>1. e \in 1 .. Len(nodes)
    BY OpenNodes DEF OwnersInv, StructsOK, StructOK
  <2>2. TableExact(c, e, cs.key_table)
    BY <2>1 DEF TablesInv, TablesStruct, TablesOf
  <2>3. \A i \in EndedTargets(c, e) : finished[i] \in Closed
    BY DEF EndedTargets, Closed
  <2> QED BY <2>2, <2>3 DEF TableExact, RowsExact
<1> QED BY <1>1, <1>2, <1>3, PTL DEF Spec

-----------------------------------------------------------------------------
(* The targets of what is closed are closed.                               *)
ClosedTargets == \A c : \A e \in Closed : Targets(c, e) \subseteq Closed

LEMMA TargetsClosed ==
    VariablesType /\ TreeOK /\ EveryTagged => ClosedTargets
<1> SUFFICES ASSUME VariablesType, TreeOK, EveryTagged, NEW c, NEW e \in Closed,
                    NEW n \in Targets(c, e)
             PROVE  n \in Closed
  BY DEF ClosedTargets
<1>1. n \in 1 .. Len(nodes) /\ Below(e, n)
  BY DEF VariablesType, Targets, Selects
<1> SUFFICES ASSUME NEW d \in 1 .. Depth, n = Node(d) PROVE FALSE
  BY <1>1 DEF EveryTagged
<1>2. ~ Below(e, Node(d))
  BY ClosedHasNoOpenBelow
<1> QED BY <1>1, <1>2

KeysAt(c, e) == {KeySequenceAt(c, n) : n \in Targets(c, e)}

RowsOfTargets(c, e, table) ==
    ~ Shadowed(c, e) /\ ~ Many(c, e) => TableRows(table) = KeysAt(c, e)

ExactTables ==
    \A c, table : \A e \in Closed : TableExact(c, e, table) => RowsOfTargets(c, e, table)

LEMMA TablesHoldKeys ==
    VariablesType /\ TreeOK /\ EveryTagged => ExactTables
<1> SUFFICES ASSUME VariablesType, TreeOK, EveryTagged, NEW c, NEW table, NEW e \in Closed,
                    TableExact(c, e, table), ~ Shadowed(c, e), ~ Many(c, e)
             PROVE  TableRows(table) = KeysAt(c, e)
  BY DEF ExactTables, RowsOfTargets
<1>1. PICK ended, n : ended = EndedTargets(c, e) /\ n = Len(finished)
  OBVIOUS
<1>2. n \in Nat /\ ended \in SUBSET (1 .. n)
  BY <1>1 DEF VariablesType, EndedTargets
<1>3. Len(table) = Cardinality(ended) /\ RowsExact(c, e, table)
  BY <1>1 DEF TableExact
<1>4. ASSUME NEW i \in ended
      PROVE  /\ finished[i] \in Targets(c, e)
             /\ table[Row(ended, i)] = KeySequenceAt(c, finished[i])
  <2>1. PICK m : m = finished[i] /\ m \in Closed /\ m \in Targets(c, e)
    BY <1>1, <1>2 DEF EndedTargets, Closed
  <2>2. SelectsMany(c, m) \/ table[Row(ended, i)] = KeySequenceAt(c, m)
    BY <1>1, <1>3, <2>1 DEF RowsExact
  <2> QED BY <2>1, <2>2 DEF Many
<1>5. ASSUME NEW m \in Targets(c, e) PROVE \E i \in ended : finished[i] = m
  <2>1. m \in Closed
    BY TargetsClosed DEF ClosedTargets
  <2> QED BY <1>1, <2>1 DEF EndedTargets, Closed
<1>6. /\ \A i \in ended : Row(ended, i) \in 1 .. Len(table)
      /\ \A r \in 1 .. Len(table) : \E i \in ended : Row(ended, i) = r
  BY <1>2, <1>3, RowsAll
<1>7. ASSUME NEW r \in 1 .. Len(table) PROVE table[r] \in KeysAt(c, e)
  <2>1. PICK i \in ended : Row(ended, i) = r
    BY <1>6
  <2> QED BY <1>4, <2>1 DEF KeysAt
<1>8. ASSUME NEW m \in Targets(c, e) PROVE KeySequenceAt(c, m) \in TableRows(table)
  <2>1. PICK i \in ended : finished[i] = m
    BY <1>5
  <2> QED BY <1>4, <1>6, <2>1 DEF TableRows
<1> QED BY <1>7, <1>8 DEF TableRows, KeysAt

(* What is closed stays as it is, and so do its targets.                   *)
LEMMA ClosedKept ==
    ASSUME Continues, Closed' \subseteq 1 .. Len(nodes), NEW c, NEW e \in Closed
    PROVE  /\ e \in 1 .. Len(nodes) /\ e \in Closed'
           /\ nodes'[e].declaration = nodes[e].declaration
           /\ Targets(c, e)' = Targets(c, e) /\ Targets(c, e) \subseteq Closed
           /\ KeysAt(c, e)' = KeysAt(c, e)
           /\ Many(c, e)' <=> Many(c, e)
           /\ Shadowed(c, e) => Shadowed(c, e)'
<1>1. /\ VariablesType /\ TreeOK /\ EveryTagged
      /\ VariablesType' /\ TreeOK' /\ EveryTagged'
      /\ Kept /\ Grown /\ schema' = schema /\ Closed \subseteq Closed'
  BY DEF Continues, Kept
<1>2. e \in 1 .. Len(nodes) /\ e \in Closed' /\ nodes'[e].declaration = nodes[e].declaration
  BY <1>1 DEF Grown
<1>3. ClosedTargets
  BY <1>1, TargetsClosed
<1>4. ClosedTargets'
  BY <1>1, TargetsClosed, PTL
<1>5. Targets(c, e) \subseteq Closed
  BY <1>3 DEF ClosedTargets
<1>6. Targets(c, e)' \subseteq 1 .. Len(nodes)
  BY <1>2, <1>4 DEF ClosedTargets
<1>7. Targets(c, e)' = Targets(c, e)
  <2>1. \A n \in 1 .. Len(nodes) : n \in Targets(c, e)' <=> n \in Targets(c, e)
    BY <1>1, <1>2, TargetsGrown
  <2> QED BY <1>1, <1>5, <1>6, <2>1
<1>8. \A n \in Targets(c, e) :
         (SelectsMany(c, n)' <=> SelectsMany(c, n)) /\ KeySequenceAt(c, n)' = KeySequenceAt(c, n)
  BY <1>5, RowKept
<1>9. KeysAt(c, e)' = KeysAt(c, e)
  BY <1>7, <1>8 DEF KeysAt
<1>10. Many(c, e)' <=> Many(c, e)
  BY <1>7, <1>8 DEF Many
<1>11. Shadowed(c, e) => Shadowed(c, e)'
  BY <1>1, <1>2, ShadowedKept
<1> QED BY <1>2, <1>5, <1>7, <1>9, <1>10, <1>11

-----------------------------------------------------------------------------
(* The node table of the definition, by those that carry the constraint.   *)
NodeTableRows ==
    \A c, e, x : x \in NodeTable(c, e) <=> \E m \in Carriers(c, e) : x \in KeysAt(c, m)

LEMMA NodeTablesByCarrier ==
    NodeTableRows
BY DEF NodeTableRows, NodeTable, KeysAt

(* What is newly closed carries a constraint below e.                      *)
CarriesBelow(c, e, m) == Below(e, m) /\ c \in nodes[m].declaration.constraints

LEMMA CarriersKept ==
    ASSUME Continues, NEW new \in SUBSET (1 .. Len(nodes)), Closed' = Closed \cup new,
           NEW c, NEW e \in 1 .. Len(nodes)
    PROVE  /\ \A m : m \in Carriers(c, e)' <=>
                 m \in Carriers(c, e) \/ (m \in new /\ CarriesBelow(c, e, m))
           /\ Plain(c, e)' =>
                 /\ Plain(c, e)
                 /\ \A m \in new : CarriesBelow(c, e, m) =>
                       ~ Shadowed(c, m)' /\ ~ Many(c, m)'
           /\ \A x : x \in NodeTable(c, e)' <=>
                 \/ x \in NodeTable(c, e)
                 \/ \E m \in new : CarriesBelow(c, e, m) /\ x \in KeysAt(c, m)'
<1>1. VariablesType /\ TreeOK /\ Grown
  BY DEF Continues, Kept
<1>2. Closed \subseteq 1 .. Len(nodes) /\ Closed' \subseteq 1 .. Len(nodes)
  <2>1. \A i \in 1 .. Len(finished) : finished[i] \in 1 .. Len(nodes)
    BY <1>1 DEF VariablesType
  <2>2. Closed \subseteq 1 .. Len(nodes)
    BY <2>1 DEF Closed
  <2> QED BY <2>2
<1>3. \A m \in 1 .. Len(nodes) :
         (Below(e, m)' <=> Below(e, m)) /\ nodes'[m].declaration = nodes[m].declaration
  BY <1>1, BelowGrown DEF Grown
<1>4. \A m : m \in Carriers(c, e)' <=>
         m \in Carriers(c, e) \/ (m \in new /\ CarriesBelow(c, e, m))
  <2>1. \A m : m \in Carriers(c, e) <=> m \in Closed /\ CarriesBelow(c, e, m)
    BY DEF Carriers, CarriesBelow
  <2>2. \A m : m \in Carriers(c, e)' <=> m \in Closed' /\ CarriesBelow(c, e, m)'
    BY DEF Carriers, CarriesBelow
  <2>3. \A m \in 1 .. Len(nodes) : CarriesBelow(c, e, m)' <=> CarriesBelow(c, e, m)
    BY <1>3 DEF CarriesBelow
  <2> QED BY <1>2, <2>1, <2>2, <2>3
<1>5. \A m \in Carriers(c, e) :
         /\ KeysAt(c, m)' = KeysAt(c, m)
         /\ Many(c, m)' <=> Many(c, m)
         /\ Shadowed(c, m) => Shadowed(c, m)'
  <2>1. Carriers(c, e) \subseteq Closed
    BY DEF Carriers
  <2> QED BY <1>2, <2>1, ClosedKept
<1>6. ASSUME Plain(c, e)'
      PROVE  /\ Plain(c, e)
             /\ \A m \in new : CarriesBelow(c, e, m) => ~ Shadowed(c, m)' /\ ~ Many(c, m)'
  <2>1. \A m \in Carriers(c, e)' : ~ Shadowed(c, m)' /\ ~ Many(c, m)'
    BY <1>6 DEF Plain
  <2> QED BY <1>4, <1>5, <2>1 DEF Plain
<1>7. \A x : x \in NodeTable(c, e)' <=>
         \/ x \in NodeTable(c, e)
         \/ \E m \in new : CarriesBelow(c, e, m) /\ x \in KeysAt(c, m)'
  <2>1. \A x : x \in NodeTable(c, e) <=> \E m \in Carriers(c, e) : x \in KeysAt(c, m)
    BY NodeTablesByCarrier DEF NodeTableRows
  <2>2. NodeTableRows'
    BY NodeTablesByCarrier, PTL
  <2>3. \A x : x \in NodeTable(c, e)' <=> \E m \in Carriers(c, e)' : x \in KeysAt(c, m)'
    BY <2>2 DEF NodeTableRows
  <2> QED BY <1>4, <1>5, <2>1, <2>3
<1> QED BY <1>4, <1>6, <1>7

-----------------------------------------------------------------------------
(* What the scope maps hold.                                               *)
LEMMA EntriesAre ==
    ASSUME NEW tables, NEW c
    PROVE  EntriesOf(tables, c) = IF c \in DOMAIN tables THEN TableRows(tables[c]) ELSE {}
BY DEF EntriesOf, TableRows

LEMMA AppendedEntries ==
    ASSUME NEW tables \in TablesType, NEW c, NEW table \in Seq(KeySequence)
    PROVE  TableRows(Appended(tables, c, table)[c])
              = EntriesOf(tables, c) \cup TableRows(table)
<1>1. PICK S \in SUBSET Constraint : tables \in [S -> Seq(KeySequence)]
  BY DEF TablesType
<1>2. Appended(tables, c, table)[c] = IF c \in S THEN tables[c] \o table ELSE table
  BY <1>1 DEF Appended
<1>3. CASE c \in S
  <2>1. tables[c] \in Seq(KeySequence)
    BY <1>1, <1>3
  <2> QED BY <1>1, <1>2, <1>3, <2>1, RowsJoined, EntriesAre
<1>4. CASE c \notin S
  BY <1>1, <1>2, <1>4, EntriesAre
<1> QED BY <1>3, <1>4

(* Those of a closing element: of its scope, and of its own constraint.    *)
LEMMA ScopeEntries ==
    ASSUME ic_scope_tables \in Seq(TablesType), ic_scope_tables # <<>>, NEW closing,
           \A cs \in closing : cs.key_table \in Seq(KeySequence),
           NEW c, Compiled[c].kind # "keyref", NEW below, below = Top(ic_scope_tables)
    PROVE  \/ /\ \A cs \in closing : cs.constraint # c
              /\ EntriesOf(ScopeTables(closing), c) = EntriesOf(below, c)
           \/ \E cs \in closing :
                 /\ cs.constraint = c
                 /\ EntriesOf(ScopeTables(closing), c)
                       = EntriesOf(below, c) \cup TableRows(cs.key_table)
<1> DEFINE own == {cs \in closing : Compiled[cs.constraint].kind # "keyref"}
           mine == {cs.constraint : cs \in own}
           One(k) == CHOOSE cs \in own : cs.constraint = k
           tables == ScopeTables(closing)
<1>1. below \in TablesType
  BY DEF Top
<1>2. tables = [k \in DOMAIN below \cup mine |->
                   IF k \notin mine THEN below[k]
                   ELSE Appended(below, k, One(k).key_table)[k]]
  BY DEF ScopeTables
<1>3. CASE c \notin mine
  <2>1. \A cs \in closing : cs.constraint # c
    BY <1>3
  <2>2. /\ c \in DOMAIN tables <=> c \in DOMAIN below
        /\ c \in DOMAIN below => tables[c] = below[c]
    BY <1>2, <1>3
  <2> HIDE DEF tables
  <2>3. EntriesOf(tables, c) = EntriesOf(below, c)
    BY <2>2, EntriesAre
  <2> QED BY <2>1, <2>3 DEF tables
<1>4. CASE c \in mine
  <2>1. \E cs \in own : cs.constraint = c
    BY <1>4
  <2>2. PICK cs : cs = One(c) /\ cs \in own /\ cs.constraint = c
    BY <2>1
  <2>3. cs \in closing /\ cs.key_table \in Seq(KeySequence)
    BY <2>2
  <2>4. c \in DOMAIN tables /\ tables[c] = Appended(below, c, cs.key_table)[c]
    <3> HIDE DEF One, mine
    <3> QED BY <1>2, <1>4, <2>2
  <2> HIDE DEF tables, own, One
  <2>5. EntriesOf(tables, c) = EntriesOf(below, c) \cup TableRows(cs.key_table)
    BY <1>1, <2>3, <2>4, AppendedEntries, EntriesAre
  <2> QED BY <2>2, <2>3, <2>5 DEF tables
<1> QED BY <1>3, <1>4

(* And of its parent, once it has them.                                    *)
LEMMA PropagatedEntries ==
    ASSUME NEW stack \in Seq(TablesType), stack # <<>>, NEW tables \in TablesType, NEW c,
           NEW n, n = Len(stack), NEW next, next = Propagated(stack, tables)
    PROVE  /\ Len(next) = n /\ \A k \in 1 .. n - 1 : next[k] = stack[k]
           /\ EntriesOf(next[n], c) = EntriesOf(stack[n], c) \cup EntriesOf(tables, c)
<1>1. PICK top, new :
         /\ top = stack[n]
         /\ new = [k \in DOMAIN top \cup DOMAIN tables |->
                      IF k \in DOMAIN tables THEN Appended(top, k, tables[k])[k] ELSE top[k]]
  OBVIOUS
<1>2. n \in 1 .. Len(stack) /\ top \in TablesType
  BY <1>1
<1>3. next = [stack EXCEPT ![n] = new]
  BY <1>1 DEF Propagated
<1>4. /\ Len(next) = n /\ next[n] = new /\ \A k \in 1 .. n - 1 : next[k] = stack[k]
  BY <1>2, <1>3
<1>5. EntriesOf(new, c) = EntriesOf(top, c) \cup EntriesOf(tables, c)
  <2>1. CASE c \in DOMAIN tables
    <3>1. tables[c] \in Seq(KeySequence)
      BY <2>1 DEF TablesType
    <3>2. c \in DOMAIN new /\ new[c] = Appended(top, c, tables[c])[c]
      BY <1>1, <2>1
    <3>3. TableRows(Appended(top, c, tables[c])[c])
             = EntriesOf(top, c) \cup TableRows(tables[c])
      BY <1>2, <3>1, AppendedEntries
    <3> QED BY <2>1, <3>2, <3>3, EntriesAre
  <2>2. CASE c \notin DOMAIN tables
    <3>1. /\ c \in DOMAIN new <=> c \in DOMAIN top
          /\ c \in DOMAIN top => new[c] = top[c]
      BY <1>1, <2>2
    <3> QED BY <2>2, <3>1, EntriesAre
  <2> QED BY <2>1, <2>2
<1> QED BY <1>1, <1>4, <1>5

-----------------------------------------------------------------------------
(* The inductive invariant.                                                *)
ScopeEntriesFrom(c, d) == UNION {EntriesOf(ic_scope_tables[k], c) : k \in d .. Depth}

ScopeExact(c, d, e) == Plain(c, e) => ScopeEntriesFrom(c, d) = NodeTable(c, e)

FinalExact(c) ==
    nodes # <<>> /\ Depth = 0 /\ Plain(c, 1) =>
        EntriesOf(final_ic_tables, c) = NodeTable(c, 1)

ScopesInv ==
    /\ Depth > 0 => Node(1) = 1
    /\ \A c \in Constraint : Compiled[c].kind # "keyref" =>
          /\ \A d \in 1 .. Depth : \A e \in 1 .. Len(nodes) :
                e = Node(d) => ScopeExact(c, d, e)
          /\ FinalExact(c)

(* An entry of the scopes is one of some scope.                            *)
LEMMA EntryOfScope ==
    ASSUME NEW c, NEW d, NEW x
    PROVE  x \in ScopeEntriesFrom(c, d) <=>
              \E k \in d .. Depth : x \in EntriesOf(ic_scope_tables[k], c)
BY DEF ScopeEntriesFrom

(* Start tags and attributes: no table changes, and nothing closes.        *)
LEMMA ScopeKept ==
    ASSUME Continues, Closed' = Closed, NEW c, NEW d \in 1 .. Depth, NEW e \in 1 .. Len(nodes),
           Depth \in Nat, Depth' \in {Depth, Depth + 1},
           \A k \in 1 .. Depth : ic_scope_tables'[k] = ic_scope_tables[k],
           Depth' = Depth + 1 => ic_scope_tables'[Depth + 1] = NoTables,
           ScopeExact(c, d, e)
    PROVE  ScopeExact(c, d, e)'
<1> SUFFICES ASSUME Plain(c, e)'
             PROVE  ScopeEntriesFrom(c, d)' = NodeTable(c, e)'
  BY DEF ScopeExact
<1>1. Plain(c, e) /\ \A x : x \in NodeTable(c, e)' <=> x \in NodeTable(c, e)
  <2>1. {} \in SUBSET (1 .. Len(nodes)) /\ Closed' = Closed \cup {}
    OBVIOUS
  <2> QED BY <2>1, CarriersKept
<1>2. ScopeEntriesFrom(c, d) = NodeTable(c, e)
  BY <1>1 DEF ScopeExact
<1>3. \A x : x \in ScopeEntriesFrom(c, d)' <=> x \in ScopeEntriesFrom(c, d)
  <2>1. EntriesOf(NoTables, c) = {}
    BY EntriesAre DEF NoTables
  <2>2. ScopeEntriesFrom(c, d)' = UNION {EntriesOf(ic_scope_tables'[k], c) : k \in d .. Depth'}
    BY DEF ScopeEntriesFrom, EntriesOf
  <2>3. \A x : x \in ScopeEntriesFrom(c, d)' <=>
           \E k \in d .. Depth' : x \in EntriesOf(ic_scope_tables'[k], c)
    BY <2>2
  <2>4. \A x : x \in ScopeEntriesFrom(c, d) <=>
           \E k \in d .. Depth : x \in EntriesOf(ic_scope_tables[k], c)
    BY EntryOfScope
  <2>5. \A k \in d .. Depth : k \in 1 .. Depth /\ k \in d .. Depth'
    OBVIOUS
  <2>6. \A k \in d .. Depth' : k \in d .. Depth \/ (Depth' = Depth + 1 /\ k = Depth + 1)
    OBVIOUS
  <2> QED BY <2>1, <2>3, <2>4, <2>5, <2>6
<1> QED BY <1>1, <1>2, <1>3

(* The tables of the constraints that end with their element.              *)
ClosingTables(closing, top) ==
    /\ \A b \in closing :
          /\ b.constraint \in Carried(Depth) /\ b.constraint \in Constraint
          /\ b.key_table \in Seq(KeySequence)
          /\ TableExact(b.constraint, top, b.key_table)'
    /\ \A c \in Carried(Depth) : \E b \in closing : b.constraint = c

LEMMA TablesClose ==
    ASSUME RegularSelectors, RegularFields, OwnersInv, FramesInv, TablesInv,
           NEW content \in Content, EndTag(content), NEW top, top = Node(Depth),
           NEW closing,
           closing = {cs \in {Ended(cs, content) : cs \in active_constraints} :
                         ~ cs.selector.active}
    PROVE  ClosingTables(closing, top)
<1>1. /\ VariablesType /\ TreeOK /\ StructsOK /\ EveryTagged
      /\ \A cs \in active_constraints : StructOK(cs) /\ FramesStruct(cs) /\ TablesStruct(cs)
  BY DEF OwnersInv, StructsOK, FramesInv, TablesInv
<1>2. Depth \in Nat \ {0} /\ Depth \in 1 .. Depth
  BY <1>1, EndCloses
<1>3. ASSUME NEW cs \in active_constraints, NEW b, b = Ended(cs, content)
      PROVE  /\ b.constraint = cs.constraint /\ cs.constraint \in Constraint
             /\ b.selector.active <=> cs.owner_depth # Depth
             /\ cs.owner_depth = Depth =>
                   /\ cs.constraint \in Carried(Depth)
                   /\ b.key_table \in Seq(KeySequence)
                   /\ TableExact(cs.constraint, top, b.key_table)'
  <2>1. PICK c, comp, o, e, table :
           /\ c = cs.constraint /\ comp = Compiled[c] /\ o = cs.owner_depth /\ e = Node(o)
           /\ table = b.key_table
    OBVIOUS
  <2>2. /\ b.constraint = c /\ c \in Constraint /\ o \in 1 .. Depth
        /\ b.selector.active <=> o < Depth
        /\ StructOK(cs) /\ FramesStruct(cs) /\ TablesStruct(cs)
    BY <1>1, <1>3, <2>1, EndedStructs DEF SameConstraint
  <2>3. e \in 1 .. Len(nodes) /\ TablesOf(c, comp, o, e, cs.collection_stack, cs.key_table)
    <3>1. e \in 1 .. Len(nodes)
      BY <1>1, <2>1, <2>2, OpenNodes
    <3> QED BY <2>1, <2>2, <3>1 DEF TablesStruct
  <2>4. TableExact(c, e, table)'
    BY <1>1, <1>3, <2>1, <2>2, <2>3, EndKeepsTable
  <2>5. c \in Carried(o) /\ table \in Seq(KeySequence)
    <3>1. c \in Carried(o)
      BY <2>1, <2>2 DEF FramesStruct
    <3> QED BY <1>1, <1>3, <2>1, <2>2, <3>1, StructEnds
  <2>6. o # Depth <=> o < Depth
    BY <1>2, <2>2
  <2> QED BY <2>1, <2>2, <2>4, <2>5, <2>6
<1>4. ASSUME NEW b \in closing
      PROVE  /\ b.constraint \in Carried(Depth) /\ b.constraint \in Constraint
             /\ b.key_table \in Seq(KeySequence)
             /\ TableExact(b.constraint, top, b.key_table)'
  <2>1. PICK cs \in active_constraints : b = Ended(cs, content) /\ ~ b.selector.active
    OBVIOUS
  <2> QED BY <1>3, <2>1
<1>5. ASSUME NEW c \in Carried(Depth) PROVE \E b \in closing : b.constraint = c
  <2>1. PICK cs \in active_constraints : cs.constraint = c /\ cs.owner_depth = Depth
    BY <1>2 DEF FramesInv
  <2>2. PICK b : b = Ended(cs, content)
    OBVIOUS
  <2>3. ~ b.selector.active /\ b.constraint = c
    BY <1>3, <2>1, <2>2
  <2> QED BY <2>2, <2>3
<1> QED BY <1>4, <1>5 DEF ClosingTables

LEMMA ClosingEntries ==
    ASSUME FramesInv, Depth \in Nat \ {0}, VariablesType', TreeOK', EveryTagged',
           NEW top \in Closed', NEW closing, ClosingTables(closing, top),
           NEW c, Compiled[c].kind # "keyref",
           c \in Carried(Depth) => ~ Shadowed(c, top)' /\ ~ Many(c, top)', NEW x
    PROVE  x \in EntriesOf(ScopeTables(closing), c) <=>
              \/ x \in EntriesOf(ic_scope_tables[Depth], c)
              \/ c \in Carried(Depth) /\ x \in KeysAt(c, top)'
<1>1. PICK below : below = Top(ic_scope_tables)
  OBVIOUS
<1>2. ic_scope_tables \in Seq(TablesType) /\ ic_scope_tables # <<>> /\ Len(ic_scope_tables) = Depth
  BY DEF FramesInv
<1>3. below = ic_scope_tables[Depth]
  BY <1>1, <1>2 DEF Top
<1>4. \A b \in closing : b.constraint \in Carried(Depth) /\ b.key_table \in Seq(KeySequence)
  BY DEF ClosingTables
<1>5. \/ /\ \A b \in closing : b.constraint # c
         /\ EntriesOf(ScopeTables(closing), c) = EntriesOf(below, c)
      \/ \E b \in closing :
            /\ b.constraint = c
            /\ EntriesOf(ScopeTables(closing), c)
                  = EntriesOf(below, c) \cup TableRows(b.key_table)
  BY <1>1, <1>2, <1>4, ScopeEntries
<1>6. ASSUME \A b \in closing : b.constraint # c PROVE c \notin Carried(Depth)
  BY <1>6 DEF ClosingTables
<1>7. ASSUME NEW b \in closing, b.constraint = c
      PROVE  c \in Carried(Depth) /\ TableRows(b.key_table) = KeysAt(c, top)'
  <2>1. ExactTables'
    BY TablesHoldKeys, PTL
  <2>2. PICK table : table = b.key_table
    OBVIOUS
  <2>3. c \in Carried(Depth) /\ TableExact(c, top, table)'
    BY <1>7, <2>2 DEF ClosingTables
  <2>4. RowsOfTargets(c, top, table)'
    BY <2>1, <2>3 DEF ExactTables
  <2>5. TableRows(table) = KeysAt(c, top)'
    BY <2>3, <2>4 DEF RowsOfTargets, TableRows
  <2> QED BY <2>2, <2>3, <2>5
<1> QED BY <1>3, <1>5, <1>6, <1>7

(* The entries of the scopes, and those of the tables that close now.      *)
EndClosing(content) ==
    {cs \in {Ended(cs, content) : cs \in active_constraints} : ~ cs.selector.active}

LEMMA EndNodeTable ==
    ASSUME RegularSelectors, RegularFields, OwnersInv, FramesInv, TablesInv, ScopesInv,
           NEW content \in Content, EndTag(content), NEW top, top = Node(Depth),
           NEW tables, tables = ScopeTables(EndClosing(content)),
           NEW c \in Constraint, Compiled[c].kind # "keyref",
           NEW d \in 1 .. Depth, NEW e \in 1 .. Len(nodes), e = Node(d), Plain(c, e)', NEW x
    PROVE  x \in NodeTable(c, e)' <=>
              \/ \E k \in d .. Depth - 1 : x \in EntriesOf(ic_scope_tables[k], c)
              \/ x \in EntriesOf(tables, c)
<1>1. PICK closing : closing = EndClosing(content) /\ tables = ScopeTables(closing)
  OBVIOUS
<1>2. /\ VariablesType /\ TreeOK /\ StructsOK /\ EveryTagged
  BY DEF OwnersInv, FramesInv, TablesInv
<1>3. /\ Depth \in Nat \ {0} /\ Depth \in 1 .. Depth
      /\ Closed' = Closed \cup {top} /\ top \in 1 .. Len(nodes) /\ top \in Closed'
  <2>1. Depth \in Nat \ {0}
    BY <1>2, EndCloses
  <2>2. top \in 1 .. Len(nodes)
    BY <1>2, <2>1, OpenNodes
  <2> QED BY <1>2, <2>1, <2>2, EndCloses, ClosesTree
<1>4. Continues /\ VariablesType' /\ TreeOK' /\ EveryTagged'
  BY <1>2, EndContinues DEF Continues
<1>5. ClosingTables(closing, top)
  BY <1>1, TablesClose DEF EndClosing
<1>6. Below(e, top)
  <2>1. \A n \in 1 .. Len(nodes) : Below(n, Node(Depth)) <=> \E k \in 1 .. Depth : n = Node(k)
    BY <1>2, <1>3, OpenNodes
  <2> QED BY <2>1
<1>7. CarriesBelow(c, e, top) <=> c \in Carried(Depth)
  BY <1>6 DEF CarriesBelow, Carried
<1>8. /\ Plain(c, e)
      /\ c \in Carried(Depth) => ~ Shadowed(c, top)' /\ ~ Many(c, top)'
      /\ x \in NodeTable(c, e)' <=>
            x \in NodeTable(c, e) \/ (c \in Carried(Depth) /\ x \in KeysAt(c, top)')
  <2>1. PICK new : new = {top} /\ new \in SUBSET (1 .. Len(nodes)) /\ Closed' = Closed \cup new
    BY <1>3
  <2> QED BY <1>4, <1>7, <2>1, CarriersKept
<1>9. x \in NodeTable(c, e) <=> \E k \in d .. Depth : x \in EntriesOf(ic_scope_tables[k], c)
  <2>1. ScopeExact(c, d, e)
    BY DEF ScopesInv
  <2> QED BY <1>8, <2>1, EntryOfScope DEF ScopeExact
<1>10. x \in EntriesOf(tables, c) <=>
          \/ x \in EntriesOf(ic_scope_tables[Depth], c)
          \/ c \in Carried(Depth) /\ x \in KeysAt(c, top)'
  BY <1>1, <1>3, <1>4, <1>5, <1>8, ClosingEntries
<1>11. \A k : k \in d .. Depth <=> k \in d .. Depth - 1 \/ k = Depth
  BY <1>3
<1> QED BY <1>8, <1>9, <1>10, <1>11

LEMMA EndKeepsScopes ==
    ASSUME RegularSelectors, RegularFields, OwnersInv, FramesInv, TablesInv, ScopesInv,
           NEW content \in Content, EndTag(content)
    PROVE  ScopesInv'
<1>1. PICK top, closing, stack, tables :
         /\ top = Node(Depth)
         /\ closing = {cs \in {Ended(cs, content) : cs \in active_constraints} :
                          ~ cs.selector.active}
         /\ stack = Pop(ic_scope_tables) /\ tables = ScopeTables(closing)
  OBVIOUS
<1>2. /\ VariablesType /\ TreeOK /\ StructsOK /\ EveryTagged
      /\ ic_scope_tables \in Seq(TablesType) /\ Len(ic_scope_tables) = Depth
  BY DEF OwnersInv, FramesInv, TablesInv
<1>3. /\ Depth \in Nat \ {0} /\ Depth' = Depth - 1 /\ Len(nodes') = Len(nodes)
      /\ \A k \in 1 .. Depth' : Node(k)' = Node(k)
      /\ Closed' = Closed \cup {top} /\ top \in 1 .. Len(nodes) /\ top \in Closed'
      /\ Depth \in 1 .. Depth
  <2>1. Depth \in Nat \ {0}
    BY <1>2, EndCloses
  <2>2. top \in 1 .. Len(nodes)
    BY <1>1, <1>2, <2>1, OpenNodes
  <2> QED BY <1>1, <1>2, <2>1, <2>2, EndCloses, ClosesTree
<1>4. Continues /\ VariablesType' /\ TreeOK' /\ EveryTagged'
  BY <1>1, <1>2, EndContinues DEF Continues
<1>5. Compiled' = Compiled /\ Constraint' = Constraint
  BY DEF EndTag, Compiled, Constraint
<1>6. ClosingTables(closing, top)
  BY <1>1, TablesClose
<1>7. /\ ic_scope_tables' = Propagated(stack, tables)
      /\ final_ic_tables' = IF Depth = 1 THEN tables ELSE final_ic_tables
  BY <1>1 DEF EndTag, Depth
<1>8. tables \in TablesType
  <2>1. \A b \in closing : b.constraint \in Constraint /\ b.key_table \in Seq(KeySequence)
    BY <1>6 DEF ClosingTables
  <2> QED BY <1>1, <1>2, <1>3, <2>1, ScopeTablesTyped
<1>9. /\ stack \in Seq(TablesType) /\ Len(stack) = Depth - 1
      /\ \A k \in 1 .. Depth - 1 : stack[k] = ic_scope_tables[k]
  BY <1>1, <1>2, <1>3, Prefixes
<1>10. ASSUME NEW c \in Constraint, Compiled[c].kind # "keyref",
              NEW d \in 1 .. Depth, NEW e \in 1 .. Len(nodes), e = Node(d), Plain(c, e)', NEW x
       PROVE  x \in NodeTable(c, e)' <=>
                 \/ \E k \in d .. Depth - 1 : x \in EntriesOf(ic_scope_tables[k], c)
                 \/ x \in EntriesOf(tables, c)
  BY <1>1, <1>10, EndNodeTable DEF EndClosing
<1>11. Depth' > 0 => Node(1)' = 1
  BY <1>3 DEF ScopesInv
<1>12. ASSUME NEW c \in Constraint, Compiled[c].kind # "keyref",
              NEW d \in 1 .. Depth - 1, NEW e \in 1 .. Len(nodes), e = Node(d), Plain(c, e)'
       PROVE  ScopeEntriesFrom(c, d)' = NodeTable(c, e)'
  <2>1. PICK n : n = Depth - 1 /\ n \in 1 .. n /\ d \in 1 .. n /\ n = Len(stack) /\ stack # <<>>
    BY <1>3, <1>9
  <2>2. /\ \A k \in 1 .. n - 1 : ic_scope_tables'[k] = stack[k]
        /\ EntriesOf(ic_scope_tables'[n], c) = EntriesOf(stack[n], c) \cup EntriesOf(tables, c)
    <3>1. PICK next : next = Propagated(stack, tables)
      OBVIOUS
    <3>2. /\ Len(next) = n /\ \A k \in 1 .. n - 1 : next[k] = stack[k]
          /\ EntriesOf(next[n], c) = EntriesOf(stack[n], c) \cup EntriesOf(tables, c)
      BY <1>8, <1>9, <2>1, <3>1, PropagatedEntries
    <3> QED BY <1>7, <3>1, <3>2
  <2>3. ASSUME NEW x
        PROVE  x \in ScopeEntriesFrom(c, d)' <=> x \in NodeTable(c, e)'
    <3>1. ScopeEntriesFrom(c, d)' = UNION {EntriesOf(ic_scope_tables'[k], c) : k \in d .. n}
      BY <1>3, <2>1 DEF ScopeEntriesFrom, EntriesOf
    <3>2. x \in ScopeEntriesFrom(c, d)' <=>
             \E k \in d .. n : x \in EntriesOf(ic_scope_tables'[k], c)
      BY <3>1
    <3>3. d \in 1 .. Depth
      BY <1>3
    <3>4. x \in NodeTable(c, e)' <=>
             \/ \E k \in d .. n : x \in EntriesOf(ic_scope_tables[k], c)
             \/ x \in EntriesOf(tables, c)
      BY <1>10, <1>12, <2>1, <3>3
    <3>5. n \in d .. n /\ \A k \in d .. n : k \in 1 .. n /\ (k # n => k \in 1 .. n - 1)
      BY <2>1
    <3>6. \A k \in d .. n : stack[k] = ic_scope_tables[k]
      BY <1>9, <2>1, <3>5
    <3> QED BY <2>2, <3>2, <3>4, <3>5, <3>6
  <2> QED BY <2>3
<1>13. ASSUME NEW c \in Constraint, Compiled[c].kind # "keyref", Depth = 1, Plain(c, 1)'
       PROVE  EntriesOf(tables, c) = NodeTable(c, 1)'
  <2>1. 1 \in 1 .. Depth /\ 1 \in 1 .. Len(nodes) /\ 1 = Node(1)
    BY <1>1, <1>3, <1>13 DEF ScopesInv
  <2>2. \A k : k \notin 1 .. Depth - 1
    BY <1>13
  <2>3. \A x : x \in EntriesOf(tables, c) <=> x \in NodeTable(c, 1)'
    BY <1>10, <1>13, <2>1, <2>2
  <2> QED BY <2>3
<1>14. ASSUME NEW c \in Constraint, Compiled[c].kind # "keyref"
       PROVE  /\ \A d \in 1 .. Depth' : \A e \in 1 .. Len(nodes') :
                    e = Node(d)' => ScopeExact(c, d, e)'
              /\ FinalExact(c)'
  <2>1. ASSUME NEW d \in 1 .. Depth', NEW e \in 1 .. Len(nodes'), e = Node(d)'
        PROVE  ScopeExact(c, d, e)'
    <3>1. d \in 1 .. Depth - 1 /\ e = Node(d) /\ e \in 1 .. Len(nodes)
      BY <1>3, <2>1
    <3> QED BY <1>12, <1>14, <3>1 DEF ScopeExact
  <2>2. ASSUME Depth' = 0, Plain(c, 1)'
        PROVE  EntriesOf(final_ic_tables, c)' = NodeTable(c, 1)'
    <3>1. Depth = 1
      BY <1>3, <2>2
    <3>2. EntriesOf(final_ic_tables, c)' = EntriesOf(final_ic_tables', c)
      BY DEF EntriesOf
    <3> QED BY <1>7, <1>13, <1>14, <2>2, <3>1, <3>2
  <2>3. FinalExact(c)'
    BY <2>2 DEF FinalExact
  <2> QED BY <2>1, <2>3
<1> QED BY <1>5, <1>11, <1>14 DEF ScopesInv

(* Start tags and attributes leave the scopes as they are.                 *)
ScopesStay ==
    /\ Continues /\ Closed' = Closed
    /\ Depth \in Nat /\ Depth' \in {Depth, Depth + 1}
    /\ \A k \in 1 .. Depth : ic_scope_tables'[k] = ic_scope_tables[k] /\ Node(k)' = Node(k)
    /\ Depth' = Depth + 1 =>
          /\ ic_scope_tables'[Depth + 1] = NoTables
          /\ \A new : new = Node(Depth)' => \A m \in 1 .. Len(nodes) : ~ Below(new, m)'
          /\ Depth = 0 => Node(1)' = 1
    /\ Depth' > 0

LEMMA StayKeepsScopes ==
    ASSUME ScopesInv, ScopesStay
    PROVE  ScopesInv'
<1>1. /\ Continues /\ Closed' = Closed
      /\ Depth \in Nat /\ Depth' \in {Depth, Depth + 1} /\ Depth' > 0
      /\ \A k \in 1 .. Depth : ic_scope_tables'[k] = ic_scope_tables[k] /\ Node(k)' = Node(k)
      /\ Compiled' = Compiled /\ Constraint' = Constraint
      /\ VariablesType /\ TreeOK /\ VariablesType' /\ TreeOK'
  BY DEF ScopesStay, Continues, Kept, Compiled, Constraint
<1>2. Node(1)' = 1
  BY <1>1 DEF ScopesInv, ScopesStay
<1>3. ASSUME NEW c \in Constraint, Compiled[c].kind # "keyref", NEW d \in 1 .. Depth',
             NEW e \in 1 .. Len(nodes'), e = Node(d)'
      PROVE  ScopeExact(c, d, e)'
  <2>1. CASE d \in 1 .. Depth
    <3>1. e = Node(d) /\ e \in 1 .. Len(nodes)
      BY <1>1, <1>3, <2>1, OpenNodes
    <3>2. ScopeExact(c, d, e)
      BY <1>3, <2>1, <3>1 DEF ScopesInv
    <3> QED BY <1>1, <2>1, <3>1, <3>2, ScopeKept DEF ScopesStay
  <2>2. CASE d \notin 1 .. Depth
    <3>1. d = Depth + 1 /\ Depth' = Depth + 1
      BY <1>1, <2>2
    <3>2. /\ ic_scope_tables'[d] = NoTables
          /\ \A m \in 1 .. Len(nodes) : ~ Below(e, m)'
      <4>1. e = Node(Depth)'
        BY <1>3, <3>1 DEF Node
      <4> QED BY <3>1, <4>1 DEF ScopesStay
    <3>3. \A m \in Closed' : m \in 1 .. Len(nodes)
      <4>1. \A i \in 1 .. Len(finished) : finished[i] \in 1 .. Len(nodes)
        BY <1>1 DEF VariablesType
      <4>2. \A m \in Closed : m \in 1 .. Len(nodes)
        BY <4>1 DEF Closed
      <4> QED BY <1>1, <4>2
    <3>4. Carriers(c, e)' = {}
      BY <3>2, <3>3 DEF Carriers
    <3>5. \A x : x \notin NodeTable(c, e)'
      <4>1. NodeTableRows'
        BY NodeTablesByCarrier, PTL
      <4>2. \A x : x \in NodeTable(c, e)' <=> \E m \in Carriers(c, e)' : x \in KeysAt(c, m)'
        BY <4>1 DEF NodeTableRows
      <4> QED BY <3>4, <4>2
    <3>6. ScopeEntriesFrom(c, d)' = UNION {EntriesOf(ic_scope_tables'[k], c) : k \in d .. d}
      BY <3>1 DEF ScopeEntriesFrom, EntriesOf
    <3>7. EntriesOf(NoTables, c) = {}
      BY EntriesAre DEF NoTables
    <3>8. \A k \in d .. d : EntriesOf(ic_scope_tables'[k], c) = {}
      BY <3>2, <3>7
    <3>9. \A x : x \notin ScopeEntriesFrom(c, d)'
      BY <3>6, <3>8
    <3> QED BY <3>5, <3>9 DEF ScopeExact
  <2> QED BY <2>1, <2>2
<1>4. \A c : FinalExact(c)'
  BY <1>1 DEF FinalExact
<1> QED BY <1>1, <1>2, <1>3, <1>4 DEF ScopesInv

LEMMA PushKeepsScopes ==
    ASSUME OwnersInv, FramesInv, TablesInv, ScopesInv, NEW d \in Declared, Push(d)
    PROVE  ScopesInv'
<1>1. VariablesType /\ TreeOK /\ EveryTagged
  BY DEF OwnersInv, TablesInv
<1>2. PICK new : new = Len(nodes) + 1
  OBVIOUS
<1>3. /\ Continues /\ \A m \in 1 .. Len(nodes) : ~ Below(new, m)'
  BY <1>1, <1>2, PushContinues
<1>4. /\ Depth' = Depth + 1 /\ finished' = finished /\ Depth \in Nat
      /\ \A k \in 1 .. Depth : validation_stack'[k] = validation_stack[k]
      /\ validation_stack'[Depth + 1] = PushedEntry(d)
  BY <1>1, PushKeepsTree, OpenTyped
<1>5. Closed' = Closed
  BY <1>4 DEF Closed
<1>6. /\ \A k \in 1 .. Depth : Node(k)' = Node(k)
      /\ Node(Depth)' = new /\ (Depth = 0 => Node(1)' = new)
  <2>1. \A k \in 1 .. Depth : Node(k)' = validation_stack'[k].node
    BY DEF Node
  <2>2. Node(Depth)' = validation_stack'[Depth + 1].node
    BY <1>4 DEF Node
  <2>3. Depth = 0 => Node(1)' = validation_stack'[Depth + 1].node
    BY DEF Node
  <2> QED BY <1>2, <1>4, <2>1, <2>2, <2>3 DEF Node, PushedEntry
<1>7. /\ \A k \in 1 .. Depth : ic_scope_tables'[k] = ic_scope_tables[k]
      /\ ic_scope_tables'[Depth + 1] = NoTables
  <2>1. ic_scope_tables' = Append(ic_scope_tables, NoTables)
    BY DEF Push
  <2> QED BY <1>4, <2>1 DEF FramesInv
<1>8. Depth = 0 => new = 1
  BY <1>2, <1>4 DEF Push, Depth, VariablesType
<1>9. \A n : n = Node(Depth)' => \A m \in 1 .. Len(nodes) : ~ Below(n, m)'
  BY <1>3, <1>6
<1>10. Depth = 0 => Node(1)' = 1
  BY <1>6, <1>8
<1>11. ScopesStay
  BY <1>3, <1>4, <1>5, <1>6, <1>7, <1>9, <1>10 DEF ScopesStay
<1> QED BY <1>11, StayKeepsScopes

LEMMA AttributeKeepsScopes ==
    ASSUME OwnersInv, FramesInv, TablesInv, ScopesInv,
           NEW name, NEW value \in AttributeValue \cup {Unassessed}, Attribute(name, value)
    PROVE  ScopesInv'
<1>1. VariablesType /\ TreeOK /\ StructsOK /\ EveryTagged /\ (in_attributes => Depth > 0)
  BY DEF OwnersInv, TablesInv
<1>2. PICK top : top = Node(Depth)
  OBVIOUS
<1>3. Continues
  BY <1>1, <1>2, AttributeContinues
<1>4. Depth' = Depth /\ Depth > 0 /\ Closed' = Closed /\ \A k \in 1 .. Depth : Node(k)' = Node(k)
  BY <1>1, AttributeKeepsTree
<1>5. ic_scope_tables' = ic_scope_tables /\ Depth \in Nat
  BY <1>1, OpenTyped DEF Attribute
<1>6. ScopesStay
  BY <1>3, <1>4, <1>5 DEF ScopesStay
<1> QED BY <1>6, StayKeepsScopes

LEMMA InitScopes ==
    Init => ScopesInv
<1> SUFFICES ASSUME Init PROVE ScopesInv
  OBVIOUS
<1>1. nodes = <<>> /\ Depth = 0
  BY DEF Init, Depth
<1> QED BY <1>1 DEF ScopesInv, FinalExact

LEMMA StutterScopes ==
    ScopesInv /\ UNCHANGED vars => ScopesInv'
<1> SUFFICES ASSUME ScopesInv, UNCHANGED vars PROVE ScopesInv'
  OBVIOUS
<1>1. /\ schema' = schema /\ nodes' = nodes /\ finished' = finished
      /\ validation_stack' = validation_stack /\ ic_scope_tables' = ic_scope_tables
      /\ final_ic_tables' = final_ic_tables
  BY DEF vars
<1>2. /\ Compiled' = Compiled /\ Constraint' = Constraint /\ Depth' = Depth
      /\ \A d : Node(d)' = Node(d)
  BY <1>1 DEF Compiled, Constraint, Depth, Node
<1>3. \A c, e : /\ Plain(c, e)' <=> Plain(c, e)
                /\ NodeTable(c, e)' = NodeTable(c, e)
  BY <1>1 DEF Plain, NodeTable, Carriers, Shadowed, Many, SelectsMany, KeySequenceAt, FieldNodes,
       ValueAt, Targets, Selects, Below, Trail, Compiled, Closed
<1>4. \A c, d : ScopeEntriesFrom(c, d)' = ScopeEntriesFrom(c, d)
  BY <1>1, <1>2 DEF ScopeEntriesFrom, EntriesOf
<1>5. \A c : EntriesOf(final_ic_tables, c)' = EntriesOf(final_ic_tables, c)
  BY <1>1 DEF EntriesOf
<1>6. /\ \A c, d, e : ScopeExact(c, d, e)' <=> ScopeExact(c, d, e)
      /\ \A c : FinalExact(c)' <=> FinalExact(c)
  BY <1>1, <1>2, <1>3, <1>4, <1>5 DEF ScopeExact, FinalExact
<1> QED BY <1>1, <1>2, <1>6 DEF ScopesInv

LEMMA StepScopes ==
    ASSUME RegularSelectors, RegularFields, OwnersInv, FramesInv, TablesInv, ScopesInv, Next
    PROVE  ScopesInv'
<1>1. ASSUME NEW d \in schema.declarations, StartElement(d) PROVE ScopesInv'
  <2>1. d \in Declared /\ Push(d)
    BY <1>1 DEF StartElement, Declared
  <2> QED BY <2>1, PushKeepsScopes
<1>2. ASSUME StartSkipped PROVE ScopesInv'
  <2>1. SkippedElement \in Declared /\ Push(SkippedElement)
    BY <1>2 DEF StartSkipped, Declared
  <2> QED BY <2>1, PushKeepsScopes
<1>3. ASSUME NEW name, NEW value \in AttributeValue \cup {Unassessed}, Attribute(name, value)
      PROVE  ScopesInv'
  BY <1>3, AttributeKeepsScopes
<1>4. ASSUME NEW content \in Content, EndTag(content) PROVE ScopesInv'
  BY <1>4, EndKeepsScopes
<1> QED BY <1>1, <1>2, <1>3, <1>4 DEF Next

(* A keyref finds the keys of its own scope, wherever in it the elements   *)
(* carry the constraint and whichever of them are closed: from an open     *)
(* element down, the scope maps have the entries of the node table of the  *)
(* definition, and the root's those of the document (finish_top_element,   *)
(* process_constraints_end_element and finish_identity_constraints of      *)
(* runtime.rs).                                                            *)
THEOREM ScopesAreExact ==
    ASSUME RegularSelectors, RegularFields
    PROVE  Spec => []ScopesExact
<1>1. Init => OwnersInv /\ FramesInv /\ TablesInv /\ ScopesInv
  BY InitOwners, InitFrames, InitTables, InitScopes
<1>2. (OwnersInv /\ FramesInv /\ TablesInv /\ ScopesInv) /\ [Next]_vars
         => (OwnersInv /\ FramesInv /\ TablesInv /\ ScopesInv)'
  BY StepOwners, StutterOwners, StepFrames, StutterFrames, StepTables, StutterTables,
     StepScopes, StutterScopes
<1>3. OwnersInv /\ ScopesInv => ScopesExact
  <2> SUFFICES ASSUME OwnersInv, ScopesInv, NEW c \in Constraint, Compiled[c].kind # "keyref"
               PROVE  /\ \A d \in 1 .. Depth :
                            Plain(c, Node(d)) =>
                               UNION {EntriesOf(ic_scope_tables[k], c) : k \in d .. Depth}
                                  = NodeTable(c, Node(d))
                      /\ nodes # <<>> /\ validation_stack = <<>> /\ Plain(c, 1) =>
                            EntriesOf(final_ic_tables, c) = NodeTable(c, 1)
    BY DEF ScopesExact, Depth, Node
  <2>1. ASSUME NEW d \in 1 .. Depth, NEW e, e = Node(d), Plain(c, e)
        PROVE  UNION {EntriesOf(ic_scope_tables[k], c) : k \in d .. Depth} = NodeTable(c, e)
    <3>1. e \in 1 .. Len(nodes)
      BY <2>1, OpenNodes DEF OwnersInv
    <3> QED BY <2>1, <3>1 DEF ScopesInv, ScopeExact, ScopeEntriesFrom
  <2>2. validation_stack = <<>> => Depth = 0
    BY DEF Depth
  <2> QED BY <2>1, <2>2 DEF ScopesInv, FinalExact
<1> QED BY <1>1, <1>2, <1>3, PTL DEF Spec

-----------------------------------------------------------------------------
(* What the violations so far are about: the targets that are closed, and  *)
(* the nodes that the fields have met.                                     *)
ClosedOf(c, e) == Targets(c, e) \cap Closed

MetTwice(c, n) ==
    \E f \in Field : \E x, y \in Gathered(Compiled[c].fields[f], n) : x # y

MeetsMany(c, e) == \E n \in Targets(c, e) : MetTwice(c, n)

FieldTakes(c, e, m) ==
    \E n \in Targets(c, e) : \E f \in Field : Selects(Compiled[c].fields[f], n, m)

MeetsComplex(c, e) == \E m \in Closed : nodes[m].content.complex /\ FieldTakes(c, e, m)

Incomplete(c, e) == \E n \in ClosedOf(c, e) : ~ IsComplete(KeySequenceAt(c, n))

Clashes(c, s, t) == IsChecked(Compiled[c].kind, s) /\ SequenceEqual(s, t)

Clashing(c, e) ==
    \E n, m \in ClosedOf(c, e) :
        n # m /\ Clashes(c, KeySequenceAt(c, n), KeySequenceAt(c, m))

(* The rows of a table, also while its element is open.                    *)
KeysSoFar(c, e) == {KeySequenceAt(c, n) : n \in ClosedOf(c, e)}

RowsSoFar(c, e, table) ==
    ~ Shadowed(c, e) /\ ~ MeetsMany(c, e) => TableRows(table) = KeysSoFar(c, e)

TablesSoFar ==
    \A c, table : \A e \in 1 .. Len(nodes) :
        TableExact(c, e, table) => RowsSoFar(c, e, table)

LEMMA ClosedMetTwice ==
    ASSUME VariablesType, TreeOK, EveryTagged, NEW c, NEW n \in Closed
    PROVE  MetTwice(c, n) <=> SelectsMany(c, n)
BY ClosedGathered DEF ClosedFields, MetTwice, SelectsMany

LEMMA TablesHoldKeysSoFar ==
    VariablesType /\ TreeOK /\ EveryTagged => TablesSoFar
<1> SUFFICES ASSUME VariablesType, TreeOK, EveryTagged, NEW c, NEW table,
                    NEW e \in 1 .. Len(nodes),
                    TableExact(c, e, table), ~ Shadowed(c, e), ~ MeetsMany(c, e)
             PROVE  TableRows(table) = KeysSoFar(c, e)
  BY DEF TablesSoFar, RowsSoFar
<1>1. PICK ended, n : ended = EndedTargets(c, e) /\ n = Len(finished)
  OBVIOUS
<1>2. n \in Nat /\ ended \in SUBSET (1 .. n)
  BY <1>1 DEF VariablesType, EndedTargets
<1>3. Len(table) = Cardinality(ended) /\ RowsExact(c, e, table)
  BY <1>1 DEF TableExact
<1>4. ASSUME NEW i \in ended
      PROVE  /\ finished[i] \in ClosedOf(c, e)
             /\ table[Row(ended, i)] = KeySequenceAt(c, finished[i])
  <2>1. PICK m : m = finished[i] /\ m \in Closed /\ m \in Targets(c, e)
    BY <1>1, <1>2 DEF EndedTargets, Closed
  <2>2. SelectsMany(c, m) \/ table[Row(ended, i)] = KeySequenceAt(c, m)
    BY <1>1, <1>3, <2>1 DEF RowsExact
  <2>3. ~ SelectsMany(c, m)
    BY <2>1, ClosedMetTwice DEF MeetsMany
  <2> QED BY <2>1, <2>2, <2>3 DEF ClosedOf
<1>5. ASSUME NEW m \in ClosedOf(c, e) PROVE \E i \in ended : finished[i] = m
  BY <1>1 DEF ClosedOf, EndedTargets, Closed
<1>6. /\ \A i \in ended : Row(ended, i) \in 1 .. Len(table)
      /\ \A r \in 1 .. Len(table) : \E i \in ended : Row(ended, i) = r
  BY <1>2, <1>3, RowsAll
<1>7. ASSUME NEW r \in 1 .. Len(table) PROVE table[r] \in KeysSoFar(c, e)
  <2>1. PICK i \in ended : Row(ended, i) = r
    BY <1>6
  <2> QED BY <1>4, <2>1 DEF KeysSoFar
<1>8. ASSUME NEW m \in ClosedOf(c, e) PROVE KeySequenceAt(c, m) \in TableRows(table)
  <2>1. PICK i \in ended : finished[i] = m
    BY <1>5
  <2> QED BY <1>4, <1>6, <2>1 DEF TableRows
<1> QED BY <1>7, <1>8 DEF TableRows, KeysSoFar

-----------------------------------------------------------------------------
(* What a step adds to them.                                               *)
OlderAbove == \A n, m \in 1 .. Len(nodes) : Below(n, m) => n \in 1 .. m

LEMMA BelowOlder ==
    VariablesType /\ TreeOK => OlderAbove
<1> SUFFICES ASSUME VariablesType, TreeOK, NEW m \in 1 .. Len(nodes),
                    NEW n \in 1 .. Len(nodes), Below(n, m)
             PROVE  n \in 1 .. m
  BY DEF OlderAbove
<1>1. IsTrail(m) /\ Len(nodes[n].path) \in Nat \ {0} /\ Len(nodes[m].path) \in Nat
  BY NodeTyped DEF TreeOK
<1>2. PICK d : d = Len(nodes[n].path) /\ d \in 1 .. Len(nodes[m].path) /\ nodes[m].path[d] = n
  BY <1>1 DEF Below
<1> QED BY <1>1, <1>2 DEF IsTrail

(* A target of an element there was that has what there was below it.      *)
OldTargets ==
    \A c : \A e, m \in 1 .. Len(nodes) : \A n \in Targets(c, e)' :
        Below(n, m)' => n \in 1 .. Len(nodes) /\ n \in Targets(c, e)

LEMMA TargetsOfOld ==
    ASSUME Continues
    PROVE  OldTargets
<1>1. /\ VariablesType /\ TreeOK /\ VariablesType' /\ TreeOK' /\ Grown /\ schema' = schema
  BY DEF Continues, Kept
<1>2. Len(nodes) \in Nat /\ Len(nodes') \in Nat /\ Len(nodes) <= Len(nodes')
  BY <1>1 DEF VariablesType, Grown
<1> SUFFICES ASSUME NEW c, NEW e \in 1 .. Len(nodes), NEW m \in 1 .. Len(nodes),
                    NEW n \in Targets(c, e)', Below(n, m)'
             PROVE  n \in 1 .. Len(nodes) /\ n \in Targets(c, e)
  BY DEF OldTargets
<1>3. n \in 1 .. Len(nodes') /\ m \in 1 .. Len(nodes')
  BY <1>1, <1>2 DEF Targets, VariablesType
<1>4. n \in 1 .. m
  <2>1. OlderAbove'
    BY <1>1, BelowOlder, PTL
  <2> QED BY <1>3, <2>1 DEF OlderAbove
<1>5. n \in 1 .. Len(nodes)
  BY <1>2, <1>4
<1> QED BY <1>1, <1>5, TargetsGrown

LEMMA ClosedOfKept ==
    ASSUME Continues, NEW new \in SUBSET (1 .. Len(nodes)), Closed' = Closed \cup new,
           NEW c, NEW e \in 1 .. Len(nodes)
    PROVE  /\ \A n : n \in ClosedOf(c, e)' <=>
                 n \in ClosedOf(c, e) \/ (n \in new /\ n \in Targets(c, e))
           /\ \A n \in Closed : KeySequenceAt(c, n)' = KeySequenceAt(c, n)
<1>1. /\ VariablesType /\ TreeOK /\ VariablesType' /\ Grown /\ schema' = schema
  BY DEF Continues, Kept
<1>2. Closed \subseteq 1 .. Len(nodes)
  <2>1. \A i \in 1 .. Len(finished) : finished[i] \in 1 .. Len(nodes)
    BY <1>1 DEF VariablesType
  <2> QED BY <2>1 DEF Closed
<1>3. \A n \in 1 .. Len(nodes) : n \in Targets(c, e)' <=> n \in Targets(c, e)
  BY <1>1, TargetsGrown
<1>4. \A n : n \in ClosedOf(c, e)' <=>
         n \in ClosedOf(c, e) \/ (n \in new /\ n \in Targets(c, e))
  BY <1>2, <1>3 DEF ClosedOf
<1>5. \A n \in Closed : KeySequenceAt(c, n)' = KeySequenceAt(c, n)
  BY RowKept
<1> QED BY <1>4, <1>5

LEMMA MeetsComplexKept ==
    ASSUME Continues, NEW new \in SUBSET (1 .. Len(nodes)), Closed' = Closed \cup new,
           NEW c, NEW e \in 1 .. Len(nodes)
    PROVE  MeetsComplex(c, e)' <=>
              \/ MeetsComplex(c, e)
              \/ \E m \in new : nodes'[m].content.complex /\ FieldTakes(c, e, m)
<1>1. /\ VariablesType /\ TreeOK /\ VariablesType' /\ Grown /\ Kept /\ Compiled' = Compiled
      /\ schema' = schema /\ Len(nodes) <= Len(nodes')
  BY DEF Continues, Kept, Compiled, Grown
<1>2. Closed \subseteq 1 .. Len(nodes)
  <2>1. \A i \in 1 .. Len(finished) : finished[i] \in 1 .. Len(nodes)
    BY <1>1 DEF VariablesType
  <2> QED BY <2>1 DEF Closed
<1>3. ASSUME NEW m \in 1 .. Len(nodes)
      PROVE  FieldTakes(c, e, m)' <=> FieldTakes(c, e, m)
  <2>1. ASSUME NEW n \in 1 .. Len(nodes), NEW f
        PROVE  Selects(Compiled[c].fields[f], n, m)' <=> Selects(Compiled[c].fields[f], n, m)
    <3>1. PICK expression : expression = Compiled[c].fields[f]
      OBVIOUS
    <3>2. Selects(expression, n, m)' <=> Selects(expression, n, m)
      BY <1>1, SelectsGrown
    <3> QED BY <1>1, <3>1, <3>2
  <2>2. \A n \in Targets(c, e) : n \in 1 .. Len(nodes) /\ n \in Targets(c, e)'
    <3>1. \A n \in Targets(c, e) : n \in 1 .. Len(nodes)
      BY <1>1 DEF Targets, VariablesType
    <3> QED BY <1>1, <3>1, TargetsGrown
  <2>3. \A n \in Targets(c, e)' : \A f :
           Selects(Compiled[c].fields[f], n, m)' =>
              n \in 1 .. Len(nodes) /\ n \in Targets(c, e)
    BY TargetsOfOld DEF Selects, OldTargets
  <2> QED BY <2>1, <2>2, <2>3 DEF FieldTakes
<1>4. \A m \in Closed : nodes'[m].content = nodes[m].content
  BY <1>1 DEF Kept
<1> QED BY <1>2, <1>3, <1>4 DEF MeetsComplex

LEMMA MeetsManyKept ==
    ASSUME Continues, NEW c, NEW e \in 1 .. Len(nodes), MeetsMany(c, e)
    PROVE  MeetsMany(c, e)'
<1>1. /\ VariablesType /\ TreeOK /\ VariablesType' /\ Grown /\ Kept /\ Compiled' = Compiled
      /\ schema' = schema
  BY DEF Continues, Kept, Compiled
<1>2. PICK n \in Targets(c, e), f \in Field :
         \E x, y \in Gathered(Compiled[c].fields[f], n) : x # y
  BY DEF MeetsMany, MetTwice
<1>3. PICK expression : expression = Compiled[c].fields[f]
  OBVIOUS
<1>4. n \in 1 .. Len(nodes)
  BY <1>1 DEF Targets, VariablesType
<1>5. n \in Targets(c, e)'
  BY <1>1, <1>4, TargetsGrown
<1>6. \A x \in Gathered(expression, n) : x \in Gathered(expression, n)'
  BY <1>1, <1>4, GatheredKept
<1>7. Compiled'[c].fields[f] = expression
  BY <1>1, <1>3
<1> QED BY <1>2, <1>3, <1>5, <1>6, <1>7 DEF MeetsMany, MetTwice

(* What the violations so far say when no target closes, nor what a field  *)
(* of one selects.                                                         *)
LEMMA SoFarKept ==
    ASSUME Continues, NEW new \in SUBSET (1 .. Len(nodes)), Closed' = Closed \cup new,
           NEW c, NEW e \in 1 .. Len(nodes),
           \A m \in new : m \notin Targets(c, e) /\ ~ FieldTakes(c, e, m)
    PROVE  /\ \A n : n \in ClosedOf(c, e)' <=> n \in ClosedOf(c, e)
           /\ Incomplete(c, e)' <=> Incomplete(c, e)
           /\ Clashing(c, e)' <=> Clashing(c, e)
           /\ MeetsComplex(c, e)' <=> MeetsComplex(c, e)
<1>1. \A n : n \in ClosedOf(c, e)' <=> n \in ClosedOf(c, e)
  BY ClosedOfKept
<1>2. \A n \in ClosedOf(c, e) : KeySequenceAt(c, n)' = KeySequenceAt(c, n)
  BY ClosedOfKept DEF ClosedOf
<1>3. MeetsComplex(c, e)' <=> MeetsComplex(c, e)
  BY MeetsComplexKept
<1>4. Compiled' = Compiled
  BY DEF Continues, Kept, Compiled
<1>5. Incomplete(c, e)' <=> Incomplete(c, e)
  BY <1>1, <1>2 DEF Incomplete
<1>6. Clashing(c, e)' <=> Clashing(c, e)
  BY <1>1, <1>2, <1>4 DEF Clashing, Clashes
<1> QED BY <1>1, <1>3, <1>5, <1>6

-----------------------------------------------------------------------------
(* The verdict on a constraint at its element, for what is closed so far.  *)
OpenCode == {MissingField, DuplicateKey, ComplexField}

SoFarExact(c, e) ==
    /\ MeetsMany(c, e) => MissingField \in Reported(c, e)
    /\ ~ MeetsMany(c, e) =>
          /\ MissingField \in Reported(c, e) <=> Compiled[c].kind = "key" /\ Incomplete(c, e)
          /\ DuplicateKey \in Reported(c, e) <=> Clashing(c, e)
          /\ ComplexField \in Reported(c, e) <=> MeetsComplex(c, e)

SoFar(c, e) == ~ Shadowed(c, e) => SoFarExact(c, e)

VerdictSoFar(c, e) == Reported(c, e) \subseteq OpenCode /\ SoFar(c, e)

VerdictStruct(cs) ==
    \A e \in 1 .. Len(nodes) :
        e = Node(cs.owner_depth) => VerdictSoFar(cs.constraint, e)

(* Of what is closed also the keyrefs are known.                           *)
Dangling(c, e) ==
    \E n \in ClosedOf(c, e) :
        /\ IsComplete(KeySequenceAt(c, n))
        /\ ~ \E t \in NodeTable(Compiled[c].refer, e) : SequenceEqual(t, KeySequenceAt(c, n))

KeyrefExact(c, e) ==
    /\ ~ Shadowed(c, e) /\ ~ MeetsMany(c, e)
    /\ Compiled[c].kind = "keyref" => Plain(Compiled[c].refer, e)
    => (MissingKey \in Reported(c, e) <=> Compiled[c].kind = "keyref" /\ Dangling(c, e))

ClosedVerdict(c, e) ==
    /\ Reported(c, e) \subseteq OpenCode \cup {MissingKey}
    /\ SoFar(c, e)
    /\ KeyrefExact(c, e)

VerdictsInv ==
    /\ \A cs \in active_constraints : VerdictStruct(cs)
    /\ \A e \in Closed : \A c \in nodes[e].declaration.constraints : ClosedVerdict(c, e)

ReportedCodes ==
    \A code, c, e :
        code \in Reported(c, e) <=>
            \E r \in reports : r.code = code /\ r.constraint = c /\ r.owner = e

LEMMA ReportedOne ==
    ReportedCodes
BY DEF ReportedCodes, Reported

-----------------------------------------------------------------------------
(* It says what the definition says.                                       *)
MeetsInClosed ==
    \A c : \A e \in Closed :
        /\ ClosedOf(c, e) = Targets(c, e)
        /\ MeetsMany(c, e) <=> Many(c, e)
        /\ MeetsComplex(c, e) <=> \E n \in Targets(c, e) : SelectsComplex(c, n)

LEMMA ClosedMeets ==
    VariablesType /\ TreeOK /\ EveryTagged => MeetsInClosed
<1> SUFFICES ASSUME VariablesType, TreeOK, EveryTagged, NEW c, NEW e \in Closed
             PROVE  /\ ClosedOf(c, e) = Targets(c, e)
                    /\ MeetsMany(c, e) <=> Many(c, e)
                    /\ MeetsComplex(c, e) <=> \E n \in Targets(c, e) : SelectsComplex(c, n)
  BY DEF MeetsInClosed
<1>1. Targets(c, e) \subseteq Closed
  BY TargetsClosed DEF ClosedTargets
<1>2. MeetsMany(c, e) <=> Many(c, e)
  BY <1>1, ClosedMetTwice DEF MeetsMany, Many
<1>3. ASSUME NEW n \in Targets(c, e)
      PROVE  SelectsComplex(c, n) <=>
                \E f \in Field : \E m \in Closed :
                   nodes[m].content.complex /\ Selects(Compiled[c].fields[f], n, m)
  <2>1. ASSUME NEW f \in Field
        PROVE  (\E x \in FieldNodes(c, f, n) : Len(x) = 1 /\ nodes[x[1]].content.complex) <=>
                  \E m \in Closed :
                     nodes[m].content.complex /\ Selects(Compiled[c].fields[f], n, m)
    <3>1. PICK expression, xs : expression = Compiled[c].fields[f] /\ xs = FieldNodes(c, f, n)
      OBVIOUS
    <3>2. xs = Gathered(expression, n)
      BY <1>1, <3>1, ClosedGathered DEF ClosedFields
    <3>3. \A x : x \in xs <=>
             \/ \E m \in Closed : x = <<m>> /\ Selects(expression, n, m)
             \/ \E m \in 1 .. Len(nodes), a \in AttributeName :
                   x = <<m, a>> /\ TakesAttribute(expression, n, m, a)
      BY <3>2, GatheredNodes DEF GatheredOne
    <3>4. \A m : Len(<<m>>) = 1 /\ <<m>>[1] = m
      OBVIOUS
    <3>5. \A m, a : Len(<<m, a>>) = 2
      OBVIOUS
    <3>6. ASSUME NEW x \in xs, Len(x) = 1, nodes[x[1]].content.complex
          PROVE  \E m \in Closed : nodes[m].content.complex /\ Selects(expression, n, m)
      <4>1. ~ \E m \in 1 .. Len(nodes), a \in AttributeName : x = <<m, a>>
        BY <3>5, <3>6
      <4>2. PICK m \in Closed : x = <<m>> /\ Selects(expression, n, m)
        BY <3>3, <4>1
      <4> QED BY <3>4, <3>6, <4>2
    <3>7. ASSUME NEW m \in Closed, nodes[m].content.complex, Selects(expression, n, m)
          PROVE  \E x \in xs : Len(x) = 1 /\ nodes[x[1]].content.complex
      <4>1. <<m>> \in xs
        BY <3>3, <3>7
      <4> QED BY <3>4, <3>7, <4>1
    <3> QED BY <3>1, <3>6, <3>7
  <2> QED BY <2>1 DEF SelectsComplex
<1>4. MeetsComplex(c, e) <=> \E n \in Targets(c, e) : SelectsComplex(c, n)
  BY <1>3 DEF MeetsComplex, FieldTakes
<1> QED BY <1>1, <1>2, <1>4 DEF ClosedOf

LEMMA CodesDiffer ==
    /\ MissingField # DuplicateKey /\ MissingField # ComplexField /\ MissingField # MissingKey
    /\ DuplicateKey # ComplexField /\ DuplicateKey # MissingKey /\ ComplexField # MissingKey
BY DEF MissingField, DuplicateKey, ComplexField, MissingKey

LEMMA VerdictsFollow ==
    ASSUME VariablesType, TreeOK, EveryTagged, VerdictsInv
    PROVE  VerdictsExact
<1> SUFFICES ASSUME NEW e \in Closed, NEW c \in nodes[e].declaration.constraints,
                    ~ Shadowed(c, e)
             PROVE  /\ Many(c, e) => MissingField \in Reported(c, e)
                    /\ /\ ~ Many(c, e)
                       /\ Compiled[c].kind = "keyref" => Plain(Compiled[c].refer, e)
                       => Reported(c, e) = Violations(c, e)
  BY DEF VerdictsExact
<1>1. PICK codes : codes = Reported(c, e)
  OBVIOUS
<1>2. codes \subseteq OpenCode \cup {MissingKey} /\ SoFarExact(c, e) /\ KeyrefExact(c, e)
  BY <1>1 DEF VerdictsInv, ClosedVerdict, SoFar
<1>3. /\ ClosedOf(c, e) = Targets(c, e)
      /\ MeetsMany(c, e) <=> Many(c, e)
      /\ MeetsComplex(c, e) <=> \E n \in Targets(c, e) : SelectsComplex(c, n)
  BY ClosedMeets DEF MeetsInClosed
<1>4. Many(c, e) => MissingField \in Reported(c, e)
  BY <1>2, <1>3 DEF SoFarExact
<1>5. ASSUME ~ Many(c, e), Compiled[c].kind = "keyref" => Plain(Compiled[c].refer, e)
      PROVE  codes = Violations(c, e)
  <2>1. MissingField \in codes <=> MissingField \in Violations(c, e)
    <3>1. MissingField \in codes <=> Compiled[c].kind = "key" /\ Incomplete(c, e)
      BY <1>1, <1>2, <1>3, <1>5 DEF SoFarExact
    <3> QED BY <1>3, <3>1, CodesDiffer DEF Violations, Incomplete
  <2>2. DuplicateKey \in codes <=> DuplicateKey \in Violations(c, e)
    <3>1. DuplicateKey \in codes <=> Clashing(c, e)
      BY <1>1, <1>2, <1>3, <1>5 DEF SoFarExact
    <3> QED BY <1>3, <3>1, CodesDiffer DEF Violations, Clashing, Clashes
  <2>3. ComplexField \in codes <=> ComplexField \in Violations(c, e)
    <3>1. ComplexField \in codes <=> MeetsComplex(c, e)
      BY <1>1, <1>2, <1>3, <1>5 DEF SoFarExact
    <3> QED BY <1>3, <3>1, CodesDiffer DEF Violations
  <2>4. MissingKey \in codes <=> MissingKey \in Violations(c, e)
    <3>1. MissingKey \in codes <=> Compiled[c].kind = "keyref" /\ Dangling(c, e)
      BY <1>1, <1>2, <1>3, <1>5 DEF KeyrefExact
    <3> QED BY <1>3, <3>1, CodesDiffer DEF Violations, Dangling
  <2>5. Violations(c, e) \subseteq OpenCode \cup {MissingKey}
    BY DEF Violations, OpenCode
  <2> QED BY <1>2, <2>1, <2>2, <2>3, <2>4, <2>5 DEF OpenCode
<1> QED BY <1>1, <1>4, <1>5

-----------------------------------------------------------------------------
(* The verdicts stay when nothing that they are about closes or is met.    *)
LEMMA SoFarStays ==
    ASSUME Continues, NEW new \in SUBSET (1 .. Len(nodes)), Closed' = Closed \cup new,
           NEW c, NEW e \in 1 .. Len(nodes),
           \A m \in new : m \notin Targets(c, e) /\ ~ FieldTakes(c, e, m),
           MeetsMany(c, e)' => MeetsMany(c, e),
           Reported(c, e)' = Reported(c, e), SoFar(c, e)
    PROVE  SoFar(c, e)'
<1>1. /\ VariablesType /\ TreeOK /\ VariablesType' /\ Kept /\ Compiled' = Compiled
  BY DEF Continues, Kept, Compiled
<1> SUFFICES ASSUME ~ Shadowed(c, e)' PROVE SoFarExact(c, e)'
  BY DEF SoFar
<1>2. SoFarExact(c, e)
  <2>1. ~ Shadowed(c, e)
    BY <1>1, ShadowedKept
  <2> QED BY <2>1 DEF SoFar
<1>3. /\ Incomplete(c, e)' <=> Incomplete(c, e)
      /\ Clashing(c, e)' <=> Clashing(c, e)
      /\ MeetsComplex(c, e)' <=> MeetsComplex(c, e)
  BY SoFarKept
<1>4. MeetsMany(c, e)' <=> MeetsMany(c, e)
  BY MeetsManyKept
<1> QED BY <1>1, <1>2, <1>3, <1>4 DEF SoFarExact

(* What is closed stays as it is.                                          *)
LEMMA ClosedVerdictKept ==
    ASSUME Continues, NEW new \in SUBSET (1 .. Len(nodes)), Closed' = Closed \cup new,
           \A n \in Closed, m \in new : ~ Below(n, m),
           NEW c, NEW e \in Closed, Reported(c, e)' = Reported(c, e), ClosedVerdict(c, e)
    PROVE  ClosedVerdict(c, e)'
<1>1. /\ VariablesType /\ TreeOK /\ EveryTagged
      /\ VariablesType' /\ TreeOK' /\ EveryTagged' /\ Kept /\ Compiled' = Compiled
  BY DEF Continues, Kept, Compiled
<1>2. Closed \subseteq 1 .. Len(nodes) /\ Closed' \subseteq 1 .. Len(nodes)
  <2>1. \A i \in 1 .. Len(finished) : finished[i] \in 1 .. Len(nodes)
    BY <1>1 DEF VariablesType
  <2>2. Closed \subseteq 1 .. Len(nodes)
    BY <2>1 DEF Closed
  <2> QED BY <2>2
<1>3. e \in 1 .. Len(nodes) /\ e \in Closed'
  BY <1>2
<1>4. /\ Targets(c, e) \subseteq Closed
      /\ Many(c, e)' <=> Many(c, e)
      /\ Shadowed(c, e) => Shadowed(c, e)'
  BY <1>2, ClosedKept
<1>5. \A m \in new : m \notin Targets(c, e) /\ ~ FieldTakes(c, e, m)
  <2>1. \A m \in new : ~ Below(e, m) /\ \A n \in Targets(c, e) : ~ Below(n, m)
    BY <1>4
  <2> QED BY <2>1 DEF Targets, FieldTakes, Selects
<1>6. MeetsMany(c, e)' <=> MeetsMany(c, e)
  <2>1. MeetsMany(c, e) <=> Many(c, e)
    BY <1>1, ClosedMeets DEF MeetsInClosed
  <2>2. MeetsInClosed'
    BY <1>1, ClosedMeets, PTL
  <2>3. MeetsMany(c, e)' <=> Many(c, e)'
    BY <1>3, <2>2 DEF MeetsInClosed
  <2> QED BY <1>4, <2>1, <2>3
<1>7. SoFar(c, e)'
  BY <1>3, <1>5, <1>6, SoFarStays DEF ClosedVerdict
<1>8. KeyrefExact(c, e)'
  <2>1. PICK refer : refer = Compiled[c].refer
    OBVIOUS
  <2>2. /\ Plain(refer, e)' => Plain(refer, e)
        /\ \A x : x \in NodeTable(refer, e)' <=> x \in NodeTable(refer, e)
    <3>1. \A m \in new : ~ CarriesBelow(refer, e, m)
      BY DEF CarriesBelow
    <3> QED BY <1>3, <3>1, CarriersKept
  <2>3. /\ \A n : n \in ClosedOf(c, e)' <=> n \in ClosedOf(c, e)
        /\ \A n \in ClosedOf(c, e) : KeySequenceAt(c, n)' = KeySequenceAt(c, n)
    <3>1. \A n : n \in ClosedOf(c, e)' <=> n \in ClosedOf(c, e)
      BY <1>3, <1>5, SoFarKept
    <3>2. \A n \in Closed : KeySequenceAt(c, n)' = KeySequenceAt(c, n)
      BY <1>3, ClosedOfKept
    <3> QED BY <3>1, <3>2 DEF ClosedOf
  <2>4. Dangling(c, e)' <=> Dangling(c, e)
    <3>1. Dangling(c, e)' <=>
             \E n \in ClosedOf(c, e)' :
                /\ IsComplete(KeySequenceAt(c, n)')
                /\ ~ \E t \in NodeTable(refer, e)' : SequenceEqual(t, KeySequenceAt(c, n)')
      BY <1>1, <2>1 DEF Dangling, IsComplete, SequenceEqual
    <3> QED BY <2>1, <2>2, <2>3, <3>1 DEF Dangling
  <2>5. KeyrefExact(c, e)
    BY DEF ClosedVerdict
  <2> QED BY <1>1, <1>4, <1>6, <2>1, <2>2, <2>4, <2>5 DEF KeyrefExact
<1>9. Reported(c, e)' \subseteq OpenCode \cup {MissingKey}
  BY DEF ClosedVerdict
<1> QED BY <1>7, <1>8, <1>9 DEF ClosedVerdict

-----------------------------------------------------------------------------
(* Start tags: nothing is reported, met or closed.                         *)
LEMMA PushKeepsVerdict ==
    ASSUME VariablesType, TreeOK, EveryTagged, NEW d \in Declared, Push(d),
           NEW cs, cs.owner_depth \in 1 .. Depth, VerdictStruct(cs),
           NEW b, SameConstraint(b, cs)
    PROVE  VerdictStruct(b)'
<1>1. PICK c, o, e : c = cs.constraint /\ o = cs.owner_depth /\ e = Node(o)
  OBVIOUS
<1>2. /\ Continues
      /\ \A expression : \A n \in 1 .. Len(nodes) :
            Gathered(expression, n)' = Gathered(expression, n)
      /\ \A new : new = Len(nodes) + 1 => \A expression : Gathered(expression, new)' = {}
  BY PushContinues
<1>3. /\ VariablesType' /\ Grown /\ Kept /\ schema' = schema /\ Compiled' = Compiled
  BY <1>2 DEF Continues, Kept, Compiled
<1>4. /\ Len(nodes') = Len(nodes) + 1 /\ finished' = finished /\ reports' = reports
      /\ \A k \in 1 .. Depth : validation_stack'[k] = validation_stack[k]
      /\ Len(nodes) \in Nat
  <2>1. Len(nodes) \in Nat
    BY DEF VariablesType
  <2> QED BY <2>1, PushKeepsTree
<1>5. e \in 1 .. Len(nodes) /\ e = Node(o)' /\ b.constraint = c /\ b.owner_depth = o
  <2>1. e \in 1 .. Len(nodes)
    BY <1>1, OpenNodes
  <2> QED BY <1>1, <1>4, <2>1 DEF SameConstraint, Node
<1>6. VerdictSoFar(c, e)
  BY <1>1, <1>5 DEF VerdictStruct
<1>7. Reported(c, e)' = Reported(c, e) /\ Closed' = Closed
  BY <1>4 DEF Reported, Closed
<1>8. ASSUME MeetsMany(c, e)' PROVE MeetsMany(c, e)
  <2>1. PICK n \in Targets(c, e)', f \in Field :
           \E x, y \in Gathered(Compiled[c].fields[f], n)' : x # y
    BY <1>3, <1>8 DEF MeetsMany, MetTwice
  <2>2. PICK expression : expression = Compiled[c].fields[f]
    OBVIOUS
  <2>3. PICK x, y : x \in Gathered(expression, n)' /\ y \in Gathered(expression, n)' /\ x # y
    BY <1>3, <2>1, <2>2
  <2>4. n \in 1 .. Len(nodes')
    BY <1>3 DEF Targets, VariablesType
  <2>5. n # Len(nodes) + 1
    BY <1>2, <2>3
  <2>6. n \in 1 .. Len(nodes)
    BY <1>4, <2>4, <2>5
  <2>7. n \in Targets(c, e)
    BY <1>3, <1>5, <2>6, TargetsGrown
  <2>8. x \in Gathered(expression, n) /\ y \in Gathered(expression, n)
    BY <1>2, <2>3, <2>6
  <2> QED BY <2>2, <2>3, <2>7, <2>8 DEF MeetsMany, MetTwice
<1>9. SoFar(c, e)'
  <2>1. {} \in SUBSET (1 .. Len(nodes)) /\ Closed' = Closed \cup {}
    BY <1>7
  <2> QED BY <1>2, <1>5, <1>6, <1>7, <1>8, <2>1, SoFarStays DEF VerdictSoFar
<1>10. VerdictSoFar(c, e)'
  BY <1>6, <1>7, <1>9 DEF VerdictSoFar
<1> QED BY <1>5, <1>10 DEF VerdictStruct

(* Of a new constraint there is nothing to report.                         *)
LEMMA NewVerdict ==
    ASSUME VariablesType, TreeOK, EveryTagged, NEW d \in Declared, Push(d),
           NEW c, NEW b, b = NewConstraint(c, Depth + 1)
    PROVE  VerdictStruct(b)'
<1>1. PICK e : e = Len(nodes) + 1
  OBVIOUS
<1>2. /\ Continues
      /\ \A expression : Gathered(expression, e)' = {}
      /\ \A m \in 1 .. Len(nodes) : ~ Below(e, m)'
  BY <1>1, PushContinues
<1>3. /\ VariablesType' /\ Compiled' = Compiled
  BY <1>2 DEF Continues, Kept, Compiled
<1>4. /\ Len(nodes') = e /\ finished' = finished /\ reports' = reports /\ Len(nodes) \in Nat
      /\ Depth' = Depth + 1 /\ validation_stack'[Depth + 1] = PushedEntry(d)
  <2>1. Len(nodes) \in Nat
    BY DEF VariablesType
  <2> QED BY <1>1, <2>1, PushKeepsTree
<1>5. /\ b.constraint = c /\ b.owner_depth = Depth + 1 /\ e = Node(b.owner_depth)'
  <2>1. b.constraint = c /\ b.owner_depth = Depth + 1
    BY NewStruct
  <2>2. validation_stack'[b.owner_depth].node = e
    BY <1>1, <1>4, <2>1 DEF PushedEntry
  <2> QED BY <2>1, <2>2 DEF Node
<1>6. Reported(c, e)' = {}
  <2>1. \A r \in reports : r.owner # e
    BY <1>1, <1>4 DEF VariablesType
  <2>2. ReportedCodes'
    BY ReportedOne, PTL
  <2>3. \A code : code \notin Reported(c, e)'
    BY <1>4, <2>1, <2>2 DEF ReportedCodes
  <2> QED BY <2>3
<1>7. \A n \in Targets(c, e)' : n = e
  <2> SUFFICES ASSUME NEW n \in Targets(c, e)' PROVE n = e
    OBVIOUS
  <2>1. n \in 1 .. Len(nodes') /\ Below(e, n)'
    BY <1>3 DEF Targets, Selects, VariablesType
  <2> QED BY <1>1, <1>2, <1>4, <2>1
<1>8. Closed' \subseteq 1 .. Len(nodes)
  <2>1. \A i \in 1 .. Len(finished) : finished[i] \in 1 .. Len(nodes)
    BY DEF VariablesType
  <2>2. Closed' = Closed
    BY <1>4 DEF Closed
  <2> QED BY <2>1, <2>2 DEF Closed
<1>9. ~ MeetsMany(c, e)'
  <2> SUFFICES ASSUME MeetsMany(c, e)' PROVE FALSE
    OBVIOUS
  <2>1. PICK f \in Field : \E x : x \in Gathered(Compiled[c].fields[f], e)'
    BY <1>3, <1>7 DEF MeetsMany, MetTwice
  <2>2. PICK expression : expression = Compiled[c].fields[f]
    OBVIOUS
  <2>3. \E x : x \in Gathered(expression, e)'
    BY <1>3, <2>1, <2>2
  <2> QED BY <1>2, <2>3
<1>10. ~ MeetsComplex(c, e)'
  BY <1>2, <1>7, <1>8 DEF MeetsComplex, FieldTakes, Selects
<1>11. e \notin Closed'
  BY <1>1, <1>4, <1>8
<1>12. ~ Incomplete(c, e)' /\ ~ Clashing(c, e)'
  <2>1. \A n : n \notin ClosedOf(c, e)'
    BY <1>7, <1>11 DEF ClosedOf
  <2> QED BY <2>1 DEF Incomplete, Clashing
<1>13. SoFarExact(c, e)'
  BY <1>6, <1>9, <1>10, <1>12 DEF SoFarExact
<1>14. VerdictSoFar(c, e)'
  BY <1>6, <1>13 DEF VerdictSoFar, SoFar
<1> QED BY <1>5, <1>14 DEF VerdictStruct

LEMMA PushKeepsVerdicts ==
    ASSUME OwnersInv, FramesInv, TablesInv, VerdictsInv,
           NEW d \in Declared, Push(d), PushedStructs(d)
    PROVE  VerdictsInv'
<1>1. /\ VariablesType /\ TreeOK /\ StructsOK /\ EveryTagged
  BY DEF OwnersInv, TablesInv
<1>2. /\ finished' = finished /\ reports' = reports /\ Continues
  BY <1>1, PushKeepsTree, PushContinues
<1>3. ASSUME NEW b \in active_constraints' PROVE VerdictStruct(b)'
  <2>1. CASE \E cs \in active_constraints :
                b = Started(cs, d.name) \/ b = StartedSkipped(cs)
    <3>1. PICK cs \in active_constraints : b = Started(cs, d.name) \/ b = StartedSkipped(cs)
      BY <2>1
    <3>2. IsStruct(cs) /\ cs.owner_depth \in 1 .. Depth /\ VerdictStruct(cs)
      BY <1>1 DEF StructsOK, StructOK, VerdictsInv
    <3>3. SameConstraint(b, cs)
      BY <3>1, <3>2, StructSteps
    <3> QED BY <1>1, <3>2, <3>3, PushKeepsVerdict
  <2>2. CASE \E c \in d.constraints : b = NewConstraint(c, Depth + 1)
    BY <1>1, <2>2, NewVerdict
  <2> QED BY <1>3, <2>1, <2>2 DEF PushedStructs
<1>4. ASSUME NEW e \in Closed', NEW c \in nodes'[e].declaration.constraints
      PROVE  ClosedVerdict(c, e)'
  <2>1. Closed' = Closed /\ Reported(c, e)' = Reported(c, e)
    BY <1>2 DEF Closed, Reported
  <2>2. \A i \in 1 .. Len(finished) : finished[i] \in 1 .. Len(nodes)
    BY <1>1 DEF VariablesType
  <2>3. e \in 1 .. Len(nodes) /\ e \in Closed
    BY <2>1, <2>2 DEF Closed
  <2>4. ClosedVerdict(c, e)
    BY <1>2, <2>3 DEF VerdictsInv, Continues, Kept, Grown
  <2>5. {} \in SUBSET (1 .. Len(nodes)) /\ Closed' = Closed \cup {}
    BY <2>1
  <2> QED BY <1>2, <2>1, <2>3, <2>4, <2>5, ClosedVerdictKept
<1> QED BY <1>3, <1>4 DEF VerdictsInv

-----------------------------------------------------------------------------
(* The frames of the open targets that have the innermost element below.   *)
FrameOf(cs, i, n) ==
    LET comp == Compiled[cs.constraint]
        o == cs.owner_depth
    IN  \E k \in o .. Depth :
           /\ IsTarget(comp, Open, o, k)
           /\ n = Node(k) /\ n \in 1 .. Len(nodes)
           /\ i = Rank(comp, Open, o, k) /\ i \in 1 .. Len(cs.collection_stack)
           /\ Follows(comp, cs.collection_stack[i], Open, k)

LEMMA TargetFrames ==
    ASSUME VariablesType, TreeOK, NEW cs, StructOK(cs), FramesStruct(cs),
           NEW c, c = cs.constraint, NEW e, e = Node(cs.owner_depth),
           NEW top, top = Node(Depth)
    PROVE  /\ Len(cs.collection_stack) \in Nat
           /\ \A i \in 1 .. Len(cs.collection_stack) : \E n \in Targets(c, e) : FrameOf(cs, i, n)
           /\ \A n \in Targets(c, e) : Below(n, top) =>
                 \E i \in 1 .. Len(cs.collection_stack) : FrameOf(cs, i, n)
           /\ \A i, n : FrameOf(cs, i, n) => n \in Targets(c, e) /\ Below(n, top)
<1>1. PICK comp, o, open, frames :
         comp = Compiled[c] /\ o = cs.owner_depth /\ open = Open /\ frames = cs.collection_stack
  OBVIOUS
<1>2. /\ c \in Constraint /\ o \in 1 .. Depth /\ Depth \in Nat /\ Len(open) = Depth
      /\ FramesOK(comp, frames, open, o) /\ Depth \in 1 .. Depth
  <2>1. c \in Constraint /\ o \in 1 .. Depth /\ FramesOK(comp, frames, open, o)
    BY <1>1 DEF StructOK, FramesStruct
  <2> QED BY <1>1, <2>1, OpenTyped
<1>3. ByRank(comp, frames, open, o, Depth)
  <2>1. Len(open) \in Nat /\ o \in Nat
    BY <1>2
  <2> QED BY <1>2, <2>1, Ranked
<1>4. ASSUME NEW k \in o .. Depth
      PROVE  /\ k \in 1 .. Depth /\ Node(k) \in 1 .. Len(nodes) /\ Below(Node(k), top)
             /\ Node(k) \in Targets(c, e) <=> IsTarget(comp, open, o, k)
  <2>1. k \in 1 .. Depth /\ Depth \in k .. Depth
    BY <1>2
  <2>2. Node(k) \in 1 .. Len(nodes) /\ Below(Node(k), top)
    BY <2>1, OpenNodes, OpenTrail
  <2> QED BY <1>1, <1>2, <2>1, <2>2, OpenTargets
<1>5. ASSUME NEW k \in o .. Depth, IsTarget(comp, open, o, k), NEW i,
             i = Rank(comp, open, o, k)
      PROVE  i \in 1 .. Len(frames) /\ FrameOf(cs, i, Node(k)) /\ Node(k) \in Targets(c, e)
  <2>1. i \in 1 .. Len(frames) /\ Follows(comp, frames[i], open, k)
    BY <1>3, <1>5 DEF ByRank
  <2>2. Node(k) \in 1 .. Len(nodes) /\ Node(k) \in Targets(c, e)
    BY <1>4, <1>5
  <2> QED BY <1>1, <1>5, <2>1, <2>2 DEF FrameOf
<1>6. ASSUME NEW i \in 1 .. Len(frames) PROVE \E n \in Targets(c, e) : FrameOf(cs, i, n)
  <2>1. PICK k \in o .. Depth : IsTarget(comp, open, o, k) /\ Rank(comp, open, o, k) = i
    BY <1>3 DEF ByRank
  <2> QED BY <1>5, <2>1
<1>7. ASSUME NEW n \in Targets(c, e), Below(n, top)
      PROVE  \E i \in 1 .. Len(frames) : FrameOf(cs, i, n)
  <2>1. n \in 1 .. Len(nodes) /\ Below(e, n) /\ e \in 1 .. Len(nodes)
    <3>1. n \in 1 .. Len(nodes) /\ Below(e, n)
      BY DEF Targets, Selects, VariablesType
    <3> QED BY <1>1, <1>2, <3>1, OpenNodes
  <2>2. PICK k \in 1 .. Depth : n = Node(k)
    BY <1>2, <1>7, <2>1, OpenNodes
  <2>3. PICK j \in 1 .. k : e = Node(j)
    BY <2>1, <2>2, OpenNodes
  <2>4. j = o
    <3>1. j \in 1 .. Depth
      BY <1>2
    <3> QED BY <1>1, <1>2, <2>3, <3>1, OpenNodes
  <2>5. k \in o .. Depth
    BY <1>2, <2>4
  <2> QED BY <1>4, <1>5, <2>2, <2>5
<1>8. ASSUME NEW i, NEW n, FrameOf(cs, i, n) PROVE n \in Targets(c, e) /\ Below(n, top)
  <2>1. PICK k \in o .. Depth : IsTarget(comp, open, o, k) /\ n = Node(k)
    BY <1>1, <1>8 DEF FrameOf
  <2> QED BY <1>4, <2>1
<1>9. Len(frames) \in Nat
  BY <1>3 DEF ByRank
<1> QED BY <1>1, <1>6, <1>7, <1>8, <1>9

LEMMA FrameOfExact ==
    ASSUME NEW cs, NEW comp, comp = Compiled[cs.constraint], NEW i, NEW n, FrameOf(cs, i, n),
           FramesExact(comp, cs.owner_depth, cs.collection_stack)
    PROVE  FrameExact(comp, cs.collection_stack[i], n)
BY DEF FrameOf, FramesExact

(* Which fields an attribute matches in a frame.                           *)
LEMMA AttributeMatched ==
    ASSUME RegularFields, OwnersInv,
           NEW name, NEW value \in AttributeValue \cup {Unassessed}, Attribute(name, value),
           NEW cs, StructOK(cs), NEW c, c = cs.constraint,
           NEW top, top = Node(Depth), NEW i, NEW n, FrameOf(cs, i, n),
           NEW f \in Field, NEW expression, expression = Compiled[c].fields[f]
    PROVE  MatchesAttribute(expression, cs.collection_stack[i].fields[f], name)
              <=> TakesAttribute(expression, n, top, name)'
<1>1. /\ VariablesType /\ TreeOK /\ StructsOK /\ (in_attributes => Depth > 0)
  BY DEF OwnersInv
<1>2. PICK comp, o, open : comp = Compiled[c] /\ o = cs.owner_depth /\ open = Open
  OBVIOUS
<1>3. PICK k \in o .. Depth : n = Node(k) /\ Follows(comp, cs.collection_stack[i], open, k)
  BY <1>2 DEF FrameOf
<1>4. /\ Depth \in 1 .. Depth /\ top \in 1 .. Len(nodes)
      /\ name \in DOMAIN nodes'[top].attributes
  BY <1>1, AttributeSets
<1>5. /\ c \in Constraint /\ k \in 1 .. Depth /\ Depth \in k .. Depth /\ n \in 1 .. Len(nodes)
      /\ open \in Seq(OpenName) /\ Len(open) = Depth /\ Grown
  <2>1. c \in Constraint /\ o \in 1 .. Depth /\ Depth \in Nat /\ Grown
        /\ open \in Seq(OpenName) /\ Len(open) = Depth
    BY <1>1, <1>2, OpenTyped, AttributeKeepsTree DEF StructOK
  <2>2. k \in 1 .. Depth /\ Depth \in k .. Depth
    BY <2>1
  <2> QED BY <1>1, <1>3, <2>1, <2>2, OpenNodes
<1>6. PICK a, below :
         a = cs.collection_stack[i].fields[f] /\ below = SubSeq(open, k + 1, Len(open))
  OBVIOUS
<1>7. Tracks(expression, a, below) /\ OfPaths(expression) /\ OfRegularPaths(expression)
  <2>1. Tracks(expression, a, below)
    BY <1>2, <1>3, <1>6 DEF Follows
  <2> QED BY <1>1, <1>5, <2>1, SelectorOfPaths, FieldsRegular
<1>8. below \in Seq(OpenName)
  BY <1>5, <1>6
<1>9. MatchesAttribute(expression, a, name) <=>
         /\ Visible(below)
         /\ \E p \in DOMAIN expression : SelectsAttribute(expression[p], below, name)
  BY <1>7, <1>8, AttributesTracked
<1>10. Below(n, top) /\ Trail(n, top) = below
  BY <1>1, <1>2, <1>3, <1>5, <1>6, OpenTrail
<1>11. Below(n, top)' /\ Trail(n, top)' = below
  BY <1>1, <1>4, <1>5, <1>10, TrailGrown
<1>12. TakesAttribute(expression, n, top, name)' <=>
          /\ Visible(below)
          /\ \E p \in DOMAIN expression : SelectsAttribute(expression[p], below, name)
  BY <1>4, <1>11 DEF TakesAttribute
<1> QED BY <1>6, <1>9, <1>12

(* A second attribute is noticed by the innermost target, and no other     *)
(* target selects it.                                                      *)
LEMMA InnermostFrame ==
    ASSUME VariablesType, TreeOK, VariablesType', Kept, NEW cs, StructOK(cs), FramesStruct(cs),
           NEW c, c = cs.constraint, NEW e, e = Node(cs.owner_depth), ~ Shadowed(c, e)',
           NEW top, top = Node(Depth), NEW i, NEW n, FrameOf(cs, i, n),
           NEW f \in Field, NEW expression, expression = Compiled[c].fields[f],
           NEW a \in AttributeName, TakesAttribute(expression, n, top, a)'
    PROVE  i = Len(cs.collection_stack)
<1>1. PICK comp, o, open, frames, m :
         /\ comp = Compiled[c] /\ o = cs.owner_depth /\ open = Open /\ frames = cs.collection_stack
         /\ m = Len(frames)
  OBVIOUS
<1>2. /\ c \in Constraint /\ o \in 1 .. Depth /\ Depth \in Nat /\ Len(open) = Depth
      /\ FramesOK(comp, frames, open, o)
  <2>1. c \in Constraint /\ o \in 1 .. Depth /\ FramesOK(comp, frames, open, o)
    BY <1>1 DEF StructOK, FramesStruct
  <2> QED BY <1>1, <2>1, OpenTyped
<1>3. ByRank(comp, frames, open, o, Depth)
  <2>1. Len(open) \in Nat /\ o \in Nat
    BY <1>2
  <2> QED BY <1>2, <2>1, Ranked
<1>4. PICK k \in o .. Depth :
         /\ IsTarget(comp, open, o, k) /\ n = Node(k)
         /\ i = Rank(comp, open, o, k) /\ i \in 1 .. m
  BY <1>1 DEF FrameOf
<1> SUFFICES ASSUME i # m PROVE FALSE
  BY <1>1
<1>5. m \in Nat /\ m \in 1 .. m /\ i \in Nat /\ i < m
  <2>1. m \in Nat
    BY <1>1, <1>3 DEF ByRank
  <2> QED BY <1>4, <2>1
<1>6. PICK j \in o .. Depth : IsTarget(comp, open, o, j) /\ Rank(comp, open, o, j) = m
  BY <1>1, <1>3, <1>5 DEF ByRank
<1>7. k < j
  <2> SUFFICES ASSUME ~ (k < j) PROVE FALSE
    OBVIOUS
  <2>1. j < k \/ j = k
    BY <1>2
  <2>2. j < k => Rank(comp, open, o, j) < Rank(comp, open, o, k)
    BY <1>3, <1>4, <1>6 DEF ByRank
  <2> QED BY <1>4, <1>5, <1>6, <2>1, <2>2
<1>8. IsTarget(Compiled[c], Open, o, k) /\ IsTarget(Compiled[c], Open, o, j)
  BY <1>1, <1>4, <1>6
<1> QED BY <1>1, <1>2, <1>4, <1>7, <1>8, NestedShadows

LEMMA AttributeMeets ==
    ASSUME RegularFields, OwnersInv, EveryTagged,
           NEW name, NEW value \in AttributeValue \cup {Unassessed}, Attribute(name, value),
           NEW cs, StructOK(cs), FramesStruct(cs), NEW c, c = cs.constraint,
           NEW e, e = Node(cs.owner_depth), ~ Shadowed(c, e)',
           NEW comp, comp = Compiled[c],
           FramesExact(comp, cs.owner_depth, cs.collection_stack),
           NEW twice, twice <=> BoundTwice(cs, MatchingFields(cs, name))
    PROVE  /\ twice => MeetsMany(c, e)'
           /\ MeetsMany(c, e)' => MeetsMany(c, e) \/ twice
<1>1. PICK top, frames, m, y :
         /\ top = Node(Depth) /\ frames = cs.collection_stack /\ m = Len(frames)
         /\ y = <<top, name>>
  OBVIOUS
<1>2. /\ VariablesType /\ TreeOK /\ StructsOK /\ (in_attributes => Depth > 0)
  BY DEF OwnersInv
<1>3. /\ Continues
      /\ \A expression : \A n \in 1 .. Len(nodes) :
            /\ Gathered(expression, n)' =
                  Gathered(expression, n) \cup {x \in {y} : TakesAttribute(expression, n, top, name)'}
            /\ y \notin Gathered(expression, n)
  BY <1>1, <1>2, AttributeContinues
<1>4. /\ VariablesType' /\ Kept /\ Grown /\ Compiled' = Compiled /\ schema' = schema
      /\ Len(nodes') = Len(nodes) /\ top \in 1 .. Len(nodes) /\ name \in AttributeName
      /\ e \in 1 .. Len(nodes)
  <2>1. e \in 1 .. Len(nodes)
    BY <1>2, OpenNodes DEF StructOK
  <2> QED BY <1>1, <1>2, <1>3, <2>1, AttributeSets, AttributeKeepsTree
       DEF Continues, Kept, Compiled
<1>5. /\ m \in Nat
      /\ \A i \in 1 .. m : \E n \in Targets(c, e) : FrameOf(cs, i, n)
      /\ \A n \in Targets(c, e) : Below(n, top) => \E i \in 1 .. m : FrameOf(cs, i, n)
  BY <1>1, <1>2, TargetFrames
<1>6. \A n \in 1 .. Len(nodes) :
         /\ n \in Targets(c, e)' <=> n \in Targets(c, e)
         /\ Below(n, top)' <=> Below(n, top)
  BY <1>2, <1>4, TargetsGrown, TrailGrown
<1>7. ASSUME NEW i \in 1 .. m, NEW n, FrameOf(cs, i, n), NEW f \in Field,
             NEW expression, expression = comp.fields[f]
      PROVE  /\ n \in 1 .. Len(nodes)
             /\ frames[i].matched[f] <=> Gathered(expression, n) # {}
             /\ MatchesAttribute(comp.fields[f], frames[i].fields[f], name)
                   <=> TakesAttribute(expression, n, top, name)'
  <2>1. n \in 1 .. Len(nodes) /\ FrameExact(comp, frames[i], n)
    BY <1>1, <1>7, FrameOfExact DEF FrameOf
  <2>2. frames[i].matched[f] <=> Gathered(expression, n) # {}
    BY <1>7, <2>1 DEF FrameExact, FieldExact
  <2>3. expression = Compiled[c].fields[f]
    BY <1>7
  <2>4. MatchesAttribute(expression, cs.collection_stack[i].fields[f], name)
           <=> TakesAttribute(expression, n, top, name)'
    BY <1>1, <1>7, <2>3, AttributeMatched
  <2> QED BY <1>1, <1>7, <2>1, <2>2, <2>4
<1>8. twice <=> m > 0 /\ \E f \in Field :
                   /\ MatchesAttribute(comp.fields[f], frames[m].fields[f], name)
                   /\ frames[m].matched[f]
  <2>1. frames = <<>> <=> ~ (m > 0)
    <3>1. \E T : frames \in Seq(T)
      BY <1>1 DEF FramesStruct, FramesOK, FramesAt
    <3> QED BY <1>1, <1>5, <3>1
  <2> QED BY <1>1, <2>1 DEF BoundTwice, MatchingFields, Top
<1>9. ASSUME twice PROVE MeetsMany(c, e)'
  <2>1. PICK f \in Field :
           /\ MatchesAttribute(comp.fields[f], frames[m].fields[f], name)
           /\ frames[m].matched[f]
    BY <1>8, <1>9
  <2>2. m \in 1 .. m
    BY <1>5, <1>8, <1>9
  <2>3. PICK n \in Targets(c, e) : FrameOf(cs, m, n)
    BY <1>5, <2>2
  <2>4. PICK expression : expression = comp.fields[f]
    OBVIOUS
  <2>5. /\ n \in 1 .. Len(nodes) /\ Gathered(expression, n) # {}
        /\ TakesAttribute(expression, n, top, name)'
    BY <1>7, <2>1, <2>2, <2>3, <2>4
  <2>6. PICK x : x \in Gathered(expression, n)
    BY <2>5
  <2>7. x \in Gathered(expression, n)' /\ y \in Gathered(expression, n)' /\ x # y
    BY <1>3, <2>5, <2>6
  <2>8. n \in Targets(c, e)' /\ Compiled'[c].fields[f] = expression
    BY <1>4, <1>6, <2>3, <2>4, <2>5
  <2> QED BY <2>7, <2>8 DEF MeetsMany, MetTwice
<1>10. ASSUME MeetsMany(c, e)', ~ MeetsMany(c, e) PROVE twice
  <2>1. PICK n \in Targets(c, e)', f \in Field :
           \E x, z \in Gathered(Compiled[c].fields[f], n)' : x # z
    BY <1>4, <1>10 DEF MeetsMany, MetTwice
  <2>2. PICK expression : expression = comp.fields[f]
    OBVIOUS
  <2>3. PICK x, z : x \in Gathered(expression, n)' /\ z \in Gathered(expression, n)' /\ x # z
    BY <1>4, <2>1, <2>2
  <2>4. n \in 1 .. Len(nodes) /\ n \in Targets(c, e)
    <3>1. n \in 1 .. Len(nodes')
      BY <1>4 DEF Targets, VariablesType
    <3> QED BY <1>4, <1>6, <3>1
  <2>5. ~ (x \in Gathered(expression, n) /\ z \in Gathered(expression, n))
    BY <1>10, <2>2, <2>3, <2>4 DEF MeetsMany, MetTwice
  <2>6. TakesAttribute(expression, n, top, name)' /\ \E w : w \in Gathered(expression, n)
    BY <1>3, <2>3, <2>4, <2>5
  <2>7. Below(n, top)
    BY <1>6, <2>4, <2>6 DEF TakesAttribute
  <2>8. PICK i \in 1 .. m : FrameOf(cs, i, n)
    BY <1>5, <2>4, <2>7
  <2>9. i = m
    <3>1. expression = Compiled[c].fields[f]
      BY <2>2
    <3>2. i = Len(cs.collection_stack)
      BY <1>1, <1>2, <1>4, <2>6, <2>8, <3>1, InnermostFrame
    <3> QED BY <1>1, <3>2
  <2>10. /\ MatchesAttribute(comp.fields[f], frames[m].fields[f], name)
         /\ frames[m].matched[f]
    BY <1>7, <2>2, <2>6, <2>8, <2>9
  <2> QED BY <1>5, <1>8, <2>8, <2>9, <2>10
<1> QED BY <1>9, <1>10

-----------------------------------------------------------------------------
(* Attributes: a second one is reported by the constraints that notice it. *)
LEMMA AttributeReports ==
    ASSUME NEW name, NEW value, Attribute(name, value), NEW c, NEW e
    PROVE  \A code : code \in Reported(c, e)' <=>
              \/ code \in Reported(c, e)
              \/ /\ code = MissingField
                 /\ \E cs \in TwiceBound(name) : cs.constraint = c /\ Node(cs.owner_depth) = e
<1>1. ReportedCodes /\ ReportedCodes'
  BY ReportedOne, PTL
<1>2. reports' = reports \cup {Report(MissingField, cs) : cs \in TwiceBound(name)}
  BY DEF Attribute, TwiceBound
<1>3. \A cs : /\ Report(MissingField, cs).code = MissingField
              /\ Report(MissingField, cs).constraint = cs.constraint
              /\ Report(MissingField, cs).owner = Node(cs.owner_depth)
  BY DEF Report, Node
<1>4. PICK twice : twice = TwiceBound(name)
  OBVIOUS
<1>5. \A r : r \in reports' <=> r \in reports \/ \E cs \in twice : r = Report(MissingField, cs)
  BY <1>2, <1>4
<1>6. \A code : code \in Reported(c, e)' <=>
         \E r \in reports' : r.code = code /\ r.constraint = c /\ r.owner = e
  BY <1>1 DEF ReportedCodes
<1>7. \A code : code \in Reported(c, e) <=>
         \E r \in reports : r.code = code /\ r.constraint = c /\ r.owner = e
  BY <1>1 DEF ReportedCodes
<1> QED BY <1>3, <1>4, <1>5, <1>6, <1>7

LEMMA AttributeKeepsVerdict ==
    ASSUME RegularFields, OwnersInv, FramesInv, TablesInv, VerdictsInv,
           NEW name, NEW value \in AttributeValue \cup {Unassessed}, Attribute(name, value),
           NEW cs \in active_constraints, NEW c, c = cs.constraint,
           NEW e, e = Node(cs.owner_depth)
    PROVE  VerdictSoFar(c, e)'
<1>1. /\ VariablesType /\ TreeOK /\ StructsOK /\ (in_attributes => Depth > 0) /\ EveryTagged
      /\ \A b \in active_constraints : StructOK(b) /\ FramesStruct(b) /\ TablesStruct(b)
  BY DEF OwnersInv, StructsOK, FramesInv, TablesInv
<1>2. PICK o, comp : o = cs.owner_depth /\ comp = Compiled[c]
  OBVIOUS
<1>3. Continues /\ Kept /\ VariablesType' /\ Closed' = Closed /\ Compiled' = Compiled
  <2>1. PICK top : top = Node(Depth)
    OBVIOUS
  <2> QED BY <1>1, <2>1, AttributeContinues, AttributeKeepsTree DEF Continues, Kept, Compiled
<1>4. /\ o \in 1 .. Depth /\ e \in 1 .. Len(nodes)
      /\ \A k \in 1 .. Depth : Node(k) = e => k = o
  <2>1. o \in 1 .. Depth
    BY <1>1, <1>2 DEF StructOK
  <2> QED BY <1>1, <1>2, <2>1, OpenNodes
<1>5. VerdictSoFar(c, e)
  BY <1>4 DEF VerdictsInv, VerdictStruct
<1>6. \A code : code \in Reported(c, e)' <=>
         \/ code \in Reported(c, e)
         \/ /\ code = MissingField
            /\ \E b \in TwiceBound(name) : b.constraint = c /\ Node(b.owner_depth) = e
  BY AttributeReports
<1>7. Reported(c, e)' \subseteq OpenCode
  BY <1>5, <1>6 DEF VerdictSoFar, OpenCode
<1>8. ASSUME ~ Shadowed(c, e)' PROVE SoFarExact(c, e)'
  <2>1. ~ Shadowed(c, e) /\ SoFarExact(c, e)
    BY <1>1, <1>3, <1>4, <1>5, <1>8, ShadowedKept DEF VerdictSoFar, SoFar
  <2>2. ASSUME NEW b \in active_constraints, b.constraint = c, b.owner_depth = o,
               NEW twice, twice <=> BoundTwice(b, MatchingFields(b, name))
        PROVE  /\ twice => MeetsMany(c, e)'
               /\ MeetsMany(c, e)' => MeetsMany(c, e) \/ twice
    <3>1. StructOK(b) /\ FramesStruct(b) /\ TablesStruct(b)
      BY <1>1
    <3>2. FramesExact(comp, b.owner_depth, b.collection_stack)
      BY <1>2, <1>4, <2>1, <2>2, <3>1 DEF TablesStruct, TablesOf
    <3> QED BY <1>1, <1>2, <1>8, <2>2, <3>1, <3>2, AttributeMeets
  <2>3. \A b \in TwiceBound(name) :
           b.constraint = c /\ Node(b.owner_depth) = e =>
              b \in active_constraints /\ b.owner_depth = o
    BY <1>1, <1>4 DEF TwiceBound, StructOK
  <2>4. CASE MeetsMany(c, e)'
    <3>1. CASE MeetsMany(c, e)
      BY <1>6, <2>1, <2>4, <3>1 DEF SoFarExact
    <3>2. CASE ~ MeetsMany(c, e)
      <4>1. cs \in TwiceBound(name)
        BY <1>2, <2>2, <2>4, <3>2 DEF TwiceBound
      <4>2. MissingField \in Reported(c, e)'
        BY <1>6, <4>1
      <4> QED BY <2>4, <4>2 DEF SoFarExact
    <3> QED BY <3>1, <3>2
  <2>5. CASE ~ MeetsMany(c, e)'
    <3>1. \A b \in TwiceBound(name) : ~ (b.constraint = c /\ Node(b.owner_depth) = e)
      BY <2>2, <2>3, <2>5 DEF TwiceBound
    <3>2. Reported(c, e)' = Reported(c, e)
      BY <1>6, <3>1
    <3>3. {} \in SUBSET (1 .. Len(nodes)) /\ Closed' = Closed \cup {}
      BY <1>3
    <3>4. SoFar(c, e)
      BY <1>5 DEF VerdictSoFar
    <3>5. SoFar(c, e)'
      BY <1>3, <1>4, <2>5, <3>2, <3>3, <3>4, SoFarStays
    <3> QED BY <1>8, <3>5 DEF SoFar
  <2> QED BY <2>4, <2>5
<1> QED BY <1>7, <1>8 DEF VerdictSoFar, SoFar

LEMMA AttributeKeepsVerdicts ==
    ASSUME RegularFields, OwnersInv, FramesInv, TablesInv, VerdictsInv,
           NEW name, NEW value \in AttributeValue \cup {Unassessed}, Attribute(name, value)
    PROVE  VerdictsInv'
<1>1. /\ VariablesType /\ TreeOK /\ StructsOK /\ (in_attributes => Depth > 0) /\ EveryTagged
      /\ \A cs \in active_constraints : StructOK(cs) /\ FramesStruct(cs)
  BY DEF OwnersInv, StructsOK, FramesInv, TablesInv
<1>2. /\ Continues /\ Grown /\ Len(nodes') = Len(nodes) /\ Depth' = Depth /\ Closed' = Closed
      /\ \A k \in 1 .. Depth : Node(k)' = Node(k)
  <2>1. PICK top : top = Node(Depth)
    OBVIOUS
  <2> QED BY <1>1, <2>1, AttributeContinues, AttributeKeepsTree
<1>3. active_constraints' =
         {Bound(cs, MatchingFields(cs, name), value) : cs \in active_constraints}
  BY DEF Attribute
<1>4. ASSUME NEW cs \in active_constraints,
             NEW b, b = Bound(cs, MatchingFields(cs, name), value)
      PROVE  VerdictStruct(b)'
  <2>1. b.constraint = cs.constraint /\ b.owner_depth = cs.owner_depth
        /\ cs.owner_depth \in 1 .. Depth
    BY <1>1, <1>4, StructSteps DEF StructOK, SameConstraint
  <2>2. PICK c, e : c = cs.constraint /\ e = Node(cs.owner_depth)
    OBVIOUS
  <2>3. VerdictSoFar(c, e)'
    BY <2>2, AttributeKeepsVerdict
  <2>4. e = Node(b.owner_depth)'
    BY <1>2, <2>1, <2>2
  <2> QED BY <2>1, <2>2, <2>3, <2>4 DEF VerdictStruct
<1>5. ASSUME NEW e \in Closed', NEW c \in nodes'[e].declaration.constraints
      PROVE  ClosedVerdict(c, e)'
  <2>1. e \in Closed
    BY <1>2
  <2>2. \A i \in 1 .. Len(finished) : finished[i] \in 1 .. Len(nodes)
    BY <1>1 DEF VariablesType
  <2>3. e \in 1 .. Len(nodes)
    BY <2>1, <2>2 DEF Closed
  <2>4. ClosedVerdict(c, e)
    BY <1>2, <2>1, <2>3 DEF VerdictsInv, Grown
  <2>5. \A cs \in TwiceBound(name) : Node(cs.owner_depth) # e
    BY <1>1, <2>1, ClosedHasNoOpenBelow DEF TwiceBound, StructOK
  <2>6. Reported(c, e)' = Reported(c, e)
    <3>1. \A code : code \in Reported(c, e)' <=>
             \/ code \in Reported(c, e)
             \/ /\ code = MissingField
                /\ \E cs \in TwiceBound(name) : cs.constraint = c /\ Node(cs.owner_depth) = e
      BY AttributeReports
    <3> QED BY <2>5, <3>1
  <2>7. {} \in SUBSET (1 .. Len(nodes)) /\ Closed' = Closed \cup {}
    BY <1>2
  <2> QED BY <1>2, <2>1, <2>4, <2>6, <2>7, ClosedVerdictKept
<1> QED BY <1>3, <1>4, <1>5 DEF VerdictsInv

-----------------------------------------------------------------------------
(* End tags: which fields exit a match in a frame, and what that reports.  *)
LEMMA ContentExits ==
    ASSUME RegularFields, VariablesType, TreeOK, NEW cs, StructOK(cs), NEW c, c = cs.constraint,
           NEW top, top = Node(Depth), NEW i, NEW n, FrameOf(cs, i, n),
           NEW f \in Field, NEW expression, expression = Compiled[c].fields[f]
    PROVE  Exits(c, cs.collection_stack[i], f) <=> Selects(expression, n, top)
<1>1. PICK comp, o, open : comp = Compiled[c] /\ o = cs.owner_depth /\ open = Open
  OBVIOUS
<1>2. PICK k \in o .. Depth : n = Node(k) /\ Follows(comp, cs.collection_stack[i], open, k)
  BY <1>1 DEF FrameOf
<1>3. /\ c \in Constraint /\ k \in 1 .. Depth /\ Depth \in k .. Depth
      /\ open \in Seq(OpenName) /\ Len(open) = Depth
  <2>1. c \in Constraint /\ o \in 1 .. Depth /\ Depth \in Nat
        /\ open \in Seq(OpenName) /\ Len(open) = Depth
    BY <1>1, OpenTyped DEF StructOK
  <2>2. k \in 1 .. Depth /\ Depth \in k .. Depth
    BY <2>1
  <2> QED BY <2>1, <2>2
<1>4. PICK a, below :
         a = cs.collection_stack[i].fields[f] /\ below = SubSeq(open, k + 1, Len(open))
  OBVIOUS
<1>5. Tracks(expression, a, below) /\ OfPaths(expression) /\ OfRegularPaths(expression)
  <2>1. Tracks(expression, a, below)
    BY <1>1, <1>2, <1>4 DEF Follows
  <2> QED BY <1>3, <2>1, SelectorOfPaths, FieldsRegular
<1>6. below \in Seq(OpenName)
  BY <1>3, <1>4
<1>7. EndElement(expression, a).exited_match <=> Selected(expression, below)
  BY <1>5, <1>6, EndTracks
<1>8. Selects(expression, n, top) <=> Selected(expression, below)
  BY <1>1, <1>2, <1>3, <1>4, OpenSelects
<1> QED BY <1>4, <1>7, <1>8 DEF Exits

(* A field that exits a match again, and one that takes complex content.   *)
ExitsAgain(cs) ==
    \E i \in 1 .. Len(cs.collection_stack), f \in Field :
        Exits(cs.constraint, cs.collection_stack[i], f) /\ cs.collection_stack[i].matched[f]

TakesComplex(cs, content) ==
    \E i \in 1 .. Len(cs.collection_stack), f \in Field :
        TakesContent(cs.constraint, cs.collection_stack[i], f) /\ content.complex

LEMMA EndMeets ==
    ASSUME RegularFields, OwnersInv, EveryTagged, NEW content \in Content, EndTag(content),
           NEW cs, StructOK(cs), FramesStruct(cs), NEW c, c = cs.constraint,
           NEW e, e = Node(cs.owner_depth), NEW top, top = Node(Depth),
           NEW comp, comp = Compiled[c],
           FramesExact(comp, cs.owner_depth, cs.collection_stack)
    PROVE  /\ ExitsAgain(cs) => MeetsMany(c, e)'
           /\ MeetsMany(c, e)' => MeetsMany(c, e) \/ ExitsAgain(cs)
           /\ ~ MeetsMany(c, e)' =>
                 (TakesComplex(cs, content) <=> content.complex /\ FieldTakes(c, e, top))
<1>1. PICK frames, m, y : frames = cs.collection_stack /\ m = Len(frames) /\ y = <<top>>
  OBVIOUS
<1>2. /\ VariablesType /\ TreeOK /\ StructsOK
  BY DEF OwnersInv
<1>3. /\ Continues
      /\ \A expression : \A n \in 1 .. Len(nodes) :
            /\ Gathered(expression, n)' =
                  Gathered(expression, n) \cup {x \in {y} : Selects(expression, n, top)}
            /\ y \notin Gathered(expression, n)
  BY <1>1, <1>2, EndContinues
<1>4. /\ VariablesType' /\ Kept /\ Grown /\ Compiled' = Compiled /\ schema' = schema
      /\ Len(nodes') = Len(nodes) /\ e \in 1 .. Len(nodes) /\ top \in 1 .. Len(nodes)
  <2>1. e \in 1 .. Len(nodes) /\ top \in 1 .. Len(nodes)
    BY <1>2, OpenNodes, EndSets DEF StructOK
  <2>2. Len(nodes') = Len(nodes)
    BY <1>2, EndCloses, ClosesTree
  <2> QED BY <1>3, <2>1, <2>2 DEF Continues, Kept, Compiled
<1>5. /\ m \in Nat
      /\ \A i \in 1 .. m : \E n \in Targets(c, e) : FrameOf(cs, i, n)
      /\ \A n \in Targets(c, e) : Below(n, top) => \E i \in 1 .. m : FrameOf(cs, i, n)
  BY <1>1, <1>2, TargetFrames
<1>6. \A n \in 1 .. Len(nodes) : n \in Targets(c, e)' <=> n \in Targets(c, e)
  BY <1>2, <1>4, TargetsGrown
<1>7. ASSUME NEW i \in 1 .. m, NEW n, FrameOf(cs, i, n), NEW f \in Field,
             NEW expression, expression = comp.fields[f]
      PROVE  /\ n \in 1 .. Len(nodes)
             /\ frames[i].matched[f] <=> Gathered(expression, n) # {}
             /\ ~ frames[i].matched[f] => frames[i].values[f] = Absent
             /\ Exits(c, frames[i], f) <=> Selects(expression, n, top)
  <2>1. n \in 1 .. Len(nodes) /\ FrameExact(comp, frames[i], n)
    BY <1>1, <1>7, FrameOfExact DEF FrameOf
  <2>2. /\ frames[i].matched[f] <=> Gathered(expression, n) # {}
        /\ ~ frames[i].matched[f] => frames[i].values[f] = Absent
    BY <1>7, <2>1 DEF FrameExact, FieldExact
  <2>3. expression = Compiled[c].fields[f]
    BY <1>7
  <2>4. Exits(c, cs.collection_stack[i], f) <=> Selects(expression, n, top)
    BY <1>2, <1>7, <2>3, ContentExits
  <2> QED BY <1>1, <2>1, <2>2, <2>4
<1>8. ExitsAgain(cs) <=>
         \E i \in 1 .. m, f \in Field : Exits(c, frames[i], f) /\ frames[i].matched[f]
  BY <1>1 DEF ExitsAgain
<1>9. ASSUME ExitsAgain(cs) PROVE MeetsMany(c, e)'
  <2>1. PICK i \in 1 .. m, f \in Field : Exits(c, frames[i], f) /\ frames[i].matched[f]
    BY <1>8, <1>9
  <2>2. PICK n \in Targets(c, e) : FrameOf(cs, i, n)
    BY <1>5, <2>1
  <2>3. PICK expression : expression = comp.fields[f]
    OBVIOUS
  <2>4. /\ n \in 1 .. Len(nodes) /\ Gathered(expression, n) # {} /\ Selects(expression, n, top)
    BY <1>7, <2>1, <2>2, <2>3
  <2>5. PICK x : x \in Gathered(expression, n)
    BY <2>4
  <2>6. x \in Gathered(expression, n)' /\ y \in Gathered(expression, n)' /\ x # y
    BY <1>3, <2>4, <2>5
  <2>7. n \in Targets(c, e)' /\ Compiled'[c].fields[f] = expression
    BY <1>4, <1>6, <2>2, <2>3, <2>4
  <2> QED BY <2>6, <2>7 DEF MeetsMany, MetTwice
<1>10. ASSUME MeetsMany(c, e)', ~ MeetsMany(c, e) PROVE ExitsAgain(cs)
  <2>1. PICK n \in Targets(c, e)', f \in Field :
           \E x, z \in Gathered(Compiled[c].fields[f], n)' : x # z
    BY <1>4, <1>10 DEF MeetsMany, MetTwice
  <2>2. PICK expression : expression = comp.fields[f]
    OBVIOUS
  <2>3. PICK x, z : x \in Gathered(expression, n)' /\ z \in Gathered(expression, n)' /\ x # z
    BY <1>4, <2>1, <2>2
  <2>4. n \in 1 .. Len(nodes) /\ n \in Targets(c, e)
    <3>1. n \in 1 .. Len(nodes')
      BY <1>4 DEF Targets, VariablesType
    <3> QED BY <1>4, <1>6, <3>1
  <2>5. ~ (x \in Gathered(expression, n) /\ z \in Gathered(expression, n))
    BY <1>10, <2>2, <2>3, <2>4 DEF MeetsMany, MetTwice
  <2>6. Selects(expression, n, top) /\ \E w : w \in Gathered(expression, n)
    BY <1>3, <2>3, <2>4, <2>5
  <2>7. Below(n, top)
    BY <2>6 DEF Selects
  <2>8. PICK i \in 1 .. m : FrameOf(cs, i, n)
    BY <1>5, <2>4, <2>7
  <2>9. Exits(c, frames[i], f) /\ frames[i].matched[f]
    BY <1>7, <2>2, <2>6, <2>8
  <2> QED BY <1>8, <2>8, <2>9
<1>11. ASSUME ~ MeetsMany(c, e)'
       PROVE  TakesComplex(cs, content) <=> content.complex /\ FieldTakes(c, e, top)
  <2>1. ~ ExitsAgain(cs)
    BY <1>9, <1>11
  <2>2. TakesComplex(cs, content) <=>
           \E i \in 1 .. m, f \in Field : TakesContent(c, frames[i], f) /\ content.complex
    BY <1>1 DEF TakesComplex
  <2>3. ASSUME NEW i \in 1 .. m, NEW f \in Field, TakesContent(c, frames[i], f)
        PROVE  FieldTakes(c, e, top)
    <3>1. PICK n \in Targets(c, e) : FrameOf(cs, i, n)
      BY <1>5
    <3>2. PICK expression : expression = comp.fields[f]
      OBVIOUS
    <3>3. Selects(expression, n, top)
      BY <1>7, <2>3, <3>1, <3>2 DEF TakesContent
    <3> QED BY <3>2, <3>3 DEF FieldTakes
  <2>4. ASSUME FieldTakes(c, e, top)
        PROVE  \E i \in 1 .. m, f \in Field : TakesContent(c, frames[i], f)
    <3>1. PICK n \in Targets(c, e), f \in Field : Selects(Compiled[c].fields[f], n, top)
      BY <2>4 DEF FieldTakes
    <3>2. PICK expression : expression = comp.fields[f]
      OBVIOUS
    <3>3. Selects(expression, n, top) /\ Below(n, top)
      BY <3>1, <3>2 DEF Selects
    <3>4. PICK i \in 1 .. m : FrameOf(cs, i, n)
      BY <1>5, <3>3
    <3>5. Exits(c, frames[i], f)
      BY <1>7, <3>2, <3>3, <3>4
    <3>6. ~ frames[i].matched[f]
      BY <1>8, <2>1, <3>5
    <3>7. frames[i].values[f] = Absent
      BY <1>7, <3>2, <3>4, <3>6
    <3>8. TakesContent(c, frames[i], f)
      BY <3>5, <3>6, <3>7 DEF TakesContent
    <3> QED BY <3>8
  <2> QED BY <2>2, <2>3, <2>4
<1> QED BY <1>9, <1>10, <1>11

(* The errors of the call, one by one.                                     *)
LEMMA EndErrorsOf ==
    ASSUME NEW cs, NEW content, NEW moved, NEW exited \in BOOLEAN,
           EndsTarget(cs, content, moved, exited),
           cs.key_table \in Seq(KeySequence), NEW c, c = cs.constraint,
           NEW row, row = moved[Len(cs.collection_stack)].values,
           exited => row \in KeySequence
    PROVE  \A code : code \in EndErrors(cs, content) <=>
              \/ code = MissingField /\ ExitsAgain(cs)
              \/ code = ComplexField /\ TakesComplex(cs, content)
              \/ /\ exited /\ code = MissingField
                 /\ Compiled[c].kind = "key" /\ ~ IsComplete(row)
              \/ /\ exited /\ code = DuplicateKey
                 /\ IsChecked(Compiled[c].kind, row) /\ Holds(cs.key_table, row)
<1>1. PICK b, old, new, kind :
         /\ b = Ended(cs, content) /\ old = cs.key_table /\ new = b.key_table
         /\ kind = Compiled[c].kind
  OBVIOUS
<1>2. new = IF exited THEN Append(old, row) ELSE old
  BY <1>1 DEF EndsTarget
<1>3. /\ Len(new) > Len(old) <=> exited
      /\ exited => Top(new) = row
  <2>1. CASE exited
    <3>1. new = Append(old, row) /\ old \in Seq(KeySequence) /\ row \in KeySequence
      BY <1>1, <1>2, <2>1
    <3>2. Len(new) = Len(old) + 1 /\ new[Len(old) + 1] = row /\ Len(old) \in Nat
      BY <3>1, TopOfAppended
    <3> QED BY <2>1, <3>2 DEF Top
  <2>2. CASE ~ exited
    <3>1. Len(new) = Len(old) /\ Len(old) \in Nat
      BY <1>1, <1>2, <2>2
    <3> QED BY <2>2, <3>1
  <2> QED BY <2>1, <2>2
<1>4. EndErrors(cs, content) =
         {e \in {MissingField} : ExitsAgain(cs)}
            \cup {e \in {ComplexField} : TakesComplex(cs, content)}
            \cup (IF Len(new) > Len(old)
                  THEN AddErrors(kind, Top(new), IsChecked(kind, Top(new)) /\ Holds(old, Top(new)))
                  ELSE {})
  BY <1>1 DEF EndErrors, ExitsAgain, TakesComplex
<1>5. \A s : \A duplicate \in BOOLEAN : \A code : code \in AddErrors(kind, s, duplicate) <=>
         \/ code = MissingField /\ kind = "key" /\ ~ IsComplete(s)
         \/ code = DuplicateKey /\ duplicate
  BY DEF AddErrors
<1>6. PICK duplicate \in BOOLEAN :
         duplicate = (IsChecked(kind, row) /\ Holds(old, row))
  BY DEF IsChecked, IsComplete, Holds
<1>7. EndErrors(cs, content) =
         {e \in {MissingField} : ExitsAgain(cs)}
            \cup {e \in {ComplexField} : TakesComplex(cs, content)}
            \cup (IF exited THEN AddErrors(kind, row, duplicate) ELSE {})
  BY <1>3, <1>4, <1>6
<1>8. \A code : code \in EndErrors(cs, content) <=>
         \/ code = MissingField /\ ExitsAgain(cs)
         \/ code = ComplexField /\ TakesComplex(cs, content)
         \/ exited /\ code \in AddErrors(kind, row, duplicate)
  BY <1>7
<1>9. duplicate <=> IsChecked(kind, row) /\ Holds(old, row)
  BY <1>6
<1> QED BY <1>1, <1>5, <1>8, <1>9

ClosedTwice == \A c : \A n \in Closed : MetTwice(c, n) <=> SelectsMany(c, n)

LEMMA MetTwiceClosed ==
    VariablesType /\ TreeOK /\ EveryTagged => ClosedTwice
BY ClosedMetTwice DEF ClosedTwice

(* What they are when no field of a target has met two nodes: about the    *)
(* target that ends, of key sequence K, and about complex content.         *)
EndAdds(c, e, top, K, content, code) ==
    \/ /\ code = MissingField /\ top \in Targets(c, e)
       /\ Compiled[c].kind = "key" /\ ~ IsComplete(K)
    \/ /\ code = DuplicateKey /\ top \in Targets(c, e)
       /\ \E n \in ClosedOf(c, e) : Clashes(c, K, KeySequenceAt(c, n))
    \/ code = ComplexField /\ content.complex /\ FieldTakes(c, e, top)

LEMMA EndErrorsExact ==
    ASSUME RegularSelectors, RegularFields, OwnersInv, EveryTagged,
           NEW content \in Content, EndTag(content),
           NEW cs, StructOK(cs), FramesStruct(cs), NEW c, c = cs.constraint,
           NEW o, o = cs.owner_depth, NEW e, e = Node(o), NEW top, top = Node(Depth),
           NEW comp, comp = Compiled[c],
           TablesOf(c, comp, o, e, cs.collection_stack, cs.key_table),
           ~ Shadowed(c, e)', ~ MeetsMany(c, e)', NEW K, K = KeySequenceAt(c, top)'
    PROVE  \A code : code \in EndErrors(cs, content) <=> EndAdds(c, e, top, K, content, code)
<1>1. /\ VariablesType /\ TreeOK /\ StructsOK
  BY DEF OwnersInv
<1>2. PICK rows, m : rows = cs.key_table /\ m = Len(cs.collection_stack)
  OBVIOUS
<1>3. /\ Continues /\ VariablesType' /\ TreeOK' /\ EveryTagged' /\ Kept /\ Grown
      /\ Compiled' = Compiled /\ schema' = schema
      /\ Closed' = Closed \cup {top} /\ top \in 1 .. Len(nodes)
  <2>1. Closed' = Closed \cup {top}
    BY <1>1, EndCloses, ClosesTree
  <2>2. Continues /\ VariablesType' /\ TreeOK' /\ EveryTagged' /\ Kept /\ Grown
    BY <1>1, EndContinues DEF Continues, Kept
  <2>3. top \in 1 .. Len(nodes) /\ schema' = schema /\ Compiled' = Compiled
    BY <1>1, EndSets DEF Compiled
  <2> QED BY <2>1, <2>2, <2>3
<1>4. /\ c \in Constraint /\ o \in 1 .. Depth /\ Depth \in o .. Depth /\ Depth \in 1 .. Depth
      /\ e \in 1 .. Len(nodes) /\ rows \in Seq(KeySequence)
  <2>1. c \in Constraint /\ o \in 1 .. Depth /\ rows \in Seq(KeySequence)
    BY <1>2 DEF StructOK, FramesStruct
  <2> QED BY <1>1, <2>1, OpenNodes, OpenTyped
<1>5. ~ Shadowed(c, e) /\ ~ MeetsMany(c, e)
  BY <1>1, <1>3, <1>4, ShadowedKept, MeetsManyKept
<1>6. /\ TableExact(c, e, rows)
      /\ FramesExact(comp, o, cs.collection_stack)
  BY <1>2, <1>5 DEF TablesOf
<1>7. /\ ~ ExitsAgain(cs)
      /\ TakesComplex(cs, content) <=> content.complex /\ FieldTakes(c, e, top)
  BY <1>6, EndMeets
<1>8. PICK moved, exited : EndsTarget(cs, content, moved, exited)
  BY <1>1, EndPops
<1>9. PICK exits \in BOOLEAN : exits <=> exited
  OBVIOUS
<1>10. EndsTarget(cs, content, moved, exits)
  BY <1>8, <1>9 DEF EndsTarget
<1>11. /\ moved = EndedFrames(cs, content) /\ m \in Nat
       /\ moved \in Seq(FrameType(comp)) /\ Len(moved) = m
       /\ exits <=> IsTarget(comp, Open, o, Depth)
       /\ exits => Rank(comp, Open, o, Depth) = m /\ m > 0
  BY <1>2, <1>10 DEF EndsTarget
<1>12. exits <=> top \in Targets(c, e)
  BY <1>1, <1>4, <1>11, OpenTargets
<1>13. PICK row : row = moved[m].values
  OBVIOUS
<1>14. ASSUME exits PROVE row = K /\ row \in KeySequence
  <2>1. m \in 1 .. m
    BY <1>11, <1>14
  <2>2. moved[m] \in FrameType(comp)
    BY <1>11, <2>1
  <2>3. PICK frame : frame = moved[m]
    OBVIOUS
  <2>4. IsTarget(comp, Open, o, Depth) /\ m = Rank(comp, Open, o, Depth)
    BY <1>11, <1>14
  <2>5. FrameExact(comp, moved[m], top)'
    BY <1>4, <1>6, <1>11, <2>4, EndFrames
  <2>6. comp = Compiled'[c] /\ frame \in FrameType(comp) /\ top \in Closed'
    BY <1>3, <2>2, <2>3
  <2>7. ExactRows'
    BY <1>3, FrameRow, PTL
  <2>8. FrameExact(comp, frame, top)'
    BY <2>3, <2>5
  <2>9. SelectsMany(c, top)' \/ frame.values = KeySequenceAt(c, top)'
    BY <2>6, <2>7, <2>8 DEF ExactRows
  <2>10. ~ SelectsMany(c, top)'
    <3>1. ClosedTwice'
      BY <1>3, MetTwiceClosed, PTL
    <3>2. MetTwice(c, top)' <=> SelectsMany(c, top)'
      BY <2>6, <3>1 DEF ClosedTwice
    <3>3. top \in Targets(c, e)'
      BY <1>1, <1>3, <1>4, <1>12, <1>14, TargetsGrown
    <3> QED BY <3>2, <3>3 DEF MeetsMany
  <2>11. row \in KeySequence
    BY <1>13, <2>2 DEF FrameType
  <2> QED BY <1>13, <2>3, <2>9, <2>10, <2>11
<1>15. \A code : code \in EndErrors(cs, content) <=>
          \/ code = ComplexField /\ TakesComplex(cs, content)
          \/ /\ exits /\ code = MissingField
             /\ Compiled[c].kind = "key" /\ ~ IsComplete(row)
          \/ /\ exits /\ code = DuplicateKey
             /\ IsChecked(Compiled[c].kind, row) /\ Holds(rows, row)
  <2>1. cs.key_table \in Seq(KeySequence) /\ row = moved[Len(cs.collection_stack)].values
        /\ (exits => row \in KeySequence)
    BY <1>2, <1>4, <1>13, <1>14
  <2>2. \A code : code \in EndErrors(cs, content) <=>
           \/ code = MissingField /\ ExitsAgain(cs)
           \/ code = ComplexField /\ TakesComplex(cs, content)
           \/ /\ exits /\ code = MissingField
              /\ Compiled[c].kind = "key" /\ ~ IsComplete(row)
           \/ /\ exits /\ code = DuplicateKey
              /\ IsChecked(Compiled[c].kind, row) /\ Holds(cs.key_table, row)
    BY <1>10, <2>1, EndErrorsOf
  <2> QED BY <1>2, <1>7, <2>2
<1>16. ASSUME exits
       PROVE  IsChecked(Compiled[c].kind, row) /\ Holds(rows, row) <=>
                 \E n \in ClosedOf(c, e) : Clashes(c, K, KeySequenceAt(c, n))
  <2>1. TablesSoFar
    BY <1>1, TablesHoldKeysSoFar
  <2>2. TableRows(rows) = KeysSoFar(c, e)
    BY <1>4, <1>5, <1>6, <2>1 DEF TablesSoFar, RowsSoFar
  <2>3. \A i \in 1 .. Len(rows) : rows[i] \in KeySequence
    BY <1>4
  <2>4. Holds(rows, row) <=> \E s \in TableRows(rows) : SequenceEqual(s, row)
    BY DEF Holds, TableRows
  <2>5. \A s \in TableRows(rows) : SequenceEqual(s, row) <=> SequenceEqual(row, s)
    <3>1. \A s \in TableRows(rows) : s \in KeySequence
      BY <2>3 DEF TableRows
    <3> QED BY <1>14, <1>16, <3>1, SequencesCompared
  <2>6. Holds(rows, row) <=> \E n \in ClosedOf(c, e) : SequenceEqual(row, KeySequenceAt(c, n))
    BY <2>2, <2>4, <2>5 DEF KeysSoFar
  <2> QED BY <1>14, <1>16, <2>6 DEF Clashes
<1> QED BY <1>7, <1>12, <1>14, <1>15, <1>16 DEF EndAdds

-----------------------------------------------------------------------------
(* The end tag as a whole: what the definition gains with the element that *)
(* ends, and what is reported.                                             *)
KeysTyped == \A c, n : KeySequenceAt(c, n) \in KeySequence

LEMMA KeysAreSequences ==
    VariablesType => KeysTyped
<1> SUFFICES ASSUME VariablesType, NEW c, NEW n PROVE KeySequenceAt(c, n) \in KeySequence
  BY DEF KeysTyped
<1>1. DOMAIN nodes = 1 .. Len(nodes) /\ \A m \in 1 .. Len(nodes) : nodes[m] \in NodeType
  BY DEF VariablesType
<1>2. ASSUME NEW f \in Field, NEW x \in FieldNodes(c, f, n)
      PROVE  ValueAt(x) \in KeyFieldValue \cup {Absent}
  <2>1. \/ \E m \in 1 .. Len(nodes) : x = <<m>>
        \/ x \in AttributesTaken(Compiled[c].fields[f], n)
    BY <1>1, <1>2, FieldNodesOne
  <2>2. CASE \E m \in 1 .. Len(nodes) : x = <<m>>
    <3>1. PICK m \in 1 .. Len(nodes) : x = <<m>> /\ Len(x) = 1 /\ x[1] = m
      BY <2>2
    <3>2. nodes[m].content \in Content
      BY <1>1 DEF NodeType
    <3>3. FieldValue(nodes[m].content) \in KeyFieldValue \cup {Absent}
      BY <3>2, DocumentAssumption DEF FieldValue, Content
    <3> QED BY <3>1, <3>3 DEF ValueAt
  <2>3. CASE x \in AttributesTaken(Compiled[c].fields[f], n)
    <3>1. /\ x \in (1 .. Len(nodes)) \X AttributeName /\ Len(x) = 2
          /\ x[1] \in 1 .. Len(nodes) /\ x[2] \in DOMAIN nodes[x[1]].attributes
      BY <1>1, <2>3 DEF AttributesTaken, TakesAttribute
    <3>2. nodes[x[1]].attributes \in AttributesType
      BY <1>1, <3>1 DEF NodeType
    <3>3. nodes[x[1]].attributes[x[2]] \in AttributeValue \cup {Unassessed}
      BY <3>1, <3>2 DEF AttributesType
    <3> QED BY <3>1, <3>3, DocumentAssumption DEF ValueAt
  <2> QED BY <2>1, <2>2, <2>3
<1>3. ASSUME NEW f \in Field, NEW xs, xs = FieldNodes(c, f, n)
      PROVE  (IF xs = {} THEN Absent ELSE ValueAt(CHOOSE x \in xs : TRUE))
                \in KeyFieldValue \cup {Absent}
  <2>1. CASE xs = {}
    BY <2>1
  <2>2. CASE xs # {}
    <3>1. PICK x \in xs : x = CHOOSE z \in xs : TRUE
      BY <2>2
    <3> QED BY <1>2, <1>3, <2>2, <3>1
  <2> QED BY <2>1, <2>2
<1> QED BY <1>3 DEF KeySequenceAt, KeySequence

LEMMA SoFarEnds ==
    ASSUME Continues, NEW content, NEW top \in 1 .. Len(nodes), top \notin Closed,
           Closed' = Closed \cup {top}, nodes'[top].content = content,
           NEW c, NEW e \in 1 .. Len(nodes), NEW K, K = KeySequenceAt(c, top)'
    PROVE  /\ Incomplete(c, e)' <=>
                 Incomplete(c, e) \/ (top \in Targets(c, e) /\ ~ IsComplete(K))
           /\ Clashing(c, e)' <=>
                 \/ Clashing(c, e)
                 \/ /\ top \in Targets(c, e)
                    /\ \E n \in ClosedOf(c, e) : Clashes(c, K, KeySequenceAt(c, n))
           /\ MeetsComplex(c, e)' <=>
                 MeetsComplex(c, e) \/ (content.complex /\ FieldTakes(c, e, top))
<1>1. VariablesType /\ VariablesType' /\ Compiled' = Compiled
  BY DEF Continues, Kept, Compiled
<1>2. PICK new : new = {top} /\ new \in SUBSET (1 .. Len(nodes)) /\ Closed' = Closed \cup new
  OBVIOUS
<1>3. /\ \A n : n \in ClosedOf(c, e)' <=>
            n \in ClosedOf(c, e) \/ (n \in new /\ n \in Targets(c, e))
      /\ \A n \in Closed : KeySequenceAt(c, n)' = KeySequenceAt(c, n)
  BY <1>2, ClosedOfKept
<1>4. /\ \A n : n \in ClosedOf(c, e)' <=>
            n \in ClosedOf(c, e) \/ (n = top /\ top \in Targets(c, e))
      /\ \A n \in ClosedOf(c, e) : KeySequenceAt(c, n)' = KeySequenceAt(c, n) /\ n # top
  BY <1>2, <1>3 DEF ClosedOf
<1>5. Incomplete(c, e)' <=> Incomplete(c, e) \/ (top \in Targets(c, e) /\ ~ IsComplete(K))
  <2>1. Incomplete(c, e)' <=> \E n \in ClosedOf(c, e)' : ~ IsComplete(KeySequenceAt(c, n)')
    BY DEF Incomplete, IsComplete
  <2> QED BY <1>4, <2>1 DEF Incomplete
<1>6. \A s, t : Clashes(c, s, t)' <=> Clashes(c, s, t)
  BY <1>1 DEF Clashes, IsChecked, IsComplete, SequenceEqual
<1>7. Clashing(c, e)' <=>
         \E n, m \in ClosedOf(c, e)' :
            n # m /\ Clashes(c, KeySequenceAt(c, n)', KeySequenceAt(c, m)')
  BY <1>1 DEF Clashing, Clashes, IsChecked, IsComplete, SequenceEqual
<1>8. \A n \in ClosedOf(c, e) :
         Clashes(c, KeySequenceAt(c, n), K) <=> Clashes(c, K, KeySequenceAt(c, n))
  <2>1. KeysTyped /\ KeysTyped'
    BY <1>1, KeysAreSequences, PTL
  <2>2. K \in KeySequence /\ \A n : KeySequenceAt(c, n) \in KeySequence
    BY <2>1 DEF KeysTyped
  <2>3. \A s, t \in KeySequence : Clashes(c, s, t) => Clashes(c, t, s)
    BY SequencesCompared DEF Clashes
  <2> QED BY <2>2, <2>3
<1>9. Clashing(c, e)' <=>
         \/ Clashing(c, e)
         \/ /\ top \in Targets(c, e)
            /\ \E n \in ClosedOf(c, e) : Clashes(c, K, KeySequenceAt(c, n))
  <2>1. ASSUME Clashing(c, e)'
        PROVE  \/ Clashing(c, e)
               \/ /\ top \in Targets(c, e)
                  /\ \E n \in ClosedOf(c, e) : Clashes(c, K, KeySequenceAt(c, n))
    <3>1. PICK n, m \in ClosedOf(c, e)' :
             n # m /\ Clashes(c, KeySequenceAt(c, n)', KeySequenceAt(c, m)')
      BY <1>7, <2>1
    <3>2. CASE n \in ClosedOf(c, e) /\ m \in ClosedOf(c, e)
      BY <1>4, <3>1, <3>2 DEF Clashing
    <3>3. CASE n = top
      BY <1>4, <3>1, <3>3
    <3>4. CASE m = top
      BY <1>4, <1>8, <3>1, <3>4
    <3> QED BY <1>4, <3>1, <3>2, <3>3, <3>4
  <2>2. ASSUME Clashing(c, e) PROVE Clashing(c, e)'
    <3>1. PICK n, m \in ClosedOf(c, e) :
             n # m /\ Clashes(c, KeySequenceAt(c, n), KeySequenceAt(c, m))
      BY <2>2 DEF Clashing
    <3>2. n \in ClosedOf(c, e)' /\ m \in ClosedOf(c, e)'
          /\ KeySequenceAt(c, n)' = KeySequenceAt(c, n)
          /\ KeySequenceAt(c, m)' = KeySequenceAt(c, m)
      BY <1>4
    <3> QED BY <1>7, <3>1, <3>2
  <2>3. ASSUME top \in Targets(c, e), NEW n \in ClosedOf(c, e), Clashes(c, K, KeySequenceAt(c, n))
        PROVE  Clashing(c, e)'
    <3>1. top \in ClosedOf(c, e)' /\ n \in ClosedOf(c, e)' /\ n # top
          /\ KeySequenceAt(c, n)' = KeySequenceAt(c, n)
      BY <1>4, <2>3
    <3> QED BY <1>7, <2>3, <3>1
  <2> QED BY <2>1, <2>2, <2>3
<1>10. MeetsComplex(c, e)' <=>
          MeetsComplex(c, e) \/ (content.complex /\ FieldTakes(c, e, top))
  <2>1. MeetsComplex(c, e)' <=>
           \/ MeetsComplex(c, e)
           \/ \E m \in new : nodes'[m].content.complex /\ FieldTakes(c, e, m)
    BY <1>2, MeetsComplexKept
  <2> QED BY <1>2, <2>1
<1> QED BY <1>5, <1>9, <1>10

LEMMA EndReports ==
    ASSUME NEW content, EndTag(content), NEW c, NEW e, NEW failing,
           failing = FailingKeyrefs(EndClosing(content), ScopeTables(EndClosing(content)))
    PROVE  \A code : code \in Reported(c, e)' <=>
              \/ code \in Reported(c, e)
              \/ \E cs \in active_constraints :
                    /\ cs.constraint = c /\ Node(cs.owner_depth) = e
                    /\ code \in EndErrors(cs, content)
              \/ /\ code = MissingKey
                 /\ \E b \in failing : b.constraint = c /\ Node(b.owner_depth) = e
<1> DEFINE errors == UNION {{<<x, cs>> : x \in EndErrors(cs, content)} :
                               cs \in active_constraints}
<1>1. ReportedCodes /\ ReportedCodes'
  BY ReportedOne, PTL
<1>2. reports' = (reports \cup {Report(found[1], found[2]) : found \in errors})
                    \cup {Report(MissingKey, cs) : cs \in failing}
  BY DEF EndTag, EndClosing
<1>3. \A found : found \in errors <=>
         \E cs \in active_constraints : \E x \in EndErrors(cs, content) : found = <<x, cs>>
  OBVIOUS
<1>4. \A x, cs : <<x, cs>>[1] = x /\ <<x, cs>>[2] = cs
  OBVIOUS
<1>5. \A x, cs : /\ Report(x, cs).code = x
                 /\ Report(x, cs).constraint = cs.constraint
                 /\ Report(x, cs).owner = Node(cs.owner_depth)
  BY DEF Report, Node
<1> HIDE DEF errors
<1>6. \A r : r \in reports' <=>
         \/ r \in reports
         \/ \E cs \in active_constraints : \E x \in EndErrors(cs, content) : r = Report(x, cs)
         \/ \E b \in failing : r = Report(MissingKey, b)
  <2>1. \A r : r \in reports' <=>
           \/ r \in reports
           \/ \E found \in errors : r = Report(found[1], found[2])
           \/ \E b \in failing : r = Report(MissingKey, b)
    BY <1>2
  <2>2. ASSUME NEW found \in errors
        PROVE  \E cs \in active_constraints : \E x \in EndErrors(cs, content) :
                  Report(found[1], found[2]) = Report(x, cs)
    <3>1. PICK cs \in active_constraints : \E x \in EndErrors(cs, content) : found = <<x, cs>>
      BY <1>3
    <3>2. PICK x \in EndErrors(cs, content) : found = <<x, cs>>
      BY <3>1
    <3>3. found[1] = x /\ found[2] = cs
      BY <3>2
    <3> QED BY <3>3
  <2>3. ASSUME NEW cs \in active_constraints, NEW x \in EndErrors(cs, content)
        PROVE  \E found \in errors : Report(x, cs) = Report(found[1], found[2])
    <3>1. <<x, cs>> \in errors
      BY <1>3
    <3>2. PICK found \in errors : found = <<x, cs>>
      BY <3>1
    <3>3. found[1] = x /\ found[2] = cs
      BY <3>2
    <3> QED BY <3>3
  <2>4. ASSUME NEW r
        PROVE  (\E found \in errors : r = Report(found[1], found[2])) <=>
                  \E cs \in active_constraints : \E x \in EndErrors(cs, content) :
                     r = Report(x, cs)
    BY <2>2, <2>3
  <2> QED BY <2>1, <2>4
<1>7. \A code : code \in Reported(c, e)' <=>
         \E r \in reports' : r.code = code /\ r.constraint = c /\ r.owner = e
  BY <1>1 DEF ReportedCodes
<1>8. \A code : code \in Reported(c, e) <=>
         \E r \in reports : r.code = code /\ r.constraint = c /\ r.owner = e
  BY <1>1 DEF ReportedCodes
<1>9. ASSUME NEW code, code \in Reported(c, e)'
      PROVE  \/ code \in Reported(c, e)
             \/ \E cs \in active_constraints :
                   /\ cs.constraint = c /\ Node(cs.owner_depth) = e
                   /\ code \in EndErrors(cs, content)
             \/ /\ code = MissingKey
                /\ \E b \in failing : b.constraint = c /\ Node(b.owner_depth) = e
  <2>1. PICK r \in reports' : r.code = code /\ r.constraint = c /\ r.owner = e
    BY <1>7, <1>9
  <2>2. CASE r \in reports
    BY <1>8, <2>1, <2>2
  <2>3. CASE \E cs \in active_constraints : \E x \in EndErrors(cs, content) : r = Report(x, cs)
    <3>1. PICK cs \in active_constraints : \E x \in EndErrors(cs, content) : r = Report(x, cs)
      BY <2>3
    <3>2. PICK x \in EndErrors(cs, content) : r = Report(x, cs)
      BY <3>1
    <3>3. x = code /\ cs.constraint = c /\ Node(cs.owner_depth) = e
      BY <1>5, <2>1, <3>2
    <3> QED BY <3>3
  <2>4. CASE \E b \in failing : r = Report(MissingKey, b)
    <3>1. PICK b \in failing : r = Report(MissingKey, b)
      BY <2>4
    <3>2. MissingKey = code /\ b.constraint = c /\ Node(b.owner_depth) = e
      BY <1>5, <2>1, <3>1
    <3> QED BY <3>2
  <2> QED BY <1>6, <2>1, <2>2, <2>3, <2>4
<1>10. ASSUME NEW code, code \in Reported(c, e) PROVE code \in Reported(c, e)'
  BY <1>6, <1>7, <1>8, <1>10
<1>11. ASSUME NEW cs \in active_constraints, cs.constraint = c, Node(cs.owner_depth) = e,
              NEW code \in EndErrors(cs, content)
       PROVE  code \in Reported(c, e)'
  <2>1. PICK r : r = Report(code, cs)
    OBVIOUS
  <2>2. r \in reports' /\ r.code = code /\ r.constraint = c /\ r.owner = e
    BY <1>5, <1>6, <1>11, <2>1
  <2> QED BY <1>7, <2>2
<1>12. ASSUME NEW b \in failing, b.constraint = c, Node(b.owner_depth) = e
       PROVE  MissingKey \in Reported(c, e)'
  <2>1. PICK r : r = Report(MissingKey, b)
    OBVIOUS
  <2>2. r \in reports' /\ r.code = MissingKey /\ r.constraint = c /\ r.owner = e
    BY <1>5, <1>6, <1>12, <2>1
  <2> QED BY <1>7, <2>2
<1> QED BY <1>9, <1>10, <1>11, <1>12

LEMMA ClosingOwners ==
    ASSUME VariablesType, TreeOK, StructsOK, NEW content \in Content, EndTag(content),
           NEW b \in EndClosing(content)
    PROVE  b.owner_depth = Depth
<1>1. PICK cs \in active_constraints : b = Ended(cs, content) /\ ~ b.selector.active
  BY DEF EndClosing
<1>2. /\ SameConstraint(b, cs) /\ cs.owner_depth \in 1 .. Depth
      /\ ~ (cs.owner_depth < Depth)
  BY <1>1, EndedStructs
<1>3. Depth \in Nat \ {0}
  BY EndCloses
<1> QED BY <1>2, <1>3 DEF SameConstraint

LEMMA EndErrorsOpen ==
    ASSUME NEW cs, NEW content
    PROVE  EndErrors(cs, content) \subseteq OpenCode
BY DEF EndErrors, AddErrors, OpenCode

LEMMA EndKeepsVerdict ==
    ASSUME RegularSelectors, RegularFields, OwnersInv, FramesInv, TablesInv, VerdictsInv,
           NEW content \in Content, EndTag(content),
           NEW cs \in active_constraints, NEW c, c = cs.constraint,
           NEW o, o = cs.owner_depth, NEW e, e = Node(o)
    PROVE  /\ SoFar(c, e)'
           /\ Reported(c, e)' \subseteq OpenCode \cup {MissingKey}
           /\ o < Depth => Reported(c, e)' \subseteq OpenCode
<1>1. /\ VariablesType /\ TreeOK /\ StructsOK /\ EveryTagged
      /\ \A b \in active_constraints : StructOK(b) /\ FramesStruct(b) /\ TablesStruct(b)
  BY DEF OwnersInv, StructsOK, FramesInv, TablesInv
<1>2. PICK top, comp, closing, failing :
         /\ top = Node(Depth) /\ comp = Compiled[c]
         /\ closing = EndClosing(content)
         /\ failing = FailingKeyrefs(closing, ScopeTables(closing))
  OBVIOUS
<1>3. /\ Continues /\ Kept /\ VariablesType' /\ Closed' = Closed \cup {top}
      /\ Compiled' = Compiled /\ top \in 1 .. Len(nodes) /\ top \notin Closed
      /\ nodes'[top].content = content
  <2>1. Closed' = Closed \cup {top}
    BY <1>1, <1>2, EndCloses, ClosesTree
  <2>2. Continues /\ Kept /\ VariablesType'
    BY <1>1, <1>2, EndContinues DEF Continues, Kept
  <2>3. /\ top \in 1 .. Len(nodes) /\ top \notin Closed /\ nodes'[top].content = content
        /\ Compiled' = Compiled
    BY <1>1, <1>2, EndSets DEF Compiled
  <2> QED BY <2>1, <2>2, <2>3
<1>4. /\ o \in 1 .. Depth /\ e \in 1 .. Len(nodes) /\ Depth \in Nat \ {0}
      /\ \A k \in 1 .. Depth : Node(k) = e => k = o
  <2>1. o \in 1 .. Depth /\ Depth \in Nat \ {0}
    BY <1>1, EndCloses DEF StructOK
  <2> QED BY <1>1, <2>1, OpenNodes
<1>5. VerdictSoFar(c, e)
  BY <1>4 DEF VerdictsInv, VerdictStruct
<1>6. \A code : code \in Reported(c, e)' <=>
         \/ code \in Reported(c, e)
         \/ \E b \in active_constraints :
               /\ b.constraint = c /\ Node(b.owner_depth) = e
               /\ code \in EndErrors(b, content)
         \/ /\ code = MissingKey
            /\ \E b \in failing : b.constraint = c /\ Node(b.owner_depth) = e
  BY <1>2, EndReports
<1>7. Reported(c, e) \subseteq OpenCode /\ SoFar(c, e)
  BY <1>5 DEF VerdictSoFar
<1>8. /\ Reported(c, e)' \subseteq OpenCode \cup {MissingKey}
      /\ o < Depth => Reported(c, e)' \subseteq OpenCode
  <2>1. \A b \in active_constraints : EndErrors(b, content) \subseteq OpenCode
    BY EndErrorsOpen
  <2>2. ASSUME NEW b \in failing, o < Depth PROVE Node(b.owner_depth) # e
    <3>1. b \in closing
      BY <1>2 DEF FailingKeyrefs
    <3>2. b.owner_depth = Depth
      BY <1>1, <1>2, <3>1, ClosingOwners
    <3> QED BY <1>4, <2>2, <3>2
  <2> QED BY <1>6, <1>7, <2>1, <2>2
<1>9. ASSUME ~ Shadowed(c, e)' PROVE SoFarExact(c, e)'
  <2>1. ~ Shadowed(c, e) /\ SoFarExact(c, e)
    BY <1>1, <1>3, <1>4, <1>7, <1>9, ShadowedKept DEF SoFar
  <2>2. PICK K : K = KeySequenceAt(c, top)'
    OBVIOUS
  <2>3. ASSUME NEW b \in active_constraints, b.constraint = c, b.owner_depth = o
        PROVE  /\ StructOK(b) /\ FramesStruct(b)
               /\ TablesOf(c, comp, o, e, b.collection_stack, b.key_table)
    BY <1>1, <1>2, <1>4, <2>3 DEF TablesStruct
  <2>4. CASE MeetsMany(c, e)'
    <3>1. FramesExact(comp, cs.owner_depth, cs.collection_stack)
      BY <2>1, <2>3 DEF TablesOf
    <3>2. MeetsMany(c, e) \/ ExitsAgain(cs)
      BY <1>1, <1>2, <2>4, <3>1, EndMeets
    <3>3. ExitsAgain(cs) => MissingField \in EndErrors(cs, content)
      BY DEF EndErrors, ExitsAgain
    <3>4. MissingField \in Reported(c, e)'
      BY <1>6, <2>1, <3>2, <3>3 DEF SoFarExact
    <3> QED BY <2>4, <3>4 DEF SoFarExact
  <2>5. CASE ~ MeetsMany(c, e)'
    <3>1. ASSUME NEW b \in active_constraints, b.constraint = c, Node(b.owner_depth) = e
          PROVE  \A code : code \in EndErrors(b, content) <=> EndAdds(c, e, top, K, content, code)
      <4>1. b.owner_depth = o
        BY <1>1, <1>4, <3>1 DEF StructOK
      <4> QED BY <1>1, <1>2, <1>9, <2>2, <2>3, <2>5, <3>1, <4>1, EndErrorsExact
    <3>2. \A code \in OpenCode : code \in Reported(c, e)' <=>
             code \in Reported(c, e) \/ EndAdds(c, e, top, K, content, code)
      BY <1>6, <3>1, CodesDiffer DEF OpenCode
    <3>3. ~ MeetsMany(c, e)
      BY <1>3, <1>4, <2>5, MeetsManyKept
    <3>4. /\ MissingField \in Reported(c, e) <=> Compiled[c].kind = "key" /\ Incomplete(c, e)
          /\ DuplicateKey \in Reported(c, e) <=> Clashing(c, e)
          /\ ComplexField \in Reported(c, e) <=> MeetsComplex(c, e)
      BY <2>1, <3>3 DEF SoFarExact
    <3>5. /\ Incomplete(c, e)' <=>
                Incomplete(c, e) \/ (top \in Targets(c, e) /\ ~ IsComplete(K))
          /\ Clashing(c, e)' <=>
                \/ Clashing(c, e)
                \/ /\ top \in Targets(c, e)
                   /\ \E n \in ClosedOf(c, e) : Clashes(c, K, KeySequenceAt(c, n))
          /\ MeetsComplex(c, e)' <=>
                MeetsComplex(c, e) \/ (content.complex /\ FieldTakes(c, e, top))
      BY <1>3, <1>4, <2>2, SoFarEnds
    <3>6. /\ EndAdds(c, e, top, K, content, MissingField) <=>
                top \in Targets(c, e) /\ Compiled[c].kind = "key" /\ ~ IsComplete(K)
          /\ EndAdds(c, e, top, K, content, DuplicateKey) <=>
                /\ top \in Targets(c, e)
                /\ \E n \in ClosedOf(c, e) : Clashes(c, K, KeySequenceAt(c, n))
          /\ EndAdds(c, e, top, K, content, ComplexField) <=>
                content.complex /\ FieldTakes(c, e, top)
      BY CodesDiffer DEF EndAdds
    <3>7. /\ MissingField \in OpenCode /\ DuplicateKey \in OpenCode /\ ComplexField \in OpenCode
      BY DEF OpenCode
    <3>8. /\ MissingField \in Reported(c, e)' <=> Compiled[c].kind = "key" /\ Incomplete(c, e)'
          /\ DuplicateKey \in Reported(c, e)' <=> Clashing(c, e)'
          /\ ComplexField \in Reported(c, e)' <=> MeetsComplex(c, e)'
      BY <3>2, <3>4, <3>5, <3>6, <3>7
    <3> QED BY <1>3, <2>5, <3>8 DEF SoFarExact
  <2> QED BY <2>4, <2>5
<1> QED BY <1>8, <1>9 DEF SoFar

-----------------------------------------------------------------------------
(* What a keyref finds when its element closes.                            *)
UnmatchedRows(table, entries) ==
    \E s \in TableRows(table) : IsComplete(s) /\ ~ \E t \in entries : SequenceEqual(t, s)

LEMMA FailingOf ==
    ASSUME NEW closing, NEW tables, NEW b
    PROVE  b \in FailingKeyrefs(closing, tables) <=>
              /\ b \in closing /\ Compiled[b.constraint].kind = "keyref"
              /\ UnmatchedRows(b.key_table, EntriesOf(tables, Compiled[b.constraint].refer))
<1>1. PICK refer, members : refer = Compiled[b.constraint].refer /\ members = b.key_table
  OBVIOUS
<1>2. PICK target : target = IF refer \in DOMAIN tables THEN tables[refer] ELSE <<>>
  OBVIOUS
<1>3. EntriesOf(tables, refer) = TableRows(target)
  BY <1>2 DEF EntriesOf, TableRows
<1>4. Unmatched(target, members) # {} <=> UnmatchedRows(members, TableRows(target))
  <2>1. \A s : Holds(target, s) <=> \E t \in TableRows(target) : SequenceEqual(t, s)
    BY DEF Holds, TableRows
  <2>2. Unmatched(target, members) # {} <=>
           \E i \in 1 .. Len(members) : IsComplete(members[i]) /\ ~ Holds(target, members[i])
    BY DEF Unmatched
  <2> QED BY <2>1, <2>2 DEF UnmatchedRows, TableRows
<1>5. b \in FailingKeyrefs(closing, tables) <=>
         /\ b \in closing /\ Compiled[b.constraint].kind = "keyref"
         /\ Unmatched(target, members) # {}
  BY <1>1, <1>2 DEF FailingKeyrefs
<1> QED BY <1>1, <1>3, <1>4, <1>5

LEMMA EndClosesVerdict ==
    ASSUME RegularSelectors, RegularFields, OwnersInv, FramesInv, TablesInv, ScopesInv,
           VerdictsInv, NEW content \in Content, EndTag(content), NEW top, top = Node(Depth),
           NEW c \in Carried(Depth)
    PROVE  ClosedVerdict(c, top)'
<1>1. /\ VariablesType /\ TreeOK /\ StructsOK /\ EveryTagged
      /\ \A b \in active_constraints : StructOK(b)
  BY DEF OwnersInv, StructsOK, TablesInv
<1>2. PICK closing, tables, failing :
         /\ closing = EndClosing(content) /\ tables = ScopeTables(closing)
         /\ failing = FailingKeyrefs(closing, tables)
  OBVIOUS
<1>3. /\ VariablesType' /\ TreeOK' /\ EveryTagged'
      /\ top \in 1 .. Len(nodes) /\ top \in Closed'
      /\ Compiled' = Compiled /\ Depth \in 1 .. Depth
  <2>1. Closed' = Closed \cup {top}
    BY <1>1, EndCloses, ClosesTree
  <2>2. VariablesType' /\ TreeOK' /\ EveryTagged'
    BY <1>1, EndContinues DEF Continues
  <2>3. top \in 1 .. Len(nodes) /\ Compiled' = Compiled /\ Depth \in 1 .. Depth
    BY <1>1, EndSets DEF Compiled
  <2> QED BY <2>1, <2>2, <2>3
<1>4. PICK cs \in active_constraints : cs.constraint = c /\ cs.owner_depth = Depth
  BY <1>3 DEF FramesInv
<1>5. SoFar(c, top)' /\ Reported(c, top)' \subseteq OpenCode \cup {MissingKey}
  <2>1. PICK o : o = Depth
    OBVIOUS
  <2> QED BY <1>4, <2>1, EndKeepsVerdict
<1>6. ClosingTables(closing, top)
  BY <1>2, TablesClose DEF EndClosing
<1>7. MissingKey \in Reported(c, top)' <=> \E b \in failing : b.constraint = c
  <2>1. \A code : code \in Reported(c, top)' <=>
           \/ code \in Reported(c, top)
           \/ \E b \in active_constraints :
                 /\ b.constraint = c /\ Node(b.owner_depth) = top
                 /\ code \in EndErrors(b, content)
           \/ /\ code = MissingKey
              /\ \E b \in failing : b.constraint = c /\ Node(b.owner_depth) = top
    BY <1>2, EndReports
  <2>2. Reported(c, top) \subseteq OpenCode
    BY <1>3, <1>4 DEF VerdictsInv, VerdictStruct, VerdictSoFar
  <2>3. MissingKey \notin OpenCode
    BY CodesDiffer DEF OpenCode
  <2>4. \A b \in active_constraints : EndErrors(b, content) \subseteq OpenCode
    BY EndErrorsOpen
  <2>5. \A b \in failing : Node(b.owner_depth) = top
    <3>1. \A b \in failing : b \in EndClosing(content)
      BY <1>2, FailingOf
    <3> QED BY <1>1, <3>1, ClosingOwners
  <2> QED BY <2>1, <2>2, <2>3, <2>4, <2>5
<1>8. ASSUME ~ Shadowed(c, top)', ~ MeetsMany(c, top)',
             Compiled[c].kind = "keyref" => Plain(Compiled[c].refer, top)'
      PROVE  (\E b \in failing : b.constraint = c) <=>
                Compiled[c].kind = "keyref" /\ Dangling(c, top)'
  <2>1. ~ Many(c, top)' /\ ClosedOf(c, top)' = Targets(c, top)'
    <3>1. MeetsInClosed'
      BY <1>3, ClosedMeets, PTL
    <3> QED BY <1>3, <1>8, <3>1 DEF MeetsInClosed
  <2>2. ASSUME NEW b \in closing, b.constraint = c
        PROVE  TableRows(b.key_table) = KeysAt(c, top)'
    <3>1. ExactTables'
      BY <1>3, TablesHoldKeys, PTL
    <3>2. PICK table : table = b.key_table
      OBVIOUS
    <3>3. TableExact(c, top, table)'
      BY <1>6, <2>2, <3>2 DEF ClosingTables
    <3>4. RowsOfTargets(c, top, table)'
      BY <1>3, <3>1, <3>3 DEF ExactTables
    <3>5. TableRows(table) = KeysAt(c, top)'
      BY <1>8, <2>1, <3>4 DEF RowsOfTargets, TableRows
    <3> QED BY <3>2, <3>5
  <2>3. PICK keys : keys = KeysAt(c, top)'
    OBVIOUS
  <2>4. PICK refer : refer = Compiled[c].refer
    OBVIOUS
  <2>5. \A b \in closing : b.constraint = c =>
           (UnmatchedRows(b.key_table, EntriesOf(tables, refer)) <=>
               \E s \in keys : IsComplete(s)
                               /\ ~ \E t \in EntriesOf(tables, refer) : SequenceEqual(t, s))
    BY <2>2, <2>3 DEF UnmatchedRows
  <2>6. \E b \in closing : b.constraint = c
    BY <1>6 DEF ClosingTables
  <2>7. (\E b \in failing : b.constraint = c) <=>
           /\ Compiled[c].kind = "keyref"
           /\ \E s \in keys : IsComplete(s)
                              /\ ~ \E t \in EntriesOf(tables, refer) : SequenceEqual(t, s)
    <3>1. \A b : b \in failing <=>
             /\ b \in closing /\ Compiled[b.constraint].kind = "keyref"
             /\ UnmatchedRows(b.key_table, EntriesOf(tables, Compiled[b.constraint].refer))
      BY <1>2, FailingOf
    <3> QED BY <2>4, <2>5, <2>6, <3>1
  <2>8. ASSUME Compiled[c].kind = "keyref", NEW t
        PROVE  t \in NodeTable(refer, top)' <=> t \in EntriesOf(tables, refer)
    <3>1. refer \in Constraint /\ Compiled[refer].kind # "keyref"
      <4>1. c \in Constraint /\ schema \in Schema
        BY <1>1, <1>4 DEF StructOK, VariablesType
      <4> QED BY <2>4, <2>8, <4>1, ConstraintAssumption DEF Compiled, Constraint
    <3>2. Plain(refer, top)'
      BY <1>3, <1>8, <2>4, <2>8
    <3>3. PICK d : d = Depth /\ d \in 1 .. Depth /\ top = Node(d)
      BY <1>3
    <3>4. t \in NodeTable(refer, top)' <=>
             \/ \E k \in d .. Depth - 1 : t \in EntriesOf(ic_scope_tables[k], refer)
             \/ t \in EntriesOf(tables, refer)
      BY <1>2, <1>3, <3>1, <3>2, <3>3, EndNodeTable
    <3>5. \A k : k \notin d .. Depth - 1
      BY <1>3, <3>3
    <3> QED BY <3>4, <3>5
  <2>9. Dangling(c, top)' <=>
           \E s \in keys : IsComplete(s)
                           /\ ~ \E t \in NodeTable(refer, top)' : SequenceEqual(t, s)
    <3>1. Dangling(c, top)' <=>
             \E n \in Targets(c, top)' :
                /\ IsComplete(KeySequenceAt(c, n)')
                /\ ~ \E t \in NodeTable(refer, top)' : SequenceEqual(t, KeySequenceAt(c, n)')
      BY <1>3, <2>1, <2>4 DEF Dangling, IsComplete, SequenceEqual
    <3>2. \A s : s \in keys <=> \E n \in Targets(c, top)' : s = KeySequenceAt(c, n)'
      BY <2>3 DEF KeysAt
    <3> QED BY <3>1, <3>2
  <2> QED BY <2>7, <2>8, <2>9
<1>9. KeyrefExact(c, top)'
  BY <1>3, <1>7, <1>8 DEF KeyrefExact
<1> QED BY <1>5, <1>9 DEF ClosedVerdict

LEMMA EndKeepsVerdicts ==
    ASSUME RegularSelectors, RegularFields, OwnersInv, FramesInv, TablesInv, ScopesInv,
           VerdictsInv, NEW content \in Content, EndTag(content)
    PROVE  VerdictsInv'
<1>1. /\ VariablesType /\ TreeOK /\ StructsOK /\ EveryTagged
      /\ \A cs \in active_constraints : StructOK(cs)
  BY DEF OwnersInv, StructsOK, TablesInv
<1>2. PICK top : top = Node(Depth)
  OBVIOUS
<1>3. /\ Continues /\ Grown /\ Len(nodes') = Len(nodes) /\ Closed' = Closed \cup {top}
      /\ top \in 1 .. Len(nodes) /\ Depth \in 1 .. Depth
      /\ \A k \in 1 .. Depth : k < Depth => Node(k)' = Node(k)
  <2>1. /\ Grown /\ Len(nodes') = Len(nodes) /\ Closed' = Closed \cup {top}
        /\ Depth' = Depth - 1 /\ \A k \in 1 .. Depth' : Node(k)' = Node(k)
    BY <1>1, <1>2, EndCloses, ClosesTree
  <2>2. Continues /\ top \in 1 .. Len(nodes) /\ Depth \in 1 .. Depth
    BY <1>1, <1>2, EndContinues, EndSets
  <2>3. \A k \in 1 .. Depth : k < Depth => k \in 1 .. Depth'
    BY <2>1, <2>2
  <2> QED BY <2>1, <2>2, <2>3
<1>4. ASSUME NEW b \in active_constraints' PROVE VerdictStruct(b)'
  <2>1. active_constraints' =
           {Ended(cs, content) : cs \in active_constraints} \ EndClosing(content)
    BY DEF EndTag, EndClosing
  <2>2. PICK cs \in active_constraints : b = Ended(cs, content) /\ b.selector.active
    BY <2>1 DEF EndClosing
  <2>3. PICK c, o, e : c = cs.constraint /\ o = cs.owner_depth /\ e = Node(o)
    OBVIOUS
  <2>4. b.constraint = c /\ b.owner_depth = o /\ o \in 1 .. Depth /\ o < Depth
    BY <1>1, <2>2, <2>3, EndedStructs DEF SameConstraint
  <2>5. VerdictSoFar(c, e)'
    BY <2>3, <2>4, EndKeepsVerdict DEF VerdictSoFar
  <2>6. e = Node(b.owner_depth)'
    BY <1>3, <2>3, <2>4
  <2> QED BY <2>4, <2>5, <2>6 DEF VerdictStruct
<1>5. ASSUME NEW e \in Closed', NEW c \in nodes'[e].declaration.constraints
      PROVE  ClosedVerdict(c, e)'
  <2>1. CASE e = top
    <3>1. c \in Carried(Depth)
      BY <1>2, <1>3, <1>5, <2>1 DEF Carried, Grown
    <3> QED BY <1>2, <2>1, <3>1, EndClosesVerdict
  <2>2. CASE e # top
    <3>1. e \in Closed
      BY <1>3, <2>2
    <3>2. \A i \in 1 .. Len(finished) : finished[i] \in 1 .. Len(nodes)
      BY <1>1 DEF VariablesType
    <3>3. e \in 1 .. Len(nodes)
      BY <3>1, <3>2 DEF Closed
    <3>4. ClosedVerdict(c, e)
      BY <1>3, <1>5, <3>1, <3>3 DEF VerdictsInv, Grown
    <3>5. \A d \in 1 .. Depth : Node(d) # e
      BY <1>1, <3>1, ClosedHasNoOpenBelow
    <3>6. Reported(c, e)' = Reported(c, e)
      <4>1. PICK failing : failing = FailingKeyrefs(EndClosing(content),
                                                    ScopeTables(EndClosing(content)))
        OBVIOUS
      <4>2. \A code : code \in Reported(c, e)' <=>
               \/ code \in Reported(c, e)
               \/ \E b \in active_constraints :
                     /\ b.constraint = c /\ Node(b.owner_depth) = e
                     /\ code \in EndErrors(b, content)
               \/ /\ code = MissingKey
                  /\ \E b \in failing : b.constraint = c /\ Node(b.owner_depth) = e
        BY <4>1, EndReports
      <4>3. \A b \in active_constraints : Node(b.owner_depth) # e
        BY <1>1, <3>5 DEF StructOK
      <4>4. \A b \in failing : Node(b.owner_depth) # e
        <5>1. \A b \in failing : b \in EndClosing(content)
          BY <4>1, FailingOf
        <5> QED BY <1>1, <1>3, <3>5, <5>1, ClosingOwners
      <4> QED BY <4>2, <4>3, <4>4
    <3>7. {top} \in SUBSET (1 .. Len(nodes)) /\ Closed' = Closed \cup {top}
      BY <1>3
    <3>8. \A n \in Closed, m \in {top} : ~ Below(n, m)
      BY <1>1, <1>2, <1>3, ClosedHasNoOpenBelow
    <3> QED BY <1>3, <3>1, <3>4, <3>6, <3>7, <3>8, ClosedVerdictKept
  <2> QED BY <2>1, <2>2
<1> QED BY <1>4, <1>5 DEF VerdictsInv

LEMMA InitVerdicts ==
    Init => VerdictsInv
<1> SUFFICES ASSUME Init PROVE VerdictsInv
  OBVIOUS
<1>1. active_constraints = {} /\ finished = <<>>
  BY DEF Init
<1>2. Closed = {}
  BY <1>1 DEF Closed
<1> QED BY <1>1, <1>2 DEF VerdictsInv

LEMMA StutterVerdicts ==
    VerdictsInv /\ UNCHANGED vars => VerdictsInv'
<1> SUFFICES ASSUME VerdictsInv, UNCHANGED vars PROVE VerdictsInv'
  OBVIOUS
<1>1. /\ schema' = schema /\ nodes' = nodes /\ finished' = finished /\ reports' = reports
      /\ validation_stack' = validation_stack /\ active_constraints' = active_constraints
  BY DEF vars
<1>2. Compiled' = Compiled /\ Closed' = Closed /\ \A d : Node(d)' = Node(d)
  BY <1>1 DEF Compiled, Closed, Node
<1>3. \A c, e : Reported(c, e)' = Reported(c, e)
  BY <1>1 DEF Reported
<1>4. /\ \A expression, n, m : Selects(expression, n, m)' <=> Selects(expression, n, m)
      /\ \A c, e : Targets(c, e)' = Targets(c, e)
      /\ \A c, n : KeySequenceAt(c, n)' = KeySequenceAt(c, n)
      /\ \A expression, n : Gathered(expression, n)' = Gathered(expression, n)
      /\ \A c, e : ClosedOf(c, e)' = ClosedOf(c, e)
      /\ \A c, e : Shadowed(c, e)' <=> Shadowed(c, e)
  BY <1>1 DEF Shadowed, Gathered, AttributesTaken, TakesAttribute, Targets, KeySequenceAt, ClosedOf,
       FieldNodes, ValueAt, Selects, Below, Trail, Compiled, Closed
<1>5. \A c, e : /\ Plain(c, e)' <=> Plain(c, e)
                /\ NodeTable(c, e)' = NodeTable(c, e)
  BY <1>1 DEF Plain, NodeTable, Carriers, Shadowed, Many, SelectsMany, KeySequenceAt, FieldNodes,
       ValueAt, Targets, Selects, Below, Trail, Compiled, Closed
<1>6. \A c, e : MeetsMany(c, e)' <=> MeetsMany(c, e)
  <2>1. \A c, n : MetTwice(c, n)' <=>
           \E f \in Field : \E x, y \in Gathered(Compiled[c].fields[f], n)' : x # y
    BY <1>2 DEF MetTwice
  <2>2. \A c, n : MetTwice(c, n)' <=> MetTwice(c, n)
    <3> SUFFICES ASSUME NEW c, NEW n PROVE MetTwice(c, n)' <=> MetTwice(c, n)
      OBVIOUS
    <3>1. \A expression : Gathered(expression, n)' = Gathered(expression, n)
      BY <1>4
    <3>2. \A f \in Field :
             Gathered(Compiled[c].fields[f], n)' = Gathered(Compiled[c].fields[f], n)
      <4>1. ASSUME NEW f \in Field
            PROVE  Gathered(Compiled[c].fields[f], n)' = Gathered(Compiled[c].fields[f], n)
        <5>1. PICK expression : expression = Compiled[c].fields[f]
          OBVIOUS
        <5>2. Gathered(Compiled[c].fields[f], n)' = Gathered(expression, n)'
          BY <1>2, <5>1
        <5> QED BY <3>1, <5>1, <5>2
      <4> QED BY <4>1
    <3> QED BY <2>1, <3>2 DEF MetTwice
  <2> QED BY <1>4, <2>2 DEF MeetsMany
<1>7. \A c, e : Incomplete(c, e)' <=> Incomplete(c, e)
  BY <1>4 DEF Incomplete, IsComplete
<1>8. \A c, e : Clashing(c, e)' <=> Clashing(c, e)
  <2>1. \A c, e : Clashing(c, e)' <=>
           \E n, m \in ClosedOf(c, e)' :
               n # m /\ Clashes(c, KeySequenceAt(c, n)', KeySequenceAt(c, m)')
    BY <1>2 DEF Clashing, Clashes, IsChecked, IsComplete, SequenceEqual
  <2> QED BY <1>4, <2>1 DEF Clashing
<1>9. \A c, e : MeetsComplex(c, e)' <=> MeetsComplex(c, e)
  BY <1>1, <1>2, <1>4 DEF MeetsComplex, FieldTakes
<1>10. \A c, e : Dangling(c, e)' <=> Dangling(c, e)
  <2>1. \A c, e : Dangling(c, e)' <=>
           \E n \in ClosedOf(c, e)' :
              /\ IsComplete(KeySequenceAt(c, n)')
              /\ ~ \E t \in NodeTable(Compiled[c].refer, e)' :
                       SequenceEqual(t, KeySequenceAt(c, n)')
    BY <1>2 DEF Dangling, IsComplete, SequenceEqual
  <2>2. ASSUME NEW c, NEW e PROVE Dangling(c, e)' <=> Dangling(c, e)
    <3>1. PICK table : table = NodeTable(Compiled[c].refer, e)
      OBVIOUS
    <3>2. NodeTable(Compiled[c].refer, e)' = table
      BY <1>2, <1>5, <3>1
    <3>3. Dangling(c, e)' <=>
             \E n \in ClosedOf(c, e) :
                /\ IsComplete(KeySequenceAt(c, n))
                /\ ~ \E t \in table : SequenceEqual(t, KeySequenceAt(c, n))
      BY <1>4, <2>1, <3>2
    <3> QED BY <3>1, <3>3 DEF Dangling
  <2> QED BY <2>2
<1>11. \A c, e : SoFar(c, e)' <=> SoFar(c, e)
  BY <1>2, <1>3, <1>4, <1>6, <1>7, <1>8, <1>9 DEF SoFar, SoFarExact
<1>12. \A c, e : KeyrefExact(c, e)' <=> KeyrefExact(c, e)
  BY <1>2, <1>3, <1>4, <1>5, <1>6, <1>10 DEF KeyrefExact
<1>13. \A cs : VerdictStruct(cs)' <=> VerdictStruct(cs)
  BY <1>1, <1>2, <1>3, <1>11 DEF VerdictStruct, VerdictSoFar
<1>14. \A c, e : ClosedVerdict(c, e)' <=> ClosedVerdict(c, e)
  BY <1>3, <1>11, <1>12 DEF ClosedVerdict
<1> QED BY <1>1, <1>2, <1>13, <1>14 DEF VerdictsInv

LEMMA StepVerdicts ==
    ASSUME RegularSelectors, RegularFields, OwnersInv, FramesInv, TablesInv, ScopesInv,
           VerdictsInv, Next
    PROVE  VerdictsInv'
<1>1. /\ VariablesType /\ TreeOK /\ SkippedInside(Open)
  BY DEF OwnersInv
<1>2. ASSUME NEW d \in schema.declarations, StartElement(d) PROVE VerdictsInv'
  <2>1. d \in Declared /\ Push(d) /\ ~ InSkipped
    BY <1>2 DEF StartElement, Declared
  <2>2. d.name # Skipped /\ Visible(Open)
    <3>1. d.name \in Name
      BY <1>1, DeclarationAssumption DEF VariablesType
    <3> QED BY <1>1, <2>1, <3>1, OpenVisible, SkippedAssumption
  <2>3. PushedStructs(d)
    BY <1>2, <2>2 DEF StartElement, PushedStructs, Depth
  <2> QED BY <2>1, <2>3, PushKeepsVerdicts
<1>3. ASSUME StartSkipped PROVE VerdictsInv'
  <2>1. SkippedElement \in Declared /\ Push(SkippedElement)
    BY <1>3 DEF StartSkipped, Declared
  <2>2. PushedStructs(SkippedElement)
    BY <1>3 DEF StartSkipped, PushedStructs, SkippedElement
  <2> QED BY <2>1, <2>2, PushKeepsVerdicts
<1>4. ASSUME NEW name, NEW value \in AttributeValue \cup {Unassessed}, Attribute(name, value)
      PROVE  VerdictsInv'
  BY <1>4, AttributeKeepsVerdicts
<1>5. ASSUME NEW content \in Content, EndTag(content) PROVE VerdictsInv'
  BY <1>5, EndKeepsVerdicts
<1> QED BY <1>2, <1>3, <1>4, <1>5 DEF Next

(* Once the element that carries a constraint is closed, exactly what the  *)
(* definition calls its violations has been reported for it there, in      *)
(* whatever order the tags of its targets and fields came, and however     *)
(* targets nest and keys are propagated: absent fields of a key, equal     *)
(* key sequences, complex content and dangling keyrefs; of a field that    *)
(* selects several nodes at least that is reported (ConstraintStruct of    *)
(* identity.rs, and the start, attribute and end handlers of runtime.rs).  *)
(* Targets that shadow an attribute of an outer one are left out: there    *)
(* the code differs (NestedTargets); so are keyrefs to tables that come    *)
(* from such targets, or from fields that select several nodes.  Fields    *)
(* and selectors are regular.                                              *)
THEOREM VerdictsAreExact ==
    ASSUME RegularSelectors, RegularFields
    PROVE  Spec => []VerdictsExact
<1>1. Init => OwnersInv /\ FramesInv /\ TablesInv /\ ScopesInv /\ VerdictsInv
  BY InitOwners, InitFrames, InitTables, InitScopes, InitVerdicts
<1>2. (OwnersInv /\ FramesInv /\ TablesInv /\ ScopesInv /\ VerdictsInv) /\ [Next]_vars
         => (OwnersInv /\ FramesInv /\ TablesInv /\ ScopesInv /\ VerdictsInv)'
  BY StepOwners, StutterOwners, StepFrames, StutterFrames, StepTables, StutterTables,
     StepScopes, StutterScopes, StepVerdicts, StutterVerdicts
<1>3. OwnersInv /\ TablesInv /\ VerdictsInv => VerdictsExact
  BY VerdictsFollow DEF OwnersInv, TablesInv
<1> QED BY <1>1, <1>2, <1>3, PTL DEF Spec
=============================================================================
