------------------------------- MODULE WireGraph -------------------------------
(***************************************************************************)
(* jswire: a JavaScript value is stored as a graph of nodes with ids, can  *)
(* be patched there, and is turned back into objects of an engine or into  *)
(* a tree of Go values (jswire/bridge.go, patch.go, graph_builder.go,      *)
(* decode.go).                                                             *)
(*                                                                         *)
(* An object has a kind and, per key, a value.  Key 1 of the kinds that    *)
(* have a body is the body (a slot of an array, map or set, the cause of   *)
(* an error, the value of a promise, the buffer of a typed array); other   *)
(* keys are enumerable properties.  Dates and the like are objects without *)
(* keys.  The bytes of a graph are left out: what marshalGraph writes is   *)
(* what unmarshalGraph reads and validates.                                *)
(***************************************************************************)
EXTENDS Naturals, Sequences

CONSTANTS
    NumKeys,     \* keys of an object
    Heaps,       \* the heaps whose object 1 may be encoded
    PatchHeaps,  \* those that are also patched
    Sources,     \* graphs a patch may set a property to
    Paths,       \* paths of patches: non-empty sequences of keys
    MaxID,       \* the largest node id, 2^32 - 1 in the code
    MaxPatches   \* bound on the patches of a value

Keys == 1..NumKeys
Kinds == {"object", "custom", "array", "error", "promise", "typed", "subclass",
          "buffer"}
Engines == {"goja", "quick"}

\* nodeObject, of a class or not; typed arrays, of a class of their own or not.
Plain == {"object", "custom"}
Views == {"typed", "subclass"}

Body(kind) == IF kind \in {"array", "error", "promise"} \cup Views THEN {1} ELSE {}

\* Values of a heap, and of a graph.
NoVal == [t |-> "absent", to |-> 0]
Prim == [t |-> "prim", to |-> 0]
Func == [t |-> "func", to |-> 0]
Obj(o) == [t |-> "obj", to |-> o]
Ref(i) == [t |-> "ref", to |-> i]

NoKids == [k \in Keys |-> NoVal]

\* A typed array has its buffer, errors and promises have their value (undefined
\* if nothing was given), and no promise is fulfilled with a promise.
WellKinded(h, o) ==
    LET body == h[o].kids[1] IN
    /\ h[o].kind \in Views => body.t = "obj" /\ h[body.to].kind = "buffer"
    /\ h[o].kind \in {"error", "promise"} => body.t # "absent"
    /\ h[o].kind = "promise" /\ body.t = "obj" => h[body.to].kind # "promise"

IsHeap(h) ==
    /\ h \in Seq([kind : Kinds,
                  kids : [Keys -> [t : {"absent", "prim", "func", "obj"}, to : Nat]]])
    /\ \A o \in DOMAIN h :
          /\ \A k \in Keys : h[o].kids[k].t = "obj" => h[o].kids[k].to \in DOMAIN h
          /\ WellKinded(h, o)

-----------------------------------------------------------------------------
\* Graphs

Ids(nodes) == {nodes[p].id : p \in DOMAIN nodes}
Resolves(v, nodes) == v.t = "ref" => v.to \in Ids(nodes)
NodeAt(nodes, id) == nodes[CHOOSE p \in DOMAIN nodes : nodes[p].id = id]

validateGraphNodeIDs(nodes) ==
    \A p, q \in DOMAIN nodes :
       nodes[p].id # 0 /\ (nodes[p].id = nodes[q].id => p = q)

\* The name of a class is no typed array constructor.
validateWireNode(node, nodes) ==
    /\ \A k \in Keys : Resolves(node.kids[k], nodes)
    /\ node.kind # "subclass"
    /\ node.kind = "typed" =>
          /\ node.kids[1].t = "ref"
          /\ \E p \in DOMAIN nodes : nodes[p].id = node.kids[1].to
                                       /\ nodes[p].kind = "buffer"

validateGraph(g) ==
    /\ validateGraphNodeIDs(g.nodes)
    /\ Resolves(g.root, g.nodes)
    /\ \A p \in DOMAIN g.nodes : validateWireNode(g.nodes[p], g.nodes)

IsGraph(g) ==
    /\ g.nodes \in Seq([id : 0..MaxID, kind : Kinds,
                        kids : [Keys -> [t : {"absent", "prim", "ref"}, to : Nat]]])
    /\ g.root \in [t : {"prim", "ref"}, to : Nat]

ASSUME WireAssumption ==
    /\ NumKeys \in Nat \ {0} /\ MaxID \in Nat /\ MaxPatches \in Nat
    /\ \A h \in Heaps \cup PatchHeaps :
          IsHeap(h) /\ h # <<>> /\ Len(h) <= MaxID
    /\ \A g \in Sources : IsGraph(g) /\ validateGraph(g)
    /\ \A p \in Paths : p \in Seq(Keys) /\ p # <<>>

VARIABLES
    heap,     \* the objects the value is about; patches act on it as on objects
    top,      \* the value
    encoder,  \* whose objects are encoded
    seen,     \* encoder.seen: the id of each object, 0 if it has none
    nodes,    \* encoder.nodes
    stack,    \* the objects whose encodeValue has not returned, innermost last
    local,    \* per object its local variable node, without the id
    at,       \* per object the next key
    wire,     \* the encoded value
    phase,    \* where the value is
    patches,  \* patches that may still be made
    broken,   \* a validation failed
    decoder,  \* which decoder reads the value
    made,     \* decoder.refs: the objects by id
    done,     \* the nodes filled
    path      \* typed decoder: ids whose decodeRef has not returned

encVars == <<seen, nodes, stack, local, at>>
decVars == <<decoder, made, done, path>>
vars == <<heap, top, encoder, encVars, wire, phase, patches, broken, decVars>>

EmptyGraph == [root |-> Prim, nodes |-> <<>>]

Init ==
    /\ \/ heap \in Heaps /\ patches = 0
       \/ heap \in PatchHeaps /\ patches = MaxPatches
    /\ top = Obj(1)
    /\ encoder \in Engines
    /\ seen = [o \in DOMAIN heap |-> 0]
    /\ nodes = <<>> /\ stack = <<>>
    /\ local = [o \in DOMAIN heap |-> NoKids]
    /\ at = [o \in DOMAIN heap |-> 1]
    /\ wire = EmptyGraph
    /\ phase = "new" /\ broken = FALSE
    /\ decoder = "none" /\ made = <<>> /\ done = <<>> /\ path = <<>>

-----------------------------------------------------------------------------
\* Encoding.  An object gets its id and an empty node before its values are
\* encoded, so that a cycle finds the id; the node is stored when all are.

\* quickjs promises are refused, and functions unless they are properties.
Refused(o) == encoder = "quick" /\ heap[o].kind = "promise"

\* quickjs tells the intrinsic kind of a typed array, goja the constructor's name.
WireKind(kind) == IF encoder = "quick" /\ kind = "subclass" THEN "typed" ELSE kind

Placeholder(id) == [id |-> id, kind |-> "object", kids |-> NoKids]

Visit(o) ==
    /\ seen' = [seen EXCEPT ![o] = Len(nodes) + 1]
    /\ nodes' = Append(nodes, Placeholder(Len(nodes) + 1))
    /\ stack' = Append(stack, o)

EncodeRoot ==
    /\ phase = "new"
    /\ IF Refused(top.to) THEN phase' = "refused" /\ UNCHANGED encVars
       ELSE phase' = "encoding" /\ Visit(top.to) /\ UNCHANGED <<local, at>>
    /\ UNCHANGED <<heap, top, encoder, wire, patches, broken, decVars>>

Current == stack[Len(stack)]
Kid == heap[Current].kids[at[Current]]

Encoding == phase = "encoding" /\ stack # <<>> /\ at[Current] <= NumKeys

Record(v) ==
    /\ local' = [local EXCEPT ![Current] = [@ EXCEPT ![at[Current]] = v]]
    /\ at' = [at EXCEPT ![Current] = @ + 1]

\* Mutant of EncodeKnown: a placeholder is taken for missing.
EncodeKnownDone ==
    /\ Encoding /\ Kid.t = "obj" /\ seen[Kid.to] # 0
    /\ Record(IF \E i \in DOMAIN stack : stack[i] = Kid.to
              THEN NoVal ELSE Ref(seen[Kid.to]))
    /\ UNCHANGED <<heap, top, encoder, seen, nodes, stack, wire, phase, patches,
                   broken, decVars>>

\* An object met before: its id is enough, whether or not its node is done.
EncodeKnown ==
    /\ Encoding /\ Kid.t = "obj" /\ seen[Kid.to] # 0
    /\ Record(Ref(seen[Kid.to]))
    /\ UNCHANGED <<heap, top, encoder, seen, nodes, stack, wire, phase, patches,
                   broken, decVars>>

EncodeNew ==
    /\ Encoding /\ Kid.t = "obj" /\ seen[Kid.to] = 0 /\ ~Refused(Kid.to)
    /\ Visit(Kid.to)
    /\ Record(Ref(Len(nodes) + 1))
    /\ UNCHANGED <<heap, top, encoder, wire, phase, patches, broken, decVars>>

\* Primitive values; holes; functions among the properties are left out.
EncodePlain ==
    /\ Encoding /\ Kid.t # "obj"
    /\ Kid.t = "func" => at[Current] \notin Body(heap[Current].kind)
    /\ Record(IF Kid.t = "prim" THEN Prim ELSE NoVal)
    /\ UNCHANGED <<heap, top, encoder, seen, nodes, stack, wire, phase, patches,
                   broken, decVars>>

\* The whole encoding fails.
EncodeRefused ==
    /\ Encoding
    /\ \/ Kid.t = "func" /\ at[Current] \in Body(heap[Current].kind)
       \/ Kid.t = "obj" /\ seen[Kid.to] = 0 /\ Refused(Kid.to)
    /\ phase' = "refused"
    /\ UNCHANGED <<heap, top, encoder, encVars, wire, patches, broken, decVars>>

EncodeReturn ==
    /\ phase = "encoding" /\ stack # <<>> /\ at[Current] > NumKeys
    /\ nodes' = [nodes EXCEPT ![seen[Current]] =
                   [id |-> seen[Current], kind |-> WireKind(heap[Current].kind),
                    kids |-> local[Current]]]
    /\ stack' = SubSeq(stack, 1, Len(stack) - 1)
    /\ UNCHANGED <<heap, top, encoder, seen, local, at, wire, phase, patches,
                   broken, decVars>>

Marshal ==
    /\ phase = "encoding" /\ stack = <<>>
    /\ wire' = [root |-> Ref(seen[top.to]), nodes |-> nodes]
    /\ phase' = "stored"
    /\ UNCHANGED <<heap, top, encoder, encVars, patches, broken, decVars>>

-----------------------------------------------------------------------------
\* Patches.  The graph a property is set to is appended with new ids.

IsHighest(m, ns) ==
    /\ \A p \in DOMAIN ns : ns[p].id <= m
    /\ m = 0 \/ \E p \in DOMAIN ns : ns[p].id = m

\* Mutant: the highest id itself, unless there is none.
nextNodeMax(ns) ==
    LET m == CHOOSE m \in 0..MaxID : IsHighest(m, ns)
    IN  IF m = 0 THEN 1 ELSE m

\* The number after the highest id, 0 when there is none left.
nextNodeID(ns) ==
    LET m == CHOOSE m \in 0..MaxID : IsHighest(m, ns)
    IN  IF m = MaxID THEN 0 ELSE m + 1


\* uint32 ids run out: the counter is 0 while a node still needs one.
Overflows(next, n) == n > 0 /\ (next = 0 \/ next + n - 1 > MaxID)

Position(g, id) == CHOOSE p \in DOMAIN g.nodes : g.nodes[p].id = id

remapWireValue(v, g, next) ==
    IF v.t = "ref" THEN Ref(next + Position(g, v.to) - 1) ELSE v

remapWireNode(node, p, g, next) ==
    [id |-> next + p - 1, kind |-> node.kind,
     kids |-> [k \in Keys |-> remapWireValue(node.kids[k], g, next)]]

appendGraphNodes(ns, g, next) ==
    ns \o [p \in 1..Len(g.nodes) |-> remapWireNode(g.nodes[p], p, g, next)]

\* The object that has the last key of a path, from values of any graph: the
\* id reached from v over plain objects, or 0.
Step(ns, id, k) ==
    IF id # 0 /\ NodeAt(ns, id).kind \in Plain
         /\ NodeAt(ns, id).kids[k].t = "ref"
    THEN NodeAt(ns, id).kids[k].to ELSE 0

Walk(ns, id, p) ==
    LET w[i \in 0..(Len(p) - 1)] == IF i = 0 THEN id ELSE Step(ns, w[i - 1], p[i])
    IN  w[Len(p) - 1]

objectParent(g, p) ==
    LET id == IF g.root.t = "ref" THEN Walk(g.nodes, g.root.to, p) ELSE 0
    IN  IF id # 0 /\ NodeAt(g.nodes, id).kind \in Plain THEN id ELSE 0

SetKid(ns, id, k, v) ==
    [p \in DOMAIN ns |->
       IF ns[p].id = id THEN [ns[p] EXCEPT !.kids = [@ EXCEPT ![k] = v]]
       ELSE ns[p]]

\* The same path among the objects of the heap.
HeapParent(p) ==
    LET step(o, k) == IF o # 0 /\ heap[o].kind \in Plain
                           /\ heap[o].kids[k].t = "obj"
                      THEN heap[o].kids[k].to ELSE 0
        w[i \in 0..(Len(p) - 1)] ==
          IF i = 0 THEN (IF top.t = "obj" THEN top.to ELSE 0)
          ELSE step(w[i - 1], p[i])
        o == w[Len(p) - 1]
    IN  IF o # 0 /\ heap[o].kind \in Plain THEN o ELSE 0

\* The objects of a graph, as objects of the heap from number n + 1 on.
ObjectOf(v, g, n) == IF v.t = "ref" THEN Obj(n + Position(g, v.to)) ELSE v
ObjectsOf(g, n) ==
    [p \in 1..Len(g.nodes) |->
       [kind |-> g.nodes[p].kind,
        kids |-> [k \in Keys |-> ObjectOf(g.nodes[p].kids[k], g, n)]]]

\* finish validates; nothing the code made itself should be refused.
Finish(g) ==
    IF validateGraph(g) THEN wire' = g /\ UNCHANGED broken
    ELSE broken' = TRUE /\ UNCHANGED wire

PatchVars == <<encoder, nodes, stack, local, at, phase, decVars>>

\* A patch that fails leaves the value as it was.
patchSet(p, g) ==
    LET next == nextNodeID(wire.nodes)
        ns == appendGraphNodes(wire.nodes, g, next)
        val == remapWireValue(g.root, g, next)
        id == objectParent([root |-> wire.root, nodes |-> ns], p)
        fails == ~validateGraph(wire) \/ Overflows(next, Len(g.nodes))
        o == HeapParent(p)
        n == Len(heap)
    IN
    /\ phase = "stored" /\ patches > 0
    /\ patches' = patches - 1
    /\ IF fails \/ id = 0 THEN UNCHANGED <<wire, broken>>
       ELSE Finish([root |-> wire.root, nodes |-> SetKid(ns, id, p[Len(p)], val)])
    /\ IF fails \/ o = 0 THEN UNCHANGED <<heap, seen>>
       ELSE /\ heap' = [heap EXCEPT ![o].kids[p[Len(p)]] = ObjectOf(g.root, g, n)]
                         \o ObjectsOf(g, n)
            /\ seen' = seen \o [q \in 1..Len(g.nodes) |-> next + q - 1]
    /\ UNCHANGED <<top, PatchVars>>

patchRemove(p) ==
    LET id == objectParent(wire, p)
        o == HeapParent(p)
    IN
    /\ phase = "stored" /\ patches > 0
    /\ patches' = patches - 1
    /\ IF ~validateGraph(wire) \/ id = 0 THEN UNCHANGED <<wire, broken>>
       ELSE Finish([root |-> wire.root,
                    nodes |-> SetKid(wire.nodes, id, p[Len(p)], NoVal)])
    /\ heap' = IF ~validateGraph(wire) \/ o = 0 THEN heap
               ELSE [heap EXCEPT ![o].kids[p[Len(p)]] = NoVal]
    /\ UNCHANGED <<top, seen, PatchVars>>

\* An empty path replaces the value.
patchRoot(g) ==
    /\ phase = "stored" /\ patches > 0
    /\ patches' = patches - 1
    /\ wire' = g
    /\ heap' = heap \o ObjectsOf(g, Len(heap))
    /\ top' = ObjectOf(g.root, g, Len(heap))
    /\ seen' = [q \in 1..Len(heap') |->
                  IF q <= Len(heap) THEN 0 ELSE g.nodes[q - Len(heap)].id]
    /\ UNCHANGED <<broken, PatchVars>>

-----------------------------------------------------------------------------
\* Decoding into an engine: objects first, typed arrays when their buffers
\* are there, values last.

Unmarshal(d) ==
    /\ phase = "stored"
    /\ IF validateGraph(wire) THEN phase' = "allocating" /\ UNCHANGED broken
       ELSE phase' = "undecodable" /\ broken' = TRUE
    /\ decoder' = d
    /\ made' = [i \in {} |-> NoKids] /\ done' = <<>> /\ path' = <<>>
    /\ UNCHANGED <<heap, top, encoder, encVars, wire, patches>>

\* An object of a class becomes a plain one.
MadeKind(kind) == IF kind = "custom" THEN "object" ELSE kind
Allocated(ids) ==
    [i \in ids |-> [kind |-> MadeKind(NodeAt(wire.nodes, i).kind), kids |-> NoKids]]

IdsOf(kinds) ==
    {i \in Ids(wire.nodes) : NodeAt(wire.nodes, i).kind \in kinds}

\* quickjs cannot make a settled promise.
Allocate ==
    /\ phase = "allocating" /\ decoder \in Engines
    /\ IF decoder = "quick" /\ IdsOf({"promise"}) # {}
       THEN phase' = "undecodable" /\ UNCHANGED made
       ELSE phase' = "views" /\ made' = Allocated(IdsOf(Kinds \ {"typed"}))
    /\ UNCHANGED <<heap, top, encoder, encVars, wire, patches, broken, decoder,
                   done, path>>

AllocateViews ==
    /\ phase = "views"
    /\ IF \A i \in IdsOf({"typed"}) :
             LET b == NodeAt(wire.nodes, i).kids[1] IN
             b.to \in DOMAIN made /\ made[b.to].kind = "buffer"
       THEN phase' = "filling"
            /\ made' = [i \in Ids(wire.nodes) |->
                          IF i \in DOMAIN made THEN made[i]
                          ELSE [Allocated({i})[i] EXCEPT !.kids[1] =
                                  NodeAt(wire.nodes, i).kids[1]]]
       ELSE phase' = "undecodable" /\ UNCHANGED made
    /\ UNCHANGED <<heap, top, encoder, encVars, wire, patches, broken, decoder,
                   done, path>>

\* Mutant of Fill: only plain objects get their properties.
FillBodies ==
    LET node == wire.nodes[Len(done) + 1]
        keys == IF node.kind \in Plain THEN Keys ELSE Body(node.kind)
    IN
    /\ phase = "filling" /\ Len(done) < Len(wire.nodes)
    /\ made' = [made EXCEPT ![node.id].kids =
                   [k \in Keys |-> IF k \in keys THEN node.kids[k] ELSE NoVal]]
    /\ done' = Append(done, node.id)
    /\ UNCHANGED <<heap, top, encoder, encVars, wire, phase, patches, broken,
                   decoder, path>>

\* The values of the next node; every object they refer to exists by now.
Fill ==
    LET node == wire.nodes[Len(done) + 1]
        found == \A k \in Keys : node.kids[k].t = "ref" =>
                                   node.kids[k].to \in DOMAIN made
    IN
    /\ phase = "filling" /\ Len(done) < Len(wire.nodes)
    /\ IF node.id \in DOMAIN made /\ found
       THEN /\ made' = [made EXCEPT ![node.id].kids = node.kids]
            /\ done' = Append(done, node.id)
            /\ UNCHANGED phase
       ELSE phase' = "undecodable" /\ UNCHANGED <<made, done>>
    /\ UNCHANGED <<heap, top, encoder, encVars, wire, patches, broken, decoder,
                   path>>

Decoded ==
    /\ phase = "filling" /\ Len(done) = Len(wire.nodes)
    /\ phase' = "decoded"
    /\ UNCHANGED <<heap, top, encoder, encVars, wire, patches, broken, decVars>>

-----------------------------------------------------------------------------
\* Decoding into Go values: a tree, walked depth first.  made holds the next
\* key of the nodes that were visited.

\* The keys whose values become part of the Go value.  A typed array copies its
\* buffer.
Followed(node) ==
    CASE node.kind = "object" -> Keys
      [] node.kind = "array" -> Body("array")
      [] OTHER -> {}

Unsupported(node) ==
    \/ node.kind \in {"promise", "error", "custom"}
    \/ node.kind = "array" /\ node.kids[1].t = "absent"

DecodeRoot ==
    /\ phase = "allocating" /\ decoder = "typed"
    /\ IF wire.root.t = "ref"
       THEN LET node == NodeAt(wire.nodes, wire.root.to) IN
            IF Unsupported(node)
            THEN phase' = "untyped" /\ UNCHANGED <<made, path>>
            ELSE /\ phase' = "walking"
                 /\ made' = [j \in {wire.root.to} |-> 1]
                 /\ path' = <<wire.root.to>>
       ELSE phase' = "typed" /\ UNCHANGED <<made, path>>
    /\ UNCHANGED <<heap, top, encoder, encVars, wire, patches, broken, decoder,
                   done>>

\* Mutant of DecodeRef: only cycles are refused.
DecodeRefCycle ==
    LET i == path[Len(path)]
        k == made[i]
        node == NodeAt(wire.nodes, i)
        kid == node.kids[k]
        moved == [made EXCEPT ![i] = k + 1]
    IN
    /\ phase = "walking" /\ path # <<>> /\ k <= NumKeys
    /\ IF k \in Followed(node) /\ kid.t = "ref"
       THEN IF kid.to \in {path[n] : n \in DOMAIN path} \/ Unsupported(NodeAt(wire.nodes, kid.to))
            THEN phase' = "untyped" /\ UNCHANGED <<made, path>>
            ELSE /\ made' = [j \in DOMAIN made \cup {kid.to} |->
                               IF j = kid.to THEN 1 ELSE moved[j]]
                 /\ path' = Append(path, kid.to)
                 /\ UNCHANGED phase
       ELSE made' = moved /\ UNCHANGED <<path, phase>>
    /\ UNCHANGED <<heap, top, encoder, encVars, wire, patches, broken, decoder,
                   done>>

DecodeRef ==
    LET i == path[Len(path)]
        k == made[i]
        node == NodeAt(wire.nodes, i)
        kid == node.kids[k]
        moved == [made EXCEPT ![i] = k + 1]
    IN
    /\ phase = "walking" /\ path # <<>> /\ k <= NumKeys
    /\ IF k \in Followed(node) /\ kid.t = "ref"
       THEN IF kid.to \in DOMAIN made \/ Unsupported(NodeAt(wire.nodes, kid.to))
            THEN phase' = "untyped" /\ UNCHANGED <<made, path>>
            ELSE /\ made' = [j \in DOMAIN made \cup {kid.to} |->
                               IF j = kid.to THEN 1 ELSE moved[j]]
                 /\ path' = Append(path, kid.to)
                 /\ UNCHANGED phase
       ELSE made' = moved /\ UNCHANGED <<path, phase>>
    /\ UNCHANGED <<heap, top, encoder, encVars, wire, patches, broken, decoder,
                   done>>

DecodeReturn ==
    LET i == path[Len(path)] IN
    /\ phase = "walking" /\ path # <<>> /\ made[i] > NumKeys
    /\ path' = SubSeq(path, 1, Len(path) - 1)
    /\ phase' = IF path' = <<>> THEN "typed" ELSE phase
    /\ UNCHANGED <<heap, top, encoder, encVars, wire, patches, broken, decoder,
                   made, done>>

Next ==
    \/ EncodeRoot \/ EncodeKnown \/ EncodeNew \/ EncodePlain \/ EncodeRefused
    \/ EncodeReturn \/ Marshal
    \/ \E g \in Sources : patchRoot(g) \/ \E p \in Paths : patchSet(p, g)
    \/ \E p \in Paths : patchRemove(p)
    \/ \E d \in Engines \cup {"typed"} : Unmarshal(d)
    \/ Allocate \/ AllocateViews \/ Fill \/ Decoded
    \/ DecodeRoot \/ DecodeRef \/ DecodeReturn

Spec == Init /\ [][Next]_vars

-----------------------------------------------------------------------------
\* The value a graph should have for a value of the heap.
Image(v) ==
    CASE v.t = "obj" -> Ref(seen[v.to])
      [] v.t = "func" -> NoVal
      [] OTHER -> v

Stored == {o \in DOMAIN heap : seen[o] # 0}
ImageOf(o) == [kind |-> WireKind(heap[o].kind),
               kids |-> [k \in Keys |-> Image(heap[o].kids[k])]]
Encoded == phase \notin {"new", "encoding", "refused"}

\* The stored graph is the value, node for object: shared objects are one node,
\* cycles close, functions among the properties are gone and nothing else is,
\* and a patch has changed what assigning or deleting the property would have
\* changed, in the graph it found and not in the one it was given.
GraphIsImage ==
    Encoded =>
       /\ Len(wire.nodes) = Len(SelectSeq(seen, LAMBDA i : i # 0))
       /\ \A o \in Stored : \E p \in DOMAIN wire.nodes :
             /\ wire.nodes[p].id = seen[o]
             /\ [kind |-> wire.nodes[p].kind, kids |-> wire.nodes[p].kids]
                  = ImageOf(o)
       /\ \A o, q \in Stored : seen[o] = seen[q] => o = q
       /\ wire.root = Image(top)

\* What the encoders and the patches write is not refused: validation passes, and
\* both engines can decode it, but for promises, which quickjs cannot make, and
\* typed arrays of a class, which goja's encoder writes and nobody can read.
NothingRefused ==
    LET unreadable == encoder = "goja"
                        /\ \E o \in DOMAIN heap : heap[o].kind = "subclass"
    IN
    /\ broken => unreadable
    /\ phase = "undecodable" =>
          unreadable \/ (decoder = "quick" /\ IdsOf({"promise"}) # {})

\* An engine's decoder makes the value again: one object per node, with the
\* kind and the values of the object it was encoded from, the name of its class
\* apart, also where cycles or the order of the table make it refer to objects
\* that are not filled yet.
RoundTrip ==
    phase = "decoded" =>
       /\ DOMAIN made = Ids(wire.nodes)
       /\ \A o \in Stored : made[seen[o]] = [ImageOf(o) EXCEPT !.kind = MadeKind(@)]

\* The references a Go value would have to hold: those of the nodes visited so
\* far, and the root.
Edges == {<<i, k>> \in (DOMAIN made) \X Keys :
            /\ k \in Followed(NodeAt(wire.nodes, i))
            /\ NodeAt(wire.nodes, i).kids[k].t = "ref"}
Target(e) == NodeAt(wire.nodes, e[1]).kids[e[2]].to

\* The typed decoder returns a value if what the root leads to is a tree of
\* kinds Go has types for, and only then: every node it visits is the target of
\* one reference, of which the root's is one, and a failure names a node that
\* is unsupported, shared or on a cycle.
TypedIffTree ==
    /\ phase = "typed" =>
          /\ \A e \in Edges : /\ Target(e) \in DOMAIN made
                                /\ Target(e) # wire.root.to
                                /\ \A f \in Edges : Target(e) = Target(f) => e = f
          /\ \A i \in DOMAIN made : ~Unsupported(NodeAt(wire.nodes, i))
    /\ phase = "untyped" =>
          \/ Unsupported(NodeAt(wire.nodes, wire.root.to))
          \/ \E e \in Edges : \/ Unsupported(NodeAt(wire.nodes, Target(e)))
                               \/ Target(e) = wire.root.to
                               \/ \E f \in Edges : e # f /\ Target(e) = Target(f)
================================================================================
