----------------------------- MODULE MCWireGraph -----------------------------
(* Small heaps and graphs for WireGraph. *)
EXTENDS WireGraph

Kids(a, b) == [k \in Keys |-> IF k = 1 THEN a ELSE b]
Objects(kinds, vals) == [kind : kinds, kids : {Kids(a, b) : a, b \in vals}]
Buffer == [kind |-> "buffer", kids |-> NoKids]

\* An object or array, an object of any kind, and a buffer or plain object.
SmallHeaps ==
    {h \in {<<a, b, c>> :
               a \in Objects({"object", "array"}, {Func, Obj(1), Obj(2), Obj(3)}),
               b \in Objects(Kinds, {NoVal, Func, Obj(1), Obj(2), Obj(3)}),
               c \in {Buffer, [kind |-> "object", kids |-> Kids(Obj(1), Prim)]}} :
       IsHeap(h)}

SmallPatchHeaps ==
    {h \in {<<a, b>> :
               a \in Objects({"object", "promise"}, {NoVal, Obj(1), Obj(2)}),
               b \in Objects({"object", "custom", "promise"}, {Prim, Obj(1)})} :
       IsHeap(h)}

Node(id, kind, a, b) == [id |-> id, kind |-> kind, kids |-> Kids(a, b)]

\* Go values, whose nodes come after those they refer to, and encoded values,
\* whose root comes first.
SmallSources ==
    { [root |-> Prim, nodes |-> <<>>],
      [root |-> Ref(1), nodes |-> <<Node(1, "object", Prim, NoVal)>>],
      [root |-> Ref(2), nodes |-> <<Node(1, "buffer", NoVal, NoVal),
                                    Node(2, "typed", Ref(1), NoVal)>>],
      [root |-> Ref(1), nodes |-> <<Node(1, "object", Ref(2), Prim),
                                    Node(2, "array", Ref(1), NoVal)>>] }

SmallPaths == {<<1>>, <<2>>, <<1, 2>>}
==============================================================================
